# TLA+ models of the QLabs REAPER Music Intelligence MCP

The program lets an AI client compose inside REAPER. An MCP server (Rust, stdio)
analyses and generates music; a Lua script inside REAPER, the *bridge*, reads the
selection and writes generated material into the user's project. The two talk
through files in a shared IPC directory. What can go wrong
in ways a test hardly reaches is, first, everything around the musical engines: two
processes that share files without a lock, threads that race with a cancellation, a
user who edits the project between two commands, records that expire under those
that refer to them; and second, in the engines, the algorithms with many cases that
meet at a boundary.

## 1. Inventory

| Component | State | Operations | Interacts through |
|---|---|---|---|
| Bridge lifecycle (`reaper/lib/bridge.lua`, entry script) | `running`, token, `last_heartbeat`; files `bridge.lock`, `heartbeat.json` | `start`, `tick`, `stop`, `acquire_lock`, `write_lock`, `release_lock`, `write_heartbeat` | the two files, with every other REAPER process and with the server's online check |
| File IPC (`reaper-ipc/src/client.rs`, `bridge.lua`) | directories `commands`, `processing`, `results`, `failed`; replay guard; the caller's deadline and cancel flag | `call` (publish, poll, give up), `poll_once`, `process_file`, `write_result`, `gc` | files renamed from directory to directory |
| Edit transactions (`reaper/lib/transactions.lua`, `tagging.lua`, `tools/reaper.rs`) | REAPER's project and undo history, tags on objects, `last_transaction` and the staged list in the project's ext state, the server's transaction records | stage, commit, discard, undo | File IPC; the user edits the same project |
| Plans and preconditions (`staging.rs`, `plan.rs`, `transactions.lua`, `snapshot.lua`) | none | `build_plan`, `preflight_plan`, `validate_plan`, `check_plan_preconditions` | data of stage |
| Session store (`store.rs`, `tools/*.rs`) | five buckets with expiry and capacity, a generation cache | put, get, rebind, cache, sweep, in every tool | one owner, the main thread, all tools |
| MCP server (`server.rs`, `rpc.rs`, `tools/mod.rs`) | initialisation, registry of cancel flags, channel from reader to main thread | read, take, answer, cancel, checkpoint, shut down | stdio, three threads |
| Theory knowledge base (`theory-kb`, `xtask/src/knowledge.rs`) | a bundle of records, indexed when loaded | load and reject a bundle, stamp its manifest, search, three-valued predicates, rules, profiles that inherit | asked by every engine |
| Music domain (`music-domain`) | none | bar and beat grid, spelling, intervals, scales, chords and their symbols, JSON records | everywhere |
| Music analysis (`music-analysis`) | none | voices and melody of a take, phrases, motives, cadences, chord slots, non-chord tones, key, chords | analyze |
| Harmony engine (`harmony-engine`) | none; a cancel flag and a budget | candidates, beam search, merge of passes, diversity, note constraints, voicings, audit of the voice leading, bass | generate, reharmonize, voice |
| Arrangement engine (`arrangement-engine`) | none | roles, patterns, density, enforcement of constraints | arrange |
| Loop engine (`loop-engine`) | none | measurements at the seam, audit, boundary policies, repair | loop tools |
| JSON codecs (`qjson`) | none | parse, print, canonical form, JSON Schema, regular expressions | everywhere |
| Wire protocol (`reaper-ipc`, `protocol.lua`) | none | forms of plans, requests, results and snapshots, hashes | File IPC |
| xtask, scripts, schemas, knowledge, fixtures, docs | - | - | - |

Hard behaviours and what has to be true in spite of them:

* **Lifecycle.** Every access to the two shared files is separate, so instances
  interleave between the read of the lock and its replacement. A REAPER whose main
  thread hangs loses its lock and comes back. *At most one bridge runs; a running
  one is visible; nothing is left behind that keeps the next one from starting.*
* **File IPC.** A claim races with a timeout or a cancellation; a bridge or the
  server dies between any two steps; two bridges list the same file; garbage is
  collected while callers wait; a result is lost or late. *A request runs at most
  once, an answer is true, a caller always gets one, no file of a waiting call
  disappears, and every file is gone in the end.*
* **Transactions.** Commands are atomic for the user (one tick of REAPER's main
  thread), but between two of them the user moves items, deletes tracks and presses
  Ctrl+Z. A stage can fail halfway. *No operation touches the user's items or those
  of another transaction; a failed stage leaves nothing; what is staged can be
  removed.*
* **Session store.** A record of one bucket names records of others, each with its
  own expiry and capacity; a cache hit re-points old candidates at a new snapshot.
  *An answer names only what can be read; a candidate is never bound to material it
  was not made for; what is staged fits the project.*
* **Server.** A cancellation is read by one thread, the request runs on another, a
  third passes the flag on to the engine. *Every request is answered once; a
  cancellation counts exactly when it was read in time; a cancelled generation
  stores nothing; the end of stdin drains what is queued.*
* **Data.** A record is written by one program and read by another, a bundle of files
  is edited by hand, a chord is typed as text. *What is written reads back as it was;
  what does not fit together is refused, with the reason; nothing else is.*
* **Engines.** Limits that cut a computation short (budget, beam, ceiling of
  voices, capacity of a plan), positions at the edge of a bar, item, window or loop,
  and two implementations that have to agree (server and bridge; arrangement and
  harmony; the bar lines and the bar numbers). *What is cut is the right part; the
  two agree; an operation done twice changes nothing the second time.*

## 2. Modules

| Module | Models | Kind |
|---|---|---|
| `BridgeLock` | start, tick and stop of several bridge processes | state machine |
| `AtMostOnceRpc` | what `BridgeClient::call` promises | abstract specification |
| `FileIpc` | callers, bridges, the directories | state machine, implements `AtMostOnceRpc` |
| `Staging` | stage, commit, discard, undo, and the user | state machine |
| `Session` | the session store and all tools that use it, time, and the user | state machine |
| `McpServer` | client, reader, main and watcher threads | state machine |
| `TheoryRules`, `Knowledge` | rules, profiles and predicates; bundles of knowledge files and their search | operators |
| `BeatTimes`, `MusicTime`, `Spelling`, `Chords`, `Symbols` | positions as machine words; bars and beats; pitches, intervals and scales; chords; their names as text | operators |
| `MelodyLine`, `MelodyForm`, `NonChordTones` | the melody of a take, its form and chord slots, what a note is to its chord | operators |
| `HarmonySearch`, `Voicing`, `NoteRules`, `Accompaniment`, `Arranger`, `LoopWrap`, `LoopAudit` | algorithms of the engines | operators |
| `PlanBuild`, `WireForms`, `Records`, `JsonText`, `JsonSchema`, `Patterns` | the edit plan on both sides of the IPC; wire forms; records; JSON, schemas and regular expressions | operators |
| `PlanQuestions` | the server builds a plan, and the plan is held against both sides of the IPC | state machine: one behaviour is one question and its answer |
| `Algorithms`, `MCKnowledge` | the questions about plans, and every question of a small set about the other operators | state machine, as before |
| `BridgeLockProofs`, `FileIpcProofs`, `StagingProofs`, `SessionProofs`, `McpServerProofs` | theorems about the module they are named after | proofs |
| `PlanProofs` | theorems about `PlanBuild` and of `PlanQuestions` | proofs |
| `TheoryProofs` | theorems about `TheoryRules` and `Spelling` | proofs |
| `PlacementProofs` | theorems about `NoteRules`, `LoopWrap`, `MusicTime`, `Accompaniment` and `Arranger` | proofs |
| `MC...` | model values, sets of questions and symmetry for TLC | |

Definitions whose comment starts with *Mutant* are wrong variants of the definition
that follows them. Each stands for a plausible mistake, and a run's property has to
fail when it is put in the place of the right one (`PROJECT.json`, "mutants").

### BridgeLock

State: `pc[i]` is where instance *i* is inside `start`, `tick` or `stop`; `lock`
and `beat` are the two files; `stamp`, `since` and `pause` are ages in seconds that
saturate just above the only threshold they are compared with, so that no bound on
the clock is needed. `Start` is `start` up to the decision of `acquire_lock`;
`WriteLock`, `Unlink` and `WriteLockFails` are the outcomes of `write_lock`
(`atomic_write` and `realfs.rename`); `WriteHeartbeat` and `HeartbeatFails` those of
the first half of `write_heartbeat`; `CheckLock` and `TickOnly` are `tick`; `AtExit`,
`ReadForRelease`, `RemoveLock` and `RemoveFails` are `cleanup`, `stop` and
`release_lock`. `Crash` is a REAPER that dies.

Four parameters are about the environment: `OverlapStarts` (may a second instance
start between the read and the write of the first?), `AtomicRename` (does `rename`
replace a file at once, as on POSIX, or must `realfs.rename` remove the old one
first, as on Windows?), `DiskFails` (may a file fail to be written or removed for any
other reason?) and `MaxPause`, the longest time a live instance goes without a step.
An instance whose removal failed is at `stuck`, and its lock stays.

### FileIpc

State: `command`, `processing`, `failed` and `result` are the directories, a
request standing for its file; `call` and `reply` are the caller in `await_result`;
`todo`, `work`, `seen` and `up` the bridge in `poll_once` and `process_file`, and
whether it runs; `executed` counts how often a request was dispatched. `Claim` uses
`Into`, which is `realfs.rename` with the fallback that removes the destination
even if there is nothing to rename. `Gc` may take any part of what is over age,
because the age it sees is the file's or the time since this bridge first saw it,
whichever the host offers. `Refuse` covers every return of `call` before it
publishes. Two bridges may run at once here: overlapping starts, a rename in two
steps and a long pause make that possible, and the exchange has to cope. The history
variable `alone` says that it has not happened so far: two claims, that nothing of a
waiting call disappears and that nothing leaves `processing/` but for `failed/`, hold
only then, since the fallback of a rename by one bridge removes what the other claimed.

`AtMostOnceRpc` says what a tool may rely on. The refinement maps a request to
`unsent`, `sent` (its file is in `commands/`), `taken` (a bridge works on it),
`ran` or `void`.

### Staging

State: `project` (generated tracks, the place of every item, the transactions with
status *committed*), `undo` (REAPER's history, newest first, bounded by `MaxUndo`),
`last` (the ext state `last_transaction`), `minted` and `known` (the ids used, and
those the server recorded). `Succeeds` and `Fails` are the two ends of
`run_guarded`, `RollsBack` the condition under which it undoes a failure. `Stage`,
`StageFails` (after nothing, after the track, after everything), `StageRefused`,
`Commit`, `CommitFails` (before or after the tags are written), `Discard`,
`DiscardFails` (before or after the item is deleted) and `UndoLast` are the tools with
their handlers; `UserMoves`, `UserDeletesTrack` and `UserUndoes` are the user.
`UndoKept = FALSE` lets an undo block leave no entry (the case in which `rolled_back`
is false), and `AnswersLost` lets a stage be executed whose caller timed out;
`AtMostOnceRpc` is where that is allowed.

A transaction's generated tracks are taken as one track and its items as one item.
Left out: notes, names, mutes, regions and sends (which carry no tags, and which
discard does not manage), the list of staged records (nothing reads it but the
commit that updates its own record), the status of the server's records (it only
chooses the default id of undo, and `UndoLast` allows every known id), redo, copies
a user makes of tagged items, and expiry of the server's records and its restart (they
empty `known`, so that fewer operations are accepted; that objects stay without a
record is what `staging_lost` shows by the shorter way of a failure).

### Session

State: the five buckets and the cache of `store.rs`, each a set of entries with an
id, a value, the time it has left and the sequence number that orders evictions;
`project` (its material and its state-change count), `answer` (what the last answer
listed). An id is the content it is derived from: this is what makes a snapshot hash
the same for the same notes, and a candidate id the same for the same generation.
`Insert` is `Bucket::insert` with its eviction, `Settle` the sweep the server runs
after every message. `Inspect`, `Analyze`, `Generate` (split into `GenerateCached`,
`GenerateAnew` and `GenerateFails`), `Reharmonize`, `Arrange`, `Voice`, `Stage` and
`Act` (commit, discard, undo) are the tools: as the main thread runs one at a time,
each is one step. `Reading` is the reuse of an analysis or the making of a new one,
`Cached` the lookup with the test that all ids of a hit are alive, `Rebound`
`rebind_candidates`. `Tick` and `UserEdits` are time and the user.

Left out: the text of the answers, explain and status (they change nothing), seeds
and generation parameters other than the style profile (they are part of the key in
the same way).

### McpServer

State: `sent` is all the client writes to stdin; `read` and `taken` count what the
reader thread has read of it and the main thread has taken from the channel;
`flags` is the registry of cancel flags, `pc` the place of the main thread in a
tool call, `told` the flag of the engine that the watcher thread raises, `stored`
what calls have put in the store, `answers` what was written to stdout. Two history
variables, `heard` and `looked`, hold how much had been read when the call took its
flag and when it last looked at it. `Read` is the reader thread, which raises a flag
as soon as it reads a cancellation; `Take...` is the main loop; `Quick`, `Checkpoint`,
`Look`, `Analyze`, `Prepare`, `StartEngine`, `EngineStops`, `EngineDone`, `Deliver`,
`FirstVariant`, `LastVariant` and `Fails` are the stages of the four kinds of tools;
`Watch` the watcher. The client numbers its requests, as MCP demands.

### The algorithms

`Algorithms` has one action per entry point: `Init` picks a kind and a question, the
action answers it with the operator of the engine, and the properties compare the
answer with a definition that is written without the algorithm. `PlanQuestions` is the
part of it about plans, with a specification of its own (`PlanSpec`), because theorems
cannot be stated where recursive operators are declared, and `Algorithms` uses some.

* `TheoryRules`: three-valued logic and the whole vocabulary of predicates (a
  predicate that another name or a table stands for is given by it), the verdict on a rule, the outcome of all, the ancestry and the merge of profiles.
* `MusicTime`: `TimeMap::new`, `bar_at`, bar and beat grids with metres that change
  inside a bar and before the first event.
* `PlanBuild`: `build_plan` with its preflight, `validate_plan` of the bridge and
  what the bridge creates from a plan, each with its own copy of the limits.
* `HarmonySearch`: the beam with its budget and signature filter, the merge of three
  passes, each with the weights and bonuses of its bias, and the choice for diversity.
  The components of a score are given, not computed.
* `NoteRules`: `enforce` of the arrangement engine and `enforce_invariants` of the
  harmony engine, which do the same thing in two ways; `ensure_rest`, `thin_against`.
* `LoopWrap`: what is measured at the seam of a loop and the four policies.
* `LoopAudit`: what is heard at the two ends of the loop and how the voices connect
  (`wrap.rs`), the six intents (`intent.rs`), findings, score and compatibility
  (`audit.rs`) and the repairs of the boundary (`repair.rs`). Fits are exact
  hundredths, where the code has floats; the points the rules give are an input;
  layers, percussion and the inference of the key are left out.
* `Spelling`, `Chords`: pitches, intervals and scales as they are spelled, and the
  tones, families and transposition of a chord, for every pair of pitches with up to
  two accidentals in two octaves, nine collections on 21 tonics and chords of every
  triad and seventh.
* `Symbols`: the parser of chord symbols and the writer, names of pitches, intervals
  and degrees. A text is a sequence of tokens.
* `MelodyLine`: the separation of a take into voices and the modes of extraction;
  `MelodyForm`: phrases, subphrases, cadences, motives and sequences, salience, and
  the slots for chords; `NonChordTones`: the readings of a note against its chord,
  with their confidence. Costs and strengths are rounded down; compound metres are left
  out, and what the rules say of a figure is given.
* `Voicing`: templates realised, connected through time and audited for parallels and
  tendencies. Costs are whole numbers, exact where the code's floats agree within a
  billionth.
* `BeatTimes`: the rational numbers positions are made of, in words of a bounded width,
  with their order, sums, products and remainders.
* `Accompaniment`: what a pattern makes of chords: onsets, moved off those of a more
  important part and thinned; the pitches, spelled and spaced; lengths, velocities, ties.
* `Arranger`: the whole of `arrange`: pattern and instrument for each role, the curve,
  sections, silence and transition, windows pushed apart and shifted, each part written
  section by section, then written again apart, and the second writing kept only if it
  masks no more. Densities and energies are hundredths.
* `Knowledge`: a bundle of files loaded, rejected and stamped, and its search
  (`MCKnowledge` has the questions); a text is a sequence of words and separators.
* `Records`: the JSON forms of the knowledge base's and the music domain's records as tables of fields, read and written by one
  pair of operators; errors are abstracted to the field at fault.
* `WireForms`: the wire form of a plan, a request through every check of the bridge
  and back as a result, a snapshot with its hashes.
* `JsonText`, `JsonSchema`, `Patterns`: the parser and the three writers, the schema
  validator, and the regular expressions with the backtracking matcher, as functions
  on tokens and characters.

## 3. Runs

| Run | Question | Bounds | Result |
|---|---|---|---|
| `lock_prompt` | types, `MutualExclusion`, `LiveBridgeVisible`, `NoOrphanAfterStop` | 3 instances; atomic renames, disks that work, starts apart, pauses shorter than the lease | holds |
| `lock_race` | `StartRaceResolved`, under `FairSpec` | 2 instances; starts may overlap, rename not atomic, the disk may refuse any write and removal, pauses shorter than the heartbeat interval | holds |
| `lock_reclaim` | `LoserLeavesLock` | pauses longer than the lease | **violated** |
| `ipc_faults` | types, `ExchangeInv`, `NeverLost`, `FailedKept`, `Promise` (refinement), and under `FairSpec` `CallReturns`, `FilesGo` | 1 request, 2 bridges, halts and disk failures, thresholds apart | holds |
| `ipc_replay` | `AtMostOnce` | 2 requests, copies of commands reappear, the bridge stays up | holds |
| `staging_kept` | types, `OwnOnly`, `AllOrNothing`, `UserSafe` | 2 transactions, 1 user item, 2 undo entries, every block leaves its entry, answers may be lost | holds |
| `staging_lost` | `Discardable` | as before, but a block may leave no entry, and no answer is lost | **violated** |
| `session` | types, `Bounded`, `LabelsAgree`, `NeverStale`, `AnswerUsable`, `StagedForThis` | 2 materials, 1 request, lifetimes 1 to 3, capacities 1 to 3, 5 calls that store | holds |
| `session_relabel` | `MadeFromItsAnalysis` | 2 analysis options | **violated** |
| `server` | types, `OneAnswerEach`, `OnlyIfAsked`, `Honoured`, `RegistryClean`, `NothingHalfGenerated`, and under `FairSpec` `AnswerArrives`, `ShutsDown` | 4 messages, 2 ids | holds |
| `server_cancel` | `CancelledStoresNothing` | 3 messages | **violated** |
| `algorithms` | `TheorySound`, `DomainSound`, `AnalysisSound`, `PlanHonest`, `HarmonySound`, `ArrangementSound`, `LoopSound`, `CodecsSound` | every question of the sets in `MCAlgorithms` and `MCKnowledge`: 194,872 of them | holds |

**Why these bounds.** Only comparisons of a time with a threshold matter, and every
threshold keeps its order (heartbeat interval < lock stale; timeout + clock skew <=
processing <= command <= result <= failed; snapshot < analysis <= candidate <=
transaction), so a few seconds stand for the code's 10, 300 or 900. Two instances,
bridges or requests are the smallest number that can race; the proofs cover any
number. Two undo entries are enough for "newest" and "next", the only ones the code
can reach before the user acts again. In `session` every bucket is small enough to
evict while another still refers to what it evicts, and five storing calls are enough
for inspect, generate, a second inspect, a cache hit and stage. In `server` four
messages hold a request with its cancellation before, between or after another
request. In `algorithms` a set of questions holds each kind of boundary: an event on,
before and after a bar line, notes that begin together, meet, overlap and stick out
of span, range, item or loop, parts at and above every limit of the plan, budgets
that end in each slot, every two ways to damage a bundle of knowledge, a request or a
snapshot. The limits the code has as constants are small there: `MaxGroupDepth`,
`MaxParseDepth` and `MaxRefDepth` (nesting of a pattern, a text, a schema) are 2,
`MaxTemplates` 4 and `MaxRealisations` 5 (voicings tried for a chord), `MaxHypotheses`
3 (readings of a note), `MaxRequestBytes` and `MaxResultBytes` 3, `MaxCommandsPerTick`
2, `DefaultResults` 4, the plan's limits 2 to 8, so that each is reached; `Widest` is
a cost no voicing has. `LargestInt` 127, `WidestInt` 32767 and `GridDen` 4 stand for
the words of 64 and 128 bits and the grid of 1/1920: the wide word holds a product of
two short ones in both. `Tick` is 96 to a quarter note in the arranger's questions, so
that every length the code forms (a 32nd, a triplet, a third of a bar) is whole.

`CHECK_DEADLOCK FALSE`: in the `ipc_*` runs, when every call has returned and no
bridge is up, the system rests; a server whose stdin has ended and whose queue is
empty has exited; in `algorithms` a question that is answered is done. In
`ipc_replay` bridges do not stop: after a restart the replay guard is empty, and only
the expiry of an envelope refuses a copy.

**Fairness.** `FairSpec` of `BridgeLock` and of `FileIpc` assume that time passes,
that REAPER keeps calling a script that is up (the `defer` loop re-registers itself
even after an error) and that a server thread keeps running. Nobody has to start,
stop or exit anything, and no caller has to be cancelled. `BridgeGcAll` is the
collection that sees every over-age file: the code collects every
`GC_INTERVAL_SECONDS` and file ages only grow. `FairSpec` of `McpServer` is weak
fairness of the reader thread and of the main thread, which block on nothing but
stdin and the channel; nothing is assumed of the watcher or of the client.

### What the violated runs show

1. `lock_reclaim`. An instance that lost its lock writes the *offline* heartbeat,
   and `write_heartbeat` ends in `write_lock` (`bridge.lua:826`, `:336`): the loser
   takes the lock back, and the new owner stops at its next heartbeat. The comment
   at `bridge.lua:820` says the order of checks prevents exactly this. A loser that
   then runs its `atexit` handler removes the lock, so nothing is left behind
   (`StopLeavesNoOrphan`), but both bridges are gone.
2. `staging_lost`. A stage fails after its first objects appeared, and its block left
   no undo entry, so that nothing is rolled back and `rolled_back` is false. For this
   case `SECURITY.md:451` says: "the partial transaction is still tagged. Discard it by
   transaction id." The server does not: `stage_candidate` leaves at the `?` of
   `tools/reaper.rs:353`, before it stores the record of the transaction, and
   `owned_transaction` (`:431`) refuses an id it has no record of. The objects stay
   until the user removes them. With `AnswersLost` the same happens to a stage that
   succeeded after its caller had timed out.
3. `session_relabel`. The key of the generation cache (`harmony.rs:240`) has no part
   of the analysis in it. A call with other analysis options that hits the cache
   re-binds the cached candidates to its own analysis, from which they were not
   made; `store.rs:110` calls that field "The analysis it was generated from.", and
   `store.rs:477` the key "everything that may change the result".
4. `server_cancel`. `MCP_API.md:249` says that "a cancelled call leaves the session
   store untouched". `voicing_generate` stores each variant before it looks at the
   flag again (`harmony.rs:509`), and `generate_candidates` stores a new analysis
   before its engine is cancelled. What the same page says next, that "nothing
   half-generated is ever stored", holds of generation: `NothingHalfGenerated`.

### Observed on the way

These follow from the models under other constants or from reading beside them. They
have no run of their own.

* With `AtomicRename = FALSE` two bridges can run for a while (`util.lua:290` removes
  the old lock before it renames again); `lock_race` shows that it ends.
* The same fallback, in the claim: the bridge that loses the race removes the
  winner's file from `processing/`. If the winner has not read it yet it answers
  `INTERNAL_BRIDGE_ERROR`, and the request is not carried out; it is never carried
  out twice (`DispatchedAtMostOnce`).
* With `AtomicRename = FALSE` and pauses as long as a heartbeat interval inside the write
  of a lock, two bridges can go on for good, each finding its own name whenever it looks:
  `StartRaceResolved` then fails (`MaxPause` 3, `HeartbeatInterval` 1, `LockStale` 2).
* A commit repeated replaces `last_transaction`, and the undo of a stage that came in
  between is refused.
* Symbols. `symbol.rs:52` promises the round trip "for every symbol the parser accepts".
  It does not hold of `C57` and `Cmaj75`, a half-diminished chord with an explicit flat
  fifth, alterations whose accidentals cancel (`C7b#9` is written `C79`, which is
  refused), nor of roots altered by three or four accidentals. `Unsaid` names these and
  is a precondition of `SymbolsRead` (and two accidentals that of the names): there
  nothing is claimed. Digits that exceed 32 bits after a major marker are dropped.
* Knowledge. Renaming a file within the order of names leaves `content_sha256` as it
  was (`load.rs:80` names "any value, key or file"). Stamping a manifest whose hash is
  no string overwrites the next quoted string. A filter of unknown names only is
  dropped, and a negative `max_results` is the default (in the library; the tool's
  schema excludes both). The counts nobody declares are not checked.
* Predicates. A list of chords or a threshold that arrives later replaces what a
  predicate was answered from (the sounding degrees, the default), so that its answer
  may change; the other predicates settle.
* Plans. `build_plan` moves the ends of the item to the grid after it has tested that
  one lies after the other (`staging.rs:229`, `:243`), so that two ends less than a step
  apart may fall together and the bridge refuses the plan: `StepsStayApart` needs a step
  between two positions, `PlansAreHonest` a note of that length. The source item alone
  may be shorter; a candidate with a note lengthens it.
* Melody. `grid.rs` may merge a slot away at a phrase start although its rationale
  says boundaries are kept, and its fixed step drifts after a change of metre;
  `phrase.rs` calls a cadence deceptive or plagal whatever chord it comes from, where
  its table says "from the dominant"; `selection.rs` reports explicit confidence for
  `highest_voice` even if the skyline overlaps.
* Codecs. A group that is repeated twice and may be empty is not tried again
  (`regex.rs:783`): `(^|a){2}b` does not find `ab`. Under `not` and `oneOf` the
  violation of the depth guard turns into acceptance. `enum` and `uniqueItems`
  compare canonical texts, so that 1 and 1.0 differ where `type` takes both as
  integers.
* Voicing. A register window that ends below its start makes `clamp` panic; nothing
  but the profile's own limits is validated. The fallback ignores inversion and bass
  and may exceed the melody's ceiling. The audit reports no hanging tendency for a
  voice the next chord does not have.
* Records. Unknown fields survive at the top level only; fixtures do not write back
  `midi`, `cents` and other derived fields; whole numbers are cast to 32 bits without
  a check in some readers, and seeds above 2^63 are written negative.
* Wire. The tempo hashes are left out when there are no markers, although the table in
  `snapshot.rs` says "always"; no hash covers `source_note_count`; an `ok` result with
  neither result nor error is accepted.
* Loops. `repair.rs` trims notes that begin at the end of the loop or later and names
  them crossing; a loop may be incompatible without a finding (fit above, score below
  0.6); duplicating a pickup leaves its finding; `pitch.rs:343` says that a diatonic
  transposition keeps a chromatic offset, which it drops.
* Time. `time.rs:125` multiplies the bound by a denominator that may be so large that
  128 bits do not hold it, where `time.rs:58` promises saturation; a time whose numerator
  is the smallest integer is put on the grid; `rem_euclid` with a negative modulus
  (nobody has one) gives what the comment at `time.rs:226` excludes.
* Accompaniment. `patterns.rs:526` says that a part which carries harmony articulates
  every chord change, however low the density; a change that is weak and contested may be
  thinned before a strong onset that is none, and one off the grid is no onset at all.
  The shortest note is written even where the next chord begins earlier. Of several
  voices the lowest is the loudest, where `patterns.rs:903` says the top speaks.
* Arranger. `sections.rs:166` "guarantees adjacent sections differ in something other
  than volume". With a density at its limit, one layer and the same direction twice, they
  differ in volume only; `SectionsDiffer` has the absence of that (`SameButVolume`) as
  its precondition, which is this model's and not the code's. Its register shift is said to alternate:
  two sections that rise are both shifted up. The strategic silence (`energy.rs:43`) and
  the windows of answers and transitions keep attacks out; what was struck before sounds
  into them, which is why `SilenceKept` speaks of attacks. `masking.rs:190` asks for a
  fourth of air, which is only made where windows overlap. A preserved tune is played
  whatever the layer budget says.
* The id of an arrangement is derived from source, profile and seed
  (`arrange.rs:171`), that of a voicing (`harmony.rs:609`) likewise: a second call
  with other parameters may replace a record under the same id.
* `rpc.rs:256` treats an error of stdin as a line that could not be read and tries
  again: an error that persists keeps the reader busy for ever.
* `search.rs:867` compares totals within an epsilon, which is no transitive order;
  the model compares integers.
* `rules.rs:808` names no threshold of its own: an absent threshold fact is the
  default; an exception the engine cannot decide does not bypass a rule.
* `boundary.rs:425`, *rearticulate*, leaves the overhang of the new note in place when
  it reaches past the end of the loop once more; `SeamSealed` and `SeamSettles`
  exclude that policy. *Split* wraps a pickup by one loop only: `OneRepeat` is the
  precondition.
* `density.rs:140` "guarantees at least one audible silence inside every window". It
  shortens the last note of a window once, which opens no rest where the last notes are
  a chord or too short; that they are not is the precondition of `LineBreathes`.
* `search.rs:366` counts transitions of one pass; the limit of `params.rs:281` is
  therefore spent up to three times.

## 4. Proofs

TLAPS checks these for every value of the constants that satisfies the modules'
assumptions (`LockAssumption`, `IpcAssumption`, `StagingAssumption`,
`SessionAssumption`, `ServerAssumption`; `PlanInputs`, `StagingInputs`, `LimitsFit`).

* **BridgeLock.** `TypeCorrect`; `StopLeavesNoOrphan` for every timing, kind of
  rename and failure but that of the removal itself: only an instance that is still going to read the lock again can own it.
  `LeaseIsExclusive` and `LiveBridgeIsVisible` assume `Prompt` (atomic renames, disks
  that do not fail, no overlapping starts, pauses that leave the lease unexpired). Exclusion is not
  inductive: nothing in it says that a running instance's lock is too young to be
  taken over. `LeaseInv` adds that (`LeaseCorrect`): at most one instance is in the
  places from `take` on, it owns the lock, and the lock's age plus the time it may
  still need for its next write stays within the lease.
* **FileIpc.** `ExchangeInv` says that a request is in one place (`OnePlace`), that a
  caller's answer fits what has happened (`ReplyFits`) and that an `ok` comes from a
  dispatched request (`OkRan`). A request outside `commands/` never comes back
  there, which is why it is dispatched at most once: `DispatchedAtMostOnce`.
  `PromiseKept` is the refinement of `AtMostOnceRpc`, one abstract step or a stutter
  per action. All three assume `~Replays`; with replays the claim is
  `AtMostOnce` with a guard that is large enough, which is model-checked only.
  `NothingLost` (`NeverLost`) and `FailedIsKept` (`FailedKept`) speak of the time in which
  bridges ran one after the other (`alone`): with two at once, the claim of an absent
  file removes what the other has in `processing/` (see above), and the claims are
  false. `NothingLost` assumes nothing else, and `FailedIsKept` only `~Replays`. The
  invariant of the first is `WaitingInv`: a request not yet sent has left no file
  (`Untouched`); a waiting caller's files are no older than its timeout allows, so that
  no collection takes them (`Young`); as long as `alone`, they are in `commands/`, in
  `processing/` or answered, and the bridge's own list agrees (`Held`). `TakenOnce` is what `FailedIsKept` needs: what is in `processing/` is in
  no other place, so that no rename of an absent file removes it.
* **Staging.** `UserWorkIsSafe`: no step of the bridge creates, moves or removes an
  item of the user's. A roll-back and an undo install a project of the past, so the
  history has to be known: `HistoryInv` (`HistoryCorrect`) says that an entry which
  is not the user's separates two projects with the same user items. It is kept when
  an entry is pushed, dropped for lack of memory or undone, and also when a block
  leaves none. `TouchesOwnOnly` (`OwnOnly`) and `FailuresLeaveNoTrace` (`AllOrNothing`:
  stage, commit and discard) do need `UndoKept`: without its entry, a failure is not
  rolled back, and an undo may undo another block's (the code then reports `rolled_back`
  as false). `Parted` is the invariant of the first: an entry of the bridge's separates
  two projects that differ in nothing but the transaction of its label. Whether answers
  arrive makes no difference to any of them. `Discardable` is false (`staging_lost`).
* **Session.** `LabelsAgree` (a candidate's analysis is of its snapshot) and
  `NeverStale` (its snapshot is of the material it was made for) are not inductive,
  because a cache hit re-binds candidates: `StoreInv` adds that what a cache entry
  lists was made for the material in the entry's key (`StoreInvariant`).
  `StagedIsForThis` follows from the same invariant and the guard of stage.
  `BucketsBounded` carries the finiteness of the buckets along (`AllSized`), for
  `Cardinality` says nothing without it. `AnswersUsable` (`AnswerUsable`) rests on the
  order of evictions: what was in a bucket before the call has a lower sequence number
  than what the call stores (`Earlier`), so that a capacity of two lets the second
  candidate evict anything but the first. Any capacities and lifetimes.
* **McpServer.** `Threads` relates the registry to what the reader thread has read: a
  raised flag was asked for, a clear one belongs to the call that runs, and as long
  as a request is not done with, what was asked for is raised. `Said` carries that
  over to the answers. From the two follow `EveryRequestOnce`,
  `CancelledOnlyIfAsked`, `CancellationHonoured`, `RegistryStaysClean` and
  `CancelledStoresNoCandidates`, for any number of messages.

* **PlanBuild, PlanQuestions** (`PlanProofs`). `PlansAreHonest` is `PlanHonest` for
  candidates with any number of parts and notes: the server does not build a plan its
  bridge refuses, though the two have separate copies of the rules; staging it makes
  exactly the outputs it announces, with as many notes; and every part is written once,
  each note no further than half a step from where the candidate has it. It assumes
  `PlanInputs` (positions are integers, limits natural numbers), `LimitsFit` (the bounds
  of a position lie on the grid, and there may be an item for every track but the folder:
  `limits.rs` has 64 items and 32 tracks) and `StagingInputs`, of which `LastingNote`
  says the most: no note of the candidate is shorter than a step. Those of the source
  are not (`convert.rs:65` puts both ends on the grid and widens what has no length), and
  the engines form theirs from whole steps. Onsets need not lie on the grid, and the
  source item may be anywhere and of any length, even none.
  The plan is laid out by position: `Laid` says which operation stands where, `Announced`
  which output (`OperationsLaid`, `ExpectedLaid`). From that follows, for each name, the
  place that declares it and the places that refer to it (`Slots`, `PlacedByName`), and
  from those one lemma per rule of the bridge: `NamedOnce`, `UsesDeclared`, `SpansAre`,
  `InsertedNotes`, `NotesCounted`, `TracksCounted` and `ItemsCounted`, `AnnouncedIsMade`
  (gathered in `TakenByBridge`). `SnapsWithin` keeps what lies within the bounds of a
  position there when it is snapped, and `StaysNear` is the reason a note that is cut to
  the snapped item is still near its place: only the ends move, and by half a step at
  most (`SnapsToNearest`, `StepsStayApart`, `WrittenInside`). What a sum, the choice of
  the parts that have notes and the chaining of blocks compute over sequences of any
  length is proved by climbing from one length to the next (`Climb`, `Recursion`), which
  rests on a least counterexample (`WellFoundedInduction`).
* **TheoryRules** (`TheoryProofs`). `FactsSettle`: what a predicate answers from some facts it answers
  alike when more come in. `CarriesMore` says what more facts are: none is taken back, the
  threshold stays (one that comes later replaces the default), and a caller asserts by
  name only what could not be derived. `VerdictsSettle` and `RefutedForGood` carry that
  over to the verdict on a rule, if the chord's degrees, by which the rule was selected,
  stay: a later fact can only bring in an exception, and a refuted rule stays refuted.
* **Spelling** (`TheoryProofs`). Every pitch, interval and scale, without a bound on accidentals or
  octaves: `ThereApplied`, `UpAndDown`, `ThereAndBack` and `FoundAgain` (an interval
  leads from its one end to the other, is undone, and is measured as it was),
  `InversionsMakeOctaves`, `WrittenAndRead`, `InItsOctave`, `RespelledIs`,
  `DegreesSound`, `DegreePitchSounds` and `SpellingSounds` (what is respelled or
  spelled by a scale sounds as it did). They rest on lemmas about `%` and `\div` by 7
  and 12, stated once.
* **NoteRules, LoopWrap, MusicTime, Accompaniment, Arranger** (`PlacementProofs`).
  What an engine enforces keeps its pitch class in the range and
  its time in the span (`FoldedIntoRange`, `ClippedIntoSpan`); the pieces of a note
  that is split at the seam sound when the note does in a loop (`SplitSoundsTheSame`,
  where `Loops` is a span of positive length and a note no longer than it); and every
  position lies in the bar it is counted in, every bar is found again by its number
  (`InsideItsBar`, `BarsFoundAgain`) in any map of metres in order (`IsMap`; that
  `TimeMap::new` yields such a map is `BarsTile`, which the run checks, as it sorts
  with a library function). What needs induction over the events of a map is proved
  by a least counterexample, from `WellFoundedInduction`. The window of pitch a part is
  written in lies in its instrument's range and has an octave wherever that range does
  (`WindowHasAnOctave`), a section's shift keeps both (`ShiftKeepsAnOctave`), and being
  pushed off a lower part keeps it in its bounds, moves it only up and leaves an octave
  if it had one (`PushedStaysInside`).

Of the eight properties of `algorithms` one, `PlanHonest`, is proved as it is checked.
The theorems about the others' operators hold for every argument, but are parts of what
the run asks; `Algorithms` itself reaches recursive operators (`Patterns`, `JsonText`)
and holds none. 27 of the 39 properties the passing runs
check are theorems.

Model-checked only:

* liveness (`StartRaceResolved`, `CallReturns`, `FilesGo`, `AnswerArrives`,
  `ShutsDown`), which is out of the prover's reach, as `ENABLED` is;
* the other seven of `algorithms`: what the searches, forms, codecs and repairs compute
  over a sequence of any length. The library's induction theorems cannot be used here,
  as they take an operator; a recursive function can be followed by a least
  counterexample, as in `PlanProofs`, a fold or a recursive operator cannot;
* that two predicates are never both true (`NothingBoth`), as the tables of the
  vocabulary are merged with `@@`, which the provers do not expand;
* the four runs that are violated.

## 5. Abstractions

* Files are written whole (temporary file, then rename); only the rename is a step.
  Temporary files of a writer that died are not modelled; `gc` removes them.
* `poll_once` tries the listed names in any order; the code sorts them. Its limit per
  tick is above the number of requests of a run.
* A collection of garbage is one step per bridge; it interleaves with callers and
  other bridges between steps.
* The validity of an envelope is its expiry and the replay guard; token, version and
  field checks are a function of the file's content, which never changes.
* The clock is common to server and bridge up to `Skew`.
* Positions are integers, a small multiple of the quarter note; the code's `BeatTime`
  is an exact rational, and `BeatTimes` shows when it is exact. Scores are integers.
* `BridgeAccepts` compares positions exactly; the bridge allows for `QN_EPSILON`
  (`transactions.lua:30`), so that it accepts a little more than the model.

## 6. Not modelled

* *Music domain*: places of errors in a text, numbers of a symbol above 32 bits.
* *Music analysis*: key (`key.rs`), detection of chords in the material, the melody
  profile: scores over large tables, compared with fixtures by their tests.
* *Harmony engine*: how candidates are collected and scored (`candidates.rs`, most of
  `search.rs`: scores are given to the model), reharmonisation, countermelody, the
  rules the audit asks.
* *Arrangement engine*: the score and the rules it is made of, warnings, the mix notes, labels.
* *Codecs*: how a number or a string is spelled, limits on steps and stack, the
  helpers for hashes, clock and random numbers.
* *Wire*: the hash function (a hash is named by what it is taken of), wording, sizes
  and the spelling of instants.
* Tools: the text of answers, explain and status; the schema generator, scripts,
  schemas, knowledge and fixtures themselves.

## 7. Plan

1. The rest of the analysis: key and chord detection, whose scores have to become
   ordinal; candidates of the harmony engine.
2. A composition of `McpServer`, `AtMostOnceRpc` and `Staging`: what a client can
   know after a timeout of a write.
3. Theorems about `Chords` (transposition of any chord) and `WireForms` (a request
   refused by one check never runs), and about `HarmonySearch` as far as it folds over
   slots by a function.
