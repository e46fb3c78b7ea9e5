------------------------------ MODULE Session ------------------------------
(***************************************************************************)
(* The session store of the MCP server (reaper-music-mcp/src/store.rs) and *)
(* the tools that fill it: inspect, analyze, generate, reharmonize, arrange,*)
(* voice, stage, commit, discard and undo (src/tools).  The main loop runs *)
(* one message at a time and sweeps the store after it, so a tool call is  *)
(* one step; between two calls time passes and the user edits the project. *)
(*                                                                         *)
(* An id is the content it is derived from: a snapshot id stands for what  *)
(* the bridge saw, an analysis id is a snapshot id with parameters, and a  *)
(* candidate id is an analysis id with a request (harmony-engine's         *)
(* candidate_id) and the form it was derived in.  The store hands them out *)
(* as opaque strings.                                                      *)
(***************************************************************************)
EXTENDS Naturals, FiniteSets

CONSTANTS
  Material,         \* what a snapshot hash tells apart: notes, tempo, objects
  Profile,          \* style profiles; stands for all a generation is asked for
  Option,           \* analysis parameters that a generation does not have
  DefaultOption,    \* their value when a generation runs the analysis itself
  SNAPSHOT_TTL, ANALYSIS_TTL, CANDIDATE_TTL, PLAN_TTL, TRANSACTION_TTL,
  MAX_SNAPSHOTS, MAX_ANALYSES, MAX_CANDIDATES, MAX_PLANS, MAX_TRANSACTIONS,
  MAX_CACHE_ENTRIES,
  MaxCalls,         \* bound on the calls that store something
  MaxCount          \* bound on project_state_change_count

ASSUME SessionAssumption ==
  /\ DefaultOption \in Option
  /\ {SNAPSHOT_TTL, ANALYSIS_TTL, CANDIDATE_TTL, PLAN_TTL, TRANSACTION_TTL}
       \subseteq Nat \ {0}
  /\ {MAX_SNAPSHOTS, MAX_ANALYSES, MAX_PLANS, MAX_TRANSACTIONS, MAX_CACHE_ENTRIES}
       \subseteq Nat \ {0}
  /\ MAX_CANDIDATES \in Nat \ {0, 1}   \* room for all a call returns
  /\ MaxCalls \in Nat /\ MaxCount \in Nat

VARIABLES
  project,       \* the open project: its material and its state-change count
  snapshots, analyses, candidates, plans, transactions,   \* the buckets
  cache,         \* generation key -> candidate ids
  calls,         \* calls that stored something: gives the sequence numbers
  answer         \* the candidates the last answer listed, with its snapshot

vars == <<project, snapshots, analyses, candidates, plans, transactions, cache,
          calls, answer>>

-----------------------------------------------------------------------------
(* Ids and values.                                                         *)

Parameters == [profile : Profile, option : Option]
SnapshotId == [no : Nat, mat : Material, count : Nat]
AnalysisId == [snap : SnapshotId, par : Parameters]
Form       == {"generated", "reharmonized", "arranged", "voiced_1", "voiced_2"}
CandidateId == [ana : AnalysisId, req : Profile, no : {1, 2}, form : Form]
CandidateRecord == [snap : SnapshotId, ana : AnalysisId]
CacheKey    == [mat : Material, req : Profile]
Status      == {"staged", "committed", "discarded", "undone"}

\* A list of candidates, said to be of snapshot s.
Listed(ids, s) == {[id |-> i, snap |-> s] : i \in ids}

-----------------------------------------------------------------------------
(* One bucket: entries with an id, a value, the time they have left and the*)
(* sequence number of their insertion.                                     *)

Live(b) == {e \in b : e.left > 0}
Ids(b)  == {e.id : e \in b}

Oldest(b) == {e \in b : \A f \in b : e.seq <= f.seq}
Newest(b) == {e \in b : \A f \in b : f.seq <= e.seq}

\* Mutant: a bucket evicts only once it holds more than its capacity.
Insert_Late(b, id, val, capacity, ttl, seq) ==
  LET kept == IF Cardinality(Live(b)) > capacity /\ id \notin Ids(Live(b))
                THEN Live(b) \ Oldest(Live(b)) ELSE Live(b)
  IN {e \in kept : e.id # id}
       \cup {[id |-> id, val |-> val, left |-> ttl, seq |-> seq]}

\* Bucket::insert: sweep, evict the oldest if there is no room for a new id,
\* and put the entry in, in the place of one with the same id.
Insert(b, id, val, capacity, ttl, seq) ==
  LET kept == IF Cardinality(Live(b)) >= capacity /\ id \notin Ids(Live(b))
                THEN Live(b) \ Oldest(Live(b)) ELSE Live(b)
  IN {e \in kept : e.id # id}
       \cup {[id |-> id, val |-> val, left |-> ttl, seq |-> seq]}

\* The main loop sweeps every bucket and the cache after each message.
Settle(sn, an, ca, pl, tx, ch) ==
  /\ snapshots' = Live(sn)
  /\ analyses' = Live(an)
  /\ candidates' = Live(ca)
  /\ plans' = Live(pl)
  /\ transactions' = Live(tx)
  /\ cache' = Live(ch)

\* The sequence numbers of a call that stores something.
Number(n) == 8 * calls + n

Stores == calls < MaxCalls /\ calls' = calls + 1

-----------------------------------------------------------------------------
Init ==
  /\ project \in [mat : Material, count : {0}]
  /\ snapshots = {} /\ analyses = {} /\ candidates = {}
  /\ plans = {} /\ transactions = {} /\ cache = {}
  /\ calls = 0
  /\ answer = {}

\* Time passes between two messages.
Tick ==
  LET Aged(b) == {[e EXCEPT !.left = IF @ > 0 THEN @ - 1 ELSE 0] : e \in b}
  IN /\ snapshots' = Aged(snapshots) /\ analyses' = Aged(analyses)
     /\ candidates' = Aged(candidates) /\ plans' = Aged(plans)
     /\ transactions' = Aged(transactions) /\ cache' = Aged(cache)
     /\ answer' = {}
     /\ UNCHANGED <<project, calls>>

\* The project changes: REAPER counts every change, and only some of them are
\* to the material a snapshot was taken of.
Counted(m) ==
  /\ project.count < MaxCount
  /\ project' = [mat |-> m, count |-> project.count + 1]

UserEdits ==
  /\ \E m \in Material : Counted(m)
  /\ answer' = {}
  /\ UNCHANGED <<snapshots, analyses, candidates, plans, transactions, cache, calls>>

\* A message whose handler stores nothing: resources, status, loop.audit,
\* explain, and every call that is refused or cancelled before it stores.
Reads ==
  /\ Settle(snapshots, analyses, candidates, plans, transactions, cache)
  /\ answer' = {}
  /\ UNCHANGED <<project, calls>>

-----------------------------------------------------------------------------
(* Reading the project.                                                    *)

\* reaper.inspect_selection: put_snapshot under the id the bridge issued.
Inspect ==
  LET s == [no |-> calls, mat |-> project.mat, count |-> project.count] IN
  /\ Stores
  /\ Settle(Insert(snapshots, s, s, MAX_SNAPSHOTS, SNAPSHOT_TTL, Number(0)),
            analyses, candidates, plans, transactions, cache)
  /\ answer' = {}
  /\ UNCHANGED project

WithAnalysis(a) == Insert(analyses, a, a, MAX_ANALYSES, ANALYSIS_TTL, Number(0))

\* music.analyze_selection.
Analyze ==
  \E s \in Ids(Live(snapshots)), p \in Parameters :
    /\ Stores
    /\ Settle(snapshots, WithAnalysis([snap |-> s, par |-> p]), candidates, plans,
              transactions, cache)
    /\ answer' = {}
    /\ UNCHANGED project

\* analysis_for: the newest live analysis of the snapshot, if it is of the
\* profile asked for, whatever its other parameters.
Reusable(s, f) ==
  {a \in Newest({b \in Live(analyses) : b.id.snap = s}) : a.id.par.profile = f}

\* Mutant: an analysis that the caller names is not checked.
Reading_Unchecked(s, f) ==
  [id : Ids(Live(analyses)), new : {FALSE}]
  \cup IF Reusable(s, f) # {} THEN [id : Ids(Reusable(s, f)), new : {FALSE}]
       ELSE {[id |-> [snap |-> s, par |-> [profile |-> f, option |-> DefaultOption]],
              new |-> TRUE]}

\* What a generation for snapshot s in profile f may work from: an analysis the
\* caller names, which must be of this snapshot, one that is there, or a new one.
Reading(s, f) ==
  [id : {a \in Ids(Live(analyses)) : a.snap = s}, new : {FALSE}]
  \cup IF Reusable(s, f) # {} THEN [id : Ids(Reusable(s, f)), new : {FALSE}]
       ELSE {[id |-> [snap |-> s, par |-> [profile |-> f, option |-> DefaultOption]],
              new |-> TRUE]}

Analysed(r) == IF r.new THEN WithAnalysis(r.id) ELSE analyses

-----------------------------------------------------------------------------
(* Generating.  A call for several candidates is taken as a call for two.  *)

\* Mutant: the key of a cached generation leaves out the material.
Key_NoMaterial(s, f) == [mat |-> CHOOSE m \in Material : TRUE, req |-> f]

\* SessionStore::cache_key: the hash of the snapshot, not its id.
Key(s, f) == [mat |-> s.mat, req |-> f]

Generated(a, f, form) ==
  {[ana |-> a, req |-> f, no |-> n, form |-> form] : n \in {1, 2}}

\* store_candidates puts them in one after the other, bound to the snapshot and
\* the analysis that the tool worked with.
WithGenerated(s, a, f, form) ==
  LET id(n) == [ana |-> a, req |-> f, no |-> n, form |-> form]
      rec == [snap |-> s, ana |-> a]
      one == Insert(candidates, id(1), rec, MAX_CANDIDATES, CANDIDATE_TTL, Number(1))
  IN Insert(one, id(2), rec, MAX_CANDIDATES, CANDIDATE_TTL, Number(2))

\* Mutant: a cached generation is served when any of its candidates is left.
Serves_Partly(ids) ==
  /\ ids \cap Ids(Live(candidates)) # {}
  /\ \A c \in Live(candidates) : c.id \in ids => c.val.snap \in Ids(Live(snapshots))

\* cached and same_project: every candidate is still there, and so is the
\* snapshot it is bound to.  (A snapshot hash covers the project's identity.)
Serves(ids) ==
  /\ ids \subseteq Ids(Live(candidates))
  /\ \A c \in Live(candidates) : c.id \in ids => c.val.snap \in Ids(Live(snapshots))

Cached(key) == {ids \in {e.val : e \in {x \in Live(cache) : x.id = key}} : Serves(ids)}

\* Mutant: the two ids are passed in the wrong order.
Rebound_Swapped(ids, s, a) ==
  {IF c.id \in ids THEN [c EXCEPT !.val.snap = a, !.val.ana = s] ELSE c :
     c \in candidates}

\* rebind_candidates: both labels of every candidate move to the caller's.
Rebound(ids, s, a) ==
  {IF c.id \in ids THEN [c EXCEPT !.val.snap = s, !.val.ana = a] ELSE c :
     c \in candidates}

\* A call that may have to store the analysis it works from.
Ran(r) == IF r.new THEN Stores ELSE UNCHANGED calls

\* harmony.generate_candidates, answered from the cache.
GenerateCached(s, f, r) ==
  \E ids \in Cached(Key(s, f)) :
    /\ Ran(r)
    /\ Settle(snapshots, Analysed(r), Rebound(ids, s, r.id), plans, transactions, cache)
    /\ answer' = Listed(ids, s)
    /\ UNCHANGED project

\* The same, when the engine has to run.
GenerateAnew(s, f, r) ==
  LET ids == Generated(r.id, f, "generated") IN
  /\ Cached(Key(s, f)) = {}
  /\ Stores
  /\ Settle(snapshots, Analysed(r), WithGenerated(s, r.id, f, "generated"), plans,
            transactions,
            Insert(cache, Key(s, f), ids, MAX_CACHE_ENTRIES, CANDIDATE_TTL, Number(3)))
  /\ answer' = Listed(ids, s)
  /\ UNCHANGED project

\* A generation that fails or is cancelled in the engine has stored at most the
\* analysis; so has a reharmonization that does.
GenerateFails(s, f, r) ==
  /\ r.new /\ Stores
  /\ Settle(snapshots, Analysed(r), candidates, plans, transactions, cache)
  /\ answer' = {}
  /\ UNCHANGED project

Generate ==
  \E s \in Ids(Live(snapshots)), f \in Profile : \E r \in Reading(s, f) :
    GenerateCached(s, f, r) \/ GenerateAnew(s, f, r) \/ GenerateFails(s, f, r)

\* harmony.reharmonize works from a candidate, with the snapshot and the analysis
\* that it is bound to, or from a snapshot.  It does not use the cache.  Its ids are
\* those of a generation when it differs from one in the families and in what it
\* preserves only: candidate_id hashes neither.
ReharmonizesFrom(f) ==
  {<<c.val.snap, [id |-> c.val.ana, new |-> FALSE]>> :
     c \in {c \in Live(candidates) : /\ c.val.snap \in Ids(Live(snapshots))
                                     /\ c.val.ana \in Ids(Live(analyses))}}
  \cup UNION {{s} \X Reading(s, f) : s \in Ids(Live(snapshots))}

Reharmonize ==
  \E f \in Profile, form \in {"generated", "reharmonized"} : \E from \in ReharmonizesFrom(f) :
    LET s == from[1]  r == from[2] IN
    /\ Stores
    /\ Settle(snapshots, Analysed(r), WithGenerated(s, r.id, f, form), plans,
              transactions, cache)
    /\ answer' = Listed(Generated(r.id, f, form), s)
    /\ UNCHANGED project

-----------------------------------------------------------------------------
(* Deriving.  Only generated candidates are derived from here; the code     *)
(* also derives from derived ones.                                          *)

Derived(c, form) == [c.id EXCEPT !.form = form]

\* A derived candidate is bound to what its source is bound to.
WithDerived(b, c, form, n) ==
  Insert(b, Derived(c, form), c.val, MAX_CANDIDATES, CANDIDATE_TTL, Number(n))

Source(c) == c.id.form = "generated"

\* arrangement.generate needs the analysis its source is bound to.
Arrange ==
  \E c \in Live(candidates) :
    /\ Source(c) /\ c.val.ana \in Ids(Live(analyses))
    /\ Stores
    /\ Settle(snapshots, analyses, WithDerived(candidates, c, "arranged", 1), plans,
              transactions, cache)
    /\ answer' = {}
    /\ UNCHANGED project

\* voicing.generate stores each variant as it goes; an error or a cancellation
\* between two families leaves the first one in the store.
Voice ==
  \E c \in Live(candidates), all \in BOOLEAN :
    LET one == WithDerived(candidates, c, "voiced_1", 1) IN
    /\ Source(c)
    /\ Stores
    /\ Settle(snapshots, analyses,
              IF all THEN WithDerived(one, c, "voiced_2", 2) ELSE one,
              plans, transactions, cache)
    /\ answer' = {}
    /\ UNCHANGED project

-----------------------------------------------------------------------------
(* Staging.                                                                *)

\* Mutant: the plan carries no preconditions.
Holds_Always(s) == project.mat \in Material

\* The preconditions of build_plan, as the bridge evaluates them: the state of
\* the project is the one the snapshot recorded.
Holds(s) == project.mat = s.mat /\ project.count = s.count

WithPlan(c) ==
  Insert(plans, calls, [cand |-> c.id, snap |-> c.val.snap], MAX_PLANS, PLAN_TTL, Number(4))

\* reaper.stage_candidate: the plan is stored before the bridge is asked, the
\* transaction once it has staged.  Heard is FALSE when the bridge is offline,
\* refuses or fails, or when its answer is lost.
Stage(c, staged, heard) ==
  LET t == [cand |-> c.id, snap |-> c.val.snap, status |-> "staged"] IN
  /\ c.val.snap \in Ids(Live(snapshots))
  /\ heard => staged
  /\ Stores
  /\ IF staged THEN Holds(c.val.snap) /\ Counted(project.mat) ELSE UNCHANGED project
  /\ Settle(snapshots, analyses, candidates, WithPlan(c),
            IF heard THEN Insert(transactions, calls, t, MAX_TRANSACTIONS,
                                 TRANSACTION_TTL, Number(5))
                     ELSE transactions,
            cache)
  /\ answer' = {}

\* set_transaction_status.
Marked(id, status) ==
  {IF e.id = id THEN [e EXCEPT !.val.status = status] ELSE e : e \in transactions}

\* commit_candidate, discard_candidate and undo_last_generation, once the bridge
\* has answered ok.  Undo without an id takes the newest live transaction that
\* is still staged; the others name one.
Act(t, status) ==
  /\ Settle(snapshots, analyses, candidates, plans, Marked(t.id, status), cache)
  /\ Counted(project.mat)
  /\ answer' = {}
  /\ UNCHANGED calls

Next ==
  \/ Tick \/ UserEdits \/ Reads
  \/ Inspect \/ Analyze \/ Generate \/ Reharmonize \/ Arrange \/ Voice
  \/ \E c \in Live(candidates), staged, heard \in BOOLEAN : Stage(c, staged, heard)
  \/ \E t \in Live(transactions), status \in Status \ {"staged"} : Act(t, status)

Spec == Init /\ [][Next]_vars

-----------------------------------------------------------------------------
(* Properties.                                                             *)

Entries(Id, Val) == [id : Id, val : Val, left : Nat, seq : Nat]

\* The shape of every variable.
TypeOK ==
  /\ project \in [mat : Material, count : Nat]
  /\ snapshots \subseteq Entries(SnapshotId, SnapshotId)
  /\ analyses \subseteq Entries(AnalysisId, AnalysisId)
  /\ candidates \subseteq Entries(CandidateId, CandidateRecord)
  /\ plans \subseteq Entries(Nat, [cand : CandidateId, snap : SnapshotId])
  /\ transactions \subseteq
       Entries(Nat, [cand : CandidateId, snap : SnapshotId, status : Status])
  /\ cache \subseteq Entries(CacheKey, SUBSET CandidateId)
  /\ calls \in Nat
  /\ answer \subseteq [id : CandidateId, snap : SnapshotId]

Bucket(b, capacity) ==
  Cardinality(b) <= capacity /\ \A e, f \in b : e.id = f.id => e = f

\* However many calls are made, no bucket outgrows its capacity, and no id is
\* in it twice (Bucket::insert).
Bounded ==
  /\ Bucket(snapshots, MAX_SNAPSHOTS)   /\ Bucket(analyses, MAX_ANALYSES)
  /\ Bucket(candidates, MAX_CANDIDATES) /\ Bucket(plans, MAX_PLANS)
  /\ Bucket(transactions, MAX_TRANSACTIONS) /\ Bucket(cache, MAX_CACHE_ENTRIES)

\* The snapshot and the analysis a candidate is bound to belong together: the
\* analysis is one of that snapshot (analysis_for, rebind_candidates).
LabelsAgree == \A c \in candidates : c.val.ana.snap = c.val.snap

\* A candidate is never bound to a snapshot of other material than it was made
\* for, however often it is re-bound, evicted and generated again (cache_key,
\* rebind_candidates: "the cache hit proves the snapshot hashes are equal").
NeverStale == \A c \in candidates : c.val.snap.mat = c.id.ana.snap.mat

\* What generate and reharmonize answer with can be read back, and is bound to
\* the snapshot the caller holds, so that it can be staged.
AnswerUsable ==
  \A a \in answer :
    \E c \in Live(candidates) : c.id = a.id /\ c.val.snap = a.snap

\* What is staged was made for the material that is in the project, whatever was
\* inspected, edited, re-bound or derived in between.
StagedForThis ==
  [][\A t \in transactions' :
       t.id \notin Ids(transactions) => t.val.cand.ana.snap.mat = project.mat]_vars

\* A candidate was generated from the analysis it is bound to, up to the
\* snapshot that analysis was of (CandidateRecord: "The analysis it was
\* generated from."; cache_key: "everything that may change the result").
MadeFromItsAnalysis ==
  \A c \in candidates : c.val.ana.par = c.id.ana.par
=============================================================================
