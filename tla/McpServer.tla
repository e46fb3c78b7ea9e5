----------------------------- MODULE McpServer -----------------------------
(***************************************************************************)
(* The MCP server's main loop (reaper-music-mcp/src/server.rs).  A reader  *)
(* thread drains stdin into a channel and raises the flag of a request as  *)
(* soon as it reads its cancellation; the main thread takes the messages in*)
(* order and runs each tool call to its end; a watcher thread shows the    *)
(* flag to the engine that is running (tools/mod.rs, CancelBridge).        *)
(*                                                                         *)
(* What the client sends is one sequence.  The channel is the part of it   *)
(* after the messages taken and up to the messages read.                   *)
(***************************************************************************)
EXTENDS Naturals, Sequences

CONSTANTS
  MaxId,      \* bound on the requests
  MaxSent     \* bound on the messages

ASSUME ServerAssumption == MaxId \in Nat /\ MaxSent \in Nat

VARIABLES
  sent,         \* the messages the client has written to stdin
  open,         \* stdin is not at its end
  read,         \* how many the reader thread has read
  draining,     \* the reader thread runs
  taken,        \* how many the main thread has taken from the channel
  initialized,
  flags,        \* the registry of cancel flags, by request id
  pc,           \* where the main thread is in a tool call
  told,         \* the watcher has passed the flag on to the engine
  stored,       \* what calls have put in the session store
  answers,      \* the responses, in the order they were written
  heard,        \* history: what had been read when the call took its flag
  looked        \* history: what had been read when it last looked at it

vars == <<sent, open, read, draining, taken, initialized, flags, pc, told,
          stored, answers, heard, looked>>
toolVars == <<pc, told, stored>>

-----------------------------------------------------------------------------
Id == 1 .. MaxId

\* A quick tool never looks at its flag (status, search, explain, commit,
\* discard, undo); analyze looks once (so do inspect and stage); generate (and
\* reharmonize, arrange) also while the engine runs; voice between its variants.
Tool == {"quick", "analyze", "generate", "voice"}

\* plain is every other request: ping, the lists, resources, prompts, unknown
\* methods, calls with malformed parameters.
Request == Tool \cup {"initialize", "plain"}

Message == [kind : Request \cup {"cancel"}, id : Id] \cup [kind : {"garbled"}, id : {0}]

Answerable(m) == m.kind # "cancel"
Cancel(id) == [kind |-> "cancel", id |-> id]

\* Mutant: the key drops the type of the id.
Key_Untyped(id) == 1

\* id_key.  A string id and an integer id are different keys.
Key(id) == id

-----------------------------------------------------------------------------
Init ==
  /\ sent = <<>> /\ open = TRUE
  /\ read = 0 /\ draining = TRUE
  /\ taken = 0 /\ initialized = FALSE
  /\ flags = [k \in Id |-> "none"]
  /\ pc = "idle" /\ told = FALSE
  /\ stored = {} /\ answers = <<>>
  /\ heard = 0 /\ looked = 0

-----------------------------------------------------------------------------
(* The client.  It numbers its requests; it may cancel any of them, even   *)
(* one that it has not sent yet or that has been answered.                 *)

Requests == {i \in 1 .. Len(sent) : sent[i].kind \in Request}
Fresh(id) == \A i \in Requests : sent[i].id # id

Send(m) ==
  /\ open /\ Len(sent) < MaxSent
  /\ m.kind \in Request => Fresh(m.id) /\ \A n \in Id : n < m.id => ~Fresh(n)
  /\ sent' = Append(sent, m)
  /\ UNCHANGED <<open, read, draining, taken, initialized, flags, toolVars,
                 answers, heard, looked>>

Close ==
  /\ open
  /\ open' = FALSE
  /\ UNCHANGED <<sent, read, draining, taken, initialized, flags, toolVars,
                 answers, heard, looked>>

-----------------------------------------------------------------------------
(* The reader thread.                                                      *)

\* Mutant: only a flag that is in the registry is raised.
Raised_InFlight(id) ==
  IF flags[Key(id)] = "none" THEN flags ELSE [flags EXCEPT ![Key(id)] = "set"]

\* cancel_request: a flag that is not there is put there, raised.
Raised(id) == [flags EXCEPT ![Key(id)] = "set"]

\* Mutant: a line that is no JSON ends the reader thread.
Read_Stops ==
  /\ draining /\ read < Len(sent)
  /\ read' = read + 1
  /\ draining' = (sent[read + 1].kind # "garbled")
  /\ flags' = IF sent[read + 1].kind = "cancel" THEN Raised(sent[read + 1].id) ELSE flags
  /\ UNCHANGED <<sent, open, taken, initialized, toolVars, answers, heard, looked>>

\* Read one line; a cancellation raises the flag before the message is queued.
Read ==
  /\ draining /\ read < Len(sent)
  /\ read' = read + 1
  /\ flags' = IF sent[read + 1].kind = "cancel" THEN Raised(sent[read + 1].id) ELSE flags
  /\ UNCHANGED <<sent, open, draining, taken, initialized, toolVars, answers, heard, looked>>

\* The end of stdin.  The reader thread ends, which closes the channel.
ReadEnd ==
  /\ draining /\ ~open /\ read = Len(sent)
  /\ draining' = FALSE
  /\ UNCHANGED <<sent, open, read, taken, initialized, flags, toolVars, answers, heard, looked>>

-----------------------------------------------------------------------------
(* The main thread, between two messages.                                  *)

Answer(at, what) ==
  answers' = Append(answers, [at |-> at, what |-> what, heard |-> heard', looked |-> looked'])

\* Mutant: a message is taken that the reader thread has not queued.
Take_Unread == pc = "idle" /\ taken < Len(sent) /\ taken' = taken + 1

Take == pc = "idle" /\ taken < read /\ taken' = taken + 1
Takes(kinds) == Take /\ sent[taken'].kind \in kinds

\* An answer that is given at once.
AtOnce(what) ==
  /\ heard' = read /\ looked' = read
  /\ Answer(taken', what)
  /\ UNCHANGED <<sent, open, read, draining, flags, toolVars>>

\* A line that could not be parsed is answered without an id.
TakeGarbled == Takes({"garbled"}) /\ AtOnce("error") /\ UNCHANGED initialized

\* Mutant: the notification is answered.
TakeCancel_Answered == Takes({"cancel"}) /\ AtOnce("ok") /\ UNCHANGED initialized

\* handle_notification raises the flag again.
TakeCancel ==
  /\ Takes({"cancel"})
  /\ flags' = Raised(sent[taken'].id)
  /\ UNCHANGED <<sent, open, read, draining, initialized, toolVars, answers, heard, looked>>

\* A request that is no tool call.
TakePlain == Takes({"plain"}) /\ (AtOnce("ok") \/ AtOnce("error")) /\ UNCHANGED initialized
TakeInitialize == Takes({"initialize"}) /\ AtOnce("ok") /\ initialized' = TRUE

\* A tool call that comes before initialize is refused.
TakeTooEarly ==
  Takes(Tool) /\ ~initialized /\ AtOnce("error") /\ UNCHANGED initialized

\* take_flag: the one that is there, or a new one.
TakeCall ==
  /\ Takes(Tool) /\ initialized
  /\ pc' = "begin"
  /\ flags' = [flags EXCEPT ![Key(sent[taken'].id)] = IF @ = "none" THEN "clear" ELSE @]
  /\ heard' = read /\ looked' = read
  /\ UNCHANGED <<sent, open, read, draining, initialized, told, stored, answers>>

\* The channel is closed and empty: serve returns.
End ==
  /\ pc = "idle" /\ ~draining /\ taken = read
  /\ pc' = "ended"
  /\ UNCHANGED <<sent, open, read, draining, taken, initialized, flags, told,
                 stored, answers, heard, looked>>

-----------------------------------------------------------------------------
(* The main thread, in a tool call: the call is message number taken.      *)

InCall == pc \notin {"idle", "ended"}
Kind == sent[taken].kind
Cancelled == flags[Key(sent[taken].id)] = "set"

\* Mutant: an answered call leaves its flag in the registry.
Released_Not == flags

\* release_flag.
Released == [flags EXCEPT ![Key(sent[taken].id)] = "none"]

\* A tool call returns and what it returned is written out.  Dropping the
\* CancelBridge stops the watcher thread.
Finish(what) ==
  /\ pc' = "idle" /\ told' = FALSE
  /\ flags' = Released
  /\ UNCHANGED <<heard, looked>>
  /\ Answer(taken, what)
  /\ UNCHANGED <<sent, open, read, draining, taken, initialized>>

Puts(what) == stored' = stored \cup {[at |-> taken, what |-> what]}

\* The call goes on.
Goes(to) ==
  /\ pc' = to
  /\ UNCHANGED <<sent, open, read, draining, taken, initialized, flags, answers, heard>>

\* Arguments that do not fit the schema, an id that does not resolve, an engine
\* or a bridge that fails.
Fails == InCall /\ Finish("error") /\ UNCHANGED stored

Quick == pc = "begin" /\ Kind = "quick" /\ Finish("ok") /\ UNCHANGED stored

\* Where a tool calls check_cancelled, and where it goes on from there.
Checkpoint ==
  {<<"begin", "analyze", "analysing">>, <<"begin", "generate", "reading">>,
   <<"begin", "voice", "first">>, <<"between", "voice", "last">>,
   <<"made", "generate", "delivering">>}

\* check_cancelled.
Look ==
  \E c \in Checkpoint :
    /\ pc = c[1] /\ Kind = c[2]
    /\ IF Cancelled THEN Finish("cancelled") ELSE Goes(c[3]) /\ looked' = read /\ UNCHANGED told
    /\ UNCHANGED stored

Analyze == pc = "analysing" /\ Puts("analysis") /\ Finish("ok")

\* generate stores an analysis if there is none that it can use.
Prepare ==
  /\ pc = "reading"
  /\ Puts("analysis") \/ UNCHANGED stored
  /\ Goes("prepared") /\ UNCHANGED <<told, looked>>

\* CancelBridge::new.
StartEngine ==
  /\ pc = "prepared"
  /\ told' = Cancelled
  /\ Goes("engine") /\ UNCHANGED <<stored, looked>>

\* The watcher thread.
Watch ==
  /\ pc = "engine" /\ Cancelled /\ ~told
  /\ told' = TRUE
  /\ Goes("engine") /\ UNCHANGED <<stored, looked>>

\* The engine looks at its flag in its loops.
EngineStops == pc = "engine" /\ told /\ Finish("cancelled") /\ UNCHANGED stored

\* Mutant: the candidates are stored before the last look.
EngineDone_Stores ==
  pc = "engine" /\ Puts("candidates") /\ Goes("made") /\ UNCHANGED <<told, looked>>

EngineDone == pc = "engine" /\ Goes("made") /\ UNCHANGED <<stored, told, looked>>

Deliver == pc = "delivering" /\ Puts("candidates") /\ Finish("ok")

\* voicing.generate stores each variant when it is made.
FirstVariant ==
  pc = "first" /\ Puts("variant") /\ Goes("between") /\ UNCHANGED <<told, looked>>

LastVariant == pc = "last" /\ Puts("variants") /\ Finish("ok")

-----------------------------------------------------------------------------
Client == (\E m \in Message : Send(m)) \/ Close
Reader == Read \/ ReadEnd
Main ==
  \/ TakeGarbled \/ TakeCancel \/ TakePlain \/ TakeInitialize
  \/ TakeTooEarly \/ TakeCall \/ End
  \/ Fails \/ Quick \/ Look \/ Analyze
  \/ Prepare \/ StartEngine \/ EngineStops \/ EngineDone \/ Deliver
  \/ FirstVariant \/ LastVariant

Next == Client \/ Reader \/ Main \/ Watch

Spec == Init /\ [][Next]_vars

\* Both threads keep running.  Nothing is assumed of the watcher or the client.
FairSpec == Spec /\ WF_vars(Reader) /\ WF_vars(Main)

-----------------------------------------------------------------------------
(* Properties.                                                             *)

What == {"ok", "error", "cancelled"}

\* The shape of every variable.
TypeOK ==
  /\ sent \in Seq(Message)
  /\ open \in BOOLEAN /\ draining \in BOOLEAN /\ initialized \in BOOLEAN
  /\ read \in 0 .. Len(sent)
  /\ taken \in 0 .. read
  /\ heard \in 0 .. read /\ looked \in 0 .. read
  /\ flags \in [Id -> {"none", "clear", "set"}]
  /\ pc \in {"idle", "begin", "analysing", "reading", "prepared", "engine", "made",
             "delivering", "first", "between", "last", "ended"}
  /\ told \in BOOLEAN
  /\ stored \subseteq [at : Nat, what : {"analysis", "candidates", "variant", "variants"}]
  /\ answers \in Seq([at : Nat, what : What, heard : Nat, looked : Nat])

\* Everything taken that wants an answer has had exactly one, in the order of
\* arrival, and a notification none (serve, handle_incoming).
Answered == {answers[k].at : k \in 1 .. Len(answers)}
OneAnswerEach ==
  /\ \A j, k \in 1 .. Len(answers) : j < k => answers[j].at < answers[k].at
  /\ Answered = {i \in 1 .. taken : Answerable(sent[i]) /\ ~(InCall /\ i = taken)}

Asked(id, n) == \E j \in 1 .. n : j \in 1 .. Len(sent) /\ sent[j] = Cancel(id)

\* CANCELLED is the answer only to a request whose cancellation has been read.
OnlyIfAsked ==
  \A k \in 1 .. Len(answers) :
    answers[k].what = "cancelled" => Asked(sent[answers[k].at].id, read)

\* A call that succeeds had not been cancelled when it last looked, and one that
\* was cancelled before it began, or before its request was even read, has stored
\* nothing (cancel_request: "a cancellation that overtakes its request must still
\* be honoured when the request arrives").
Honoured ==
  \A k \in 1 .. Len(answers) :
    LET a == answers[k] IN
    sent[a.at].kind \in Tool \ {"quick"} =>
      /\ a.what = "ok" => ~Asked(sent[a.at].id, a.looked)
      /\ Asked(sent[a.at].id, a.heard) => \A s \in stored : s.at # a.at

\* A flag outlives its call only if a cancellation of it was read: the registry
\* does not grow with the calls (release_flag), as it does with the
\* cancellations that handle_notification sees when the call is over.
RegistryClean ==
  \A id \in Id :
    flags[id] # "none" => (InCall /\ sent[taken].id = id) \/ Asked(id, read)

\* A generation that ends cancelled has stored none of its candidates, whenever
\* the cancellation came.
NothingHalfGenerated ==
  \A k \in 1 .. Len(answers) :
    answers[k].what = "cancelled" =>
      [at |-> answers[k].at, what |-> "candidates"] \notin stored

\* A client that waits for an answer is never left hanging: whatever was sent is
\* answered, whether it is cancelled or stdin ends.
AnswerArrives ==
  \A i \in 1 .. MaxSent :
    (i \in 1 .. Len(sent) /\ Answerable(sent[i])) ~> i \in Answered

\* The end of stdin is the shutdown signal; the queue is drained first.
ShutsDown == ~open ~> (pc = "ended" /\ taken = Len(sent))

\* MCP_API.md: "a cancelled call leaves the session store untouched".
CancelledStoresNothing ==
  \A k \in 1 .. Len(answers) :
    answers[k].what = "cancelled" => \A s \in stored : s.at # answers[k].at
=============================================================================
