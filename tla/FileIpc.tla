------------------------------ MODULE FileIpc ------------------------------
(***************************************************************************)
(* The request/result exchange between the MCP server                      *)
(* (crates/reaper-ipc/src/client.rs) and the Lua bridge                    *)
(* (reaper/lib/bridge.lua).  A call is a file that is renamed from         *)
(* commands/ to processing/ by the bridge that takes it, and from there to *)
(* failed/ or to nothing; its answer is a file in results/.  Neither side  *)
(* holds a lock on a file: each looks, then acts on a directory that the   *)
(* other side, a second bridge or the garbage collector changes meanwhile. *)
(*                                                                         *)
(* A request stands for its files, so a directory is a set of requests.    *)
(* Times are ages in seconds that saturate above the last threshold.       *)
(***************************************************************************)
EXTENDS Naturals, Sequences, FiniteSets

CONSTANTS
  Request,          \* request ids, each minted by one call
  Bridge,           \* REAPER processes that may run the bridge script
  NoRequest,
  Timeout,          \* IpcConfig.request_timeout
  Lag,              \* longest time a caller takes to act on its deadline
  Skew,             \* LIMITS.CLOCK_SKEW_SECONDS
  StaleProcessing, StaleCommand, StaleResult, StaleFailed,  \* LIMITS.STALE_*
  SeenCap,          \* LIMITS.SEEN_REQUEST_CAPACITY
  Halts,            \* may a bridge stop or die?
  Replays,          \* may a copy of a command file reappear in commands/?
  DiskFails         \* may a file of results/ fail to be written or read?

ASSUME IpcAssumption ==
  /\ NoRequest \notin Request
  /\ Timeout \in Nat /\ Lag \in Nat /\ Skew \in Nat /\ SeenCap \in Nat
  /\ StaleProcessing \in Nat /\ StaleCommand \in Nat
  /\ StaleResult \in Nat /\ StaleFailed \in Nat
  /\ Timeout + Lag <= StaleProcessing /\ Timeout + Skew <= StaleProcessing
  /\ StaleProcessing <= StaleCommand /\ StaleCommand <= StaleResult
  /\ StaleResult <= StaleFailed
  /\ Halts \in BOOLEAN /\ Replays \in BOOLEAN /\ DiskFails \in BOOLEAN

VARIABLES
  call,        \* where the caller of each request is
  reply,       \* what the call returns, once that is decided
  command,     \* files of commands/
  processing,  \* files of processing/
  failed,      \* files of failed/
  result,      \* files of results/: what each says, and its age
  todo,        \* names a bridge has listed and not tried yet (poll_once)
  work,        \* the request a bridge is processing, and how far it is
  seen,        \* the replay guard of a running bridge (ring_set)
  up,          \* does the bridge run?
  executed,    \* how often a request was dispatched (capped at 2)
  alone,       \* history: no bridge was started while another one ran
  age          \* seconds since a request was published

clientVars == <<call, reply>>
fileVars   == <<command, processing, failed, result>>
bridgeVars == <<todo, work, seen, up, executed, alone>>
vars == <<clientVars, fileVars, bridgeVars, age>>

-----------------------------------------------------------------------------
(* A caller is                                                             *)
(*   new        before call                                                *)
(*   waiting    in the loop of await_result     last: at its last look     *)
(*   deleting   the result is read and about to be deleted                 *)
(*   withdraw   it gives up and is about to remove its command             *)
(*   done       the call has returned           crashed: with its process  *)
Waiting(r) == call[r] \in {"waiting", "last"}
Active(r)  == call[r] \in {"waiting", "last", "deleting", "withdraw"}
Phase      == {"new", "waiting", "last", "deleting", "withdraw", "done", "crashed"}

Outcome == {"none", "ok", "error", "timeout", "cancelled", "refused"}

\* A bridge is idle between two files, has claimed a file, has its verdict
\* (executed), or has tried to write its result (replied).
Idle  == [at |-> "idle", req |-> NoRequest, verdict |-> "none"]
Stage == {"idle", "claimed", "executed", "replied"}

Published(r) == call[r] # "new" /\ reply[r] # "refused"

NoFile == [says |-> "none", age |-> 0]
Answered(r) == result[r] # NoFile

LastAge   == StaleFailed + 1
Older(a)  == IF a < LastAge THEN a + 1 ELSE a

Init ==
  /\ call = [r \in Request |-> "new"]
  /\ reply = [r \in Request |-> "none"]
  /\ command = {} /\ processing = {} /\ failed = {}
  /\ result = [r \in Request |-> NoFile]
  /\ todo = [b \in Bridge |-> {}]
  /\ work = [b \in Bridge |-> Idle]
  /\ seen = [b \in Bridge |-> <<>>]
  /\ up = [b \in Bridge |-> FALSE]
  /\ executed = [r \in Request |-> 0]
  /\ alone = TRUE
  /\ age = [r \in Request |-> 0]

CallGoes(r, phase, outcome) ==
  /\ call' = [call EXCEPT ![r] = phase]
  /\ reply' = [reply EXCEPT ![r] = outcome]

-----------------------------------------------------------------------------
(* The caller.                                                             *)

\* call returns before it has written anything: cancelled, no live heartbeat
\* (module BridgeLock), request too large, publish_command failed.
Refuse(r) ==
  /\ call[r] = "new"
  /\ CallGoes(r, "done", "refused")
  /\ UNCHANGED <<fileVars, bridgeVars, age>>

\* call, up to the rename that publishes the command file.
Publish(r) ==
  /\ call[r] = "new"
  /\ CallGoes(r, "waiting", "none")
  /\ command' = command \cup {r}
  /\ UNCHANGED <<processing, failed, result, bridgeVars, age>>

\* take_result: the file is there and is read; its content is the outcome.
Collect(r) ==
  /\ Waiting(r) /\ Answered(r)
  /\ CallGoes(r, "deleting", result[r].says)
  /\ UNCHANGED <<fileVars, bridgeVars, age>>

\* ... it is there and cannot be read: await_result returns at once, through ?.
CollectFails(r) ==
  /\ DiskFails
  /\ Waiting(r) /\ Answered(r)
  /\ CallGoes(r, "done", "error")
  /\ UNCHANGED <<fileVars, bridgeVars, age>>

\* ... it has been read and is deleted, whatever it said.
DeleteResult(r) ==
  /\ call[r] = "deleting"
  /\ CallGoes(r, "done", reply[r])
  /\ result' = [result EXCEPT ![r] = NoFile]
  /\ UNCHANGED <<command, processing, failed, bridgeVars, age>>

\* No result yet, and the cancel flag is up.
Cancelled(r) ==
  /\ call[r] = "waiting" /\ ~Answered(r)
  /\ CallGoes(r, "withdraw", "cancelled")
  /\ UNCHANGED <<fileVars, bridgeVars, age>>

\* No result yet, and the deadline has passed: one last look ...
DeadlinePassed(r) ==
  /\ call[r] = "waiting" /\ ~Answered(r) /\ age[r] >= Timeout
  /\ CallGoes(r, "last", "none")
  /\ UNCHANGED <<fileVars, bridgeVars, age>>

\* Mutant: after the last look the caller goes on polling.
TimedOut_LooksAgain(r) ==
  /\ call[r] = "last" /\ ~Answered(r)
  /\ CallGoes(r, "waiting", "none")
  /\ UNCHANGED <<fileVars, bridgeVars, age>>

\* ... that finds nothing either.
TimedOut(r) ==
  /\ call[r] = "last" /\ ~Answered(r)
  /\ CallGoes(r, "withdraw", "timeout")
  /\ UNCHANGED <<fileVars, bridgeVars, age>>

\* Mutant: the caller gives up without taking its command back.
Withdraw_LeavesCommand(r) ==
  /\ call[r] = "withdraw"
  /\ CallGoes(r, "done", reply[r])
  /\ UNCHANGED <<fileVars, bridgeVars, age>>

\* cleanup_unclaimed, and the return of the call.
Withdraw(r) ==
  /\ call[r] = "withdraw"
  /\ CallGoes(r, "done", reply[r])
  /\ command' = command \ {r}
  /\ UNCHANGED <<processing, failed, result, bridgeVars, age>>

\* The server process dies in the middle of the call.
ClientCrash(r) ==
  /\ Active(r)
  /\ CallGoes(r, "crashed", reply[r])
  /\ UNCHANGED <<fileVars, bridgeVars, age>>

-----------------------------------------------------------------------------
(* Files.                                                                  *)

\* realfs.rename of r's file from one directory to another.  When there is
\* nothing to rename, its fallback still removes the destination.
Into(to, from, r) == IF r \in from THEN to \cup {r} ELSE to \ {r}

\* Mutant: a file is stale as soon as its request could have timed out.
StaleIn_AtDeadline(dir, limit) == {r \in dir : age[r] >= Timeout}

\* What the garbage collector may take away.  The age it sees is the file's,
\* or the shorter time since this bridge first saw the file, so it takes any
\* part of what is over age.  A rename keeps the age of a file.
StaleIn(dir, limit) == {r \in dir : age[r] > limit}

\* Mutant: abandoned requests are removed instead of being kept in failed/.
Collected_NoQuarantine(C, P, R, F) ==
  /\ command' = command \ C
  /\ processing' = processing \ P
  /\ failed' = failed \ F
  /\ result' = [r \in Request |-> IF r \in R THEN NoFile ELSE result[r]]

\* Mutant: results nobody has collected are left behind.
Collected_KeepsResults(C, P, R, F) ==
  /\ command' = command \ C
  /\ processing' = processing \ P
  /\ failed' = (failed \cup P) \ F
  /\ UNCHANGED result

\* gc: C, P, R and F are what it finds over age in each directory.  A name it
\* moves into failed/ is only listed there afterwards.
Collected(C, P, R, F) ==
  /\ command' = command \ C
  /\ processing' = processing \ P
  /\ failed' = (failed \cup P) \ F
  /\ result' = [r \in Request |-> IF r \in R THEN NoFile ELSE result[r]]

Gc ==
  \E C \in SUBSET StaleIn(command, StaleCommand),
     P \in SUBSET StaleIn(processing, StaleProcessing),
     R \in SUBSET {r \in Request : result[r].age > StaleResult} :
    \E F \in SUBSET StaleIn(failed \cup P, StaleFailed) :
       Collected(C, P, R, F)

-----------------------------------------------------------------------------
(* The bridge.                                                             *)

\* start: a new run of the script remembers nothing; it collects garbage first.
BridgeStart(b) ==
  /\ ~up[b]
  /\ up' = [up EXCEPT ![b] = TRUE]
  /\ seen' = [seen EXCEPT ![b] = <<>>]
  /\ alone' = (alone /\ \A c \in Bridge : ~up[c])
  /\ Gc
  /\ UNCHANGED <<clientVars, todo, work, executed, age>>

\* The script stops between two files, or REAPER dies anywhere.
BridgeHalt(b) ==
  /\ Halts
  /\ up[b]
  /\ up' = [up EXCEPT ![b] = FALSE]
  /\ todo' = [todo EXCEPT ![b] = {}]
  /\ work' = [work EXCEPT ![b] = Idle]
  /\ UNCHANGED <<clientVars, fileVars, seen, executed, alone, age>>

\* poll_once lists commands/; the names are tried in any order (the code sorts
\* them), all of them (MAX_COMMANDS_PER_TICK is above the requests of a run).
List(b) ==
  /\ up[b] /\ work[b] = Idle
  /\ todo[b] = {} /\ command # {}
  /\ todo' = [todo EXCEPT ![b] = command]
  /\ UNCHANGED <<clientVars, fileVars, work, seen, up, executed, alone, age>>

\* Mutant: the outcome of the claiming rename is ignored.
Claim_Unchecked(b, r) ==
  /\ up[b] /\ work[b] = Idle
  /\ r \in todo[b]
  /\ todo' = [todo EXCEPT ![b] = @ \ {r}]
  /\ command' = command \ {r}
  /\ processing' = processing \cup {r}
  /\ work' = [work EXCEPT ![b] = [at |-> "claimed", req |-> r, verdict |-> "none"]]
  /\ UNCHANGED <<clientVars, failed, result, seen, up, executed, alone, age>>

\* process_file claims a listed file by renaming it, if it is still there.
Claim(b, r) ==
  /\ up[b] /\ work[b] = Idle
  /\ r \in todo[b]
  /\ todo' = [todo EXCEPT ![b] = @ \ {r}]
  /\ command' = command \ {r}
  /\ processing' = Into(processing, command, r)
  /\ work' = IF r \in command
             THEN [work EXCEPT ![b] = [at |-> "claimed", req |-> r, verdict |-> "none"]]
             ELSE work
  /\ UNCHANGED <<clientVars, failed, result, seen, up, executed, alone, age>>

\* Ring:add, for a key that is not there.
Remembered(b) == {seen[b][k] : k \in DOMAIN seen[b]}
Trimmed(s)    == IF Len(s) > SeenCap THEN Tail(s) ELSE s

HasVerdict(b, v) ==
  work' = [work EXCEPT ![b].at = "executed", ![b].verdict = v]

\* The claimed file cannot be read, or validate_envelope refuses it.
Refusable(b, r) ==
  \/ r \notin processing
  \/ r \in Remembered(b)
  \/ age[r] > Timeout + Skew

Reject(b) ==
  /\ work[b].at = "claimed" /\ Refusable(b, work[b].req)
  /\ HasVerdict(b, "error")
  /\ UNCHANGED <<clientVars, fileVars, todo, seen, up, executed, alone, age>>

\* Mutant: the request id is not recorded in the replay guard.
Execute_NotSeen(b) ==
  LET r == work[b].req IN
  /\ work[b].at = "claimed" /\ ~Refusable(b, r)
  /\ executed' = [executed EXCEPT ![r] = IF @ < 2 THEN @ + 1 ELSE @]
  /\ \E v \in {"ok", "error"} : HasVerdict(b, v)
  /\ UNCHANGED <<clientVars, fileVars, todo, seen, up, alone, age>>

\* It is valid: remember it, then dispatch it.  A handler that raises an error
\* is caught by dispatch, so there is always a verdict.
Execute(b) ==
  LET r == work[b].req IN
  /\ work[b].at = "claimed" /\ ~Refusable(b, r)
  /\ seen' = [seen EXCEPT ![b] = Trimmed(Append(@, r))]
  /\ executed' = [executed EXCEPT ![r] = IF @ < 2 THEN @ + 1 ELSE @]
  /\ \E v \in {"ok", "error"} : HasVerdict(b, v)
  /\ UNCHANGED <<clientVars, fileVars, todo, up, alone, age>>

\* write_result; process_file does not look at what it returns.
WriteResult(b) ==
  LET r == work[b].req IN
  /\ work[b].at = "executed"
  /\ \/ result' = [result EXCEPT ![r] = [says |-> work[b].verdict, age |-> 0]]
     \/ DiskFails /\ UNCHANGED result
  /\ work' = [work EXCEPT ![b].at = "replied"]
  /\ UNCHANGED <<clientVars, command, processing, failed, todo, seen, up, executed,
                 alone, age>>

\* Mutant: the bridge still holds the request after it is done with it.
Finish_KeepsRequest(b) ==
  LET r == work[b].req IN
  /\ work[b].at = "replied"
  /\ processing' = processing \ {r}
  /\ failed' = IF work[b].verdict = "ok" THEN failed ELSE Into(failed, processing, r)
  /\ work' = [work EXCEPT ![b].at = "idle"]
  /\ UNCHANGED <<clientVars, command, result, todo, seen, up, executed, alone, age>>

\* The end of process_file: a success is removed from processing/, anything
\* else is kept in failed/.
Finish(b) ==
  LET r == work[b].req IN
  /\ work[b].at = "replied"
  /\ processing' = processing \ {r}
  /\ failed' = IF work[b].verdict = "ok" THEN failed ELSE Into(failed, processing, r)
  /\ work' = [work EXCEPT ![b] = Idle]
  /\ UNCHANGED <<clientVars, command, result, todo, seen, up, executed, alone, age>>

\* The periodic gc of tick.
BridgeGc(b) ==
  /\ up[b] /\ work[b] = Idle /\ todo[b] = {}
  /\ Gc
  /\ UNCHANGED <<clientVars, bridgeVars, age>>

-----------------------------------------------------------------------------
\* A copy of a command file that was once published appears in commands/ (a
\* restored backup, a file synchroniser, a user).
CopyAppears(r) ==
  /\ Replays
  /\ Published(r)
  /\ r \notin command
  /\ command' = command \cup {r}
  /\ UNCHANGED <<clientVars, processing, failed, result, bridgeVars, age>>

\* A second passes.  A caller sleeps for no longer than its deadline, and needs
\* at most Lag more seconds to return.
Second ==
  /\ \A r \in Request : Active(r) => age[r] < Timeout + Lag
  /\ age' = [r \in Request |-> IF Published(r) THEN Older(age[r]) ELSE age[r]]
  /\ result' = [r \in Request |->
                  IF Answered(r) THEN [result[r] EXCEPT !.age = Older(@)] ELSE NoFile]
  /\ UNCHANGED <<clientVars, command, processing, failed, bridgeVars>>

Caller(r) ==
  \/ Collect(r) \/ CollectFails(r) \/ DeleteResult(r)
  \/ DeadlinePassed(r) \/ TimedOut(r) \/ Withdraw(r)

Process(b) == Reject(b) \/ Execute(b) \/ WriteResult(b) \/ Finish(b)

Next ==
  \/ \E r \in Request :
       \/ Refuse(r) \/ Publish(r) \/ Cancelled(r) \/ Caller(r) \/ ClientCrash(r)
       \/ CopyAppears(r)
       \/ \E b \in Bridge : Claim(b, r)
  \/ \E b \in Bridge :
       BridgeStart(b) \/ BridgeHalt(b) \/ List(b) \/ Process(b) \/ BridgeGc(b)
  \/ Second

Spec == Init /\ [][Next]_vars

\* The gc of a running bridge that, some GC_INTERVAL_SECONDS later at most,
\* sees no file of processing/, failed/ or results/ younger than it is.
BridgeGcAll(b) ==
  /\ BridgeGc(b)
  /\ StaleIn(processing', StaleProcessing) = {} /\ StaleIn(failed', StaleFailed) = {}
  /\ \A r \in Request : result'[r].age <= StaleResult

\* Threads of the server run, REAPER keeps calling a script that is up, and
\* time passes.  Nobody has to start or stop anything.
FairSpec ==
  /\ Spec
  /\ WF_vars(Second)
  /\ \A r \in Request : WF_vars(Caller(r))
  /\ \A b \in Bridge :
       /\ WF_vars(List(b)) /\ WF_vars(Process(b)) /\ WF_vars(BridgeGcAll(b))
       /\ WF_vars(\E r \in Request : Claim(b, r))

-----------------------------------------------------------------------------
(* Properties.                                                             *)

\* The shape of every variable.
TypeOK ==
  /\ call \in [Request -> Phase]
  /\ reply \in [Request -> Outcome]
  /\ command \subseteq Request /\ processing \subseteq Request /\ failed \subseteq Request
  /\ result \in [Request -> [says : {"none", "ok", "error"}, age : 0 .. LastAge]]
  /\ todo \in [Bridge -> SUBSET Request]
  /\ work \in [Bridge -> [at : Stage, req : Request \cup {NoRequest},
                          verdict : {"none", "ok", "error"}]]
  /\ \A b \in Bridge : work[b].req = NoRequest <=> work[b].at = "idle"
  /\ seen \in [Bridge -> Seq(Request)]
  /\ up \in [Bridge -> BOOLEAN]
  /\ executed \in [Request -> 0 .. 2]
  /\ alone \in BOOLEAN
  /\ age \in [Request -> 0 .. LastAge]

\* No request is dispatched twice, whatever crashes, races or times out.
AtMostOnce == \A r \in Request : executed[r] <= 1

\* As long as a caller waits, its request can be accounted for: it is on disk
\* in one of the directories, or its result is, unless it ran and its result
\* could not be written.  No collection of garbage, no crash and no race of a
\* claim with a timeout makes it disappear.  (Two bridges at once can: the
\* fallback of rename removes what the other one has claimed.)
NeverLost ==
  alone => \A r \in Request :
    Waiting(r) =>
      \/ r \in command \cup processing \cup failed
      \/ Answered(r)
      \/ DiskFails /\ executed[r] > 0

\* A request that a bridge took and did not carry out is kept in failed/ for
\* as long as failed files are kept (docs/FIRST_SESSIONS.md: "failed requests
\* are quarantined in failed/ rather than deleted"), again with one bridge at
\* a time.
FailedKept ==
  [][alone => \A r \in processing \ processing' :
       \/ r \in failed' \/ age[r] > StaleFailed
       \/ \E b \in Bridge : work[b].req = r /\ work[b].verdict = "ok"]_vars

\* Every call returns, whatever the bridges do.
CallReturns == \A r \in Request : Active(r) ~> ~Active(r)

\* If a bridge stays up, every file of a request is gone in the end: late
\* results, orphans of a crash, commands of a server that died, quarantine.
FilesGo ==
  (\E b \in Bridge : <>[]up[b]) =>
    \A r \in Request :
      <>[](r \notin command \cup processing \cup failed /\ ~Answered(r))

\* The exchange keeps the promise of AtMostOnceRpc.
Taken(r) == \E b \in Bridge : work[b].at = "claimed" /\ work[b].req = r

Place ==
  [r \in Request |->
     IF ~Published(r) THEN "unsent"
     ELSE IF executed[r] > 0 THEN "ran"
     ELSE IF r \in command THEN "sent"
     ELSE IF Taken(r) THEN "taken" ELSE "void"]

Told ==
  [r \in Request |->
     IF call[r] = "done" THEN reply[r]
     ELSE IF call[r] = "crashed" THEN "lost" ELSE "none"]

Rpc == INSTANCE AtMostOnceRpc WITH place <- Place, answer <- Told

Promise == Rpc!Spec

-----------------------------------------------------------------------------
(* Why the promise is kept when no copy of a command appears: the          *)
(* strengthening of AtMostOnce that every step preserves.                  *)

\* A request is in one place at a time until it runs: in commands/, or claimed
\* by one bridge.
OnePlace ==
  /\ \A r \in command : executed[r] = 0 /\ Published(r) /\ ~Taken(r)
  /\ \A b \in Bridge : work[b].at = "claimed" =>
       executed[work[b].req] = 0 /\ Published(work[b].req)
  /\ \A b, c \in Bridge :
       work[b].at = "claimed" /\ work[c].at = "claimed" /\ work[b].req = work[c].req
         => b = c

\* What a caller is told fits the place it is at.
ReplyFits ==
  \A r \in Request :
    /\ call[r] \in {"new", "waiting", "last"} => reply[r] = "none"
    /\ call[r] = "deleting" => reply[r] \in {"ok", "error"}
    /\ call[r] = "withdraw" => reply[r] \in {"timeout", "cancelled"}
    /\ reply[r] = "refused" => call[r] = "done"
    /\ call[r] = "done" => reply[r] # "none"

\* A success, in memory, on disk or told, is the success of a request that ran.
OkRan ==
  /\ \A r \in Request :
       /\ executed[r] <= 1
       /\ executed[r] > 0 => Published(r)
       /\ result[r].says = "ok" \/ reply[r] = "ok" => executed[r] > 0
       /\ result[r].says = "none" => result[r] = NoFile
  /\ \A b \in Bridge :
       /\ work[b].at = "executed" => work[b].verdict \in {"ok", "error"}
       /\ work[b].verdict = "ok" => work[b].at # "idle" /\ executed[work[b].req] > 0

ExchangeInv == OnePlace /\ ReplyFits /\ OkRan
=============================================================================
