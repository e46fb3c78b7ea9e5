--------------------------- MODULE FileIpcProofs ---------------------------
(***************************************************************************)
(* Proofs about FileIpc, for any number of callers and bridges: every      *)
(* variable keeps its shape; as long as no copy of a command file appears, *)
(* no request is dispatched twice; and the exchange implements the         *)
(* abstract AtMostOnceRpc.  Crashes, timeouts, cancellations, garbage      *)
(* collection, failing disks and rival bridges are all allowed.  As long   *)
(* as one bridge runs at a time, no request is lost while its caller       *)
(* waits, and what failed is kept.                                         *)
(***************************************************************************)
EXTENDS FileIpc, SequenceTheorems, TLAPS

-----------------------------------------------------------------------------
(* Types.                                                                  *)

\* The replay guard of a bridge holds request ids.
LEMMA GuardHoldsRequests ==
  ASSUME NEW s \in Seq(Request), NEW r \in Request
  PROVE  Trimmed(Append(s, r)) \in Seq(Request)
<1>1. Append(s, r) \in Seq(Request) /\ Append(s, r) # <<>>
  BY AppendProperties
<1>2. Tail(Append(s, r)) \in Seq(Request)
  BY <1>1, HeadTailProperties
<1> QED BY <1>1, <1>2 DEF Trimmed

\* Ages stay within their bound.
LEMMA OlderInRange ==
  ASSUME NEW a \in 0 .. LastAge
  PROVE  Older(a) \in 0 .. LastAge
BY IpcAssumption DEF Older, LastAge

\* Garbage collection keeps the shape of the directories.
LEMMA CollectedTypes ==
  ASSUME TypeOK, Gc
  PROVE  /\ command' \subseteq Request /\ processing' \subseteq Request
         /\ failed' \subseteq Request
         /\ result' \in [Request -> [says : {"none", "ok", "error"}, age : 0 .. LastAge]]
<1>1. NoFile \in [says : {"none", "ok", "error"}, age : 0 .. LastAge]
  BY IpcAssumption DEF NoFile, LastAge
<1> QED BY <1>1 DEF TypeOK, Gc, Collected, StaleIn

\* A verdict keeps the shape of what the bridges work on.
LEMMA VerdictTypes ==
  ASSUME TypeOK, NEW b \in Bridge, NEW v \in {"ok", "error"},
         work[b].at = "claimed", HasVerdict(b, v)
  PROVE  /\ work' \in [Bridge -> [at : Stage, req : Request \cup {NoRequest},
                                  verdict : {"none", "ok", "error"}]]
         /\ \A c \in Bridge : work'[c].req = NoRequest <=> work'[c].at = "idle"
<1>1. /\ work \in [Bridge -> [at : Stage, req : Request \cup {NoRequest},
                              verdict : {"none", "ok", "error"}]]
      /\ \A c \in Bridge : work[c].req = NoRequest <=> work[c].at = "idle"
  BY DEF TypeOK
<1>2. PICK w : w = [work[b] EXCEPT !.at = "executed", !.verdict = v]
  OBVIOUS
<1>3. work' = [work EXCEPT ![b] = w]
  BY <1>1, <1>2 DEF HasVerdict
<1>4. w \in [at : Stage, req : Request \cup {NoRequest}, verdict : {"none", "ok", "error"}]
  BY <1>1, <1>2 DEF Stage
<1>5. w.req = NoRequest <=> w.at = "idle"
  BY <1>1, <1>2 DEF Stage
<1> QED BY <1>1, <1>3, <1>4, <1>5

\* Every step keeps the shape of every variable.
LEMMA TypeStep == TypeOK /\ [Next]_vars => TypeOK'
<1> SUFFICES ASSUME TypeOK, [Next]_vars PROVE TypeOK'
  OBVIOUS
<1> USE DEF clientVars, fileVars, bridgeVars, vars, Active, Waiting
<1>0. /\ NoFile \in [says : {"none", "ok", "error"}, age : 0 .. LastAge]
      /\ Idle \in [at : Stage, req : Request \cup {NoRequest},
                   verdict : {"none", "ok", "error"}]
      /\ NoRequest \notin Request
  BY IpcAssumption DEF NoFile, LastAge, Idle, Stage
<1>1. ASSUME NEW r \in Request, Refuse(r) PROVE TypeOK'
  BY <1>1 DEF TypeOK, Refuse, CallGoes, Phase, Outcome
<1>2. ASSUME NEW r \in Request, Publish(r) PROVE TypeOK'
  BY <1>2 DEF TypeOK, Publish, CallGoes, Phase, Outcome
<1>3. ASSUME NEW r \in Request, Cancelled(r) PROVE TypeOK'
  BY <1>3 DEF TypeOK, Cancelled, CallGoes, Phase, Outcome
<1>4. ASSUME NEW r \in Request, Collect(r) PROVE TypeOK'
  BY <1>4 DEF TypeOK, Collect, CallGoes, Phase, Outcome
<1>5. ASSUME NEW r \in Request, CollectFails(r) PROVE TypeOK'
  BY <1>5 DEF TypeOK, CollectFails, CallGoes, Phase, Outcome
<1>6. ASSUME NEW r \in Request, DeleteResult(r) PROVE TypeOK'
  BY <1>0, <1>6 DEF TypeOK, DeleteResult, CallGoes, Phase, Outcome
<1>7. ASSUME NEW r \in Request, DeadlinePassed(r) PROVE TypeOK'
  BY <1>7 DEF TypeOK, DeadlinePassed, CallGoes, Phase, Outcome
<1>8. ASSUME NEW r \in Request, TimedOut(r) PROVE TypeOK'
  BY <1>8 DEF TypeOK, TimedOut, CallGoes, Phase, Outcome
<1>9. ASSUME NEW r \in Request, Withdraw(r) PROVE TypeOK'
  BY <1>9 DEF TypeOK, Withdraw, CallGoes, Phase, Outcome
<1>10. ASSUME NEW r \in Request, ClientCrash(r) PROVE TypeOK'
  BY <1>10 DEF TypeOK, ClientCrash, CallGoes, Phase, Outcome
<1>11. ASSUME NEW r \in Request, CopyAppears(r) PROVE TypeOK'
  BY <1>11 DEF TypeOK, CopyAppears
<1>12. ASSUME NEW r \in Request, NEW b \in Bridge, Claim(b, r) PROVE TypeOK'
  <2> DEFINE New == [at |-> "claimed", req |-> r, verdict |-> "none"]
  <2>1. New \in [at : Stage, req : Request \cup {NoRequest},
                 verdict : {"none", "ok", "error"}]
    BY DEF Stage
  <2>2. work' \in [Bridge -> [at : Stage, req : Request \cup {NoRequest},
                              verdict : {"none", "ok", "error"}]]
    BY <1>12, <2>1 DEF TypeOK, Claim
  <2>3. \A c \in Bridge : work'[c].req = NoRequest <=> work'[c].at = "idle"
    BY <1>0, <1>12 DEF TypeOK, Claim
  <2> HIDE DEF New
  <2> QED BY <1>12, <2>2, <2>3 DEF TypeOK, Claim, Into
<1>13. ASSUME NEW b \in Bridge, BridgeStart(b) PROVE TypeOK'
  <2>1. <<>> \in Seq(Request)
    OBVIOUS
  <2> QED BY <1>13, <2>1, CollectedTypes DEF TypeOK, BridgeStart
<1>14. ASSUME NEW b \in Bridge, BridgeHalt(b) PROVE TypeOK'
  BY <1>0, <1>14 DEF TypeOK, BridgeHalt, Idle
<1>15. ASSUME NEW b \in Bridge, List(b) PROVE TypeOK'
  BY <1>15 DEF TypeOK, List
<1>16. ASSUME NEW b \in Bridge, Reject(b) PROVE TypeOK'
  <2>1. HasVerdict(b, "error") /\ work[b].at = "claimed"
    BY <1>16 DEF Reject
  <2> QED BY <1>16, <2>1, VerdictTypes DEF TypeOK, Reject
<1>17. ASSUME NEW b \in Bridge, Execute(b) PROVE TypeOK'
  <2>1. work[b].req \in Request
    BY <1>17 DEF TypeOK, Execute
  <2>2. seen' \in [Bridge -> Seq(Request)]
    <3>1. seen[b] \in Seq(Request)
      BY DEF TypeOK
    <3>2. Trimmed(Append(seen[b], work[b].req)) \in Seq(Request)
      BY <2>1, <3>1, GuardHoldsRequests
    <3> QED BY <1>17, <3>2 DEF TypeOK, Execute
  <2>3. executed' \in [Request -> 0 .. 2]
    <3>1. \A n \in 0 .. 2 : (IF n < 2 THEN n + 1 ELSE n) \in 0 .. 2
      OBVIOUS
    <3>2. executed[work[b].req] \in 0 .. 2
      BY <2>1 DEF TypeOK
    <3> QED BY <1>17, <2>1, <3>1, <3>2 DEF TypeOK, Execute
  <2>4. /\ work' \in [Bridge -> [at : Stage, req : Request \cup {NoRequest},
                                 verdict : {"none", "ok", "error"}]]
        /\ \A c \in Bridge : work'[c].req = NoRequest <=> work'[c].at = "idle"
    <3>1. PICK v \in {"ok", "error"} : HasVerdict(b, v)
      BY <1>17 DEF Execute
    <3> QED BY <1>17, <3>1, VerdictTypes DEF Execute
  <2> QED BY <1>17, <2>2, <2>3, <2>4 DEF TypeOK, Execute
<1>18. ASSUME NEW b \in Bridge, WriteResult(b) PROVE TypeOK'
  <2>1. /\ work' \in [Bridge -> [at : Stage, req : Request \cup {NoRequest},
                                 verdict : {"none", "ok", "error"}]]
        /\ \A c \in Bridge : work'[c].req = NoRequest <=> work'[c].at = "idle"
    BY <1>18 DEF TypeOK, WriteResult, Stage
  <2>2. [says |-> work[b].verdict, age |-> 0]
          \in [says : {"none", "ok", "error"}, age : 0 .. LastAge]
    BY <1>18, IpcAssumption DEF TypeOK, LastAge
  <2>3. result' \in [Request -> [says : {"none", "ok", "error"}, age : 0 .. LastAge]]
    BY <1>18, <2>2 DEF TypeOK, WriteResult
  <2> QED BY <1>18, <2>1, <2>3 DEF TypeOK, WriteResult
<1>19. ASSUME NEW b \in Bridge, Finish(b) PROVE TypeOK'
  BY <1>0, <1>19 DEF TypeOK, Finish, Into, Idle
<1>20. ASSUME NEW b \in Bridge, BridgeGc(b) PROVE TypeOK'
  BY <1>20, CollectedTypes DEF TypeOK, BridgeGc
<1>21. ASSUME Second PROVE TypeOK'
  <2>1. age' \in [Request -> 0 .. LastAge]
    BY <1>21, OlderInRange DEF TypeOK, Second
  <2>2. result' \in [Request -> [says : {"none", "ok", "error"}, age : 0 .. LastAge]]
    BY <1>0, <1>21, OlderInRange DEF TypeOK, Second
  <2> QED BY <1>21, <2>1, <2>2 DEF TypeOK, Second
<1>22. CASE UNCHANGED vars
  BY <1>22 DEF TypeOK
<1> QED
  BY <1>1, <1>2, <1>3, <1>4, <1>5, <1>6, <1>7, <1>8, <1>9, <1>10, <1>11, <1>12,
     <1>13, <1>14, <1>15, <1>16, <1>17, <1>18, <1>19, <1>20, <1>21, <1>22
  DEF Next, Caller, Process

LEMMA TypeInit == Init => TypeOK
<1> SUFFICES ASSUME Init PROVE TypeOK
  OBVIOUS
<1>1. <<>> \in Seq(Request)
  OBVIOUS
<1>2. NoFile \in [says : {"none", "ok", "error"}, age : 0 .. LastAge]
  BY IpcAssumption DEF NoFile, LastAge
<1> QED BY <1>1, <1>2, IpcAssumption
  DEF Init, TypeOK, Phase, Outcome, Idle, Stage, LastAge

\* Every variable keeps its shape.
THEOREM TypeCorrect == Spec => []TypeOK
BY TypeInit, TypeStep, PTL DEF Spec

-----------------------------------------------------------------------------
(* At most one dispatch.                                                   *)

\* Garbage collection adds nothing to commands/ and no result.
LEMMA CollectedShrinks ==
  ASSUME TypeOK, Gc
  PROVE  /\ command' \subseteq command
         /\ \A r \in Request : result'[r] = result[r] \/ result'[r] = NoFile
BY DEF TypeOK, Gc, Collected

\* Every step keeps requests in one place, replies that fit, and successes of
\* requests that ran.
LEMMA ExchangeStep ==
  ASSUME ~Replays, TypeOK, ExchangeInv, Next
  PROVE  ExchangeInv'
<1> USE DEF clientVars, fileVars, bridgeVars, vars, Active, Waiting, Published, Answered,
            ExchangeInv, CallGoes, NoFile
<1>1. ASSUME NEW r \in Request, Refuse(r) PROVE ExchangeInv'
  <2> USE <1>1 DEF Refuse
  <2>1. OnePlace'
    BY DEF TypeOK, OnePlace, Taken, ReplyFits
  <2>2. ReplyFits'
    BY DEF TypeOK, ReplyFits, OkRan
  <2>3. OkRan'
    BY DEF TypeOK, OkRan, ReplyFits
  <2> QED BY <2>1, <2>2, <2>3
<1>2. ASSUME NEW r \in Request, Publish(r) PROVE ExchangeInv'
  <2> USE <1>2 DEF Publish
  <2>1. OnePlace'
    <3>1. executed[r] = 0 /\ ~Taken(r)
      <4>1. ~Published(r)
        OBVIOUS
      <4>2. executed[r] \in 0 .. 2 /\ (executed[r] > 0 => Published(r))
        BY DEF TypeOK, OkRan
      <4>3. executed[r] = 0
        BY <4>1, <4>2
      <4>4. ~Taken(r)
        BY <4>1 DEF OnePlace, Taken
      <4> QED BY <4>3, <4>4
    <3>2. \A q \in Request : Published(q) => Published(q)'
      BY DEF TypeOK, ReplyFits
    <3>3. Published(r)'
      BY DEF TypeOK
    <3>4. \A q \in Request : Taken(q)' <=> Taken(q)
      BY DEF Taken
    <3>5. \A b \in Bridge : work[b].at = "claimed" => work[b].req \in Request
      BY DEF TypeOK
    <3> HIDE DEF Published
    <3> QED BY <3>1, <3>2, <3>3, <3>4, <3>5 DEF OnePlace, TypeOK
  <2>2. ReplyFits'
    BY DEF TypeOK, ReplyFits, OkRan
  <2>3. OkRan'
    BY DEF TypeOK, OkRan, ReplyFits
  <2> QED BY <2>1, <2>2, <2>3
<1>3. ASSUME NEW r \in Request, Cancelled(r) PROVE ExchangeInv'
  <2> USE <1>3 DEF Cancelled
  <2>1. OnePlace'
    BY DEF TypeOK, OnePlace, Taken, ReplyFits
  <2>2. ReplyFits'
    BY DEF TypeOK, ReplyFits, OkRan
  <2>3. OkRan'
    BY DEF TypeOK, OkRan, ReplyFits
  <2> QED BY <2>1, <2>2, <2>3
<1>4. ASSUME NEW r \in Request, Collect(r) PROVE ExchangeInv'
  <2> USE <1>4 DEF Collect
  <2>1. OnePlace'
    <3>1. result[r].says # "refused" /\ DOMAIN call = Request /\ DOMAIN reply = Request
      BY DEF TypeOK
    <3>2. \A q \in Request : Published(q) => Published(q)'
      BY <3>1 DEF Published, CallGoes
    <3>3. UNCHANGED <<command, executed, work>> /\ \A q \in Request : Taken(q)' <=> Taken(q)
      BY DEF Taken
    <3>4. /\ command \subseteq Request
          /\ \A b \in Bridge : work[b].at = "claimed" => work[b].req \in Request
      BY DEF TypeOK
    <3> HIDE <1>4 DEF Collect
    <3> QED BY <3>2, <3>3, <3>4 DEF OnePlace
  <2>2. ReplyFits'
    <3>1. PICK o \in {"ok", "error"} : o = result[r].says
      BY DEF TypeOK, OkRan, Answered
    <3>2. /\ call' = [call EXCEPT ![r] = "deleting"]
          /\ reply' = [reply EXCEPT ![r] = o]
      BY <3>1 DEF CallGoes
    <3>3. DOMAIN call = Request /\ DOMAIN reply = Request
      BY DEF TypeOK
    <3>4. \A q \in Request : q # r => call'[q] = call[q] /\ reply'[q] = reply[q]
      BY <3>2, <3>3
    <3>5. call'[r] = "deleting" /\ reply'[r] = o
      BY <3>2, <3>3
    <3> HIDE <1>4 DEF Collect
    <3> QED BY <3>4, <3>5 DEF ReplyFits
  <2>3. OkRan'
    BY DEF TypeOK, OkRan, ReplyFits
  <2> QED BY <2>1, <2>2, <2>3
<1>5. ASSUME NEW r \in Request, CollectFails(r) PROVE ExchangeInv'
  <2> USE <1>5 DEF CollectFails
  <2>1. OnePlace'
    BY DEF TypeOK, OnePlace, Taken, ReplyFits
  <2>2. ReplyFits'
    BY DEF TypeOK, ReplyFits, OkRan
  <2>3. OkRan'
    BY DEF TypeOK, OkRan, ReplyFits
  <2> QED BY <2>1, <2>2, <2>3
<1>6. ASSUME NEW r \in Request, DeleteResult(r) PROVE ExchangeInv'
  <2> USE <1>6 DEF DeleteResult
  <2>1. OnePlace'
    BY DEF TypeOK, OnePlace, Taken, ReplyFits
  <2>2. ReplyFits'
    BY DEF TypeOK, ReplyFits, OkRan
  <2>3. OkRan'
    BY DEF TypeOK, OkRan, ReplyFits
  <2> QED BY <2>1, <2>2, <2>3
<1>7. ASSUME NEW r \in Request, DeadlinePassed(r) PROVE ExchangeInv'
  <2> USE <1>7 DEF DeadlinePassed
  <2>1. OnePlace'
    BY DEF TypeOK, OnePlace, Taken, ReplyFits
  <2>2. ReplyFits'
    BY DEF TypeOK, ReplyFits, OkRan
  <2>3. OkRan'
    BY DEF TypeOK, OkRan, ReplyFits
  <2> QED BY <2>1, <2>2, <2>3
<1>8. ASSUME NEW r \in Request, TimedOut(r) PROVE ExchangeInv'
  <2> USE <1>8 DEF TimedOut
  <2>1. OnePlace'
    BY DEF TypeOK, OnePlace, Taken, ReplyFits
  <2>2. ReplyFits'
    BY DEF TypeOK, ReplyFits, OkRan
  <2>3. OkRan'
    BY DEF TypeOK, OkRan, ReplyFits
  <2> QED BY <2>1, <2>2, <2>3
<1>9. ASSUME NEW r \in Request, Withdraw(r) PROVE ExchangeInv'
  <2> USE <1>9 DEF Withdraw
  <2>1. OnePlace'
    BY DEF TypeOK, OnePlace, Taken, ReplyFits
  <2>2. ReplyFits'
    BY DEF TypeOK, ReplyFits, OkRan
  <2>3. OkRan'
    BY DEF TypeOK, OkRan, ReplyFits
  <2> QED BY <2>1, <2>2, <2>3
<1>10. ASSUME NEW r \in Request, ClientCrash(r) PROVE ExchangeInv'
  <2> USE <1>10 DEF ClientCrash
  <2>1. OnePlace'
    BY DEF TypeOK, OnePlace, Taken, ReplyFits
  <2>2. ReplyFits'
    BY DEF TypeOK, ReplyFits, OkRan
  <2>3. OkRan'
    BY DEF TypeOK, OkRan, ReplyFits
  <2> QED BY <2>1, <2>2, <2>3
<1>11. ASSUME NEW r \in Request, CopyAppears(r) PROVE ExchangeInv'
  BY <1>11 DEF CopyAppears
<1>12. ASSUME NEW r \in Request, NEW b \in Bridge, Claim(b, r) PROVE ExchangeInv'
  <2> USE <1>12 DEF Claim
  <2>1. OnePlace'
    BY DEF TypeOK, OnePlace, OkRan, Taken, Idle
  <2>2. ReplyFits'
    BY DEF ReplyFits
  <2>3. OkRan'
    BY DEF TypeOK, OkRan, OnePlace, Idle
  <2> QED BY <2>1, <2>2, <2>3
<1>13. ASSUME NEW b \in Bridge, BridgeStart(b) PROVE ExchangeInv'
  <2> USE <1>13 DEF BridgeStart
  <2>0. /\ command' \subseteq command
        /\ \A r \in Request : result'[r] = result[r] \/ result'[r] = NoFile
    BY CollectedShrinks
  <2>1. OnePlace'
    BY <2>0 DEF TypeOK, OnePlace, Taken
  <2>2. ReplyFits'
    BY DEF ReplyFits
  <2>3. OkRan'
    BY <2>0 DEF TypeOK, OkRan
  <2> QED BY <2>1, <2>2, <2>3
<1>14. ASSUME NEW b \in Bridge, BridgeHalt(b) PROVE ExchangeInv'
  <2> USE <1>14 DEF BridgeHalt
  <2>1. OnePlace'
    BY DEF TypeOK, OnePlace, OkRan, Taken, Idle
  <2>2. ReplyFits'
    BY DEF ReplyFits
  <2>3. OkRan'
    BY DEF TypeOK, OkRan, OnePlace, Idle
  <2> QED BY <2>1, <2>2, <2>3
<1>15. ASSUME NEW b \in Bridge, List(b) PROVE ExchangeInv'
  <2> USE <1>15 DEF List
  <2>1. OnePlace'
    BY DEF TypeOK, OnePlace, OkRan, Taken, Idle
  <2>2. ReplyFits'
    BY DEF ReplyFits
  <2>3. OkRan'
    BY DEF TypeOK, OkRan, OnePlace, Idle
  <2> QED BY <2>1, <2>2, <2>3
<1>16. ASSUME NEW b \in Bridge, Reject(b) PROVE ExchangeInv'
  <2> USE <1>16 DEF Reject, HasVerdict
  <2>1. OnePlace'
    BY DEF TypeOK, OnePlace, OkRan, Taken, Idle
  <2>2. ReplyFits'
    BY DEF ReplyFits
  <2>3. OkRan'
    BY DEF TypeOK, OkRan, OnePlace, Idle
  <2> QED BY <2>1, <2>2, <2>3
<1>17. ASSUME NEW b \in Bridge, Execute(b) PROVE ExchangeInv'
  <2> USE <1>17 DEF Execute, HasVerdict
  <2>1. OnePlace'
    BY DEF TypeOK, OnePlace, OkRan, Taken, Idle
  <2>2. ReplyFits'
    BY DEF ReplyFits
  <2>3. OkRan'
    BY DEF TypeOK, OkRan, OnePlace, Idle
  <2> QED BY <2>1, <2>2, <2>3
<1>18. ASSUME NEW b \in Bridge, WriteResult(b) PROVE ExchangeInv'
  <2> USE <1>18 DEF WriteResult
  <2>1. OnePlace'
    BY DEF TypeOK, OnePlace, OkRan, Taken, Idle
  <2>2. ReplyFits'
    BY DEF ReplyFits
  <2>3. OkRan'
    <3> DEFINE q == work[b].req
               file == [says |-> work[b].verdict, age |-> 0]
    <3>1. q \in Request /\ work[b].verdict \in {"ok", "error"} /\ executed' = executed
      BY DEF TypeOK, OkRan
    <3>2. result' = result \/ result' = [result EXCEPT ![q] = file]
      OBVIOUS
    <3>3. file.says # "none" /\ (file.says = "ok" => executed[q] > 0)
      BY <3>1 DEF OkRan
    <3> HIDE DEF file, q, WriteResult
    <3>4. \A r \in Request : result'[r] = result[r] \/ (r = q /\ result'[r] = file)
      BY <3>1, <3>2 DEF TypeOK
    <3>5. \A r \in Request :
            /\ result'[r].says = "ok" \/ reply'[r] = "ok" => executed[r] > 0
            /\ result'[r].says = "none" => result'[r] = NoFile
      BY <3>3, <3>4 DEF OkRan, WriteResult
    <3>6. /\ \A c \in Bridge : work'[c].req = work[c].req
                             /\ work'[c].verdict = work[c].verdict
          /\ \A c \in Bridge : c # b => work'[c] = work[c]
          /\ work'[b].at = "replied"
      BY DEF TypeOK, WriteResult
    <3> QED BY <3>1, <3>5, <3>6 DEF TypeOK, OkRan, WriteResult
  <2> QED BY <2>1, <2>2, <2>3
<1>19. ASSUME NEW b \in Bridge, Finish(b) PROVE ExchangeInv'
  <2> USE <1>19 DEF Finish
  <2>1. OnePlace'
    BY DEF TypeOK, OnePlace, OkRan, Taken, Idle
  <2>2. ReplyFits'
    BY DEF ReplyFits
  <2>3. OkRan'
    BY DEF TypeOK, OkRan, OnePlace, Idle
  <2> QED BY <2>1, <2>2, <2>3
<1>20. ASSUME NEW b \in Bridge, BridgeGc(b) PROVE ExchangeInv'
  <2> USE <1>20 DEF BridgeGc
  <2>0. /\ command' \subseteq command
        /\ \A r \in Request : result'[r] = result[r] \/ result'[r] = NoFile
    BY CollectedShrinks
  <2>1. OnePlace'
    BY <2>0 DEF TypeOK, OnePlace, Taken
  <2>2. ReplyFits'
    BY DEF ReplyFits
  <2>3. OkRan'
    BY <2>0 DEF TypeOK, OkRan
  <2> QED BY <2>1, <2>2, <2>3
<1>21. ASSUME Second PROVE ExchangeInv'
  <2> USE <1>21 DEF Second
  <2>1. OnePlace'
    BY DEF TypeOK, OnePlace, OkRan, Taken, Idle
  <2>2. ReplyFits'
    BY DEF ReplyFits
  <2>3. OkRan'
    BY DEF TypeOK, OkRan, OnePlace, Idle
  <2> QED BY <2>1, <2>2, <2>3
<1> QED
  BY <1>1, <1>2, <1>3, <1>4, <1>5, <1>6, <1>7, <1>8, <1>9, <1>10, <1>11,
     <1>12, <1>13, <1>14, <1>15, <1>16, <1>17, <1>18, <1>19, <1>20, <1>21
  DEF Next, Caller, Process

LEMMA ExchangeInit == Init => ExchangeInv
BY DEF Init, ExchangeInv, OnePlace, ReplyFits, OkRan, Taken, Idle, NoFile, Published

LEMMA ExchangeStutter == ExchangeInv /\ UNCHANGED vars => ExchangeInv'
BY DEF vars, clientVars, fileVars, bridgeVars, ExchangeInv, OnePlace, ReplyFits, OkRan,
       Taken, Published

\* As long as no copy of a command file appears, ExchangeInv always holds.
THEOREM ExchangeCorrect == ASSUME ~Replays PROVE Spec => []ExchangeInv
<1>1. TypeOK /\ ExchangeInv /\ [Next]_vars => ExchangeInv'
  BY ExchangeStep, ExchangeStutter
<1> QED BY <1>1, ExchangeInit, TypeCorrect, PTL DEF Spec

\* No request is dispatched twice: not by one bridge, not by two that both
\* think they hold the lock, not after a crash, a timeout or a cancellation.
THEOREM DispatchedAtMostOnce == ASSUME ~Replays PROVE Spec => []AtMostOnce
<1>1. ExchangeInv => AtMostOnce
  BY DEF ExchangeInv, OkRan, AtMostOnce
<1> QED BY <1>1, ExchangeCorrect, PTL

-----------------------------------------------------------------------------
(* The exchange implements AtMostOnceRpc.                                  *)

\* A step that changes neither what a caller was told nor where a request is
\* is not seen by the abstract specification.
LEMMA Unseen ==
  ASSUME \A r \in Request :
           /\ Published(r)' <=> Published(r)
           /\ Taken(r)' <=> Taken(r)
           /\ Told'[r] = Told[r],
         UNCHANGED <<command, executed>>
  PROVE  UNCHANGED <<Place, Told>>
<1>1. Place' = Place
  BY DEF Place
<1>2. Told' = Told
  BY DEF Told
<1> QED BY <1>1, <1>2

\* Each step of the exchange is a step of AtMostOnceRpc or is not seen by it.
LEMMA PromiseStep ==
  ASSUME ~Replays, TypeOK, ExchangeInv, Next
  PROVE  [Rpc!Next]_<<Place, Told>>
<1> USE DEF clientVars, fileVars, bridgeVars, vars, Active, Waiting
<1>1. ASSUME NEW r \in Request, Refuse(r) PROVE [Rpc!Next]_<<Place, Told>>
  <2>1. Place' = Place
    BY <1>1 DEF Refuse, CallGoes, Published, Taken, Place, TypeOK, ExchangeInv, ReplyFits, OnePlace, OkRan
  <2>2. Told' = [Told EXCEPT ![r] = "refused"]
    BY <1>1 DEF Refuse, CallGoes, Told, TypeOK, ExchangeInv, ReplyFits
  <2>3. Rpc!Refuse(r)
    BY <1>1, <2>1, <2>2 DEF Refuse, Rpc!Refuse, Rpc!Goes, Place, Told, Published, TypeOK, ExchangeInv, ReplyFits, OnePlace, OkRan, Taken
  <2> QED BY <2>3 DEF Rpc!Next
<1>2. ASSUME NEW r \in Request, Publish(r) PROVE [Rpc!Next]_<<Place, Told>>
  <2>1. Place' = [Place EXCEPT ![r] = "sent"]
    BY <1>2 DEF Publish, CallGoes, Published, Taken, Place, TypeOK, ExchangeInv, ReplyFits, OnePlace, OkRan
  <2>2. Told' = Told
    BY <1>2 DEF Publish, CallGoes, Told, TypeOK, ExchangeInv, ReplyFits
  <2>3. Rpc!Send(r)
    BY <1>2, <2>1, <2>2 DEF Publish, Rpc!Send, Rpc!Goes, Place, Told, Published, TypeOK, ExchangeInv, ReplyFits, OnePlace, OkRan, Taken
  <2> QED BY <2>3 DEF Rpc!Next
<1>3. ASSUME NEW r \in Request, Cancelled(r) PROVE [Rpc!Next]_<<Place, Told>>
  <2>1. \A q \in Request : /\ Published(q)' <=> Published(q)
                           /\ Taken(q)' <=> Taken(q)
                           /\ Told'[q] = Told[q]
    BY <1>3 DEF Cancelled, CallGoes, Published, Taken, Told, TypeOK, ExchangeInv, ReplyFits
  <2> QED BY <1>3, <2>1, Unseen DEF Cancelled
<1>4. ASSUME NEW r \in Request, Collect(r) PROVE [Rpc!Next]_<<Place, Told>>
  <2>1. \A q \in Request : /\ Published(q)' <=> Published(q)
                           /\ Taken(q)' <=> Taken(q)
                           /\ Told'[q] = Told[q]
    BY <1>4 DEF Collect, CallGoes, Published, Taken, Told, TypeOK, ExchangeInv, ReplyFits
  <2> QED BY <1>4, <2>1, Unseen DEF Collect
<1>5. ASSUME NEW r \in Request, DeadlinePassed(r) PROVE [Rpc!Next]_<<Place, Told>>
  <2>1. \A q \in Request : /\ Published(q)' <=> Published(q)
                           /\ Taken(q)' <=> Taken(q)
                           /\ Told'[q] = Told[q]
    BY <1>5 DEF DeadlinePassed, CallGoes, Published, Taken, Told, TypeOK, ExchangeInv, ReplyFits
  <2> QED BY <1>5, <2>1, Unseen DEF DeadlinePassed
<1>6. ASSUME NEW r \in Request, TimedOut(r) PROVE [Rpc!Next]_<<Place, Told>>
  <2>1. \A q \in Request : /\ Published(q)' <=> Published(q)
                           /\ Taken(q)' <=> Taken(q)
                           /\ Told'[q] = Told[q]
    BY <1>6 DEF TimedOut, CallGoes, Published, Taken, Told, TypeOK, ExchangeInv, ReplyFits
  <2> QED BY <1>6, <2>1, Unseen DEF TimedOut
<1>7. ASSUME NEW r \in Request, CollectFails(r) PROVE [Rpc!Next]_<<Place, Told>>
  <2>1. Place' = Place
    BY <1>7 DEF CollectFails, CallGoes, Published, Taken, Place, TypeOK, ExchangeInv, ReplyFits, OnePlace, OkRan
  <2>2. Told' = [Told EXCEPT ![r] = "error"]
    BY <1>7 DEF CollectFails, CallGoes, Told, TypeOK, ExchangeInv, ReplyFits
  <2>3. Rpc!Return(r)
    BY <1>7, <2>1, <2>2 DEF CollectFails, Rpc!Return, Rpc!Goes, Place, Told, Published, TypeOK, ExchangeInv, ReplyFits, OnePlace, OkRan, Taken
  <2> QED BY <2>3 DEF Rpc!Next
<1>8. ASSUME NEW r \in Request, DeleteResult(r) PROVE [Rpc!Next]_<<Place, Told>>
  <2>1. Place' = Place
    BY <1>8 DEF DeleteResult, CallGoes, Published, Taken, Place, TypeOK, ExchangeInv, ReplyFits, OnePlace, OkRan
  <2>2. Told' = [Told EXCEPT ![r] = reply[r]]
    BY <1>8 DEF DeleteResult, CallGoes, Told, TypeOK, ExchangeInv, ReplyFits
  <2>3. Rpc!Return(r)
    BY <1>8, <2>1, <2>2 DEF DeleteResult, Rpc!Return, Rpc!Goes, Place, Told, Published, TypeOK, ExchangeInv, ReplyFits, OnePlace, OkRan, Taken
  <2> QED BY <2>3 DEF Rpc!Next
<1>9. ASSUME NEW r \in Request, Withdraw(r) PROVE [Rpc!Next]_<<Place, Told>>
  <2>1. Place' = [Place EXCEPT ![r] = IF @ = "sent" THEN "void" ELSE @]
    <3>1. \A q \in Request : (Published(q)' <=> Published(q)) /\ (Taken(q)' <=> Taken(q))
      BY <1>9 DEF Withdraw, CallGoes, Published, Taken, TypeOK
    <3>2. r \in command => ~Taken(r)
      BY DEF ExchangeInv, OnePlace
    <3>3. command' = command \ {r} /\ executed' = executed
      BY <1>9 DEF Withdraw
    <3> QED BY <3>1, <3>2, <3>3 DEF Place
  <2>2. Told' = [Told EXCEPT ![r] = reply[r]]
    BY <1>9 DEF Withdraw, CallGoes, Told, TypeOK, ExchangeInv, ReplyFits
  <2>3. Rpc!GiveUp(r)
    BY <1>9, <2>1, <2>2 DEF Withdraw, Rpc!GiveUp, Rpc!Goes, Place, Told, Published, TypeOK, ExchangeInv, ReplyFits, OnePlace, OkRan, Taken
  <2> QED BY <2>3 DEF Rpc!Next
<1>10. ASSUME NEW r \in Request, ClientCrash(r) PROVE [Rpc!Next]_<<Place, Told>>
  <2>1. Place' = Place
    BY <1>10 DEF ClientCrash, CallGoes, Published, Taken, Place, TypeOK, ExchangeInv, ReplyFits, OnePlace, OkRan
  <2>2. Told' = [Told EXCEPT ![r] = "lost"]
    BY <1>10 DEF ClientCrash, CallGoes, Told, TypeOK, ExchangeInv, ReplyFits
  <2>3. Rpc!Lose(r)
    BY <1>10, <2>1, <2>2 DEF ClientCrash, Rpc!Lose, Rpc!Goes, Place, Told, Published, TypeOK, ExchangeInv, ReplyFits, OnePlace, OkRan, Taken
  <2> QED BY <2>3 DEF Rpc!Next
<1>11. ASSUME NEW r \in Request, CopyAppears(r) PROVE [Rpc!Next]_<<Place, Told>>
  BY <1>11 DEF CopyAppears
<1>12. ASSUME NEW r \in Request, NEW b \in Bridge, Claim(b, r), r \in command PROVE [Rpc!Next]_<<Place, Told>>
  <2>1. Place' = [Place EXCEPT ![r] = "taken"]
    <3>1. work[b] = Idle /\ work'[b].at = "claimed" /\ work'[b].req = r
      BY <1>12 DEF Claim, TypeOK
    <3>2. \A c \in Bridge : c # b => work'[c] = work[c]
      BY <1>12 DEF Claim, TypeOK
    <3>3. \A q \in Request : /\ Published(q)' <=> Published(q)
                             /\ q # r => (Taken(q)' <=> Taken(q))
      BY <1>12, <3>1, <3>2 DEF Claim, Published, Taken, Idle
    <3>4. Taken(r)' /\ Published(r) /\ executed[r] = 0
      BY <1>12, <3>1 DEF ExchangeInv, OnePlace, Taken
    <3>5. command' = command \ {r} /\ executed' = executed
      BY <1>12 DEF Claim
    <3>6. Place'[r] = "taken"
      BY <3>3, <3>4, <3>5 DEF Place
    <3>7. \A q \in Request : q # r => Place'[q] = Place[q]
      BY <3>3, <3>5 DEF Place
    <3>8. /\ Place = [q \in Request |-> Place[q]]
          /\ Place' = [q \in Request |-> Place'[q]]
      BY DEF Place
    <3> QED BY <3>6, <3>7, <3>8
  <2>2. Told' = Told
    BY <1>12 DEF Claim, CallGoes, Told, TypeOK, ExchangeInv, ReplyFits
  <2>3. Rpc!Take(r)
    BY <1>12, <2>1, <2>2 DEF Claim, Rpc!Take, Rpc!Goes, Place, Told, Published, TypeOK, ExchangeInv, ReplyFits, OnePlace, OkRan, Taken
  <2> QED BY <2>3 DEF Rpc!Next
<1>13. ASSUME NEW r \in Request, NEW b \in Bridge, Claim(b, r), r \notin command PROVE [Rpc!Next]_<<Place, Told>>
  <2>1. \A q \in Request : /\ Published(q)' <=> Published(q)
                           /\ Taken(q)' <=> Taken(q)
                           /\ Told'[q] = Told[q]
    BY <1>13 DEF Claim, CallGoes, Published, Taken, Told, TypeOK, ExchangeInv, ReplyFits
  <2> QED
    <3>1. UNCHANGED <<command, executed>>
      BY <1>13 DEF Claim
    <3> QED BY <2>1, <3>1, Unseen
<1>14. ASSUME NEW b \in Bridge, BridgeStart(b) PROVE [Rpc!Next]_<<Place, Told>>
  <2> DEFINE S == command \ command'
  <2>1. command' \subseteq command
    BY <1>14, CollectedShrinks DEF BridgeStart
  <2>2. \A q \in Request : Published(q)' = Published(q) /\ Taken(q)' = Taken(q)
    BY <1>14 DEF BridgeStart, Published, Taken
  <2>3. \A q \in S : Place[q] = "sent" /\ ~Taken(q)
    BY DEF TypeOK, ExchangeInv, OnePlace, Place
  <2>4. Place' = [q \in Request |-> IF q \in S THEN "void" ELSE Place[q]]
    BY <1>14, <2>1, <2>2, <2>3 DEF BridgeStart, Place, ExchangeInv, OnePlace
  <2>5. Told' = Told
    BY <1>14 DEF BridgeStart, Told
  <2>6. S \in SUBSET Request
    BY DEF TypeOK
  <2>7. Rpc!Drop(S)
    BY <2>3, <2>4, <2>5 DEF Rpc!Drop
  <2> QED BY <2>6, <2>7 DEF Rpc!Next
<1>15. ASSUME NEW b \in Bridge, BridgeGc(b) PROVE [Rpc!Next]_<<Place, Told>>
  <2> DEFINE S == command \ command'
  <2>1. command' \subseteq command
    BY <1>15, CollectedShrinks DEF BridgeGc
  <2>2. \A q \in Request : Published(q)' = Published(q) /\ Taken(q)' = Taken(q)
    BY <1>15 DEF BridgeGc, Published, Taken
  <2>3. \A q \in S : Place[q] = "sent" /\ ~Taken(q)
    BY DEF TypeOK, ExchangeInv, OnePlace, Place
  <2>4. Place' = [q \in Request |-> IF q \in S THEN "void" ELSE Place[q]]
    BY <1>15, <2>1, <2>2, <2>3 DEF BridgeGc, Place, ExchangeInv, OnePlace
  <2>5. Told' = Told
    BY <1>15 DEF BridgeGc, Told
  <2>6. S \in SUBSET Request
    BY DEF TypeOK
  <2>7. Rpc!Drop(S)
    BY <2>3, <2>4, <2>5 DEF Rpc!Drop
  <2> QED BY <2>6, <2>7 DEF Rpc!Next
<1>16. ASSUME NEW b \in Bridge, BridgeHalt(b), work[b].at = "claimed" PROVE [Rpc!Next]_<<Place, Told>>
  <2>0. PICK q \in Request : q = work[b].req
    BY <1>16 DEF TypeOK, Reject, Execute, BridgeHalt
  <2>1. q \in Request /\ Place[q] = "taken" /\ q \notin command
    BY <1>16, <2>0 DEF TypeOK, ExchangeInv, OnePlace, Place, Taken, BridgeHalt, Idle
  <2>2. /\ \A r \in Request : /\ Published(r)' <=> Published(r)
                              /\ r # q => (Taken(r)' <=> Taken(r))
        /\ ~Taken(q)'
    <3>1. work'[b].at # "claimed" /\ work[b].at = "claimed"
      BY <1>16 DEF BridgeHalt, Idle, TypeOK
    <3>2. \A c \in Bridge : c # b => work'[c] = work[c]
      BY <1>16 DEF BridgeHalt, Idle, TypeOK
    <3>3. \A c \in Bridge : work[c].at = "claimed" /\ work[c].req = q => c = b
      BY <2>0, <3>1 DEF ExchangeInv, OnePlace
    <3>4. UNCHANGED <<call, reply>>
      BY <1>16 DEF BridgeHalt, Idle
    <3> QED BY <2>0, <3>1, <3>2, <3>3, <3>4 DEF Published, Taken
  <2>3. Place' = [r \in Request |-> IF r \in {q} THEN "void" ELSE Place[r]]
    <3>1. executed[q] = 0 /\ Published(q)
      BY <1>16, <2>0 DEF ExchangeInv, OnePlace, BridgeHalt, Idle
    <3>2. command' = command /\ executed' = executed
      BY <1>16 DEF BridgeHalt, Idle
    <3> QED BY <2>1, <2>2, <3>1, <3>2 DEF Place
  <2>4. Told' = Told
    BY <1>16 DEF BridgeHalt, Idle, Told
  <2>5. Rpc!Drop({q})
    BY <2>1, <2>3, <2>4 DEF Rpc!Drop
  <2>6. {q} \in SUBSET Request
    BY <2>1
  <2> QED BY <2>5, <2>6 DEF Rpc!Next
<1>17. ASSUME NEW b \in Bridge, BridgeHalt(b), work[b].at # "claimed" PROVE [Rpc!Next]_<<Place, Told>>
  <2>1. \A q \in Request : /\ Published(q)' <=> Published(q)
                           /\ Taken(q)' <=> Taken(q)
                           /\ Told'[q] = Told[q]
    BY <1>17 DEF BridgeHalt, CallGoes, Published, Taken, Told, TypeOK, ExchangeInv, ReplyFits, Idle
  <2> QED BY <1>17, <2>1, Unseen DEF BridgeHalt
<1>18. ASSUME NEW b \in Bridge, Reject(b) PROVE [Rpc!Next]_<<Place, Told>>
  <2>0. PICK q \in Request : q = work[b].req
    BY <1>18 DEF TypeOK, Reject, Execute, BridgeHalt
  <2>1. q \in Request /\ Place[q] = "taken" /\ q \notin command
    BY <1>18, <2>0 DEF TypeOK, ExchangeInv, OnePlace, Place, Taken, Reject, HasVerdict
  <2>2. /\ \A r \in Request : /\ Published(r)' <=> Published(r)
                              /\ r # q => (Taken(r)' <=> Taken(r))
        /\ ~Taken(q)'
    <3>1. work'[b].at # "claimed" /\ work[b].at = "claimed"
      BY <1>18 DEF Reject, HasVerdict, TypeOK
    <3>2. \A c \in Bridge : c # b => work'[c] = work[c]
      BY <1>18 DEF Reject, HasVerdict, TypeOK
    <3>3. \A c \in Bridge : work[c].at = "claimed" /\ work[c].req = q => c = b
      BY <2>0, <3>1 DEF ExchangeInv, OnePlace
    <3>4. UNCHANGED <<call, reply>>
      BY <1>18 DEF Reject, HasVerdict
    <3> QED BY <2>0, <3>1, <3>2, <3>3, <3>4 DEF Published, Taken
  <2>3. Place' = [r \in Request |-> IF r \in {q} THEN "void" ELSE Place[r]]
    <3>1. executed[q] = 0 /\ Published(q)
      BY <1>18, <2>0 DEF ExchangeInv, OnePlace, Reject, HasVerdict
    <3>2. command' = command /\ executed' = executed
      BY <1>18 DEF Reject, HasVerdict
    <3> QED BY <2>1, <2>2, <3>1, <3>2 DEF Place
  <2>4. Told' = Told
    BY <1>18 DEF Reject, HasVerdict, Told
  <2>5. Rpc!Drop({q})
    BY <2>1, <2>3, <2>4 DEF Rpc!Drop
  <2>6. {q} \in SUBSET Request
    BY <2>1
  <2> QED BY <2>5, <2>6 DEF Rpc!Next
<1>19. ASSUME NEW b \in Bridge, Execute(b) PROVE [Rpc!Next]_<<Place, Told>>
  <2>0. PICK q \in Request : q = work[b].req
    BY <1>19 DEF TypeOK, Reject, Execute, BridgeHalt
  <2>1. q \in Request /\ Place[q] = "taken" /\ q \notin command
    BY <1>19, <2>0 DEF TypeOK, ExchangeInv, OnePlace, Place, Taken, Execute
  <2>2. \A r \in Request : /\ Published(r)' <=> Published(r)
                           /\ r # q => (Taken(r)' <=> Taken(r))
                           /\ r # q => executed'[r] = executed[r]
    <3>1. work'[b].at # "claimed" /\ work[b].at = "claimed"
      BY <1>19 DEF Execute, HasVerdict, TypeOK
    <3>2. \A c \in Bridge : c # b => work'[c] = work[c]
      BY <1>19 DEF Execute, HasVerdict, TypeOK
    <3>3. UNCHANGED <<call, reply>>
      BY <1>19 DEF Execute
    <3>4. \A r \in Request : r # q => executed'[r] = executed[r]
      BY <1>19, <2>0 DEF Execute, TypeOK
    <3> QED BY <2>0, <3>1, <3>2, <3>3, <3>4 DEF Published, Taken
  <2>3. executed'[q] > 0 /\ Published(q)
    BY <1>19, <2>0, <2>1 DEF Execute, TypeOK, ExchangeInv, OnePlace
  <2>4. Place' = [Place EXCEPT ![q] = "ran"]
    BY <1>19, <2>0, <2>1, <2>2, <2>3 DEF Execute, Place
  <2>5. Told' = Told
    BY <1>19 DEF Execute, Told
  <2>6. Rpc!Run(q)
    BY <2>1, <2>4, <2>5 DEF Rpc!Run, Rpc!Goes
  <2> QED BY <2>1, <2>6 DEF Rpc!Next
<1>20. ASSUME NEW b \in Bridge, List(b) PROVE [Rpc!Next]_<<Place, Told>>
  <2>1. \A q \in Request : /\ Published(q)' <=> Published(q)
                           /\ Taken(q)' <=> Taken(q)
                           /\ Told'[q] = Told[q]
    BY <1>20 DEF List, CallGoes, Published, Taken, Told, TypeOK, ExchangeInv, ReplyFits
  <2> QED BY <1>20, <2>1, Unseen DEF List
<1>21. ASSUME NEW b \in Bridge, WriteResult(b) PROVE [Rpc!Next]_<<Place, Told>>
  <2>1. \A q \in Request : /\ Published(q)' <=> Published(q)
                           /\ Taken(q)' <=> Taken(q)
                           /\ Told'[q] = Told[q]
    BY <1>21 DEF WriteResult, CallGoes, Published, Taken, Told, TypeOK, ExchangeInv, ReplyFits
  <2> QED BY <1>21, <2>1, Unseen DEF WriteResult
<1>22. ASSUME NEW b \in Bridge, Finish(b) PROVE [Rpc!Next]_<<Place, Told>>
  <2>1. \A q \in Request : /\ Published(q)' <=> Published(q)
                           /\ Taken(q)' <=> Taken(q)
                           /\ Told'[q] = Told[q]
    BY <1>22 DEF Finish, CallGoes, Published, Taken, Told, TypeOK, ExchangeInv, ReplyFits, Idle
  <2> QED BY <1>22, <2>1, Unseen DEF Finish
<1>23. ASSUME Second PROVE [Rpc!Next]_<<Place, Told>>
  <2>1. \A q \in Request : /\ Published(q)' <=> Published(q)
                           /\ Taken(q)' <=> Taken(q)
                           /\ Told'[q] = Told[q]
    BY <1>23 DEF Second, CallGoes, Published, Taken, Told, TypeOK, ExchangeInv, ReplyFits
  <2> QED BY <1>23, <2>1, Unseen DEF Second
<1> QED
  BY <1>1, <1>2, <1>3, <1>4, <1>5, <1>6, <1>7, <1>8, <1>9, <1>10, <1>11,
     <1>12, <1>13, <1>14, <1>15, <1>16, <1>17, <1>18, <1>19, <1>20, <1>21, <1>22,
     <1>23
  DEF Next, Caller, Process

\* The file exchange keeps the promise of AtMostOnceRpc.
THEOREM PromiseKept == ASSUME ~Replays PROVE Spec => Promise
<1>1. Init => Rpc!Init
  BY DEF Init, Rpc!Init, Place, Told, Published
<1>2. TypeOK /\ ExchangeInv /\ [Next]_vars => [Rpc!Next]_<<Place, Told>>
  <2>1. UNCHANGED vars => UNCHANGED <<Place, Told>>
    BY DEF vars, clientVars, bridgeVars, fileVars, Place, Told, Published, Taken
  <2> QED BY <2>1, PromiseStep
<1> QED BY <1>1, <1>2, TypeCorrect, ExchangeCorrect, PTL DEF Spec, Promise, Rpc!Spec, Rpc!vars

-----------------------------------------------------------------------------
(* NeverLost.  A caller that still waits is younger than any file the      *)
(* garbage collector takes, so that, with one bridge at a time, its        *)
(* command leaves commands/ only for processing/, and processing/ only for *)
(* failed/ or when it has run.                                             *)

\* As long as no bridge was started while another one ran, one runs at a time;
\* a bridge that does not run has nothing in hand.
OneUp ==
  /\ alone => \A b, c \in Bridge : up[b] /\ up[c] => b = c
  /\ \A b \in Bridge : ~up[b] => todo[b] = {} /\ work[b] = Idle

\* A request nobody has published yet left nothing anywhere.
Untouched ==
  \A r \in Request :
    call[r] = "new" =>
      /\ age[r] = 0 /\ result[r] = NoFile
      /\ r \notin command \cup processing
      /\ \A b \in Bridge : r \notin todo[b] /\ work[b].req # r

\* While a caller may still act, its request is younger than what is stale, and
\* while it waits, so is its result (and nothing has refused it).
Young ==
  \A r \in Request :
    /\ Active(r) => age[r] <= Timeout + Lag
    /\ Waiting(r) => result[r].age <= age[r] /\ reply[r] = "none"

\* It has run: its result is there, or could not be written.
Settled(r) == Answered(r) \/ (DiskFails /\ executed[r] > 0)

\* While a caller waits, its request is listed by the bridge only while it is in
\* commands/, is in processing/ while the bridge works on it, and has run when
\* the bridge is done with it and says ok.
Held ==
  \A r \in Request :
    Waiting(r) =>
      /\ r \in command \cup processing \cup failed \/ Settled(r)
      /\ \A b \in Bridge :
           /\ r \in todo[b] => r \in command
           /\ work[b].req = r => r \in processing
           /\ work[b].at = "replied" /\ work[b].req = r =>
                Settled(r) \/ work[b].verdict # "ok"

\* A bridge that has executed a request has its verdict, and what is ok ran.
Verdicts ==
  \A b \in Bridge :
    /\ work[b].at = "executed" => work[b].verdict # "none"
    /\ work[b].verdict = "ok" => work[b].req \in Request /\ executed[work[b].req] > 0

WaitingInv == OneUp /\ Untouched /\ Young /\ (alone => Held) /\ Verdicts

\* A step keeps one bridge at a time, unless it starts a second one.
LEMMA OneUpStep ==
  ASSUME TypeOK, OneUp, Next
  PROVE  OneUp' /\ (alone' => alone)
<1> USE DEF clientVars, fileVars, bridgeVars
<1>1. ASSUME NEW r \in Request,
             \/ Refuse(r) \/ Publish(r) \/ Cancelled(r) \/ Caller(r) \/ ClientCrash(r)
             \/ CopyAppears(r)
      PROVE  UNCHANGED <<todo, work, up, alone>>
  BY <1>1 DEF Refuse, Publish, Cancelled, Caller, ClientCrash, CopyAppears, Collect,
              CollectFails, DeleteResult, DeadlinePassed, TimedOut, Withdraw
<1>2. ASSUME NEW b \in Bridge, BridgeGc(b) PROVE UNCHANGED <<todo, work, up, alone>>
  BY <1>2 DEF BridgeGc
<1>3. CASE Second
  BY <1>3 DEF Second, OneUp
<1>4. CASE UNCHANGED <<todo, work, up, alone>>
  BY <1>4 DEF OneUp
<1>5. ASSUME NEW b \in Bridge, BridgeStart(b) PROVE OneUp' /\ (alone' => alone)
  BY <1>5 DEF BridgeStart, OneUp, TypeOK
<1>6. ASSUME NEW b \in Bridge, BridgeHalt(b) PROVE OneUp' /\ (alone' => alone)
  BY <1>6 DEF BridgeHalt, OneUp, TypeOK
<1>7. ASSUME NEW b \in Bridge, \/ List(b) \/ Process(b) \/ \E r \in Request : Claim(b, r)
      PROVE  OneUp' /\ (alone' => alone)
  <2>1. up[b] /\ UNCHANGED <<up, alone>>
    BY <1>7 DEF List, Process, Claim, Reject, Execute, WriteResult, Finish, OneUp, Idle
  <2>2. \A c \in Bridge \ {b} : todo'[c] = todo[c] /\ work'[c] = work[c]
    BY <1>7 DEF List, Process, Claim, Reject, Execute, HasVerdict, WriteResult, Finish, TypeOK
  <2> QED
    BY <2>1, <2>2 DEF OneUp
<1> QED
  BY <1>1, <1>2, <1>3, <1>4, <1>5, <1>6, <1>7 DEF Next

\* While one bridge runs at a time, the others have nothing in hand.
LEMMA Others ==
  ASSUME OneUp, alone, NEW b \in Bridge, up[b], NEW c \in Bridge \ {b}
  PROVE  todo[c] = {} /\ work[c] = Idle
BY DEF OneUp

\* The garbage collector takes nothing of a caller that still acts.
LEMMA GcSparesWaiting ==
  ASSUME TypeOK, Young, Gc, NEW r \in Request, Waiting(r)
  PROVE  /\ r \in command => r \in command'
         /\ r \in processing => r \in processing'
         /\ r \in failed => r \in failed'
         /\ result'[r] = result[r]
<1>1. /\ age[r] <= Timeout + Lag /\ result[r].age <= age[r]
      /\ age[r] \in Nat /\ result[r].age \in Nat
  BY IpcAssumption DEF Young, Active, Waiting, TypeOK, LastAge
<1>2. /\ ~(age[r] > StaleCommand) /\ ~(age[r] > StaleProcessing)
      /\ ~(age[r] > StaleFailed) /\ ~(result[r].age > StaleResult)
  BY <1>1, IpcAssumption
<1> QED
  BY <1>2 DEF Gc, Collected, StaleIn

\* It brings nothing back into commands/ or processing/.
LEMMA GcAddsNothing ==
  ASSUME TypeOK, Gc
  PROVE  /\ command' \subseteq command /\ processing' \subseteq processing
         /\ \A r \in Request : result'[r] = result[r] \/ result'[r] = NoFile
BY DEF TypeOK, Gc, Collected

LEMMA GcKeeps ==
  ASSUME TypeOK, WaitingInv, OneUp', alone' => alone, Gc,
         UNCHANGED <<call, reply, executed, age>>,
         \A b \in Bridge : todo'[b] = todo[b] /\ work'[b] = work[b]
  PROVE  WaitingInv'
<1>1. /\ command' \subseteq command /\ processing' \subseteq processing
      /\ \A r \in Request : result'[r] = result[r] \/ result'[r] = NoFile
  BY GcAddsNothing
<1>2. \A r \in Request : Waiting(r) =>
        /\ r \in command => r \in command'
        /\ r \in processing => r \in processing'
        /\ r \in failed => r \in failed'
        /\ result'[r] = result[r]
  BY GcSparesWaiting DEF WaitingInv
<1>3. \A r \in Request : (Waiting(r)' <=> Waiting(r)) /\ (Active(r)' <=> Active(r))
  BY DEF Waiting, Active
<1>4. Untouched'
  BY <1>1 DEF WaitingInv, Untouched
<1>5. Young'
  BY <1>2, <1>3 DEF WaitingInv, Young
<1>6. alone' => Held'
  BY <1>2, <1>3 DEF WaitingInv, Held, Settled, Answered
<1>7. Verdicts'
  BY DEF WaitingInv, Verdicts
<1> QED
  BY <1>4, <1>5, <1>6, <1>7 DEF WaitingInv

\* A step of the caller of r that leaves the files it waits for alone.
LEMMA CallerKeeps ==
  ASSUME TypeOK, WaitingInv, NEW r \in Request,
         NEW phase, NEW outcome, CallGoes(r, phase, outcome),
         phase # "new", Active(r), phase = "last" => outcome = "none",
         Waiting(r)' => Waiting(r) /\ phase = "last",
         Waiting(r)' => result' = result /\ command' = command,
         \A q \in Request \ {r} : result'[q] = result[q] /\ (q \in command' <=> q \in command),
         UNCHANGED <<processing, failed, bridgeVars, age>>
  PROVE  WaitingInv'
<1> USE DEF bridgeVars
<1>1. \A q \in Request \ {r} : /\ call'[q] = call[q] /\ reply'[q] = reply[q]
                               /\ (Waiting(q)' <=> Waiting(q)) /\ (Active(q)' <=> Active(q))
  BY DEF TypeOK, Waiting, Active, CallGoes
<1>2. call'[r] # "new" /\ (Waiting(r)' => reply'[r] = "none") /\ (Active(r)' => Active(r))
  BY DEF TypeOK, CallGoes
<1>3. Untouched'
  <2> SUFFICES ASSUME NEW q \in Request, call'[q] = "new"
               PROVE  /\ age'[q] = 0 /\ result'[q] = NoFile
                      /\ q \notin command' \cup processing'
                      /\ \A b \in Bridge : q \notin todo'[b] /\ work'[b].req # q
    BY DEF Untouched
  <2>1. q # r /\ call[q] = "new"
    BY <1>1, <1>2
  <2> QED
    BY <2>1 DEF WaitingInv, Untouched
<1>4. Young'
  BY <1>1, <1>2 DEF WaitingInv, Young
<1>5. alone' => Held'
  BY <1>1 DEF WaitingInv, Held, Settled, Answered
<1>6. Verdicts'
  BY DEF WaitingInv, Verdicts
<1>7. OneUp'
  BY DEF WaitingInv, OneUp
<1> QED
  BY <1>3, <1>4, <1>5, <1>6, <1>7 DEF WaitingInv

LEMMA WaitingStep ==
  ASSUME TypeOK, WaitingInv, Next
  PROVE  WaitingInv'
<1> USE DEF clientVars, fileVars, bridgeVars
<1>0. OneUp' /\ (alone' => alone)
  BY OneUpStep DEF WaitingInv
<1>1. ASSUME NEW r \in Request, Refuse(r) PROVE WaitingInv'
  <2>1. \A q \in Request : q # r => call'[q] = call[q] /\ reply'[q] = reply[q]
    BY <1>1 DEF Refuse, CallGoes, TypeOK
  <2>2. call'[r] = "done" /\ ~Waiting(r)' /\ ~Active(r)'
    BY <1>1 DEF Refuse, CallGoes, TypeOK, Waiting, Active
  <2>3. UNCHANGED <<command, processing, failed, result, todo, work, executed, age>>
    BY <1>1 DEF Refuse, CallGoes
  <2>4. Untouched'
    BY <2>1, <2>2, <2>3 DEF WaitingInv, Untouched
  <2>5. Young'
    BY <2>1, <2>2, <2>3 DEF WaitingInv, Young, Waiting, Active
  <2>6. alone' => Held'
    BY <1>0, <2>1, <2>2, <2>3 DEF WaitingInv, Held, Waiting, Settled, Answered
  <2>7. Verdicts'
    BY <2>3 DEF WaitingInv, Verdicts
  <2> QED
    BY <1>0, <2>4, <2>5, <2>6, <2>7 DEF WaitingInv
<1>2. ASSUME NEW r \in Request, Publish(r) PROVE WaitingInv'
  <2>1. \A q \in Request : q # r => call'[q] = call[q] /\ reply'[q] = reply[q]
    BY <1>2 DEF Publish, CallGoes, TypeOK
  <2>2. /\ call'[r] = "waiting" /\ reply'[r] = "none" /\ command' = command \cup {r}
        /\ UNCHANGED <<processing, failed, result, todo, work, executed, age>>
    BY <1>2 DEF Publish, CallGoes, TypeOK
  <2>3. /\ age[r] = 0 /\ result[r] = NoFile /\ call[r] = "new"
        /\ \A b \in Bridge : r \notin todo[b] /\ work[b].req # r
    BY <1>2 DEF WaitingInv, Untouched, Publish
  <2>4. Untouched'
    BY <2>1, <2>2 DEF WaitingInv, Untouched
  <2>5. Young'
    BY <2>1, <2>2, <2>3, IpcAssumption DEF WaitingInv, Young, Waiting, Active, NoFile
  <2>6. alone' => Held'
    BY <1>0, <2>1, <2>2, <2>3 DEF WaitingInv, Held, Waiting, Settled, Answered
  <2>7. Verdicts'
    BY <2>2 DEF WaitingInv, Verdicts
  <2> QED
    BY <1>0, <2>4, <2>5, <2>6, <2>7 DEF WaitingInv
<1>3. ASSUME NEW r \in Request, Caller(r) \/ Cancelled(r) \/ ClientCrash(r) PROVE WaitingInv'
  <2>1. CASE Collect(r)
    <3>1. CallGoes(r, "deleting", result[r].says) /\ Active(r) /\ call'[r] = "deleting"
      BY <2>1 DEF Collect, CallGoes, TypeOK, Waiting, Active
    <3> QED
      BY <2>1, <3>1, CallerKeeps DEF Collect, Waiting
  <2>2. CASE DeleteResult(r)
    <3>1. CallGoes(r, "done", reply[r]) /\ Active(r) /\ call'[r] = "done"
      BY <2>2 DEF DeleteResult, CallGoes, TypeOK, Waiting, Active
    <3>2. \A q \in Request \ {r} : result'[q] = result[q]
      BY <2>2 DEF DeleteResult, TypeOK
    <3> QED
      BY <2>2, <3>1, <3>2, CallerKeeps DEF DeleteResult, Waiting
  <2>3. CASE DeadlinePassed(r)
    <3>1. CallGoes(r, "last", "none") /\ Active(r) /\ call'[r] = "last"
      BY <2>3 DEF DeadlinePassed, CallGoes, TypeOK, Waiting, Active
    <3> QED
      BY <2>3, <3>1, CallerKeeps DEF DeadlinePassed, Waiting
  <2>4. CASE TimedOut(r)
    <3>1. CallGoes(r, "withdraw", "timeout") /\ Active(r) /\ call'[r] = "withdraw"
      BY <2>4 DEF TimedOut, CallGoes, TypeOK, Waiting, Active
    <3> QED
      BY <2>4, <3>1, CallerKeeps DEF TimedOut, Waiting
  <2>5. CASE Withdraw(r)
    <3>1. CallGoes(r, "done", reply[r]) /\ Active(r) /\ call'[r] = "done"
      BY <2>5 DEF Withdraw, CallGoes, TypeOK, Waiting, Active
    <3>2. \A q \in Request \ {r} : q \in command' <=> q \in command
      BY <2>5 DEF Withdraw
    <3> QED
      BY <2>5, <3>1, <3>2, CallerKeeps DEF Withdraw, Waiting
  <2>6. CASE Cancelled(r)
    <3>1. CallGoes(r, "withdraw", "cancelled") /\ Active(r) /\ call'[r] = "withdraw"
      BY <2>6 DEF Cancelled, CallGoes, TypeOK, Waiting, Active
    <3> QED
      BY <2>6, <3>1, CallerKeeps DEF Cancelled, Waiting
  <2>7. CASE ClientCrash(r)
    <3>1. CallGoes(r, "crashed", reply[r]) /\ Active(r) /\ call'[r] = "crashed"
      BY <2>7 DEF ClientCrash, CallGoes, TypeOK, Waiting, Active
    <3> QED
      BY <2>7, <3>1, CallerKeeps DEF ClientCrash, Waiting
  <2>8. CASE CollectFails(r)
    <3>1. CallGoes(r, "done", "error") /\ Active(r) /\ call'[r] = "done"
      BY <2>8 DEF CollectFails, CallGoes, TypeOK, Waiting, Active
    <3> QED
      BY <2>8, <3>1, CallerKeeps DEF CollectFails, Waiting
  <2> QED
    BY <1>3, <2>1, <2>2, <2>3, <2>4, <2>5, <2>6, <2>7, <2>8 DEF Caller
<1>4. ASSUME NEW r \in Request, CopyAppears(r) PROVE WaitingInv'
  <2>1. call[r] # "new" /\ command' = command \cup {r}
        /\ UNCHANGED <<call, reply, processing, failed, result, todo, work, executed, age>>
    BY <1>4 DEF CopyAppears, Published
  <2> QED
    BY <1>0, <2>1
    DEF WaitingInv, Untouched, Young, Held, Verdicts, Waiting, Active, Settled, Answered
<1>5. ASSUME NEW r \in Request, NEW b \in Bridge, Claim(b, r) PROVE WaitingInv'
  <2>1. /\ r \in todo[b] /\ work[b] = Idle /\ up[b] /\ call[r] # "new"
        /\ UNCHANGED <<call, reply, failed, result, executed, age>>
        /\ command' = command \ {r} /\ processing' = Into(processing, command, r)
    BY <1>5 DEF Claim, WaitingInv, Untouched
  <2>2. /\ todo'[b] = todo[b] \ {r}
        /\ r \in command => /\ work'[b].at = "claimed" /\ work'[b].req = r
                            /\ work'[b].verdict = "none"
        /\ r \notin command => work' = work
        /\ \A c \in Bridge \ {b} : todo'[c] = todo[c] /\ work'[c] = work[c]
    BY <1>5 DEF Claim, TypeOK
  <2>3. \A q \in Request \ {r} : /\ q \in command' <=> q \in command
                                 /\ q \in processing' <=> q \in processing
    BY <2>1 DEF Into
  <2>5. r \in command => r \in processing'
    BY <2>1 DEF Into
  <2>6. Untouched'
    BY <2>1, <2>2, <2>3 DEF WaitingInv, Untouched
  <2>7. Young'
    BY <2>1 DEF WaitingInv, Young, Waiting, Active
  <2>8. ASSUME alone' PROVE Held'
    <3>0. alone /\ Held
      BY <1>0, <2>8 DEF WaitingInv
    <3>1. \A c \in Bridge \ {b} : todo[c] = {} /\ work[c] = Idle
      BY <2>1, <3>0, Others DEF WaitingInv
    <3>2. Waiting(r) => r \in command
      BY <2>1, <3>0 DEF Held
    <3> SUFFICES ASSUME NEW q \in Request, Waiting(q)
                 PROVE  /\ q \in command' \cup processing' \cup failed \/ Settled(q)
                        /\ q \in todo'[b] => q \in command'
                        /\ work'[b].req = q => q \in processing'
                        /\ work'[b].at # "replied"
      BY <2>1, <2>2, <3>1, IpcAssumption DEF Held, Waiting, Settled, Answered, Idle
    <3>3. /\ q \in command \cup processing \cup failed \/ Settled(q)
          /\ q \in todo[b] => q \in command
      BY <3>0 DEF Held
    <3>4. CASE q = r
      BY <2>2, <2>5, <3>2, <3>4
    <3>5. CASE q # r
      BY <2>1, <2>2, <2>3, <3>2, <3>3, <3>5, IpcAssumption DEF Idle
    <3> QED
      BY <2>1, <2>2, <3>4, <3>5, IpcAssumption DEF Idle
  <2>9. Verdicts'
    BY <2>1, <2>2 DEF WaitingInv, Verdicts
  <2> QED
    BY <1>0, <2>6, <2>7, <2>8, <2>9 DEF WaitingInv
<1>6. ASSUME NEW b \in Bridge, BridgeStart(b) \/ BridgeGc(b) PROVE WaitingInv'
  BY <1>0, <1>6, GcKeeps DEF BridgeStart, BridgeGc
<1>7. ASSUME NEW b \in Bridge, BridgeHalt(b) PROVE WaitingInv'
  <2>1. /\ UNCHANGED <<call, reply, command, processing, failed, result, executed, age>>
        /\ \A c \in Bridge : /\ todo'[c] \subseteq todo[c]
                             /\ work'[c] = work[c] \/ work'[c] = Idle
    BY <1>7 DEF BridgeHalt, TypeOK
  <2>2. Untouched'
    BY <2>1, IpcAssumption DEF WaitingInv, Untouched, Idle
  <2>3. Young'
    BY <2>1 DEF WaitingInv, Young, Waiting, Active
  <2>4. alone' => Held'
    BY <1>0, <2>1, IpcAssumption DEF WaitingInv, Held, Waiting, Settled, Answered, Idle
  <2>5. Verdicts'
    BY <2>1 DEF WaitingInv, Verdicts, Idle
  <2> QED
    BY <1>0, <2>2, <2>3, <2>4, <2>5 DEF WaitingInv
<1>8. ASSUME NEW b \in Bridge, List(b) PROVE WaitingInv'
  <2>1. /\ UNCHANGED <<call, reply, command, processing, failed, result, work, executed, age>>
        /\ \A c \in Bridge : todo'[c] = IF c = b THEN command ELSE todo[c]
    BY <1>8 DEF List, TypeOK
  <2>2. Untouched'
    BY <2>1 DEF WaitingInv, Untouched
  <2>3. Young'
    BY <2>1 DEF WaitingInv, Young, Waiting, Active
  <2>4. alone' => Held'
    BY <1>0, <2>1 DEF WaitingInv, Held, Waiting, Settled, Answered
  <2>5. Verdicts'
    BY <2>1 DEF WaitingInv, Verdicts
  <2> QED
    BY <1>0, <2>2, <2>3, <2>4, <2>5 DEF WaitingInv
<1>9. ASSUME NEW b \in Bridge, Reject(b) \/ Execute(b) PROVE WaitingInv'
  <2>0. PICK v \in {"ok", "error"} : HasVerdict(b, v)
    BY <1>9 DEF Reject, Execute
  <2>1. /\ UNCHANGED <<call, reply, command, processing, failed, result, todo, age>>
        /\ \A c \in Bridge : work'[c].req = work[c].req
        /\ \A c \in Bridge : c # b => work'[c] = work[c]
        /\ work'[b].at = "executed" /\ work'[b].verdict # "none"
    <3>1. UNCHANGED <<call, reply, command, processing, failed, result, todo, age>>
      BY <1>9 DEF Reject, Execute
    <3> QED
      BY <2>0, <3>1 DEF HasVerdict, TypeOK
  <2>2. /\ \A q \in Request : executed[q] > 0 => executed'[q] > 0
        /\ work'[b].verdict = "ok" =>
             work'[b].req \in Request /\ executed'[work'[b].req] > 0
    <3>1. CASE Reject(b)
      BY <3>1 DEF Reject, HasVerdict, TypeOK
    <3>2. CASE Execute(b)
      <4>1. work[b].req \in Request
        BY <3>2 DEF Execute, TypeOK
      <4>2. executed' = [executed EXCEPT ![work[b].req] = IF @ < 2 THEN @ + 1 ELSE @]
        BY <3>2 DEF Execute
      <4>3. \A q \in Request : executed[q] \in 0 .. 2
        BY DEF TypeOK
      <4>4. executed'[work[b].req] > 0
        <5>1. /\ executed[work[b].req] \in 0 .. 2
              /\ executed'[work[b].req] = IF executed[work[b].req] < 2
                                         THEN executed[work[b].req] + 1
                                         ELSE executed[work[b].req]
          BY <4>1, <4>2, <4>3 DEF TypeOK
        <5> QED
          BY <5>1
      <4>5. \A q \in Request \ {work[b].req} : executed'[q] = executed[q]
        BY <4>2 DEF TypeOK
      <4> QED
        BY <2>1, <4>1, <4>4, <4>5
    <3> QED
      BY <1>9, <3>1, <3>2
  <2>3. Untouched'
    BY <2>1 DEF WaitingInv, Untouched
  <2>4. Young'
    BY <2>1 DEF WaitingInv, Young, Waiting, Active
  <2>5. alone' => Held'
    BY <1>0, <2>1, <2>2 DEF WaitingInv, Held, Waiting, Settled, Answered
  <2>6. Verdicts'
    <3> SUFFICES ASSUME NEW c \in Bridge
                 PROVE  /\ work'[c].at = "executed" => work'[c].verdict # "none"
                        /\ work'[c].verdict = "ok" =>
                             work'[c].req \in Request /\ executed'[work'[c].req] > 0
      BY DEF Verdicts
    <3>1. CASE c = b
      BY <2>1, <2>2, <3>1
    <3>2. CASE c # b
      <4>1. work[c].verdict = "ok" => work[c].req \in Request
        BY DEF WaitingInv, Verdicts
      <4> QED
        BY <2>1, <2>2, <3>2, <4>1 DEF WaitingInv, Verdicts
    <3> QED
      BY <3>1, <3>2
  <2> QED
    BY <1>0, <2>3, <2>4, <2>5, <2>6 DEF WaitingInv
<1>10. ASSUME NEW b \in Bridge, WriteResult(b) PROVE WaitingInv'
  <2>0. PICK r \in Request : r = work[b].req
    BY <1>10 DEF WriteResult, TypeOK
  <2>1. /\ UNCHANGED <<call, reply, command, processing, failed, todo, executed, age>>
        /\ \/ result'[r] = [says |-> work[b].verdict, age |-> 0]
           \/ DiskFails /\ result'[r] = result[r]
        /\ \A q \in Request \ {r} : result'[q] = result[q]
    BY <1>10, <2>0 DEF WriteResult, TypeOK
  <2>2. /\ \A c \in Bridge : c # b => work'[c] = work[c]
        /\ work'[b].at = "replied" /\ work'[b].req = r /\ work'[b].verdict = work[b].verdict
    BY <1>10, <2>0 DEF WriteResult, TypeOK
  <2>3. /\ work[b].verdict # "none" /\ call[r] # "new"
        /\ work[b].verdict = "ok" => executed[r] > 0
    BY <1>10, <2>0 DEF WriteResult, WaitingInv, Verdicts, Untouched
  <2>4. Untouched'
    BY <2>0, <2>1, <2>2, <2>3 DEF WaitingInv, Untouched
  <2>5. Young'
    <3>1. age[r] \in Nat
      BY DEF TypeOK
    <3>2. Waiting(r) => result'[r].age <= age[r]
      BY <2>1, <3>1 DEF WaitingInv, Young
    <3> QED
      BY <2>1, <3>2 DEF WaitingInv, Young, Waiting, Active
  <2>6. ASSUME alone' PROVE Held'
    <3>0. Held
      BY <1>0, <2>6 DEF WaitingInv
    <3>1. Answered(r) => Answered(r)'
      BY <2>1, <2>3 DEF Answered, NoFile
    <3>2. \A q \in Request : Settled(q) => Settled(q)'
      BY <2>1, <3>1 DEF Settled, Answered
    <3>3. work[b].verdict = "ok" => Settled(r)'
      BY <2>1, <2>3 DEF Settled, Answered, NoFile
    <3> SUFFICES ASSUME NEW q \in Request, Waiting(q)
                 PROVE  /\ q \in command \cup processing \cup failed \/ Settled(q)'
                        /\ \A c \in Bridge :
                             /\ q \in todo[c] => q \in command
                             /\ work'[c].req = q => q \in processing
                             /\ work'[c].at = "replied" /\ work'[c].req = q =>
                                  Settled(q)' \/ work'[c].verdict # "ok"
      BY <2>1 DEF Held, Waiting
    <3> QED
      BY <2>0, <2>2, <3>0, <3>2, <3>3 DEF Held
  <2>7. Verdicts'
    BY <2>0, <2>1, <2>2, <2>3 DEF WaitingInv, Verdicts
  <2> QED
    BY <1>0, <2>4, <2>5, <2>6, <2>7 DEF WaitingInv
<1>11. ASSUME NEW b \in Bridge, Finish(b) PROVE WaitingInv'
  <2>0. PICK r \in Request : r = work[b].req
    BY <1>11 DEF Finish, TypeOK
  <2>1. /\ UNCHANGED <<call, reply, command, result, todo, executed, age>>
        /\ processing' = processing \ {r}
        /\ failed' = IF work[b].verdict = "ok" THEN failed ELSE Into(failed, processing, r)
        /\ work[b].at = "replied" /\ up[b]
    BY <1>11, <2>0 DEF Finish, WaitingInv, OneUp, Idle
  <2>2. \A c \in Bridge : work'[c] = IF c = b THEN Idle ELSE work[c]
    BY <1>11 DEF Finish, TypeOK
  <2>4. Untouched'
    BY <2>1, <2>2, IpcAssumption DEF WaitingInv, Untouched, Idle
  <2>5. Young'
    BY <2>1 DEF WaitingInv, Young, Waiting, Active
  <2>6. ASSUME alone' PROVE Held'
    <3>0. alone /\ Held
      BY <1>0, <2>6 DEF WaitingInv
    <3>1. \A c \in Bridge : work'[c] = Idle
      BY <2>1, <2>2, <3>0, Others DEF WaitingInv
    <3>2. Waiting(r) => r \in failed' \/ Settled(r)
      BY <2>0, <2>1, <3>0 DEF Held, Into
    <3>3. \A q \in Request \ {r} : /\ q \in processing' <=> q \in processing
                                   /\ q \in failed' <=> q \in failed
      BY <2>1 DEF Into
    <3> QED
      BY <2>1, <3>0, <3>1, <3>2, <3>3, IpcAssumption
      DEF Held, Waiting, Settled, Answered, Idle
  <2>7. Verdicts'
    BY <2>1, <2>2 DEF WaitingInv, Verdicts, Idle
  <2> QED
    BY <1>0, <2>4, <2>5, <2>6, <2>7 DEF WaitingInv
<1>12. ASSUME Second PROVE WaitingInv'
  <2>1. UNCHANGED <<call, reply, command, processing, failed, todo, work, executed>>
    BY <1>12 DEF Second
  <2>2. \A r \in Request :
          /\ age'[r] = IF Published(r) THEN Older(age[r]) ELSE age[r]
          /\ result'[r] = IF Answered(r) THEN [result[r] EXCEPT !.age = Older(@)] ELSE NoFile
    BY <1>12 DEF Second
  <2>3. \A r \in Request : age[r] \in 0 .. LastAge /\ result[r].age \in 0 .. LastAge
    BY DEF TypeOK
  <2>4. \A r \in Request : Answered(r)' <=> Answered(r)
    <3> SUFFICES ASSUME NEW r \in Request, Answered(r)
                 PROVE  [result[r] EXCEPT !.age = Older(@)] # NoFile
      BY <2>2 DEF Answered
    <3>1. /\ result[r] \in [says : {"none", "ok", "error"}, age : 0 .. LastAge]
          /\ [result[r] EXCEPT !.age = Older(@)].says = result[r].says
          /\ [result[r] EXCEPT !.age = Older(@)].age = Older(result[r].age)
      BY DEF TypeOK
    <3>2. Older(result[r].age) = 0 => result[r].age = 0
      BY <2>3, IpcAssumption DEF Older, LastAge
    <3>3. result[r].says = "none" /\ result[r].age = 0 => result[r] = NoFile
      BY <3>1 DEF NoFile
    <3> QED
      BY <3>1, <3>2, <3>3 DEF Answered, NoFile
  <2>5. Untouched'
    BY <2>1, <2>2 DEF WaitingInv, Untouched, Published, Answered
  <2>6. Young'
    <3> SUFFICES ASSUME NEW r \in Request
                 PROVE  /\ Active(r) => age'[r] <= Timeout + Lag
                        /\ Waiting(r) => result'[r].age <= age'[r] /\ reply[r] = "none"
      BY <2>1 DEF Young, Waiting, Active
    <3>1. Active(r) => age[r] < Timeout + Lag
      BY <1>12 DEF Second
    <3>2. \A a \in 0 .. LastAge : a <= Older(a) /\ Older(a) <= a + 1
      BY IpcAssumption DEF Older, LastAge
    <3>3. \A a, d \in 0 .. LastAge : d <= a => Older(d) <= Older(a)
      BY IpcAssumption DEF Older, LastAge
    <3>4. Active(r) => age'[r] <= Timeout + Lag
      <4>1. age'[r] = Older(age[r]) \/ age'[r] = age[r]
        BY <2>2
      <4>2. /\ age[r] \in Nat /\ Timeout \in Nat /\ Lag \in Nat /\ LastAge \in Nat
            /\ age[r] \in 0 .. LastAge
        BY <2>3, IpcAssumption DEF LastAge
      <4>3. Older(age[r]) <= age[r] + 1 /\ Older(age[r]) \in Nat
        BY <3>2, <4>2 DEF Older
      <4> QED
        BY <3>1, <4>1, <4>2, <4>3
    <3>5. ASSUME Waiting(r) PROVE result'[r].age <= age'[r]
      <4>1. Published(r) /\ result[r].age <= age[r]
        BY <3>5 DEF WaitingInv, Young, Waiting, Published
      <4>2. age'[r] = Older(age[r])
        BY <2>2, <4>1
      <4>3. CASE Answered(r)
        <5>1. result[r] \in [says : {"none", "ok", "error"}, age : 0 .. LastAge]
          BY DEF TypeOK
        <5>2. result'[r].age = Older(result[r].age)
          BY <2>2, <4>3, <5>1
        <5> QED
          BY <2>3, <3>3, <4>1, <4>2, <5>2
      <4>4. CASE ~Answered(r)
        <5>1. result'[r].age = 0
          <6>1. result'[r] = NoFile
            BY <2>2, <4>4
          <6> QED
            BY <6>1 DEF NoFile
        <5>2. age'[r] \in 0 .. LastAge
          BY <2>3, <4>2, OlderInRange
        <5> QED
          BY <5>1, <5>2
      <4> QED
        BY <4>3, <4>4
    <3> QED
      BY <2>1, <3>4, <3>5 DEF WaitingInv, Young
  <2>7. alone' => Held'
    BY <1>0, <2>1, <2>4 DEF WaitingInv, Held, Waiting, Settled
  <2>8. Verdicts'
    BY <2>1 DEF WaitingInv, Verdicts
  <2> QED
    BY <1>0, <2>5, <2>6, <2>7, <2>8 DEF WaitingInv
<1> QED
  BY <1>1, <1>2, <1>3, <1>4, <1>5, <1>6, <1>7, <1>8, <1>9, <1>10, <1>11, <1>12
  DEF Next, Process

LEMMA WaitingInit == Init => WaitingInv
BY IpcAssumption
DEF Init, WaitingInv, OneUp, Untouched, Young, Held, Verdicts, Waiting, Active, Idle

\* As long as one bridge runs at a time, no request is lost while its caller
\* waits for it (gc, process_file and await_result between them), unless it ran
\* and a disk failed.
THEOREM NothingLost == Spec => []NeverLost
<1>1. TypeOK /\ WaitingInv /\ [Next]_vars => WaitingInv'
  <2>1. WaitingInv /\ UNCHANGED vars => WaitingInv'
    BY DEF WaitingInv, OneUp, Untouched, Young, Held, Verdicts, Waiting, Active, Settled,
           Answered, vars, clientVars, fileVars, bridgeVars
  <2> QED
    BY <2>1, WaitingStep
<1>2. WaitingInv => NeverLost
  BY DEF WaitingInv, Held, Settled, NeverLost
<1> QED
  BY <1>1, <1>2, WaitingInit, TypeCorrect, PTL DEF Spec

-----------------------------------------------------------------------------
(* FailedKept, where no copy of a command appears: with one bridge at a    *)
(* time a request that was taken is in no other place, so that no rename   *)
(* of an absent file removes it.                                           *)

\* A request in processing/ is in no other directory a bridge takes from.
TakenOnce ==
  /\ \A r \in processing : r \notin command /\ call[r] # "new"
  /\ alone => \A b \in Bridge : todo[b] \cap processing = {}
  /\ \A r \in command : call[r] # "new"
  /\ \A b \in Bridge : \A r \in todo[b] : call[r] # "new"

LEMMA TakenOnceStep ==
  ASSUME ~Replays, TypeOK, OneUp, TakenOnce, Next
  PROVE  TakenOnce'
<1> USE DEF clientVars, fileVars, bridgeVars
<1>0. alone' => alone
  BY OneUpStep
<1>1. ASSUME NEW r \in Request,
             Refuse(r) \/ Cancelled(r) \/ Caller(r) \/ ClientCrash(r)
      PROVE  TakenOnce'
  <2>1. UNCHANGED <<processing, todo>> /\ command' \subseteq command
    BY <1>1 DEF Refuse, Cancelled, Caller, ClientCrash, Collect, CollectFails, DeleteResult,
                DeadlinePassed, TimedOut, Withdraw
  <2>2. \A q \in Request : call[q] # "new" => call'[q] # "new"
    BY <1>1 DEF Refuse, Cancelled, Caller, ClientCrash, Collect, CollectFails, DeleteResult,
                DeadlinePassed, TimedOut, Withdraw, CallGoes, TypeOK
  <2> QED
    BY <1>0, <2>1, <2>2 DEF TakenOnce, TypeOK
<1>2. ASSUME NEW r \in Request, Publish(r) PROVE TakenOnce'
  <2>1. /\ UNCHANGED <<processing, todo>> /\ command' = command \cup {r}
        /\ \A q \in Request : call[q] # "new" => call'[q] # "new"
        /\ call[r] = "new" /\ call'[r] # "new"
    BY <1>2 DEF Publish, CallGoes, TypeOK
  <2> QED
    BY <1>0, <2>1 DEF TakenOnce, TypeOK
<1>3. ASSUME NEW r \in Request, NEW b \in Bridge, Claim(b, r) PROVE TakenOnce'
  <2>1. /\ command' = command \ {r} /\ call' = call
        /\ processing' \subseteq processing \cup {r}
        /\ todo'[b] = todo[b] \ {r} /\ up[b]
        /\ \A c \in Bridge \ {b} : todo'[c] = todo[c]
        /\ call[r] # "new"
    BY <1>3 DEF Claim, Into, TypeOK, TakenOnce
  <2>2. alone => \A c \in Bridge \ {b} : todo[c] = {}
    BY <2>1, Others
  <2> QED
    BY <1>0, <2>1, <2>2 DEF TakenOnce, TypeOK
<1>4. ASSUME NEW b \in Bridge, BridgeStart(b) \/ BridgeGc(b) PROVE TakenOnce'
  <2>1. UNCHANGED <<call, todo>> /\ Gc
    BY <1>4 DEF BridgeStart, BridgeGc
  <2> QED
    BY <1>0, <2>1, GcAddsNothing DEF TakenOnce, TypeOK
<1>5. ASSUME NEW b \in Bridge, BridgeHalt(b) PROVE TakenOnce'
  <2>1. /\ UNCHANGED <<call, command, processing>>
        /\ \A c \in Bridge : todo'[c] \subseteq todo[c]
    BY <1>5 DEF BridgeHalt, TypeOK
  <2> QED
    BY <1>0, <2>1 DEF TakenOnce, TypeOK
<1>6. ASSUME NEW b \in Bridge, List(b) PROVE TakenOnce'
  <2>1. /\ UNCHANGED <<call, command, processing>>
        /\ \A c \in Bridge : todo'[c] = IF c = b THEN command ELSE todo[c]
    BY <1>6 DEF List, TypeOK
  <2> QED
    BY <1>0, <2>1 DEF TakenOnce, TypeOK
<1>7. ASSUME NEW b \in Bridge, Process(b) PROVE TakenOnce'
  <2>1. UNCHANGED <<call, command, todo>> /\ processing' \subseteq processing
    BY <1>7 DEF Process, Reject, Execute, WriteResult, Finish
  <2> QED
    BY <1>0, <2>1 DEF TakenOnce, TypeOK
<1>8. CASE Second
  BY <1>0, <1>8 DEF Second, TakenOnce, TypeOK
<1> QED
  BY <1>1, <1>2, <1>3, <1>4, <1>5, <1>6, <1>7, <1>8 DEF Next, CopyAppears

\* What a step may take out of processing/.
LEMMA FailedKeptStep ==
  ASSUME alone, TypeOK, TakenOnce, Next, NEW r \in processing \ processing'
  PROVE  \/ r \in failed' \/ age[r] > StaleFailed
         \/ \E b \in Bridge : work[b].req = r /\ work[b].verdict = "ok"
<1> USE DEF clientVars, fileVars, bridgeVars
<1>1. r \in Request
  BY DEF TypeOK
<1>2. ASSUME NEW q \in Request, NEW b \in Bridge, Claim(b, q) PROVE FALSE
  <2>1. q # r
    BY <1>2 DEF Claim, TakenOnce
  <2> QED
    BY <1>2, <2>1 DEF Claim, Into
<1>3. ASSUME Gc PROVE r \in failed' \/ age[r] > StaleFailed
  <2>1. PICK C \in SUBSET StaleIn(command, StaleCommand),
             P \in SUBSET StaleIn(processing, StaleProcessing),
             R \in SUBSET {q \in Request : result[q].age > StaleResult} :
               \E F \in SUBSET StaleIn(failed \cup P, StaleFailed) : Collected(C, P, R, F)
    BY <1>3 DEF Gc
  <2>2. PICK F \in SUBSET StaleIn(failed \cup P, StaleFailed) : Collected(C, P, R, F)
    BY <2>1
  <2>3. r \in P
    BY <2>2 DEF Collected
  <2> QED
    BY <2>2, <2>3 DEF Collected, StaleIn
<1>4. ASSUME NEW b \in Bridge, Finish(b)
      PROVE  r \in failed' \/ (work[b].req = r /\ work[b].verdict = "ok")
  BY <1>4 DEF Finish, Into
<1>5. ASSUME NEW b \in Bridge, BridgeStart(b) \/ BridgeGc(b) PROVE Gc
  BY <1>5 DEF BridgeStart, BridgeGc
<1>6. ASSUME NEW b \in Bridge, BridgeHalt(b) \/ List(b) \/ Reject(b) \/ Execute(b) \/ WriteResult(b)
      PROVE  FALSE
  BY <1>6 DEF BridgeHalt, List, Reject, Execute, WriteResult
<1>7. ASSUME NEW q \in Request, \/ Refuse(q) \/ Publish(q) \/ Cancelled(q) \/ Caller(q)
                                \/ ClientCrash(q) \/ CopyAppears(q)
      PROVE  FALSE
  BY <1>7 DEF Refuse, Publish, Cancelled, Caller, ClientCrash, CopyAppears, Collect,
              CollectFails, DeleteResult, DeadlinePassed, TimedOut, Withdraw
<1>8. CASE Second
  BY <1>8 DEF Second
<1> QED
  BY <1>2, <1>3, <1>4, <1>5, <1>6, <1>7, <1>8 DEF Next, Process

\* As long as one bridge runs at a time, nothing that was taken and not carried
\* out leaves processing/ for anywhere but failed/ (process_file, gc).
THEOREM FailedIsKept == ASSUME ~Replays PROVE Spec => FailedKept
<1>1. Init => OneUp /\ TakenOnce
  BY DEF Init, OneUp, TakenOnce
<1>2. TypeOK /\ OneUp /\ TakenOnce /\ [Next]_vars => OneUp' /\ TakenOnce'
  <2>1. OneUp /\ TakenOnce /\ UNCHANGED vars => OneUp' /\ TakenOnce'
    BY DEF OneUp, TakenOnce, vars, clientVars, fileVars, bridgeVars
  <2> QED
    BY <2>1, OneUpStep, TakenOnceStep
<1>3. TypeOK /\ TakenOnce /\ [Next]_vars =>
        [alone => \A r \in processing \ processing' :
           \/ r \in failed' \/ age[r] > StaleFailed
           \/ \E b \in Bridge : work[b].req = r /\ work[b].verdict = "ok"]_vars
  BY FailedKeptStep
<1> QED
  BY <1>1, <1>2, <1>3, TypeCorrect, PTL DEF Spec, FailedKept
=============================================================================
