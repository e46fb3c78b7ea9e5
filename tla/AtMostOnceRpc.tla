--------------------------- MODULE AtMostOnceRpc ---------------------------
(***************************************************************************)
(* What the file exchange of FileIpc promises its callers: a request runs  *)
(* at most once, a success is reported only for a request that has run,    *)
(* and a caller that was told "timed out" or "cancelled" knows that its    *)
(* request will not be picked up any more -- although one picked up before *)
(* may still run.  Nothing promises that a request runs at all.            *)
(***************************************************************************)
CONSTANT Request

VARIABLES
  place,   \* where a request is: unsent, sent, taken, ran or void
  answer   \* what its caller was told: none, or the outcome of the call

vars == <<place, answer>>

Answer == {"ok", "error", "timeout", "cancelled", "refused", "lost"}

Init ==
  /\ place = [r \in Request |-> "unsent"]
  /\ answer = [r \in Request |-> "none"]

Goes(r, from, to) ==
  /\ place[r] \in from
  /\ place' = [place EXCEPT ![r] = to]

\* Nothing was sent.
Refuse(r) ==
  /\ place[r] = "unsent" /\ answer[r] = "none"
  /\ answer' = [answer EXCEPT ![r] = "refused"]
  /\ UNCHANGED place

Send(r) == answer[r] = "none" /\ Goes(r, {"unsent"}, "sent") /\ UNCHANGED answer
Take(r) == Goes(r, {"sent"}, "taken") /\ UNCHANGED answer
Run(r)  == Goes(r, {"taken"}, "ran") /\ UNCHANGED answer

\* Some requests that were sent or taken will never run.
Drop(S) ==
  /\ \A r \in S : place[r] \in {"sent", "taken"}
  /\ place' = [r \in Request |-> IF r \in S THEN "void" ELSE place[r]]
  /\ UNCHANGED answer

\* The call returns what it was sent back.
Return(r) ==
  /\ answer[r] = "none" /\ place[r] # "unsent"
  /\ \E a \in {"ok", "error"} :
       /\ a = "ok" => place[r] = "ran"
       /\ answer' = [answer EXCEPT ![r] = a]
  /\ UNCHANGED place

\* The call returns with nothing, and takes back what was not yet taken.
GiveUp(r) ==
  /\ answer[r] = "none" /\ place[r] # "unsent"
  /\ \E a \in {"timeout", "cancelled"} : answer' = [answer EXCEPT ![r] = a]
  /\ place' = [place EXCEPT ![r] = IF @ = "sent" THEN "void" ELSE @]

\* The caller is gone.
Lose(r) ==
  /\ answer[r] = "none" /\ place[r] # "unsent"
  /\ answer' = [answer EXCEPT ![r] = "lost"]
  /\ UNCHANGED place

Next ==
  \/ \E r \in Request :
       \/ Refuse(r) \/ Send(r) \/ Take(r) \/ Run(r)
       \/ Return(r) \/ GiveUp(r) \/ Lose(r)
  \/ \E S \in SUBSET Request : Drop(S)

Spec == Init /\ [][Next]_vars
=============================================================================
