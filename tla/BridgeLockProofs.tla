-------------------------- MODULE BridgeLockProofs --------------------------
(***************************************************************************)
(* What the lock guarantees for any number of instances and any timing:    *)
(* the types, that a clean stop leaves no lock behind (always), and mutual *)
(* exclusion and visibility while every bridge is prompt.                  *)
(***************************************************************************)
EXTENDS BridgeLock, TLAPS

\* Every variable keeps its shape.
THEOREM TypeCorrect == Spec => []TypeOK
<1> USE LockAssumption DEF Pc, AliveAt, RunningAt, LeavingAt, StoppedAt, Age, NoLock
<1>1. Init => TypeOK
  BY DEF Init, TypeOK
<1>2. TypeOK /\ [Next]_vars => TypeOK'
  <2> SUFFICES ASSUME TypeOK, [Next]_vars PROVE TypeOK'
    OBVIOUS
  <2> USE DEF TypeOK, Moves
  <2>1. ASSUME NEW i \in Instance, Start(i) PROVE TypeOK'
    BY <2>1 DEF Start
  <2>2. ASSUME NEW i \in Instance, WriteHeartbeat(i) \/ HeartbeatFails(i) PROVE TypeOK'
    BY <2>2 DEF WriteHeartbeat, HeartbeatFails, Continue, SayingAt, Running
  <2>3. ASSUME NEW i \in Instance, WriteLock(i) PROVE TypeOK'
    BY <2>3 DEF WriteLock, Continue, SettingAt, SinceAfter
  <2>4. ASSUME NEW i \in Instance, Unlink(i) PROVE TypeOK'
    BY <2>4 DEF Unlink, SettingAt
  <2>5. ASSUME NEW i \in Instance, WriteLockFails(i) PROVE TypeOK'
    BY <2>5 DEF WriteLockFails, Continue, SettingAt, SinceAfter
  <2>6. ASSUME NEW i \in Instance, TickOnly(i) \/ CheckLock(i) PROVE TypeOK'
    BY <2>6 DEF TickOnly, CheckLock
  <2>7. ASSUME NEW i \in Instance, AtExit(i) PROVE TypeOK'
    BY <2>7 DEF AtExit
  <2>11. ASSUME NEW i \in Instance, ReadForRelease(i) PROVE TypeOK'
    <3>1. pc' \in [Instance -> Pc]
      BY <2>11 DEF ReadForRelease
    <3>2. QED BY <2>11, <3>1 DEF ReadForRelease
  <2>12. ASSUME NEW i \in Instance, RemoveLock(i) \/ RemoveFails(i) PROVE TypeOK'
    BY <2>12 DEF RemoveLock, RemoveFails
  <2>13. ASSUME NEW i \in Instance, Crash(i) PROVE TypeOK'
    BY <2>13 DEF Crash
  <2>8. CASE Second
    <3>1. /\ lock' \in [owner : Instance \cup {NoOne}, age : Age]
          /\ lock'.owner = NoOne => lock' = NoLock
      BY <2>8 DEF Second, Older
    <3>2. beat' \in [status : {"absent", "online", "offline"}, age : Age]
      BY <2>8 DEF Second, Older
    <3>3. stamp' \in [Instance -> Age] /\ since' \in [Instance -> Age]
      BY <2>8 DEF Second, Older
    <3>4. pause' \in [Instance -> 0 .. MaxPause]
      BY <2>8 DEF Second
    <3>5. QED BY <2>8, <3>1, <3>2, <3>3, <3>4 DEF Second
  <2>9. CASE UNCHANGED vars
    BY <2>9 DEF vars
  <2>10. QED
    BY <2>1, <2>2, <2>3, <2>4, <2>5, <2>6, <2>7, <2>8, <2>9,
       <2>11, <2>12, <2>13 DEF Next, Works
<1>3. QED BY <1>1, <1>2, PTL DEF Spec

\* stop never leaves a lock in the name of the instance that stopped, however
\* starts, heartbeats, crashes and pauses interleave with it.
THEOREM StopLeavesNoOrphan == Spec => []NoOrphanAfterStop
<1> USE LockAssumption
<1>1. Init => NoOrphanAfterStop
  BY DEF Init, NoOrphanAfterStop
<1>2. TypeOK /\ NoOrphanAfterStop /\ [Next]_vars => NoOrphanAfterStop'
  <2> SUFFICES ASSUME TypeOK, NoOrphanAfterStop, [Next]_vars,
                      NEW g \in Instance, pc'[g] = "gone"
               PROVE  lock'.owner # g
    BY DEF NoOrphanAfterStop
  <2> USE DEF TypeOK, Moves, NoOrphanAfterStop
  <2>1. ASSUME NEW i \in Instance, Start(i) PROVE lock'.owner # g
    BY <2>1 DEF Start
  <2>2. ASSUME NEW i \in Instance, WriteHeartbeat(i) \/ HeartbeatFails(i)
        PROVE  lock'.owner # g
    BY <2>2 DEF WriteHeartbeat, HeartbeatFails, Continue, SayingAt
  <2>3. ASSUME NEW i \in Instance, WriteLock(i) PROVE lock'.owner # g
    BY <2>3 DEF WriteLock, Continue, SettingAt
  <2>4. ASSUME NEW i \in Instance, Unlink(i) PROVE lock'.owner # g
    BY <2>4 DEF Unlink, NoLock
  <2>5. ASSUME NEW i \in Instance, WriteLockFails(i) PROVE lock'.owner # g
    BY <2>5 DEF WriteLockFails, Continue, SettingAt
  <2>6. ASSUME NEW i \in Instance, TickOnly(i) \/ CheckLock(i) PROVE lock'.owner # g
    BY <2>6 DEF TickOnly, CheckLock
  <2>7. ASSUME NEW i \in Instance,
               \/ AtExit(i) \/ ReadForRelease(i) \/ RemoveLock(i) \/ RemoveFails(i)
               \/ Crash(i)
        PROVE  lock'.owner # g
    BY <2>7 DEF AtExit, ReadForRelease, RemoveLock, RemoveFails, Crash, NoLock
  <2>8. CASE Second
    BY <2>8 DEF Second
  <2>9. CASE UNCHANGED vars
    BY <2>9 DEF vars
  <2>10. QED
    BY <2>1, <2>2, <2>3, <2>4, <2>5, <2>6, <2>7, <2>8, <2>9 DEF Next, Works
<1>3. QED BY <1>1, <1>2, TypeCorrect, PTL DEF Spec
-----------------------------------------------------------------------------
\* The table of Lease, entry by entry.
LEMMA LeaseTable ==
  /\ Lease("announce") = MaxPause
  /\ Lease("announced") = 2 * MaxPause
  /\ Lease("idle") = HeartbeatInterval + MaxPause
  /\ Lease("beat") = HeartbeatInterval + 2 * MaxPause
  /\ Lease("bye") = HeartbeatInterval + 2 * MaxPause
  /\ Lease("beaten") = HeartbeatInterval + 3 * MaxPause
  /\ Lease("byesaid") = HeartbeatInterval + 3 * MaxPause
  /\ Lease("release") = MaxPause
  /\ Lease("remove") = 2 * MaxPause
BY DEF Lease

\* The ages and pauses are numbers.
LEMMA Numbers ==
  ASSUME TypeOK, NEW i \in Instance
  PROVE  /\ lock.age \in Nat /\ beat.age \in Nat
         /\ stamp[i] \in Nat /\ since[i] \in Nat
         /\ pause[i] \in Nat /\ pause[i] <= MaxPause
BY LockAssumption DEF TypeOK, Age

\* An instance that is not alive has nothing to lose.
LEMMA NotAlive ==
  ASSUME NEW j \in Instance, LeaseOf(j), pc[j] \notin AliveAt,
         pc'[j] = pc[j], swapping'[j] = swapping[j]
  PROVE  LeaseOf(j)'
BY DEF LeaseOf, Holds, AliveAt, RunningAt, LeavingAt, SettingAt

\* A step of the one instance that is alive leaves everyone else as they were.
LEMMA OthersStay ==
  ASSUME TypeOK, LeaseInv, NEW i \in Instance, NEW p,
         Moves(i, p), pc[i] \in AliveAt,
         \A j \in Instance \ {i} : swapping'[j] = swapping[j],
         LeaseOf(i)'
  PROVE  LeaseInv'
<1>1. \A j \in Instance \ {i} : pc[j] \notin AliveAt /\ pc'[j] = pc[j]
  BY DEF LeaseInv, Alone, Moves, TypeOK
<1>2. \A j \in Instance \ {i} : LeaseOf(j)'
  BY <1>1, NotAlive DEF LeaseInv
<1>3. Alone'
  BY <1>1 DEF Alone
<1>4. QED BY <1>2, <1>3 DEF LeaseInv

\* A step of a prompt system keeps the lease of the one instance that is alive.
LEMMA LeaseInductive ==
  ASSUME Prompt, TypeOK, TypeOK', LeaseInv, [Next]_vars
  PROVE  LeaseInv'
<1> USE LockAssumption DEF Prompt, TypeOK, Moves, HeartbeatDue
<1>1. ASSUME NEW i \in Instance, Start(i) PROVE LeaseInv'
  <2>1. \A j \in Instance : pc[j] \notin AliveAt
    <3>1. ASSUME NEW j \in Instance, Holds(j) PROVE FALSE
      <4>1. lock.owner = j /\ lock.age <= Lease(pc[j]) + pause[j]
        BY <3>1 DEF LeaseInv, LeaseOf
      <4>2. Lease(pc[j]) <= HeartbeatInterval + 3 * MaxPause /\ Lease(pc[j]) \in Nat
        BY <3>1, LeaseTable DEF Holds, AliveAt, RunningAt, LeavingAt, LeaseInv, LeaseOf
      <4>3. lock.age <= LockStale /\ lock # NoLock
        BY <4>1, <4>2, Numbers DEF NoLock
      <4>4. QED BY <1>1, <4>3 DEF Start, ForeignAndLive
    <3>2. QED BY <1>1, <3>1 DEF Start, Holds
  <2>2. LeaseOf(i)'
    BY <1>1 DEF Start, LeaseInv, LeaseOf, Holds, SettingAt
  <2>3. \A j \in Instance \ {i} : pc'[j] = pc[j] /\ swapping'[j] = swapping[j]
    BY <1>1 DEF Start
  <2>4. \A j \in Instance \ {i} : LeaseOf(j)'
    BY <2>1, <2>3, NotAlive DEF LeaseInv
  <2>5. Alone'
    BY <2>1, <2>3 DEF Alone
  <2>6. QED BY <2>2, <2>4, <2>5 DEF LeaseInv
<1>2. ASSUME NEW i \in Instance, WriteHeartbeat(i) PROVE LeaseInv'
  <2>1. LeaseOf(i)'
    <3>1. /\ pause'[i] = 0 /\ stamp'[i] = 0 /\ pc'[i] = Continue(pc[i])
          /\ beat' = [status |-> IF Running(i) THEN "online" ELSE "offline", age |-> 0]
          /\ UNCHANGED <<lock, since, swapping>>
      BY <1>2 DEF WriteHeartbeat
    <3>2. LeaseOf(i)
      BY DEF LeaseInv
    <3>3. CASE pc[i] = "announce"
      <4>1. pc'[i] = "announced" /\ beat'.status = "online" /\ beat'.age = 0
        BY <3>1, <3>3 DEF Continue, Running, RunningAt
      <4>2. lock.owner = i /\ lock.age <= 2 * MaxPause
        BY <3>2, <3>3, Numbers, LeaseTable DEF LeaseOf, Holds, AliveAt, RunningAt
      <4>3. QED BY <3>1, <3>2, <4>1, <4>2, LeaseTable, Numbers DEF LeaseOf, Holds, SettingAt
    <3>4. CASE pc[i] = "beat"
      <4>1. pc'[i] = "beaten" /\ beat'.status = "online" /\ beat'.age = 0
        BY <3>1, <3>4 DEF Continue, Running, RunningAt
      <4>2. lock.owner = i /\ lock.age <= HeartbeatInterval + 3 * MaxPause
        BY <3>2, <3>4, Numbers, LeaseTable DEF LeaseOf, Holds, AliveAt, RunningAt
      <4>3. QED BY <3>1, <3>2, <4>1, <4>2, LeaseTable, Numbers DEF LeaseOf, Holds, SettingAt
    <3>5. CASE pc[i] = "bye"
      <4>1. pc'[i] = "byesaid"
        BY <3>1, <3>5 DEF Continue
      <4>2. lock.owner = i /\ lock.age <= HeartbeatInterval + 3 * MaxPause
        BY <3>2, <3>5, Numbers, LeaseTable DEF LeaseOf, Holds, AliveAt, LeavingAt
      <4>3. QED BY <3>1, <3>2, <4>1, <4>2, LeaseTable, Numbers DEF LeaseOf, Holds, SettingAt
    <3>6. QED BY <1>2, <3>2, <3>3, <3>4, <3>5 DEF WriteHeartbeat, SayingAt, LeaseOf
  <2>2. QED
    BY <1>2, <2>1, OthersStay DEF WriteHeartbeat, SayingAt, AliveAt, RunningAt, LeavingAt
<1>3. ASSUME NEW i \in Instance, WriteLock(i) PROVE LeaseInv'
  <2>1. LeaseOf(i)'
    <3>1. /\ pause'[i] = 0 /\ pc'[i] = Continue(pc[i]) /\ ~swapping'[i]
          /\ lock' = [owner |-> i, age |-> stamp[i]] /\ since' = SinceAfter(i)
          /\ UNCHANGED <<beat, stamp>>
      BY <1>3 DEF WriteLock
    <3>2. /\ LeaseOf(i) /\ stamp[i] <= MaxPause /\ lock'.owner = i /\ lock'.age = stamp[i]
          /\ since'[i] \in Nat
      BY <1>3, <3>1, Numbers DEF WriteLock, LeaseInv, LeaseOf, Age
    <3>3. CASE pc[i] = "take"
      <4>1. pc'[i] = "announce"
        BY <3>1, <3>3 DEF Continue
      <4>2. QED BY <3>1, <3>2, <4>1, LeaseTable, Numbers DEF LeaseOf, Holds, SettingAt
    <3>4. CASE pc[i] \in {"announced", "beaten"}
      <4>1. pc'[i] = "idle"
        BY <3>1, <3>4 DEF Continue
      <4>2. beat.status = "online" /\ beat.age <= stamp[i]
        BY <3>2, <3>4 DEF LeaseOf
      <4>3. QED
        BY <3>1, <3>2, <4>1, <4>2, LeaseTable, Numbers DEF LeaseOf, Holds, SettingAt
    <3>5. CASE pc[i] = "byesaid"
      <4>1. pc'[i] = "release"
        BY <3>1, <3>5 DEF Continue
      <4>2. QED BY <3>1, <3>2, <4>1, LeaseTable, Numbers DEF LeaseOf, Holds, SettingAt
    <3>6. QED BY <1>3, <3>2, <3>3, <3>4, <3>5 DEF WriteLock, SettingAt, LeaseOf
  <2>2. QED
    BY <1>3, <2>1, OthersStay DEF WriteLock, SettingAt, AliveAt, RunningAt, LeavingAt
<1>4. ASSUME NEW i \in Instance,
             \/ Unlink(i) \/ WriteLockFails(i) \/ HeartbeatFails(i) \/ RemoveFails(i)
      PROVE  LeaseInv'
  BY <1>4 DEF Unlink, WriteLockFails, HeartbeatFails, RemoveFails, LeaseInv, LeaseOf
<1>5. ASSUME NEW i \in Instance, TickOnly(i) PROVE LeaseInv'
  <2>1. /\ pc[i] = "idle" /\ pc'[i] = "idle" /\ pause'[i] = 0 /\ ~HeartbeatDue(i)
        /\ UNCHANGED <<lock, beat, stamp, since, swapping>>
    BY <1>5 DEF TickOnly
  <2>2. LeaseOf(i) /\ lock.owner = i /\ lock.age <= MaxPause + since[i]
    BY <2>1 DEF LeaseInv, LeaseOf, Holds, AliveAt, RunningAt
  <2>3. LeaseOf(i)'
    BY <2>1, <2>2, Numbers, LeaseTable DEF LeaseOf, Holds, SettingAt
  <2>4. QED BY <1>5, <2>3, OthersStay DEF TickOnly, AliveAt, RunningAt
<1>6. ASSUME NEW i \in Instance, CheckLock(i) PROVE LeaseInv'
  <2>1. LeaseOf(i) /\ lock.owner = i /\ pc[i] = "idle"
    BY <1>6 DEF CheckLock, LeaseInv, LeaseOf, Holds, AliveAt, RunningAt
  <2>2. /\ pc'[i] = "beat" /\ pause'[i] = 0 /\ since'[i] = 0
        /\ UNCHANGED <<lock, beat, stamp, swapping>>
    BY <1>6, <2>1 DEF CheckLock
  <2>3. lock.age <= HeartbeatInterval + 2 * MaxPause
    BY <2>1, Numbers, LeaseTable DEF LeaseOf, Holds, AliveAt, RunningAt
  <2>4. LeaseOf(i)'
    BY <2>1, <2>2, <2>3, Numbers, LeaseTable DEF LeaseOf, Holds, SettingAt
  <2>5. QED BY <1>6, <2>4, OthersStay DEF CheckLock, AliveAt, RunningAt
<1>7. ASSUME NEW i \in Instance, AtExit(i) PROVE LeaseInv'
  <2>1. pc'[i] = "bye" /\ pause'[i] = 0 /\ UNCHANGED <<lock, beat, stamp, since, swapping>>
    BY <1>7 DEF AtExit
  <2>2. pc[i] = "idle" /\ LeaseOf(i)
    BY <1>7 DEF AtExit, LeaseInv, LeaseOf
  <2>3. lock.owner = i /\ lock.age <= HeartbeatInterval + 2 * MaxPause
    BY <2>2, Numbers, LeaseTable DEF LeaseOf, Holds, AliveAt, RunningAt
  <2>4. LeaseOf(i)'
    BY <2>1, <2>2, <2>3, Numbers, LeaseTable DEF LeaseOf, Holds, SettingAt
  <2>5. QED BY <1>7, <2>4, OthersStay DEF AtExit, AliveAt, RunningAt, LeavingAt
<1>8. ASSUME NEW i \in Instance, ReadForRelease(i) PROVE LeaseInv'
  <2>1. /\ pc[i] = "release" /\ pause'[i] = 0
        /\ UNCHANGED <<lock, beat, stamp, since, swapping>>
    BY <1>8 DEF ReadForRelease
  <2>2. LeaseOf(i) /\ lock.owner = i /\ lock.age <= 2 * MaxPause
    BY <2>1, Numbers, LeaseTable DEF LeaseInv, LeaseOf, Holds, AliveAt, LeavingAt
  <2>3. pc'[i] = "remove"
    BY <1>8, <2>2 DEF ReadForRelease
  <2>4. LeaseOf(i)'
    BY <2>1, <2>2, <2>3, Numbers, LeaseTable DEF LeaseOf, Holds, SettingAt
  <2>5. QED BY <1>8, <2>4, OthersStay DEF ReadForRelease, AliveAt, RunningAt, LeavingAt
<1>9. ASSUME NEW i \in Instance, RemoveLock(i) PROVE LeaseInv'
  <2>1. LeaseOf(i)'
    BY <1>9 DEF RemoveLock, LeaseInv, LeaseOf, Holds, SettingAt, AliveAt, RunningAt, LeavingAt
  <2>2. QED BY <1>9, <2>1, OthersStay DEF RemoveLock, AliveAt, RunningAt, LeavingAt
<1>10. ASSUME NEW i \in Instance, Crash(i) PROVE LeaseInv'
  <2>1. LeaseOf(i)'
    BY <1>10 DEF Crash, LeaseInv, LeaseOf, Holds, SettingAt, AliveAt, RunningAt, LeavingAt
  <2>2. QED BY <1>10, <2>1, OthersStay DEF Crash
<1>11. CASE Second
  <2>1. ASSUME NEW i \in Instance PROVE LeaseOf(i)'
    BY <1>11 DEF Second, Older, LeaseInv, LeaseOf, Lease, Holds, SettingAt, Running, Age,
       AliveAt, RunningAt, LeavingAt, NoLock
  <2>2. QED BY <1>11, <2>1 DEF Second, LeaseInv, Alone
<1>12. CASE UNCHANGED vars
  BY <1>12 DEF vars, LeaseInv, Alone, LeaseOf, Holds
<1>13. QED
  BY <1>1, <1>2, <1>3, <1>4, <1>5, <1>6, <1>7, <1>8, <1>9, <1>10, <1>11, <1>12
  DEF Next, Works

\* While every bridge is prompt, the lease of the one that is alive never runs out.
THEOREM LeaseCorrect == ASSUME Prompt PROVE Spec => []LeaseInv
<1>1. Init => LeaseInv
  BY LockAssumption DEF Init, LeaseInv, Alone, LeaseOf, Holds, AliveAt, RunningAt, LeavingAt, SettingAt
<1>2. TypeOK /\ TypeOK' /\ LeaseInv /\ [Next]_vars => LeaseInv'
  BY Prompt, LeaseInductive
<1>3. QED BY <1>1, <1>2, TypeCorrect, PTL DEF Spec

\* While every bridge is prompt, at most one runs.
THEOREM LeaseIsExclusive == ASSUME Prompt PROVE Spec => []MutualExclusion
<1>1. TypeOK /\ LeaseInv => MutualExclusion
  BY DEF LeaseInv, Alone, MutualExclusion, Running, AliveAt
<1>2. QED BY <1>1, LeaseCorrect, TypeCorrect, PTL

\* While every bridge is prompt, the one that runs is visible to the server and
\* holds a lock that no starting instance may take.
THEOREM LiveBridgeIsVisible == ASSUME Prompt PROVE Spec => []LiveBridgeVisible
<1>1. TypeOK /\ LeaseInv => LiveBridgeVisible
  <2> SUFFICES ASSUME TypeOK, LeaseInv, NEW i \in Instance,
                      pc[i] \in {"announced", "idle", "beat", "beaten"}
               PROVE  /\ beat.status = "online" /\ beat.age <= LockStale
                      /\ lock.owner = i /\ lock.age <= LockStale
    BY DEF LiveBridgeVisible
  <2> USE Prompt, LockAssumption DEF Prompt, TypeOK, LeaseInv, LeaseOf, Holds, Lease, Age,
          AliveAt, RunningAt, SettingAt
  <2>1. beat.status = "online" /\ lock.owner = i
    OBVIOUS
  <2>2. lock.age <= LockStale
    OBVIOUS
  <2>3. beat.age <= LockStale
    BY <2>2
  <2>4. QED BY <2>1, <2>2, <2>3
<1>2. QED BY <1>1, LeaseCorrect, TypeCorrect, PTL
=============================================================================
