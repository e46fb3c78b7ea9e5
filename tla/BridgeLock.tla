----------------------------- MODULE BridgeLock -----------------------------
(***************************************************************************)
(* The single-instance protocol of the Lua bridge (reaper/lib/bridge.lua,  *)
(* reaper/QLabs_Reaper_MCP_Bridge.lua).  Several REAPER processes may run  *)
(* the bridge script against one IPC directory.  They share two files:     *)
(* bridge.lock, which names the instance that may run, and heartbeat.json, *)
(* which tells the MCP server whether a bridge is online.  Every read,     *)
(* replacement or removal of one of these files is a step of its own, so   *)
(* the instances interleave between them.                                  *)
(*                                                                         *)
(* Times are kept as ages (seconds since the event), each saturating just  *)
(* above the only thresholds the code compares it with: the model needs no *)
(* bound on the clock.                                                     *)
(***************************************************************************)
EXTENDS Naturals, FiniteSets

CONSTANTS
  Instance,           \* runs of the bridge script, each with a token of its own
  NoOne,              \* owner of an absent lock file
  LockStale,          \* LIMITS.LOCK_STALE_SECONDS
  HeartbeatInterval,  \* LIMITS.HEARTBEAT_INTERVAL_SECONDS
  MaxPause,           \* longest time a live instance goes without a step
  OverlapStarts,      \* may two instances start at the same moment?
  AtomicRename,       \* does rename replace an existing file in one step?
  DiskFails           \* may a file fail to be written or removed for other reasons?

ASSUME LockAssumption ==
  /\ NoOne \notin Instance
  /\ LockStale \in Nat
  /\ HeartbeatInterval \in Nat \ {0}
  /\ MaxPause \in Nat
  /\ OverlapStarts \in BOOLEAN
  /\ AtomicRename \in BOOLEAN
  /\ DiskFails \in BOOLEAN

VARIABLES
  pc,        \* where each instance is in start, tick and stop
  lock,      \* bridge.lock: owner (pid_token) and age of heartbeat_at
  beat,      \* heartbeat.json: status and age of timestamp
  stamp,     \* age of the timestamp an instance has read and not yet written
  since,     \* age of last_heartbeat
  swapping,  \* instance is between os.remove and the second os.rename
  pause      \* time since the instance's last step

vars == <<pc, lock, beat, stamp, since, swapping, pause>>

-----------------------------------------------------------------------------
(* An instance's place in the code.                                        *)
(*   off       not started, or refused by acquire_lock                     *)
(*   take      acquire_lock has decided to take the lock                   *)
(*   announce  start: write_heartbeat("online")    announced: its lock     *)
(*   idle      between two ticks                                           *)
(*   beat      tick: write_heartbeat("online")     beaten: its lock        *)
(*   lost      tick: write_heartbeat("offline")    lostsaid: its lock      *)
(*   ended     tick returned false, the atexit handler has not run yet     *)
(*   bye       stop: write_heartbeat("offline")    byesaid: its lock       *)
(*   release   release_lock is about to read       remove: and to remove   *)
(*   gone      the script has ended                crashed: without atexit *)
(*   stuck     it has ended and could not remove its lock                  *)

RunningAt  == {"announce", "announced", "idle", "beat", "beaten"}
SayingAt   == {"announce", "beat", "lost", "bye"}
SettingAt  == {"take", "announced", "beaten", "lostsaid", "byesaid"}
LeavingAt  == {"lost", "lostsaid", "ended", "bye", "byesaid", "release", "remove"}
StoppedAt  == {"off", "gone", "stuck", "crashed"}
AliveAt    == {"take"} \cup RunningAt \cup LeavingAt
Pc         == AliveAt \cup StoppedAt

\* self.running of bridge.lua.
Running(i) == pc[i] \in RunningAt

Age   == 0 .. LockStale + 1
NoLock == [owner |-> NoOne, age |-> 0]

Older(a) == IF a <= LockStale THEN a + 1 ELSE a

Init ==
  /\ pc = [i \in Instance |-> "off"]
  /\ lock = NoLock
  /\ beat = [status |-> "absent", age |-> 0]
  /\ stamp = [i \in Instance |-> 0]
  /\ since = [i \in Instance |-> 0]
  /\ swapping = [i \in Instance |-> FALSE]
  /\ pause = [i \in Instance |-> 0]

\* Instance i takes a step that leaves it at place p.
Moves(i, p) ==
  /\ pc' = [pc EXCEPT ![i] = p]
  /\ pause' = [pause EXCEPT ![i] = 0]

-----------------------------------------------------------------------------
(* Starting.                                                               *)

\* Mutant: the staleness threshold is confused with the heartbeat interval.
ForeignAndLive_ShortLease ==
  lock # NoLock /\ lock.age < HeartbeatInterval

\* acquire_lock's refusal.  A starting instance has no token yet, so an
\* existing lock is always foreign to it.
ForeignAndLive ==
  lock # NoLock /\ lock.age <= LockStale

\* start, up to the read of the lock in acquire_lock: refuse, or go on to take
\* the lock over with the time just read.
Start(i) ==
  /\ pc[i] = "off"
  /\ OverlapStarts \/ \A j \in Instance : pc[j] # "take"
  /\ ~ForeignAndLive
  /\ Moves(i, "take")
  /\ stamp' = [stamp EXCEPT ![i] = 0]
  /\ UNCHANGED <<lock, beat, since, swapping>>

-----------------------------------------------------------------------------
(* Writing the two files.                                                  *)

\* Where write_heartbeat and write_lock return to.
\* Mutant: stop forgets release_lock.
Continue_NoRelease(p) ==
  CASE p = "take"     -> "announce"  [] p = "announce" -> "announced"
    [] p = "beat"     -> "beaten"    [] p = "lost"     -> "lostsaid"
    [] p = "bye"      -> "byesaid"   [] p = "lostsaid" -> "ended"
    [] p = "byesaid"  -> "gone"      [] OTHER          -> "idle"

Continue(p) ==
  CASE p = "take"     -> "announce"  [] p = "announce" -> "announced"
    [] p = "beat"     -> "beaten"    [] p = "lost"     -> "lostsaid"
    [] p = "bye"      -> "byesaid"   [] p = "lostsaid" -> "ended"
    [] p = "byesaid"  -> "release"   [] OTHER          -> "idle"

\* write_heartbeat, first half: the document is stamped and heartbeat.json
\* replaced.
WriteHeartbeat(i) ==
  /\ pc[i] \in SayingAt
  /\ beat' = [status |-> IF Running(i) THEN "online" ELSE "offline", age |-> 0]
  /\ stamp' = [stamp EXCEPT ![i] = 0]
  /\ Moves(i, Continue(pc[i]))
  /\ UNCHANGED <<lock, since, swapping>>

\* ... or it cannot be: the lock is refreshed all the same.
HeartbeatFails(i) ==
  /\ DiskFails
  /\ pc[i] \in SayingAt
  /\ stamp' = [stamp EXCEPT ![i] = 0]
  /\ Moves(i, Continue(pc[i]))
  /\ UNCHANGED <<lock, beat, since, swapping>>

\* start sets last_heartbeat once its first heartbeat is out.
SinceAfter(i) ==
  IF pc[i] = "announced" THEN [since EXCEPT ![i] = 0] ELSE since

\* Mutant: the lock is refreshed before the instance has a token.
WriteLock_NoToken(i) ==
  /\ pc[i] \in SettingAt
  /\ AtomicRename \/ lock = NoLock
  /\ lock' = [owner |-> NoOne, age |-> stamp[i]]
  /\ swapping' = [swapping EXCEPT ![i] = FALSE]
  /\ since' = SinceAfter(i)
  /\ Moves(i, Continue(pc[i]))
  /\ UNCHANGED <<beat, stamp>>

\* write_lock: acquire_lock's first write, and the refresh that ends every
\* write_heartbeat, whatever its status.
WriteLock(i) ==
  /\ pc[i] \in SettingAt
  /\ AtomicRename \/ lock = NoLock
  /\ lock' = [owner |-> i, age |-> stamp[i]]
  /\ swapping' = [swapping EXCEPT ![i] = FALSE]
  /\ since' = SinceAfter(i)
  /\ Moves(i, Continue(pc[i]))
  /\ UNCHANGED <<beat, stamp>>

\* realfs.rename where rename refuses an existing destination: the old lock is
\* removed first ...
Unlink(i) ==
  /\ pc[i] \in SettingAt
  /\ ~AtomicRename /\ ~swapping[i] /\ lock # NoLock
  /\ lock' = NoLock
  /\ swapping' = [swapping EXCEPT ![i] = TRUE]
  /\ Moves(i, pc[i])
  /\ UNCHANGED <<beat, stamp, since>>

\* ... and the write fails when another lock appears before the second rename,
\* or for a reason of the disk: acquire_lock gives up, write_heartbeat does not
\* notice.
WriteLockFails(i) ==
  /\ pc[i] \in SettingAt
  /\ DiskFails \/ (swapping[i] /\ lock # NoLock)
  /\ swapping' = [swapping EXCEPT ![i] = FALSE]
  /\ since' = SinceAfter(i)
  /\ Moves(i, IF pc[i] = "take" THEN "off" ELSE Continue(pc[i]))
  /\ UNCHANGED <<lock, beat, stamp>>

-----------------------------------------------------------------------------
(* Ticking.                                                                *)

\* Mutant: the heartbeat is written only once the lock could be stale.
HeartbeatDue_Late(i) == since[i] > LockStale

HeartbeatDue(i) == since[i] >= HeartbeatInterval

\* A tick before the heartbeat is due: poll_once and gc (module FileIpc).
TickOnly(i) ==
  /\ pc[i] = "idle" /\ ~HeartbeatDue(i)
  /\ pause[i] > 0
  /\ Moves(i, "idle")
  /\ UNCHANGED <<lock, beat, stamp, since, swapping>>

\* Mutant: the heartbeat is written without looking at the lock.
CheckLock_Blind(i) ==
  /\ pc[i] = "idle" /\ HeartbeatDue(i)
  /\ since' = [since EXCEPT ![i] = 0]
  /\ Moves(i, "beat")
  /\ UNCHANGED <<lock, beat, stamp, swapping>>

\* A tick whose heartbeat is due reads the lock before it writes: an instance
\* that no longer owns it sets running to false and says goodbye.
CheckLock(i) ==
  /\ pc[i] = "idle" /\ HeartbeatDue(i)
  /\ since' = [since EXCEPT ![i] = 0]
  /\ Moves(i, IF lock.owner = i THEN "beat" ELSE "lost")
  /\ UNCHANGED <<lock, beat, stamp, swapping>>

-----------------------------------------------------------------------------
(* Stopping.                                                               *)

\* reaper.atexit runs cleanup between two ticks, or after the last one.
AtExit(i) ==
  /\ pc[i] \in {"idle", "ended"}
  /\ Moves(i, "bye")
  /\ UNCHANGED <<lock, beat, stamp, since, swapping>>

\* release_lock reads the lock ...
ReadForRelease(i) ==
  /\ pc[i] = "release"
  /\ Moves(i, IF lock.owner = i THEN "remove" ELSE "gone")
  /\ UNCHANGED <<lock, beat, stamp, since, swapping>>

\* ... and removes whatever lock is there by then.
RemoveLock(i) ==
  /\ pc[i] = "remove"
  /\ lock' = NoLock
  /\ Moves(i, "gone")
  /\ UNCHANGED <<beat, stamp, since, swapping>>

\* ... unless it cannot: nobody looks at what the removal returns.
RemoveFails(i) ==
  /\ DiskFails
  /\ pc[i] = "remove"
  /\ Moves(i, "stuck")
  /\ UNCHANGED <<lock, beat, stamp, since, swapping>>

\* REAPER dies: no atexit handler runs and the files stay as they are.
Crash(i) ==
  /\ pc[i] \in AliveAt
  /\ Moves(i, "crashed")
  /\ swapping' = [swapping EXCEPT ![i] = FALSE]
  /\ UNCHANGED <<lock, beat, stamp, since>>

-----------------------------------------------------------------------------
\* A second passes.  No live instance is kept from its next step for more than
\* MaxPause seconds; a larger MaxPause is a REAPER whose UI thread is blocked.
Second ==
  /\ \A i \in Instance : pc[i] \in AliveAt => pause[i] < MaxPause
  /\ lock' = IF lock = NoLock THEN lock ELSE [lock EXCEPT !.age = Older(@)]
  /\ beat' = [beat EXCEPT !.age = Older(@)]
  /\ stamp' = [i \in Instance |-> IF pc[i] \in SettingAt THEN Older(stamp[i])
                                                         ELSE stamp[i]]
  /\ since' = [i \in Instance |-> IF Running(i) THEN Older(since[i]) ELSE since[i]]
  /\ pause' = [i \in Instance |-> IF pc[i] \in AliveAt THEN pause[i] + 1
                                                       ELSE pause[i]]
  /\ UNCHANGED <<pc, swapping>>

\* The steps the bridge's own code takes once it has been started.
Works(i) ==
  \/ WriteHeartbeat(i) \/ HeartbeatFails(i)
  \/ WriteLock(i) \/ Unlink(i) \/ WriteLockFails(i)
  \/ TickOnly(i) \/ CheckLock(i)
  \/ ReadForRelease(i) \/ RemoveLock(i) \/ RemoveFails(i)
  \/ pc[i] = "ended" /\ AtExit(i)

Next ==
  \/ \E i \in Instance : Start(i) \/ Works(i) \/ AtExit(i) \/ Crash(i)
  \/ Second

Spec == Init /\ [][Next]_vars

\* REAPER keeps calling a script that has deferred itself, and time passes.
\* Nobody has to start, quit or crash.
FairSpec == Spec /\ WF_vars(Second) /\ \A i \in Instance : WF_vars(Works(i))

-----------------------------------------------------------------------------
(* Properties.                                                             *)

\* The shape of every variable.
TypeOK ==
  /\ pc \in [Instance -> Pc]
  /\ lock \in [owner : Instance \cup {NoOne}, age : Age]
  /\ lock.owner = NoOne => lock = NoLock
  /\ beat \in [status : {"absent", "online", "offline"}, age : Age]
  /\ stamp \in [Instance -> Age]
  /\ since \in [Instance -> Age]
  /\ swapping \in [Instance -> BOOLEAN]
  /\ pause \in [Instance -> 0 .. MaxPause]

\* At most one instance of the bridge runs at any time (start, acquire_lock:
\* "single-instance lock").
MutualExclusion ==
  \A i, j \in Instance : Running(i) /\ Running(j) => i = j

\* What the MCP server reads: as long as a started bridge runs, heartbeat.json
\* says so and is fresh, and the lock carries the bridge's name and is fresh,
\* so no other bridge can start.
LiveBridgeVisible ==
  \A i \in Instance :
    pc[i] \in {"announced", "idle", "beat", "beaten"} =>
      /\ beat.status = "online" /\ beat.age <= LockStale
      /\ lock.owner = i /\ lock.age <= LockStale

\* An instance that shut down through its atexit handler leaves no lock in its
\* own name behind, so the next start does not have to wait for staleness.
NoOrphanAfterStop ==
  \A i \in Instance : pc[i] = "gone" => lock.owner # i

\* An instance that has seen another name in the lock never writes the lock
\* again (the ordering comment of tick).
LoserLeavesLock ==
  [][\A i \in Instance :
       pc[i] \in {"lost", "lostsaid", "ended"} /\ lock' # lock => lock'.owner # i]_vars

\* Two instances that started at the same moment do not both keep running,
\* whatever the disk refuses, unless a pause inside the write of a lock may be as
\* long as a heartbeat interval: then they may go on replacing each other's lock.
StartRaceResolved ==
  ~MutualExclusion ~> MutualExclusion

-----------------------------------------------------------------------------
(* Why a lease is never broken: the strengthening of MutualExclusion and   *)
(* LiveBridgeVisible that a step preserves.                                *)

\* The bridges started one after the other, rename replaces atomically, the disk
\* does what it is told, and no live bridge is blocked for so long that its lease
\* could run out.
Prompt ==
  /\ ~OverlapStarts
  /\ AtomicRename /\ ~DiskFails
  /\ HeartbeatInterval + 4 * MaxPause <= LockStale

\* How old a holder's lock can be when it arrives at place p.
Lease(p) ==
  CASE p = "announce"              -> MaxPause
    [] p = "announced"             -> 2 * MaxPause
    [] p = "idle"                  -> HeartbeatInterval + MaxPause
    [] p \in {"beat", "bye"}       -> HeartbeatInterval + 2 * MaxPause
    [] p \in {"beaten", "byesaid"} -> HeartbeatInterval + 3 * MaxPause
    [] p = "release"               -> MaxPause
    [] OTHER                       -> 2 * MaxPause

Holds(i) == pc[i] \in AliveAt /\ pc[i] # "take"

\* From its first write to its last an instance finds the lock its own and
\* younger than Lease allows, and its heartbeat is no older than its lock; it
\* never gets on the path of a loser.
LeaseOf(i) ==
  /\ pc[i] \notin {"lost", "lostsaid", "ended"}
  /\ ~swapping[i]
  /\ pc[i] \in SettingAt => stamp[i] <= pause[i]
  /\ Holds(i) => lock.owner = i /\ lock.age <= Lease(pc[i]) + pause[i]
  /\ pc[i] = "idle" /\ ~HeartbeatDue(i) => lock.age <= MaxPause + since[i]
  /\ pc[i] \in {"announced", "idle", "beat", "beaten"} => beat.status = "online"
  /\ pc[i] \in {"announced", "beaten"} => beat.age <= stamp[i]
  /\ pc[i] \in {"idle", "beat"} => beat.age <= lock.age

\* One instance at a time is alive.
Alone ==
  \A i, j \in Instance : pc[i] \in AliveAt /\ pc[j] \in AliveAt => i = j

LeaseInv == Alone /\ \A i \in Instance : LeaseOf(i)
=============================================================================
