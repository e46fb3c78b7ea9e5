--------------------------- MODULE StagingProofs ---------------------------
(***************************************************************************)
(* Proofs about module Staging: its type invariant; that no operation of   *)
(* the bridge, its roll-back and its undo included, touches an item of the *)
(* user's, whatever REAPER keeps in its undo history; and, where every     *)
(* block leaves its undo entry, that it touches one transaction only and   *)
(* that an operation that fails leaves the project as it was.              *)
(***************************************************************************)
EXTENDS Staging, SequenceTheorems, TLAPS

-----------------------------------------------------------------------------
(* The undo history.                                                       *)

LEMMA LabelsTyped ==
  ASSUME NEW kind \in {"user", "stage", "commit", "discard"}, NEW t \in Tx \cup {NoTx}
  PROVE  By(kind, t) \in Label
BY DEF By, Label

LEMMA NotTheUsers ==
  ASSUME NEW kind \in {"stage", "commit", "discard"}, NEW t
  PROVE  By(kind, t) # UserLabel
BY DEF By, UserLabel

\* What Undo_EndBlock2 makes of the history, entry by entry.
LEMMA PushedEntries ==
  ASSUME TypeOK, NEW label \in Label
  PROVE  /\ Pushed(label) \in Seq(Entry)
         /\ Len(Pushed(label)) \in 1 .. MaxUndo
         /\ Len(Pushed(label)) <= Len(undo) + 1
         /\ Pushed(label)[1] = [label |-> label, before |-> project]
         /\ \A i \in 2 .. Len(Pushed(label)) : Pushed(label)[i] = undo[i - 1]
<1> DEFINE n == IF Len(undo) < MaxUndo THEN Len(undo) + 1 ELSE MaxUndo
           entry(i) == IF i = 1 THEN [label |-> label, before |-> project]
                                ELSE undo[i - 1]
<1>1. /\ undo \in Seq(Entry) /\ Len(undo) \in Nat /\ Len(undo) <= MaxUndo
      /\ MaxUndo \in Nat \ {0} /\ project \in Project
  BY StagingAssumption DEF TypeOK
<1>2. n \in Nat /\ n \in 1 .. MaxUndo /\ n <= Len(undo) + 1
  BY <1>1
<1>3. [label |-> label, before |-> project] \in Entry
  BY <1>1 DEF Entry
<1>4. \A i \in 1 .. Len(undo) : undo[i] \in Entry
  BY <1>1
<1>5. \A i \in 1 .. n : entry(i) \in Entry
  BY <1>1, <1>2, <1>3, <1>4
<1>6. Pushed(label) = [i \in 1 .. n |-> entry(i)]
  BY DEF Pushed
<1> HIDE DEF n, entry
<1>7. Pushed(label) \in Seq(Entry) /\ Len(Pushed(label)) = n
  BY <1>2, <1>5, <1>6, IsASeq
<1>8. \A i \in 1 .. n : Pushed(label)[i] = entry(i)
  BY <1>6
<1>9. /\ entry(1) = [label |-> label, before |-> project]
      /\ \A i \in 2 .. n : entry(i) = undo[i - 1]
  BY <1>2 DEF entry
<1> QED
  BY <1>2, <1>7, <1>8, <1>9

\* What Undo_DoUndo2 leaves of a history.
LEMMA RestOfHistory ==
  ASSUME NEW h \in Seq(Entry), h # <<>>
  PROVE  /\ Head(h) \in Entry /\ Head(h) = h[1] /\ Len(h) >= 1
         /\ Tail(h) \in Seq(Entry) /\ Len(Tail(h)) = Len(h) - 1
         /\ \A i \in 1 .. Len(Tail(h)) : Tail(h)[i] = h[i + 1]
BY EmptySeq, HeadTailProperties

-----------------------------------------------------------------------------
(* The projects the operations make.                                       *)

LEMMA TidyTyped ==
  ASSUME NEW p \in Layout
  PROVE  Tidy(p) \in Project
BY DEF Tidy, Project, Layout, HasObjects

LEMMA DeleteTrackTyped ==
  ASSUME NEW p \in Layout, NEW t \in Tx
  PROVE  DeleteTrack(p, t) \in Layout
BY DEF DeleteTrack, Layout, Place

LEMMA StageTyped ==
  ASSUME project \in Project, NEW t \in Tx
  PROVE  WithTrack(t) \in Project /\ Generated(t) \in Project
<1>1. WithTrack(t) \in Project
  BY DEF WithTrack, Project, Layout, HasObjects
<1>2. Generated(t) \in Layout
  BY <1>1 DEF Generated, Project, Layout, Item, Place
<1>3. \A o \in Generated(t).committed : HasObjects(Generated(t), o)
  <2> SUFFICES ASSUME NEW o \in WithTrack(t).committed
               PROVE  HasObjects(Generated(t), o)
    BY DEF Generated
  <2>1. HasObjects(WithTrack(t), o) /\ o \in Item
    BY <1>1 DEF Project, Layout, Item
  <2>2. Generated(t).tracks = WithTrack(t).tracks
    BY DEF Generated
  <2>3. Generated(t).on[o] = IF o = t THEN t ELSE WithTrack(t).on[o]
    BY <1>1, <2>1 DEF Generated, Project, Layout
  <2> QED
    BY <2>1, <2>2, <2>3, StagingAssumption DEF HasObjects
<1> QED
  BY <1>1, <1>2, <1>3 DEF Project

LEMMA CommittedTyped ==
  ASSUME project \in Project, NEW t \in Tx, HasObjects(project, t)
  PROVE  Committed(t) \in Project
BY DEF Committed, Project, Layout, HasObjects

LEMMA MovedTyped ==
  ASSUME project \in Project, NEW i \in Item, NEW place \in Place
  PROVE  [project EXCEPT !.on[i] = place] \in Layout
BY DEF Project, Layout

LEMMA DiscardedTyped ==
  ASSUME project \in Project, NEW t \in Tx
  PROVE  /\ WithoutItem(t) \in Layout
         /\ Tidy(WithoutItem(t)) \in Project
         /\ Discarded(t) \in Project
<1>1. WithoutItem(t) \in Layout
  BY MovedTyped DEF WithoutItem, Item, Place
<1>2. DeleteTrack(WithoutItem(t), t) \in Layout
  BY <1>1, DeleteTrackTyped
<1> QED
  BY <1>1, <1>2, TidyTyped DEF Discarded

-----------------------------------------------------------------------------
(* TypeOK: every way to change project and undo keeps their types.         *)

HistoryOK == project \in Project /\ undo \in Seq(Entry) /\ Len(undo) <= MaxUndo

LEMMA PushedTyped ==
  ASSUME TypeOK, NEW label \in Label
  PROVE  Pushed(label) \in Seq(Entry) /\ Len(Pushed(label)) <= MaxUndo
<1>1. Pushed(label) \in Seq(Entry)
  BY PushedEntries
<1>2. Len(Pushed(label)) \in 1 .. MaxUndo
  BY PushedEntries
<1> QED
  BY <1>1, <1>2, StagingAssumption

LEMMA HistoriesTyped ==
  ASSUME TypeOK, NEW label \in Label, NEW p, NEW h \in Histories(label, p)
  PROVE  h \in Seq(Entry) /\ Len(h) <= MaxUndo
<1>1. Pushed(label) \in Seq(Entry) /\ Len(Pushed(label)) <= MaxUndo
  BY PushedTyped
<1>2. h = undo \/ h = Pushed(label)
  BY DEF Histories
<1>3. undo \in Seq(Entry) /\ Len(undo) <= MaxUndo
  BY DEF TypeOK
<1> QED
  BY <1>1, <1>2, <1>3

LEMMA RevertedTyped ==
  ASSUME NEW h \in Seq(Entry), Len(h) <= MaxUndo, h # <<>>, Reverted(h)
  PROVE  HistoryOK'
<1>1. Head(h).before \in Project
  BY RestOfHistory DEF Entry
<1> QED
  BY <1>1, RestOfHistory, StagingAssumption DEF Reverted, HistoryOK

LEMMA SucceedsTyped ==
  ASSUME TypeOK, NEW label \in Label, NEW p \in Project, Succeeds(label, p)
  PROVE  HistoryOK'
BY HistoriesTyped DEF Succeeds, HistoryOK

LEMMA FailsTyped ==
  ASSUME TypeOK, NEW label \in Label, NEW p \in Project, Fails(label, p)
  PROVE  HistoryOK'
<1>1. PICK h \in Histories(label, p) :
        IF RollsBack(label, p, h) THEN Reverted(h) ELSE project' = p /\ undo' = h
  BY DEF Fails
<1>2. h \in Seq(Entry) /\ Len(h) <= MaxUndo
  BY HistoriesTyped
<1>3. CASE RollsBack(label, p, h)
  BY <1>1, <1>2, <1>3, RevertedTyped DEF RollsBack, OnTop
<1>4. CASE ~RollsBack(label, p, h)
  BY <1>1, <1>2, <1>4 DEF HistoryOK
<1> QED
  BY <1>3, <1>4

LEMMA UserMakesTyped ==
  ASSUME TypeOK, NEW p \in Project, UserMakes(p)
  PROVE  TypeOK'
<1>1. UserLabel \in Label
  BY LabelsTyped DEF UserLabel
<1>2. Pushed(UserLabel) \in Seq(Entry) /\ Len(Pushed(UserLabel)) <= MaxUndo
  BY <1>1, PushedTyped
<1> QED
  BY <1>2 DEF UserMakes, TypeOK

LEMMA TypeStep ==
  ASSUME TypeOK, [Next]_vars
  PROVE  TypeOK'
<1> USE DEF TypeOK
<1>1. ASSUME NEW t \in Tx, Stage(t) PROVE TypeOK'
  <2>1. By("stage", t) \in Label
    BY LabelsTyped
  <2>2. HistoryOK'
    BY <1>1, <2>1, StageTyped, SucceedsTyped DEF Stage
  <2> QED
    BY <1>1, <2>1, <2>2 DEF Stage, Answer, HistoryOK
<1>2. ASSUME NEW t \in Tx, StageFails(t) PROVE TypeOK'
  <2>1. By("stage", t) \in Label
    BY LabelsTyped
  <2>2. PICK p \in {project, WithTrack(t), Generated(t)} : Fails(By("stage", t), p)
    BY <1>2 DEF StageFails
  <2>3. HistoryOK'
    BY <2>1, <2>2, StageTyped, FailsTyped
  <2> QED
    BY <1>2, <2>3 DEF StageFails, HistoryOK
<1>3. ASSUME NEW t \in Tx, StageRefused(t) PROVE TypeOK'
  BY <1>3 DEF StageRefused
<1>4. ASSUME NEW t \in Tx, Commit(t) PROVE TypeOK'
  <2>1. By("commit", t) \in Label
    BY LabelsTyped
  <2>2. HistoryOK'
    BY <1>4, <2>1, CommittedTyped, SucceedsTyped DEF Commit, Acceptable
  <2> QED
    BY <1>4, <2>1, <2>2 DEF Commit, HistoryOK
<1>5. ASSUME NEW t \in Tx, Discard(t) PROVE TypeOK'
  <2>1. By("discard", t) \in Label
    BY LabelsTyped
  <2>2. HistoryOK'
    BY <1>5, <2>1, DiscardedTyped, SucceedsTyped DEF Discard
  <2> QED
    BY <1>5, <2>1, <2>2 DEF Discard, HistoryOK
<1>6. ASSUME NEW t \in Tx, UndoLast(t) PROVE TypeOK'
  <2>1. HistoryOK'
    BY <1>6, RevertedTyped DEF UndoLast, MayUndo, OnTop
  <2>2. NoLast \in Label
    BY LabelsTyped DEF NoLast
  <2> QED
    BY <1>6, <2>1, <2>2 DEF UndoLast, HistoryOK
<1>7. ASSUME NEW i \in Item, NEW place \in Place, UserMoves(i, place) PROVE TypeOK'
  <2>1. Tidy([project EXCEPT !.on[i] = place]) \in Project
    BY MovedTyped, TidyTyped
  <2> QED
    BY <1>7, <2>1, UserMakesTyped DEF UserMoves
<1>8. ASSUME NEW t \in Tx, UserDeletesTrack(t) PROVE TypeOK'
  <2>1. Tidy(DeleteTrack(project, t)) \in Project
    BY DeleteTrackTyped, TidyTyped DEF Project
  <2> QED
    BY <1>8, <2>1, UserMakesTyped DEF UserDeletesTrack
<1>9. ASSUME UserUndoes PROVE TypeOK'
  BY <1>9, RevertedTyped DEF UserUndoes, HistoryOK
<1>10. ASSUME NEW t \in Tx, CommitFails(t) PROVE TypeOK'
  <2>1. By("commit", t) \in Label
    BY LabelsTyped
  <2>2. PICK p \in {project, Committed(t)} : Fails(By("commit", t), p)
    BY <1>10 DEF CommitFails
  <2>3. HistoryOK'
    BY <1>10, <2>1, <2>2, CommittedTyped, FailsTyped DEF CommitFails, Acceptable
  <2> QED
    BY <1>10, <2>3 DEF CommitFails, HistoryOK
<1>11. ASSUME NEW t \in Tx, DiscardFails(t) PROVE TypeOK'
  <2>1. By("discard", t) \in Label
    BY LabelsTyped
  <2>2. PICK p \in {project, Tidy(WithoutItem(t))} : Fails(By("discard", t), p)
    BY <1>11 DEF DiscardFails
  <2>3. HistoryOK'
    BY <2>1, <2>2, DiscardedTyped, FailsTyped
  <2> QED
    BY <1>11, <2>3 DEF DiscardFails, HistoryOK
<1>12. CASE UNCHANGED vars
  BY <1>12 DEF vars
<1> QED
  BY <1>1, <1>2, <1>3, <1>4, <1>5, <1>6, <1>7, <1>8, <1>9, <1>10, <1>11, <1>12
  DEF Next, BridgeStep, UserStep

\* Every variable of the staging model keeps its type, for any set of
\* transactions and user items and any size of REAPER's undo memory.
THEOREM TypeCorrect == Spec => []TypeOK
<1>1. Init => TypeOK
  <2>1. NoLast \in Label
    BY LabelsTyped DEF NoLast
  <2> QED
    BY <2>1, StagingAssumption, EmptySeq
    DEF Init, TypeOK, Project, Layout, HasObjects, Place
<1>2. TypeOK /\ [Next]_vars => TypeOK'
  BY TypeStep
<1> QED
  BY <1>1, <1>2, PTL DEF Spec

-----------------------------------------------------------------------------
(* UserSafe.  The bridge reaches the user's items in three ways: by the     *)
(* project a body makes, by a roll-back and by an undo.  For the last two  *)
(* the history must be known: an entry the user did not make separates two *)
(* projects with the same items of the user's (HistoryInv).                *)

Same(p, q) == UserWork(p) = UserWork(q)

LEMMA StageKeepsWork ==
  ASSUME project \in Project, NEW t \in Tx
  PROVE  Same(WithTrack(t), project) /\ Same(Generated(t), project)
<1>1. \A i \in UserItem : i # t /\ i \in Item
  BY StagingAssumption DEF Item
<1>2. WithTrack(t).on = project.on
  BY DEF WithTrack, Project, Layout
<1>3. \A i \in UserItem : Generated(t).on[i] = project.on[i]
  BY <1>1, <1>2 DEF Generated, WithTrack, Project, Layout
<1> QED
  BY <1>2, <1>3 DEF Same, UserWork

LEMMA CommitKeepsWork ==
  ASSUME project \in Project, NEW t \in Tx
  PROVE  Same(Committed(t), project)
BY DEF Committed, Same, UserWork, Project, Layout

LEMMA TidyKeepsPlaces ==
  ASSUME NEW p \in Layout
  PROVE  Tidy(p).on = p.on
BY DEF Tidy, Layout

LEMMA DiscardKeepsWork ==
  ASSUME project \in Project, NEW t \in Tx
  PROVE  Same(Discarded(t), project) /\ Same(Tidy(WithoutItem(t)), project)
<1> DEFINE bare == WithoutItem(t)
<1>1. bare \in Layout
  BY DiscardedTyped
<1>2. \A i \in UserItem : i # t /\ i \in Item
  BY StagingAssumption DEF Item
<1>3. \A i \in UserItem : bare.on[i] = project.on[i]
  BY <1>2 DEF WithoutItem, Project, Layout
<1>4. Same(Tidy(bare), project)
  BY <1>1, <1>3, TidyKeepsPlaces DEF Same, UserWork
<1> HIDE DEF bare
<1>5. CASE ForeignItems(t) = {}
  <2>1. \A i \in UserItem : project.on[i] # t
    BY <1>2, <1>5 DEF ForeignItems
  <2>2. DeleteTrack(bare, t).on
          = [i \in Item |-> IF bare.on[i] = t THEN Nowhere ELSE bare.on[i]]
    BY <1>1 DEF DeleteTrack, Layout
  <2>3. \A i \in UserItem : DeleteTrack(bare, t).on[i] = project.on[i]
    BY <1>2, <1>3, <2>1, <2>2
  <2>4. DeleteTrack(bare, t) \in Layout
    BY <1>1, DeleteTrackTyped
  <2>5. Discarded(t).on = DeleteTrack(bare, t).on
    BY <1>5, <2>4, TidyKeepsPlaces DEF Discarded, bare
  <2> QED
    BY <1>4, <2>3, <2>5 DEF Same, UserWork, bare
<1>6. CASE ForeignItems(t) # {}
  BY <1>4, <1>6 DEF Discarded, bare
<1> QED
  BY <1>5, <1>6

\* The history after Undo_DoUndo2, after Undo_EndBlock2, and when a block left
\* no entry.
LEMMA JoinedRest ==
  ASSUME NEW p, NEW h \in Seq(Entry), h # <<>>, Joined(p, h)
  PROVE  Joined(Head(h).before, Tail(h))
<1> DEFINE r == Tail(h)
<1>1. /\ Head(h) = h[1] /\ Len(h) \in Nat /\ Len(h) >= 1 /\ Len(r) = Len(h) - 1
      /\ \A i \in 1 .. Len(r) : r[i] = h[i + 1]
  BY RestOfHistory
<1> HIDE DEF r
<1> SUFFICES ASSUME NEW i \in 1 .. Len(r), r[i].label # UserLabel
             PROVE  UserWork(r[i].before)
                      = UserWork(IF i = 1 THEN h[1].before ELSE r[i - 1].before)
  BY <1>1 DEF Joined, r
<1>2. i + 1 \in 1 .. Len(h) /\ i + 1 # 1 /\ (i + 1) - 1 = i /\ r[i] = h[i + 1]
  BY <1>1
<1>3. UserWork(h[i + 1].before) = UserWork(h[i].before)
  BY <1>2 DEF Joined
<1>4. CASE i = 1
  BY <1>2, <1>3, <1>4
<1>5. CASE i # 1
  <2>1. r[i - 1] = h[i]
    BY <1>1, <1>5
  <2> QED
    BY <1>2, <1>3, <1>5, <2>1
<1> QED
  BY <1>4, <1>5

LEMMA JoinedSame ==
  ASSUME NEW p, NEW q, NEW h, Joined(p, h), Same(p, q)
  PROVE  Joined(q, h)
BY DEF Joined, Same

LEMMA JoinedPushed ==
  ASSUME TypeOK, HistoryInv, NEW label \in Label, NEW p,
         label = UserLabel \/ Same(p, project)
  PROVE  Joined(p, Pushed(label))
<1> DEFINE h == Pushed(label)
<1>1. /\ Len(h) \in Nat /\ Len(h) <= Len(undo) + 1 /\ Len(undo) \in Nat
      /\ h[1] = [label |-> label, before |-> project]
      /\ \A i \in 2 .. Len(h) : h[i] = undo[i - 1]
  <2>1. h \in Seq(Entry) /\ undo \in Seq(Entry)
    BY PushedEntries DEF TypeOK
  <2>2. Len(h) <= Len(undo) + 1
    BY PushedEntries
  <2>3. h[1] = [label |-> label, before |-> project]
    BY PushedEntries
  <2>4. \A i \in 2 .. Len(h) : h[i] = undo[i - 1]
    BY PushedEntries
  <2> QED
    BY <2>1, <2>2, <2>3, <2>4, LenProperties
<1> HIDE DEF h
<1> SUFFICES ASSUME NEW i \in 1 .. Len(h), h[i].label # UserLabel
             PROVE  UserWork(h[i].before)
                      = UserWork(IF i = 1 THEN p ELSE h[i - 1].before)
  BY DEF Joined, h
<1>2. CASE i = 1
  BY <1>1, <1>2 DEF Same
<1>3. CASE i # 1
  <2>1. i - 1 \in 1 .. Len(undo) /\ h[i] = undo[i - 1]
    BY <1>1, <1>3
  <2>2. UserWork(undo[i - 1].before)
          = UserWork(IF i - 1 = 1 THEN project ELSE undo[(i - 1) - 1].before)
    BY <2>1 DEF HistoryInv, Joined
  <2>3. h[i - 1].before = IF i - 1 = 1 THEN project ELSE undo[(i - 1) - 1].before
    BY <1>1, <1>3
  <2> QED
    BY <1>3, <2>1, <2>2, <2>3
<1> QED
  BY <1>2, <1>3

\* What every bridge operation does with the user's items and the history.
Kept == HistoryInv' /\ Same(project', project)

LEMMA HistoriesJoined ==
  ASSUME TypeOK, HistoryInv, NEW label \in Label, NEW p, Same(p, project),
         NEW h \in Histories(label, p)
  PROVE  Joined(p, h)
<1>1. Joined(p, Pushed(label))
  BY JoinedPushed
<1>2. Joined(p, undo)
  BY JoinedSame DEF HistoryInv, Same
<1> QED
  BY <1>1, <1>2 DEF Histories

LEMMA SucceedsKeeps ==
  ASSUME TypeOK, HistoryInv, NEW label \in Label, NEW p, Same(p, project),
         Succeeds(label, p)
  PROVE  Kept
BY HistoriesJoined DEF Succeeds, Kept, HistoryInv

\* Undoing an entry that is not the user's.
LEMMA RevertedKeeps ==
  ASSUME NEW p, Same(p, project), NEW h \in Seq(Entry), h # <<>>, Joined(p, h),
         Head(h).label # UserLabel, Reverted(h)
  PROVE  Kept
<1>1. Joined(Head(h).before, Tail(h))
  BY JoinedRest
<1>2. UserWork(h[1].before) = UserWork(p) /\ Head(h) = h[1]
  BY RestOfHistory, LenProperties DEF Joined
<1> QED
  BY <1>1, <1>2 DEF Reverted, Kept, HistoryInv, Same

LEMMA FailsKeeps ==
  ASSUME TypeOK, HistoryInv, NEW label \in Label, label # UserLabel,
         NEW p, Same(p, project), Fails(label, p)
  PROVE  Kept
<1>1. PICK h \in Histories(label, p) :
        IF RollsBack(label, p, h) THEN Reverted(h) ELSE project' = p /\ undo' = h
  BY DEF Fails
<1>2. h \in Seq(Entry) /\ Joined(p, h)
  BY HistoriesTyped, HistoriesJoined
<1>3. CASE RollsBack(label, p, h)
  BY <1>1, <1>2, <1>3, RevertedKeeps DEF RollsBack, OnTop
<1>4. CASE ~RollsBack(label, p, h)
  BY <1>1, <1>2, <1>4 DEF Kept, HistoryInv
<1> QED
  BY <1>3, <1>4

LEMMA BridgeKeeps ==
  ASSUME TypeOK, HistoryInv, BridgeStep
  PROVE  Kept
<1> USE DEF TypeOK
<1>1. ASSUME NEW t \in Tx, Stage(t) PROVE Kept
  <2>1. By("stage", t) \in Label
    BY LabelsTyped
  <2> QED
    BY <1>1, <2>1, StageKeepsWork, SucceedsKeeps DEF Stage
<1>2. ASSUME NEW t \in Tx, StageFails(t) PROVE Kept
  <2>1. By("stage", t) \in Label /\ By("stage", t) # UserLabel
    BY LabelsTyped, NotTheUsers
  <2>2. PICK p \in {project, WithTrack(t), Generated(t)} : Fails(By("stage", t), p)
    BY <1>2 DEF StageFails
  <2>3. Same(p, project)
    BY <2>2, StageKeepsWork DEF Same
  <2> QED
    BY <2>1, <2>2, <2>3, FailsKeeps
<1>3. ASSUME NEW t \in Tx, StageRefused(t) PROVE Kept
  BY <1>3 DEF StageRefused, Kept, HistoryInv, Joined, Same
<1>4. ASSUME NEW t \in Tx, Commit(t) PROVE Kept
  <2>1. By("commit", t) \in Label
    BY LabelsTyped
  <2> QED
    BY <1>4, <2>1, CommitKeepsWork, SucceedsKeeps DEF Commit
<1>5. ASSUME NEW t \in Tx, Discard(t) PROVE Kept
  <2>1. By("discard", t) \in Label
    BY LabelsTyped
  <2> QED
    BY <1>5, <2>1, DiscardKeepsWork, SucceedsKeeps DEF Discard
<1>6. ASSUME NEW t \in Tx, UndoLast(t) PROVE Kept
  <2>1. undo # <<>> /\ Head(undo).label # UserLabel /\ Reverted(undo)
    BY <1>6 DEF UndoLast, MayUndo, OnTop, NoLast, UserLabel
  <2>2. Joined(project, undo) /\ Same(project, project)
    BY DEF HistoryInv, Same
  <2> QED
    BY <2>1, <2>2, RevertedKeeps
<1>7. ASSUME NEW t \in Tx, CommitFails(t) PROVE Kept
  <2>1. By("commit", t) \in Label /\ By("commit", t) # UserLabel
    BY LabelsTyped, NotTheUsers
  <2>2. PICK p \in {project, Committed(t)} : Fails(By("commit", t), p)
    BY <1>7 DEF CommitFails
  <2>3. Same(p, project)
    BY <2>2, CommitKeepsWork DEF Same
  <2> QED
    BY <2>1, <2>2, <2>3, FailsKeeps
<1>8. ASSUME NEW t \in Tx, DiscardFails(t) PROVE Kept
  <2>1. By("discard", t) \in Label /\ By("discard", t) # UserLabel
    BY LabelsTyped, NotTheUsers
  <2>2. PICK p \in {project, Tidy(WithoutItem(t))} : Fails(By("discard", t), p)
    BY <1>8 DEF DiscardFails
  <2>3. Same(p, project)
    BY <2>2, DiscardKeepsWork DEF Same
  <2> QED
    BY <2>1, <2>2, <2>3, FailsKeeps
<1> QED
  BY <1>1, <1>2, <1>3, <1>4, <1>5, <1>6, <1>7, <1>8 DEF BridgeStep

LEMMA UserKeepsHistory ==
  ASSUME TypeOK, HistoryInv, UserStep
  PROVE  HistoryInv'
<1>1. ASSUME NEW p, UserMakes(p) PROVE HistoryInv'
  <2>1. UserLabel \in Label
    BY LabelsTyped DEF UserLabel
  <2>2. Joined(p, Pushed(UserLabel))
    BY <2>1, JoinedPushed
  <2> QED
    BY <1>1, <2>2 DEF UserMakes, HistoryInv
<1>2. ASSUME NEW i \in Item, NEW place \in Place, UserMoves(i, place) PROVE HistoryInv'
  BY <1>1, <1>2 DEF UserMoves
<1>3. ASSUME NEW t \in Tx, UserDeletesTrack(t) PROVE HistoryInv'
  BY <1>1, <1>3 DEF UserDeletesTrack
<1>4. ASSUME UserUndoes PROVE HistoryInv'
  <2>1. Joined(Head(undo).before, Tail(undo))
    BY <1>4, JoinedRest DEF UserUndoes, TypeOK, HistoryInv
  <2> QED
    BY <1>4, <2>1 DEF UserUndoes, Reverted, HistoryInv
<1> QED
  BY <1>2, <1>3, <1>4 DEF UserStep

\* The entries of the undo history that are not the user's leave the user's
\* items alone, whatever REAPER keeps of the history.
THEOREM HistoryCorrect == Spec => []HistoryInv
<1>1. Init => HistoryInv
  BY DEF Init, HistoryInv, Joined
<1>2. TypeOK /\ HistoryInv /\ [Next]_vars => HistoryInv'
  <2> SUFFICES ASSUME TypeOK, HistoryInv, [Next]_vars PROVE HistoryInv'
    OBVIOUS
  <2>1. CASE BridgeStep
    BY <2>1, BridgeKeeps DEF Kept
  <2>2. CASE UserStep
    BY <2>2, UserKeepsHistory
  <2>3. CASE UNCHANGED vars
    BY <2>3 DEF vars, HistoryInv, Joined
  <2> QED
    BY <2>1, <2>2, <2>3 DEF Next
<1> QED
  BY <1>1, <1>2, TypeCorrect, PTL DEF Spec

\* No operation of the bridge creates, moves or removes an item of the user's.
THEOREM UserWorkIsSafe == Spec => UserSafe
<1>1. TypeOK /\ HistoryInv /\ [Next]_vars
        => [UserStep \/ UserWork(project') = UserWork(project)]_vars
  BY BridgeKeeps DEF Next, Kept, Same
<1> QED
  BY <1>1, TypeCorrect, HistoryCorrect, PTL DEF Spec, UserSafe

-----------------------------------------------------------------------------
(* AllOrNothing: a body that fails is undone by the entry its block left.  *)

\* With UndoKept, a body that fails leaves the project as it was, and of the
\* history all but, at most, its oldest entry.
LEMMA FailsCleanly ==
  ASSUME UndoKept, TypeOK, NEW label \in Label, NEW p, Fails(label, p)
  PROVE  /\ project' = project
         /\ undo' \in Seq(Entry) /\ Len(undo') <= Len(undo)
         /\ \A i \in 1 .. Len(undo') : undo'[i] = undo[i]
<1>1. PICK h \in Histories(label, p) :
        IF RollsBack(label, p, h) THEN Reverted(h) ELSE project' = p /\ undo' = h
  BY DEF Fails
<1>2. CASE p = project
  BY <1>1, <1>2 DEF RollsBack, Histories, TypeOK
<1>3. CASE p # project
  <2>1. h = Pushed(label)
    BY <1>1, <1>3 DEF Histories
  <2>2. /\ h \in Seq(Entry) /\ Len(h) \in 1 .. MaxUndo /\ Len(h) <= Len(undo) + 1
        /\ h[1] = [label |-> label, before |-> project]
        /\ \A i \in 2 .. Len(h) : h[i] = undo[i - 1]
    BY <2>1, PushedEntries
  <2>3. h # <<>>
    BY <2>2, EmptySeq
  <2>4. /\ Head(h) = h[1] /\ Tail(h) \in Seq(Entry) /\ Len(Tail(h)) = Len(h) - 1
        /\ \A i \in 1 .. Len(Tail(h)) : Tail(h)[i] = h[i + 1]
    BY <2>2, <2>3, RestOfHistory
  <2>5. Reverted(h)
    BY <1>1, <1>3, <2>2, <2>3, <2>4 DEF RollsBack, OnTop
  <2>6. Len(undo) \in Nat /\ Len(h) \in Nat
    BY <2>2, LenProperties DEF TypeOK
  <2>7. \A i \in 1 .. Len(Tail(h)) : i + 1 \in 2 .. Len(h) /\ (i + 1) - 1 = i
    BY <2>4, <2>6
  <2> QED
    BY <2>2, <2>4, <2>5, <2>6, <2>7 DEF Reverted
<1> QED
  BY <1>2, <1>3

LEMMA FailedCleanly ==
  ASSUME UndoKept, TypeOK, Failed
  PROVE  /\ project' = project
         /\ undo' \in Seq(Entry) /\ Len(undo') <= Len(undo)
         /\ \A i \in 1 .. Len(undo') : undo'[i] = undo[i]
<1>1. PICK t \in Tx : StageFails(t) \/ CommitFails(t) \/ DiscardFails(t)
  BY DEF Failed
<1>2. \A kind \in {"stage", "commit", "discard"} : By(kind, t) \in Label
  BY LabelsTyped
<1>3. CASE StageFails(t)
  <2>1. PICK p \in {project, WithTrack(t), Generated(t)} : Fails(By("stage", t), p)
    BY <1>3 DEF StageFails
  <2> QED
    BY <1>2, <2>1, FailsCleanly
<1>4. CASE CommitFails(t)
  <2>1. PICK p \in {project, Committed(t)} : Fails(By("commit", t), p)
    BY <1>4 DEF CommitFails
  <2> QED
    BY <1>2, <2>1, FailsCleanly
<1>5. CASE DiscardFails(t)
  <2>1. PICK p \in {project, Tidy(WithoutItem(t))} : Fails(By("discard", t), p)
    BY <1>5 DEF DiscardFails
  <2> QED
    BY <1>2, <2>1, FailsCleanly
<1> QED
  BY <1>1, <1>3, <1>4, <1>5

\* A stage, commit or discard that fails leaves the project as it was, and of the
\* history all but, at most, the oldest entry, if its block left an entry.
THEOREM FailuresLeaveNoTrace == ASSUME UndoKept PROVE Spec => AllOrNothing
<1>1. TypeOK /\ [Next]_vars
        => [Failed => /\ project' = project
                      /\ \A i \in 1 .. Len(undo') : undo'[i] = undo[i]]_vars
  BY FailedCleanly
<1> QED
  BY <1>1, TypeCorrect, PTL DEF Spec, AllOrNothing

-----------------------------------------------------------------------------
(* OwnOnly, if every undo block leaves its entry.  The undo of a commit or *)
(* a discard reverts one entry, so an entry of the bridge's must separate  *)
(* two projects that differ in nothing but the transaction of its label.   *)

OnlyOf(t, p, q) == \A o \in Tx \ {t} : Alike(p, q, o)

Parted(p, history) ==
  \A i \in 1 .. Len(history) :
    history[i].label # UserLabel =>
      OnlyOf(history[i].label.tx, history[i].before, IF i = 1 THEN p ELSE history[i - 1].before)
OwnInv == Parted(project, undo)

LEMMA StageOnlyOwn ==
  ASSUME project \in Project, NEW t \in Tx
  PROVE  OnlyOf(t, project, Generated(t))
<1>1. /\ Generated(t).tracks = project.tracks \cup {t}
      /\ Generated(t).committed = project.committed
  BY DEF WithTrack, Generated, Project, Layout
<1>2. \A o \in Tx \ {t} : Generated(t).on[o] = project.on[o]
  BY DEF Generated, WithTrack, Project, Layout, Item
<1> QED
  BY <1>1, <1>2 DEF OnlyOf, Alike

LEMMA CommitOnlyOwn ==
  ASSUME project \in Project, NEW t \in Tx
  PROVE  OnlyOf(t, project, Committed(t))
BY DEF Committed, OnlyOf, Alike, Project, Layout

LEMMA DiscardOnlyOwn ==
  ASSUME project \in Project, NEW t \in Tx
  PROVE  OnlyOf(t, project, Discarded(t))
<1> DEFINE bare == WithoutItem(t)
           p == IF ForeignItems(t) = {} THEN DeleteTrack(bare, t) ELSE bare
<1>1. bare \in Layout
  BY DiscardedTyped
<1>2. /\ bare.tracks = project.tracks /\ bare.committed = project.committed
      /\ \A o \in Tx \ {t} : bare.on[o] = project.on[o]
  BY DEF WithoutItem, Project, Layout
<1> HIDE DEF bare
<1>3. DeleteTrack(bare, t) \in Layout
  BY <1>1, DeleteTrackTyped
<1>4. /\ DeleteTrack(bare, t).tracks = bare.tracks \ {t}
      /\ DeleteTrack(bare, t).committed = bare.committed
      /\ \A o \in Tx : DeleteTrack(bare, t).on[o] = IF bare.on[o] = t THEN Nowhere ELSE bare.on[o]
  BY <1>1 DEF DeleteTrack, Layout, Item
<1>5. ForeignItems(t) = {} => \A o \in Tx \ {t} : project.on[o] # t
  BY DEF ForeignItems, Item
<1>6. /\ p \in Layout /\ p.committed = project.committed
      /\ \A o \in Tx \ {t} : /\ o \in p.tracks <=> o \in project.tracks
                             /\ p.on[o] = project.on[o]
  BY <1>1, <1>2, <1>3, <1>4, <1>5
<1> HIDE DEF p
<1>7. Discarded(t) = Tidy(p)
  BY DEF Discarded, bare, p
<1>8. /\ Tidy(p).tracks = p.tracks /\ Tidy(p).on = p.on
      /\ Tidy(p).committed = {o \in p.committed : HasObjects(p, o)}
  BY <1>6 DEF Tidy, Layout
<1>9. \A o \in Tx \ {t} : o \in project.committed => HasObjects(p, o)
  BY <1>6 DEF Project, HasObjects
<1> QED
  BY <1>6, <1>7, <1>8, <1>9 DEF OnlyOf, Alike

LEMMA PartedRest ==
  ASSUME NEW p, NEW h \in Seq(Entry), h # <<>>, Parted(p, h)
  PROVE  Parted(Head(h).before, Tail(h))
<1> DEFINE r == Tail(h)
<1>1. /\ Head(h) = h[1] /\ Len(h) \in Nat /\ Len(h) >= 1 /\ Len(r) = Len(h) - 1
      /\ \A i \in 1 .. Len(r) : r[i] = h[i + 1]
  BY RestOfHistory
<1> HIDE DEF r
<1> SUFFICES ASSUME NEW i \in 1 .. Len(r), r[i].label # UserLabel
             PROVE  OnlyOf(r[i].label.tx, r[i].before,
                           IF i = 1 THEN h[1].before ELSE r[i - 1].before)
  BY <1>1 DEF Parted, r
<1>2. i + 1 \in 1 .. Len(h) /\ i + 1 # 1 /\ (i + 1) - 1 = i /\ r[i] = h[i + 1]
  BY <1>1
<1>3. OnlyOf(h[i + 1].label.tx, h[i + 1].before, h[i].before)
  BY <1>2 DEF Parted
<1>4. CASE i = 1
  BY <1>2, <1>3, <1>4
<1>5. CASE i # 1
  <2>1. r[i - 1] = h[i]
    BY <1>1, <1>5
  <2> QED
    BY <1>2, <1>3, <1>5, <2>1
<1> QED
  BY <1>4, <1>5

LEMMA PartedPushed ==
  ASSUME TypeOK, OwnInv, NEW label \in Label, NEW p,
         label = UserLabel \/ OnlyOf(label.tx, project, p)
  PROVE  Parted(p, Pushed(label))
<1> DEFINE h == Pushed(label)
<1>1. /\ Len(h) \in Nat /\ Len(h) <= Len(undo) + 1 /\ Len(undo) \in Nat
      /\ h[1] = [label |-> label, before |-> project]
      /\ \A i \in 2 .. Len(h) : h[i] = undo[i - 1]
  BY PushedEntries, LenProperties DEF TypeOK
<1> HIDE DEF h
<1> SUFFICES ASSUME NEW i \in 1 .. Len(h), h[i].label # UserLabel
             PROVE  OnlyOf(h[i].label.tx, h[i].before, IF i = 1 THEN p ELSE h[i - 1].before)
  BY DEF Parted, h
<1>2. CASE i = 1
  BY <1>1, <1>2
<1>3. CASE i # 1
  <2>1. i - 1 \in 1 .. Len(undo) /\ h[i] = undo[i - 1]
    BY <1>1, <1>3
  <2>2. OnlyOf(undo[i - 1].label.tx, undo[i - 1].before,
               IF i - 1 = 1 THEN project ELSE undo[(i - 1) - 1].before)
    BY <2>1 DEF OwnInv, Parted
  <2>3. h[i - 1].before = IF i - 1 = 1 THEN project ELSE undo[(i - 1) - 1].before
    BY <1>1, <1>3
  <2> QED
    BY <1>3, <2>1, <2>2, <2>3
<1> QED
  BY <1>2, <1>3

\* What every bridge operation does with the transactions and the history.
Own == OwnInv' /\ \E t \in Tx : OnlyOf(t, project, project')

LEMMA SucceedsOwn ==
  ASSUME UndoKept, TypeOK, OwnInv, NEW t \in Tx, NEW label \in Label, label.tx = t,
         NEW p, OnlyOf(t, project, p), Succeeds(label, p)
  PROVE  Own
<1>1. project' = p /\ undo' = (IF p = project THEN undo ELSE Pushed(label))
  BY DEF Succeeds, Histories
<1>2. Parted(p, Pushed(label))
  BY PartedPushed
<1>3. Parted(project', undo')
  BY <1>1, <1>2 DEF OwnInv
<1> QED
  BY <1>1, <1>3 DEF Own, OwnInv, Parted, OnlyOf, Alike

LEMMA FailedOwn ==
  ASSUME UndoKept, TypeOK, OwnInv, Failed
  PROVE  Own
<1>1. /\ project' = project /\ undo' \in Seq(Entry) /\ Len(undo') <= Len(undo)
      /\ \A i \in 1 .. Len(undo') : undo'[i] = undo[i]
  BY FailedCleanly
<1>2. Len(undo) \in Nat /\ Len(undo') \in Nat
  BY <1>1, LenProperties DEF TypeOK
<1>3. ASSUME NEW i \in 1 .. Len(undo'), undo'[i].label # UserLabel
      PROVE  OnlyOf(undo'[i].label.tx, undo'[i].before,
                    IF i = 1 THEN project' ELSE undo'[i - 1].before)
  <2>1. i \in 1 .. Len(undo) /\ undo'[i] = undo[i]
    BY <1>1, <1>2
  <2>2. i # 1 => undo'[i - 1] = undo[i - 1]
    BY <1>1, <1>2
  <2>3. OnlyOf(undo[i].label.tx, undo[i].before, IF i = 1 THEN project ELSE undo[i - 1].before)
    BY <1>3, <2>1 DEF OwnInv, Parted
  <2> QED
    BY <1>1, <2>1, <2>2, <2>3
<1>4. OwnInv'
  BY <1>3 DEF OwnInv, Parted, OnlyOf, Alike
<1>5. \E t \in Tx : OnlyOf(t, project, project)
  BY DEF Failed, OnlyOf, Alike
<1> QED
  BY <1>1, <1>4, <1>5 DEF Own

LEMMA BridgeOwn ==
  ASSUME UndoKept, TypeOK, OwnInv, BridgeStep
  PROVE  Own
<1>0. project \in Project /\ \A t \in Tx : OnlyOf(t, project, project)
  BY DEF TypeOK, OnlyOf, Alike
<1>1. ASSUME NEW t \in Tx, Stage(t) PROVE Own
  <2>1. By("stage", t) \in Label /\ By("stage", t).tx = t
    BY LabelsTyped DEF By
  <2> QED
    BY <1>0, <1>1, <2>1, StageOnlyOwn, SucceedsOwn DEF Stage
<1>2. ASSUME Failed PROVE Own
  BY <1>2, FailedOwn
<1>3. ASSUME NEW t \in Tx, StageRefused(t) PROVE Own
  BY <1>0, <1>3 DEF StageRefused, Own, OwnInv, Parted, OnlyOf, Alike
<1>4. ASSUME NEW t \in Tx, Commit(t) PROVE Own
  <2>1. By("commit", t) \in Label /\ By("commit", t).tx = t
    BY LabelsTyped DEF By
  <2> QED
    BY <1>0, <1>4, <2>1, CommitOnlyOwn, SucceedsOwn DEF Commit
<1>5. ASSUME NEW t \in Tx, Discard(t) PROVE Own
  <2>1. By("discard", t) \in Label /\ By("discard", t).tx = t
    BY LabelsTyped DEF By
  <2> QED
    BY <1>0, <1>5, <2>1, DiscardOnlyOwn, SucceedsOwn DEF Discard
<1>6. ASSUME NEW t \in Tx, UndoLast(t) PROVE Own
  <2>1. /\ undo \in Seq(Entry) /\ undo # <<>> /\ Reverted(undo)
        /\ Head(undo).label.tx = t /\ Head(undo).label # UserLabel
    BY <1>6 DEF UndoLast, MayUndo, OnTop, NoLast, UserLabel, TypeOK
  <2>2. Parted(Head(undo).before, Tail(undo))
    BY <2>1, PartedRest DEF OwnInv
  <2>3. OnlyOf(t, Head(undo).before, project)
    BY <2>1, RestOfHistory, LenProperties DEF OwnInv, Parted
  <2>4. OnlyOf(t, project, project')
    BY <2>1, <2>3 DEF Reverted, OnlyOf, Alike
  <2>5. OwnInv'
    BY <2>1, <2>2 DEF Reverted, OwnInv, Parted, OnlyOf, Alike
  <2> QED
    BY <2>4, <2>5 DEF Own
<1> QED
  BY <1>1, <1>2, <1>3, <1>4, <1>5, <1>6 DEF BridgeStep, Failed

LEMMA UserPartsHistory ==
  ASSUME TypeOK, OwnInv, UserStep
  PROVE  OwnInv'
<1>1. ASSUME NEW p, UserMakes(p) PROVE OwnInv'
  <2>1. Parted(p, Pushed(UserLabel))
    BY LabelsTyped, PartedPushed DEF UserLabel
  <2> QED
    BY <1>1, <2>1 DEF UserMakes, OwnInv, Parted, OnlyOf, Alike
<1>2. ASSUME NEW i \in Item, NEW place \in Place, UserMoves(i, place) PROVE OwnInv'
  BY <1>1, <1>2 DEF UserMoves
<1>3. ASSUME NEW t \in Tx, UserDeletesTrack(t) PROVE OwnInv'
  BY <1>1, <1>3 DEF UserDeletesTrack
<1>4. ASSUME UserUndoes PROVE OwnInv'
  <2>1. Parted(Head(undo).before, Tail(undo))
    BY <1>4, PartedRest DEF UserUndoes, TypeOK, OwnInv
  <2> QED
    BY <1>4, <2>1 DEF UserUndoes, Reverted, OwnInv, Parted, OnlyOf, Alike
<1> QED
  BY <1>2, <1>3, <1>4 DEF UserStep

\* Every operation of the bridge, its roll-back and its undo included, changes
\* the objects of one transaction only, if every block leaves its undo entry.
THEOREM TouchesOwnOnly == ASSUME UndoKept PROVE Spec => OwnOnly
<1>1. Init => OwnInv
  BY DEF Init, OwnInv, Parted
<1>2. TypeOK /\ OwnInv /\ [Next]_vars => OwnInv'
  <2> SUFFICES ASSUME TypeOK, OwnInv, [Next]_vars PROVE OwnInv'
    OBVIOUS
  <2>1. CASE BridgeStep
    BY <2>1, BridgeOwn DEF Own
  <2>2. CASE UserStep
    BY <2>2, UserPartsHistory
  <2>3. CASE UNCHANGED vars
    BY <2>3 DEF vars, OwnInv, Parted, OnlyOf, Alike
  <2> QED
    BY <2>1, <2>2, <2>3 DEF Next
<1>3. TypeOK /\ OwnInv /\ [Next]_vars
        => [UserStep \/ \E t \in Tx : \A o \in Tx \ {t} : Alike(project, project', o)]_vars
  BY BridgeOwn DEF Next, Own, OnlyOf
<1> QED
  BY <1>1, <1>2, <1>3, TypeCorrect, PTL DEF Spec, OwnOnly

=============================================================================
