------------------------------ MODULE Staging ------------------------------
(***************************************************************************)
(* What the bridge does to the user's project: stage, commit, discard and  *)
(* undo of a candidate (reaper/lib/transactions.lua and tagging.lua), the  *)
(* gate the server puts before them (tools/reaper.rs), and the user, who   *)
(* edits the same project and the same undo history at any moment between  *)
(* two commands.  A command runs inside one tick of REAPER's main thread,  *)
(* so the user never acts inside one.                                      *)
(*                                                                         *)
(* A transaction stands for the objects tagged with its id: its generated  *)
(* tracks, taken as one, and its generated item.  Note contents, names,    *)
(* mutes, regions and sends are left out.                                  *)
(***************************************************************************)
EXTENDS Naturals, Sequences

CONSTANTS
  Tx,          \* transaction ids, each minted by one stage_candidate call
  UserItem,    \* items of the user's own
  NoTx,
  Nowhere,     \* the place of an item that does not exist
  Elsewhere,   \* a track that is not generated
  MaxUndo,     \* entries REAPER's undo memory holds
  UndoKept,    \* does every undo block leave an entry?
  AnswersLost  \* may a stage time out although the bridge executed it?

ASSUME StagingAssumption ==
  /\ Tx \cap UserItem = {} /\ NoTx \notin Tx
  /\ Nowhere \notin Tx /\ Elsewhere \notin Tx /\ Nowhere # Elsewhere
  /\ MaxUndo \in Nat \ {0}
  /\ UndoKept \in BOOLEAN /\ AnswersLost \in BOOLEAN

Item  == Tx \cup UserItem
Place == Tx \cup {Nowhere, Elsewhere}

\* Undo labels.  staging.rs puts the transaction id into the label of a stage,
\* transactions.lua into the others, so a label says what was done to which.
Label == [kind : {"user", "stage", "commit", "discard"}, tx : Tx \cup {NoTx}]
By(kind, t) == [kind |-> kind, tx |-> t]
UserLabel   == By("user", NoTx)
NoLast      == By("user", NoTx)

\* tracks: the transactions whose generated track is in the project; on: the
\* place of every item; committed: those with QLABS_STATUS = committed, a tag
\* that is gone with the last object that carries it.
HasObjects(p, t) == t \in p.tracks \/ p.on[t] # Nowhere
Layout  == [tracks : SUBSET Tx, on : [Item -> Place], committed : SUBSET Tx]
Project == {p \in Layout : \A t \in p.committed : HasObjects(p, t)}
Entry   == [label : Label, before : Project]

VARIABLES
  project,  \* the project as the user sees it
  undo,     \* REAPER's undo history, newest entry first
  last,     \* ext state "last_transaction": label of the last owned operation
  minted,   \* the transaction ids used so far
  known     \* the ids of the server's transaction store
vars == <<project, undo, last, minted, known>>

Init ==
  /\ project = [tracks |-> {}, on |-> [i \in Item |-> Nowhere], committed |-> {}]
  /\ undo = <<>>
  /\ last = NoLast
  /\ minted = {} /\ known = {}

-----------------------------------------------------------------------------
(* REAPER's undo history (external).                                       *)

\* A block that changed something leaves an entry; the oldest one is dropped
\* when the memory is full.
Pushed(label) ==
  [i \in 1 .. (IF Len(undo) < MaxUndo THEN Len(undo) + 1 ELSE MaxUndo) |->
     IF i = 1 THEN [label |-> label, before |-> project] ELSE undo[i - 1]]

\* The histories Undo_EndBlock2 can leave, with the project now p.
Histories(label, p) ==
  IF p = project THEN {undo}
  ELSE {Pushed(label)} \cup (IF UndoKept THEN {} ELSE {undo})

OnTop(label, history) == history # <<>> /\ Head(history).label = label

-----------------------------------------------------------------------------
(* run_guarded: the body makes the project p, and raises an error or not.  *)

Succeeds(label, p) ==
  /\ project' = p
  /\ undo' \in Histories(label, p)

Reverted(history) ==
  /\ project' = Head(history).before
  /\ undo' = Tail(history)

\* Mutants: a failure is not undone; it is undone whatever is on top.
RollsBack_Never(label, p, history) == FALSE
RollsBack_Anything(label, p, history) == p # project /\ history # <<>>

\* A failed body is undone only if it changed the project and the newest entry
\* carries its own label.
RollsBack(label, p, history) == p # project /\ OnTop(label, history)

Fails(label, p) ==
  \E history \in Histories(label, p) :
    IF RollsBack(label, p, history)
    THEN Reverted(history)
    ELSE project' = p /\ undo' = history

-----------------------------------------------------------------------------
(* tagging.lua                                                             *)

\* A status is a tag: it goes with the last object that carries it.
Tidy(p) == [p EXCEPT !.committed = {t \in @ : HasObjects(p, t)}]

\* Deleting a track deletes every item on it (external).
DeleteTrack(p, t) ==
  [p EXCEPT !.tracks = @ \ {t},
            !.on = [i \in Item |-> IF p.on[i] = t THEN Nowhere ELSE p.on[i]]]

\* Mutant: every tagged item, whatever its transaction, is taken for t's own.
ForeignItems_Untagged(t) == {i \in UserItem : project.on[i] = t}

\* count_foreign_items: items on the track of t without the tag of t.
ForeignItems(t) == {i \in Item \ {t} : project.on[i] = t}

-----------------------------------------------------------------------------
(* stage_candidate.  The objects appear track first, then item; the error  *)
(* of any host call, or of verify_outputs, ends the body where it is.      *)

WithTrack(t) == [project EXCEPT !.tracks = @ \cup {t}]
Generated(t) == [WithTrack(t) EXCEPT !.on[t] = t]

Fresh(t) == t \notin minted

\* An answer that is late or lost leaves the server without its record.
Answer(t) ==
  \/ known' = known \cup {t}
  \/ AnswersLost /\ known' = known

Stage(t) ==
  /\ Fresh(t)
  /\ Succeeds(By("stage", t), Generated(t))
  /\ last' = By("stage", t)
  /\ minted' = minted \cup {t}
  /\ Answer(t)

StageFails(t) ==
  /\ Fresh(t)
  /\ \E p \in {project, WithTrack(t), Generated(t)} : Fails(By("stage", t), p)
  /\ minted' = minted \cup {t}
  /\ UNCHANGED <<last, known>>

\* check_plan_preconditions, or the plan's validation, refuses the plan.
StageRefused(t) ==
  /\ Fresh(t)
  /\ minted' = minted \cup {t}
  /\ UNCHANGED <<project, undo, last, known>>

-----------------------------------------------------------------------------
(* commit, discard and undo of a transaction.  owned_transaction refuses   *)
(* an id the server does not know, and the bridge one without objects.     *)

\* Mutant: the bridge does not look for objects (TRANSACTION_NOT_FOUND).
Acceptable_Absent(t) == t \in known

Acceptable(t) == t \in known /\ HasObjects(project, t)

Committed(t) == [project EXCEPT !.committed = @ \cup {t}]

Commit(t) ==
  /\ Acceptable(t)
  /\ Succeeds(By("commit", t), Committed(t))
  /\ last' = By("commit", t)
  /\ UNCHANGED <<minted, known>>

\* A host call raises an error in the body: the record of the last operation
\* stays the one before.
CommitFails(t) ==
  /\ Acceptable(t)
  /\ \E p \in {project, Committed(t)} : Fails(By("commit", t), p)
  /\ UNCHANGED <<last, minted, known>>

\* Items first; then the track, if nothing foreign is left on it.
WithoutItem(t) == [project EXCEPT !.on[t] = Nowhere]
Discarded(t) ==
  Tidy(IF ForeignItems(t) = {} THEN DeleteTrack(WithoutItem(t), t) ELSE WithoutItem(t))

Discard(t) ==
  /\ Acceptable(t)
  /\ Succeeds(By("discard", t), Discarded(t))
  /\ last' = By("discard", t)
  /\ UNCHANGED <<minted, known>>

DiscardFails(t) ==
  /\ Acceptable(t)
  /\ \E p \in {project, Tidy(WithoutItem(t))} : Fails(By("discard", t), p)
  /\ UNCHANGED <<last, minted, known>>

\* Mutant: the label of the newest entry is not compared.
MayUndo_AnyLabel == undo # <<>>

\* Undo_DoUndo2 is called only if the newest entry is the recorded operation.
MayUndo == OnTop(last, undo)

\* Without an id the server names the latest transaction it takes for staged.
UndoLast(t) ==
  /\ t \in known
  /\ last # NoLast /\ last.tx = t
  /\ MayUndo
  /\ Reverted(undo)
  /\ last' = NoLast
  /\ UNCHANGED <<minted, known>>

-----------------------------------------------------------------------------
(* The user, who may create, move and delete any item, delete a generated  *)
(* track with what is on it, and undo.                                     *)

UserMakes(p) ==
  /\ p # project
  /\ project' = p
  /\ undo' = Pushed(UserLabel)
  /\ UNCHANGED <<last, minted, known>>

Exists(i) == i \in UserItem \/ project.on[i] # Nowhere

UserMoves(i, place) ==
  /\ Exists(i)
  /\ place \in project.tracks \cup {Nowhere, Elsewhere}
  /\ UserMakes(Tidy([project EXCEPT !.on[i] = place]))

UserDeletesTrack(t) == UserMakes(Tidy(DeleteTrack(project, t)))

UserUndoes ==
  /\ undo # <<>>
  /\ Reverted(undo)
  /\ UNCHANGED <<last, minted, known>>

UserStep ==
  \/ \E i \in Item, place \in Place : UserMoves(i, place)
  \/ \E t \in Tx : UserDeletesTrack(t)
  \/ UserUndoes

BridgeStep ==
  \E t \in Tx :
    \/ Stage(t) \/ StageFails(t) \/ StageRefused(t)
    \/ Commit(t) \/ CommitFails(t)
    \/ Discard(t) \/ DiscardFails(t)
    \/ UndoLast(t)

Next == BridgeStep \/ UserStep

Spec == Init /\ [][Next]_vars

-----------------------------------------------------------------------------
(* Properties.                                                             *)

\* The type of every variable; only what is in the project has a status.
TypeOK ==
  /\ project \in Project
  /\ undo \in Seq(Entry) /\ Len(undo) <= MaxUndo
  /\ last \in Label
  /\ minted \subseteq Tx /\ known \subseteq minted

\* "Losing a user's work because they parked an item on a generated track would
\* be unforgivable": no bridge operation, the roll-back and the undo included,
\* creates, moves or removes an item of the user's.
UserWork(p) == [i \in UserItem |-> p.on[i]]
UserSafe == [][UserStep \/ UserWork(project') = UserWork(project)]_vars

\* A bridge operation touches the objects of one transaction: those of every
\* other one stay where they are and keep their status.
Alike(p, q, t) ==
  /\ t \in p.tracks <=> t \in q.tracks
  /\ p.on[t] = q.on[t]
  /\ t \in p.committed <=> t \in q.committed
OwnOnly ==
  [][UserStep \/ \E t \in Tx : \A o \in Tx \ {t} : Alike(project, project', o)]_vars

\* A stage, commit or discard that fails halfway leaves no trace in the project
\* nor in the undo history, save that the history may have lost its oldest entry
\* (if REAPER keeps the entry of the block).
Failed == \E t \in Tx : StageFails(t) \/ CommitFails(t) \/ DiscardFails(t)
AllOrNothing ==
  [][Failed => /\ project' = project
               /\ \A i \in 1 .. Len(undo') : undo'[i] = undo[i]]_vars

\* What docs/SECURITY.md:451 says of a stage that failed and was not rolled back,
\* "the partial transaction is still tagged. Discard it by transaction id.":
\* whatever is tagged in the project is accepted in discard.  The code breaks it:
\* stage_candidate leaves by the `?` of tools/reaper.rs:353 when the bridge
\* answers with an error, or too late, and stores no record of the transaction.
Discardable == \A t \in Tx : HasObjects(project, t) => Acceptable(t)

\* The inductive invariant behind UserSafe: an entry of the history that is not
\* the user's separates two projects with the same items of the user's.
Joined(p, history) ==
  \A i \in 1 .. Len(history) :
    history[i].label # UserLabel =>
      UserWork(history[i].before) =
        UserWork(IF i = 1 THEN p ELSE history[i - 1].before)
HistoryInv == Joined(project, undo)
=============================================================================
