---------------------------- MODULE PlanQuestions ----------------------------
(***************************************************************************)
(* A behaviour is one question to an algorithm, picked at the start and    *)
(* answered by the action of its kind.  The question of this module: the   *)
(* server is asked to build a plan of a candidate, and the plan is held    *)
(* against what the bridge takes, what staging makes of it and what the    *)
(* candidate has.                                                          *)
(***************************************************************************)
EXTENDS Integers, Sequences, FiniteSets, SequencesExt

CONSTANTS Stagings,         \* candidates, source items and options to ask about
          Grid, Quarter, QnMin, QnMax, MaxTracksPerStage, MaxItemsPerStage,
          MaxNotesPerItem, MaxGeneratedNotes, MaxOperations, MaxExpectedOutputs

VARIABLES kind,       \* what is asked
          question,   \* about what
          answer,     \* what the algorithm says, once it has
          answered

vars == <<kind, question, answer, answered>>

Asked(k, S) == /\ kind = k
               /\ question \in S
               /\ answer = <<>>
               /\ answered = FALSE

Asking(k) == ~answered /\ kind = k
Settled == answered' = TRUE /\ UNCHANGED <<kind, question>>

Answered(k) == answered /\ kind = k

-----------------------------------------------------------------------------
Plan == INSTANCE PlanBuild

ASSUME PlanInputs == Plan!PlanConstants

\* A note lasts a step of the grid or more: those of a take are widened to one
\* (convert.rs), and the parts of a quarter note the engines form are whole steps.
LastingNote == [onset : Int, length : {l \in Nat : l >= Grid}, pitch : Int, velocity : Int]

ASSUME StagingInputs ==
  \A q \in Stagings : /\ q.parts \in Seq(Seq(LastingNote))
                      /\ q.item.start \in Int /\ q.item.end \in Int

\* The limits are in order (limits.rs): as many items as tracks may be made,
\* and the bounds of a position lie on the grid.
ASSUME LimitsFit ==
  /\ MaxTracksPerStage <= MaxItemsPerStage + 1
  /\ QnMin % Grid = 0 /\ QnMax % Grid = 0

BuildPlan ==
  /\ Asking("staging")
  /\ answer' = Plan!BuildPlan(question.parts, question.item, question.options)
  /\ Settled

\* The questions about plans alone.
PlanSpec == Asked("staging", Stagings) /\ [][BuildPlan]_vars

-----------------------------------------------------------------------------
\* What build_plan returns the bridge does not refuse: two programs with two
\* copies of the rules agree.
PlanAccepted ==
  Answered("staging") => \A plan \in answer : Plan!BridgeAccepts(plan)

\* The outputs a plan announces are the objects staging it makes.
ExpectedIsCreated ==
  Answered("staging") => \A plan \in answer : ToSet(plan.expected) = Plan!Created(plan)

\* Every part that has notes is written once and nothing else is; every note of
\* it begins and ends no further than half a step of the grid from where the
\* candidate has it.
NotesPlacedAsWritten ==
  Answered("staging") => \A plan \in answer :
    LET heard == Plan!Heard(question.parts)
        near(a, b) == 2 * (a - b) <= Grid /\ 2 * (b - a) <= Grid
        writes(i) == {w \in DOMAIN plan.ops : /\ plan.ops[w].op = "insert_notes"
                                              /\ plan.ops[w].ref = <<"i", i - 1>>}
    IN /\ \A w \in DOMAIN plan.ops : plan.ops[w].op = "insert_notes" =>
            \E i \in DOMAIN heard : w \in writes(i)
       /\ \A i \in DOMAIN heard : \E w \in DOMAIN plan.ops :
            /\ writes(i) = {w}
            /\ Len(plan.ops[w].notes) = Len(heard[i])
            /\ \A k \in DOMAIN heard[i] :
                 /\ near(plan.ops[w].notes[k].start, heard[i][k].onset)
                 /\ near(plan.ops[w].notes[k].end, heard[i][k].onset + heard[i][k].length)

\* build_plan and validate_plan: the plan is accepted, makes what it announces
\* and writes what the candidate has.
PlanHonest == PlanAccepted /\ ExpectedIsCreated /\ NotesPlacedAsWritten
=============================================================================
