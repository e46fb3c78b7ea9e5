------------------------------ MODULE PlanBuild ------------------------------
(***************************************************************************)
(* How the server turns a candidate into an edit plan (staging.rs), what   *)
(* it checks before it sends it (EditPlan::validate, preflight_plan), and  *)
(* what the bridge demands of it (validate_plan in transactions.lua), each *)
(* with its own copy of the limits.                                        *)
(*                                                                         *)
(* Positions are integers, Grid of them to one step of the server's grid   *)
(* (1/1920 of a quarter note), Quarter of them to a quarter note: the item *)
(* and the notes may lie off the grid, the item the plan creates may not.  *)
(* Identifiers are pairs: <<"t", 1>> is "t1".                              *)
(***************************************************************************)
EXTENDS Integers, Sequences, FiniteSets, SequencesExt

CONSTANTS Grid, Quarter,
          QnMin, QnMax,          \* the positions the bridge accepts
          MaxTracksPerStage, MaxItemsPerStage, MaxNotesPerItem, MaxGeneratedNotes,
          MaxOperations, MaxExpectedOutputs

PlanConstants ==
  /\ Grid \in Nat \ {0} /\ Quarter \in Nat \ {0}
  /\ QnMin \in Int /\ QnMax \in Int /\ QnMin <= QnMax
  /\ {MaxTracksPerStage, MaxItemsPerStage, MaxNotesPerItem, MaxGeneratedNotes,
      MaxOperations, MaxExpectedOutputs} \subseteq Nat

Lower(a, b) == IF a <= b THEN a ELSE b
Higher(a, b) == IF a >= b THEN a ELSE b

\* The sum of a sequence of numbers.
Total(f) ==
  LET sum[k \in 0..Len(f)] == IF k = 0 THEN 0 ELSE sum[k - 1] + f[k]
  IN sum[Len(f)]

NoId == <<"none", 0>>

\* BeatTime::from_f64_grid: to the nearest step, halves away from zero.
Snapped(q) ==
  IF q >= 0 THEN Grid * ((2 * q + Grid) \div (2 * Grid))
  ELSE -(Grid * ((2 * (-q) + Grid) \div (2 * Grid)))

-----------------------------------------------------------------------------
(* The builder.  A candidate is a sequence of parts, a part a sequence of  *)
(* notes with an onset, a length, a pitch and a velocity.                  *)

NoteEnd(n) == n.onset + n.length

\* The parts that have a note, in their order.
Heard(candidate) ==
  LET heard[k \in 0..Len(candidate)] ==
        IF k = 0 THEN <<>>
        ELSE IF candidate[k] = <<>> THEN heard[k - 1] ELSE Append(heard[k - 1], candidate[k])
  IN heard[Len(candidate)]

NotesOf(parts) == UNION {ToSet(parts[i]) : i \in DOMAIN parts}

\* From the first to the last of the source item and the notes.
SpanStart(item, parts) == Min({item.start} \cup {n.onset : n \in NotesOf(parts)})
SpanEnd(item, parts) == Max({item.end} \cup {NoteEnd(n) : n \in NotesOf(parts)})

Written(n, a, b) ==
  [start |-> a, end |-> b, pitch |-> n.pitch,
   velocity |-> Lower(Higher(n.velocity, 1), 127)]

\* Mutant of PlannedNote: what sticks out of the item is not cut.
PlannedNote_Uncut(n, start, end) == Written(n, n.onset, NoteEnd(n))

\* Mutant of PlannedNote: positions are counted from the item.
PlannedNote_Relative(n, start, end) ==
  Written(n, Higher(n.onset, start) - start, Lower(NoteEnd(n), end) - start)

\* planned_note: cut to the item, or nudged to one step inside it.
PlannedNote(n, start, end) ==
  LET a == Higher(n.onset, start)
      b == Lower(NoteEnd(n), end)
      inside == Higher(Lower(a, end - Grid), start)
  IN IF b > a THEN Written(n, a, b) ELSE Written(n, inside, inside + Grid)

\* Every operation has the same fields, empty where it does not use them.
Operation(op, id, ref, from, to, notes) ==
  [op |-> op, id |-> id, ref |-> ref, start |-> from, end |-> to, notes |-> notes]

PartOperations(part, i, start, end) ==
  << Operation("create_track", <<"t", i>>, <<"f", 0>>, 0, 0, <<>>),
     Operation("create_midi_item", <<"i", i>>, <<"t", i>>, start, end, <<>>),
     Operation("insert_notes", NoId, <<"i", i>>, 0, 0,
               [k \in DOMAIN part |-> PlannedNote(part[k], start, end)]) >>

Operations(parts, start, end, options) ==
  <<Operation("create_folder_track", <<"f", 0>>, NoId, 0, 0, <<>>)>>
  \o FlattenSeq([i \in DOMAIN parts |-> PartOperations(parts[i], i - 1, start, end)])
  \o (IF "region" \in options
      THEN <<Operation("create_region", <<"r", 0>>, NoId, start, end, <<>>)>> ELSE <<>>)
  \o (IF "route" \in options
      THEN <<Operation("create_midi_send", <<"s", 0>>, <<"t", 0>>, 0, 0, <<>>)>> ELSE <<>>)

\* Mutant of Expected: the send is not announced.
Expected_Unsent(parts, options) ==
  <<[id |-> <<"f", 0>>, kind |-> "folder_track", count |-> -1]>>
  \o FlattenSeq([i \in DOMAIN parts |->
       << [id |-> <<"t", i - 1>>, kind |-> "track", count |-> -1],
          [id |-> <<"i", i - 1>>, kind |-> "midi_item", count |-> Len(parts[i])] >>])
  \o (IF "region" \in options
      THEN <<[id |-> <<"r", 0>>, kind |-> "region", count |-> -1]>> ELSE <<>>)

\* The outputs the plan announces; -1 where no count of notes goes with one.
Expected(parts, options) ==
  <<[id |-> <<"f", 0>>, kind |-> "folder_track", count |-> -1]>>
  \o FlattenSeq([i \in DOMAIN parts |->
       << [id |-> <<"t", i - 1>>, kind |-> "track", count |-> -1],
          [id |-> <<"i", i - 1>>, kind |-> "midi_item", count |-> Len(parts[i])] >>])
  \o (IF "region" \in options
      THEN <<[id |-> <<"r", 0>>, kind |-> "region", count |-> -1]>> ELSE <<>>)
  \o (IF "route" \in options
      THEN <<[id |-> <<"s", 0>>, kind |-> "send", count |-> -1]>> ELSE <<>>)

\* EditPlan::validate and preflight_plan: names before their uses, sound
\* notes, a region that does not end before it starts, and the totals.
Preflight(ops, expected) ==
  LET made(i, kinds) == {ops[j].id : j \in {j \in 1..(i - 1) : ops[j].op \in kinds}}
      tracks(i) == made(i, {"create_folder_track", "create_track"})
  IN /\ \A i \in DOMAIN ops :
          CASE ops[i].op \in {"create_track", "create_midi_item", "create_midi_send"} ->
                 ops[i].ref \in tracks(i)
            [] ops[i].op = "insert_notes" ->
                 /\ ops[i].ref \in made(i, {"create_midi_item"})
                 /\ \A n \in ToSet(ops[i].notes) :
                      n.end > n.start /\ n.pitch \in 0..127 /\ n.velocity \in 1..127
            [] ops[i].op = "create_region" -> ops[i].end > ops[i].start
            [] OTHER -> TRUE
     /\ Len(ops) <= MaxOperations
     /\ Len(expected) <= MaxExpectedOutputs
     /\ Total([i \in DOMAIN ops |-> Len(ops[i].notes)]) <= MaxGeneratedNotes

\* build_plan: {} when it refuses, or the one plan it returns.
BuildPlan(candidate, item, options) ==
  LET parts == Heard(candidate)
      from == SpanStart(item, parts)
      last == SpanEnd(item, parts)
      to == IF last <= from THEN from + Quarter ELSE last
      ops == Operations(parts, Snapped(from), Snapped(to), options)
      expected == Expected(parts, options)
  IN IF /\ parts # <<>>
        /\ Len(parts) <= MaxTracksPerStage - 1
        /\ from >= QnMin /\ to <= QnMax
        /\ \A i \in DOMAIN parts : Len(parts[i]) <= MaxNotesPerItem
        /\ \A n \in NotesOf(parts) : n.pitch \in 0..127
        /\ Preflight(ops, expected)
     THEN {[ops |-> ops, expected |-> expected]}
     ELSE {}

-----------------------------------------------------------------------------
(* The bridge: validate_plan.                                              *)

SymbolKind(op) ==
  CASE op = "create_folder_track" -> "folder_track"
    [] op = "create_track" -> "track"
    [] op = "create_midi_item" -> "midi_item"
    [] op = "create_region" -> "region"
    [] op = "create_midi_send" -> "send"

WantedKinds(op) ==
  CASE op = "create_track" -> {"folder_track"}
    [] op = "create_midi_item" -> {"track", "folder_track"}
    [] op = "create_midi_send" -> {"track", "folder_track"}
    [] op = "insert_notes" -> {"midi_item"}

InQnRange(q) == QnMin <= q /\ q <= QnMax

\* validate_plan of the bridge.  Its QN_EPSILON is left out: positions are whole
\* steps of the grid, so the comparisons are exact, and stricter than the bridge's.
BridgeAccepts(plan) ==
  LET ops == plan.ops
      declares == {i \in DOMAIN ops : ops[i].op # "insert_notes"}
      refers == {i \in DOMAIN ops : ops[i].ref # NoId}
      at(id) == CHOOSE i \in declares : ops[i].id = id
      count(kinds) == Cardinality({i \in DOMAIN ops : ops[i].op \in kinds})
      notesFor(id) == Total([i \in DOMAIN ops |->
                              IF ops[i].ref = id THEN Len(ops[i].notes) ELSE 0])
  IN /\ Len(ops) \in 1..MaxOperations
     /\ count({"create_folder_track", "create_track"}) <= MaxTracksPerStage
     /\ count({"create_midi_item"}) <= MaxItemsPerStage
     /\ \A i, j \in declares : ops[i].id = ops[j].id => i = j
     /\ \A i \in refers :
          \E j \in declares : /\ j < i
                              /\ ops[j].id = ops[i].ref
                              /\ SymbolKind(ops[j].op) \in WantedKinds(ops[i].op)
     /\ \A i \in DOMAIN ops : ops[i].op \in {"create_midi_item", "create_region"} =>
          InQnRange(ops[i].start) /\ InQnRange(ops[i].end) /\ ops[i].end > ops[i].start
     /\ \A i \in DOMAIN ops : \A n \in ToSet(ops[i].notes) :
          LET item == ops[at(ops[i].ref)] IN
          /\ InQnRange(n.start) /\ InQnRange(n.end) /\ n.end > n.start
          /\ n.start >= item.start /\ n.end <= item.end
          /\ n.pitch \in 0..127 /\ n.velocity \in 1..127
     /\ \A i \in declares : notesFor(ops[i].id) <= MaxNotesPerItem
     /\ Total([i \in DOMAIN ops |-> Len(ops[i].notes)]) <= MaxGeneratedNotes
     /\ Len(plan.expected) <= MaxExpectedOutputs
     /\ \A k \in DOMAIN plan.expected :
          \E i \in declares : /\ ops[i].id = plan.expected[k].id
                              /\ SymbolKind(ops[i].op) = plan.expected[k].kind

\* What staging the plan creates, each object with the notes written to it.
Created(plan) ==
  {[id |-> plan.ops[i].id, kind |-> SymbolKind(plan.ops[i].op),
    count |-> IF plan.ops[i].op # "create_midi_item" THEN -1
              ELSE Total([j \in DOMAIN plan.ops |->
                            IF plan.ops[j].ref = plan.ops[i].id
                            THEN Len(plan.ops[j].notes) ELSE 0])]
     : i \in {i \in DOMAIN plan.ops : plan.ops[i].op # "insert_notes"}}
=============================================================================
