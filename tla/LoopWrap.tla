------------------------------- MODULE LoopWrap -------------------------------
(***************************************************************************)
(* What loop-engine measures at the seam of a loop and what it does about  *)
(* it: boundary.rs.  A note has an id, a pitch (midi), an onset, a length, *)
(* whether it sounds (it is not muted) and a mark (articulation) that says *)
(* what the engine made of it; a loop has a start and an end.  Positions   *)
(* are integers, a small multiple of the quarter note.                     *)
(***************************************************************************)
EXTENDS Integers, Sequences, FiniteSets, SequencesExt

Lower(a, b) == IF a <= b THEN a ELSE b
Higher(a, b) == IF a >= b THEN a ELSE b

Marks == {"none", "carry", "split_tail", "wrapped_pickup", "rearticulated"}

End(n) == n.onset + n.length
Length(span) == span.end - span.start
Wrapped(span, q) == span.start + ((q - span.start) % Length(span))

Crosses(n, span) == n.sounds /\ n.onset < span.end /\ End(n) > span.end

-----------------------------------------------------------------------------
(* The measurements.                                                       *)

HangingNotes(notes, span) ==
  {n.id : n \in {n \in ToSet(notes) : Crosses(n, span) /\ n.mark # "carry"}}

CarriedNotes(notes, span) ==
  {n.id : n \in {n \in ToSet(notes) : Crosses(n, span) /\ n.mark = "carry"}}

\* crossing_notes: those that sound on both sides of an end of the loop.
CrossingNotes(notes, span) ==
  {n.id : n \in {n \in ToSet(notes) :
     Crosses(n, span) \/ (n.sounds /\ n.onset < span.start /\ End(n) > span.start)}}

PickupLength(notes, span) ==
  FoldLeft(LAMBDA q, n : IF n.sounds THEN Higher(q, span.start - n.onset) ELSE q, 0, notes)

TailLength(notes, span) ==
  FoldLeft(LAMBDA q, n : IF n.sounds THEN Higher(q, End(n) - span.end) ELSE q, 0, notes)

OccupiedLength(notes, span) ==
  LET heard == SelectSeq(notes, LAMBDA n : n.sounds /\ n.mark # "carry")
  IN FoldLeft(LAMBDA q, n : Higher(q, End(n)), span.end, heard)
     - FoldLeft(LAMBDA q, n : Lower(q, n.onset), span.start, heard)

-----------------------------------------------------------------------------
(* The policies.  Each rewrites every note in place and gives the notes it *)
(* adds the ids after the highest there is, in the order it adds them.     *)

\* Mutant of NextId: ids are taken to be dense.
NextId_Count(notes) == Len(notes)
NextId(notes) == FoldLeft(LAMBDA id, n : Higher(id, n.id + 1), 0, notes)

Tidied(notes) ==
  SortSeq(SelectSeq(notes, LAMBDA n : n.length > 0),
          LAMBDA m, n : \/ m.onset < n.onset
                        \/ m.onset = n.onset /\ m.midi < n.midi
                        \/ m.onset = n.onset /\ m.midi = n.midi /\ m.id < n.id)

WithAdded(notes, added) ==
  notes \o [i \in DOMAIN added |-> [added[i] EXCEPT !.id = NextId(notes) + i - 1]]

\* Mutant of Cut: a note that overhangs keeps its length.
Cut_Not(n, span) == n
Cut(n, span) == IF Crosses(n, span) THEN [n EXCEPT !.length = span.end - n.onset] ELSE n

Carry(notes, span) ==
  [i \in DOMAIN notes |->
     IF Crosses(notes[i], span) THEN [notes[i] EXCEPT !.mark = "carry"] ELSE notes[i]]

Truncate(notes, span) ==
  LET within == SelectSeq(notes, LAMBDA n : End(n) > span.start /\ n.onset < span.end)
      clipped(n) == LET from == Higher(n.onset, span.start)
                    IN [n EXCEPT !.onset = from, !.length = Lower(End(n), span.end) - from]
  IN [i \in DOMAIN within |-> clipped(within[i])]

\* Mutant of SplitTail: all that overhangs becomes the head of the repeat.
SplitTail_Whole(n, span) ==
  [n EXCEPT !.onset = span.start, !.length = End(n) - span.end, !.mark = "split_tail"]

\* The overhang of a note, at most a loop of it, as the head of the repeat.
SplitTail(n, span) ==
  [n EXCEPT !.onset = span.start, !.length = Lower(End(n) - span.end, Length(span)),
            !.mark = "split_tail"]

\* Mutant of PickupInTail: the part before the loop is lost.
PickupInTail_Dropped(n, span) ==
  [n EXCEPT !.onset = span.end, !.length = 0, !.mark = "wrapped_pickup"]

\* The part of a note before the loop, in the tail.
PickupInTail(n, span) ==
  [n EXCEPT !.onset = span.end - (span.start - n.onset), !.length = span.start - n.onset,
            !.mark = "wrapped_pickup"]

Moved(n, span) ==
  CASE ~n.sounds \/ n.onset >= span.start -> n
    [] n.sounds /\ n.onset < span.start /\ End(n) <= span.start ->
         [n EXCEPT !.onset = @ + Length(span), !.mark = "wrapped_pickup"]
    [] OTHER -> [n EXCEPT !.onset = span.start, !.length = End(n) - span.start]

Split(notes, span) ==
  LET over == SelectSeq(notes, LAMBDA n : Crosses(n, span))
      cut == [i \in DOMAIN notes |-> Cut(notes[i], span)]
      straddling == SelectSeq(cut, LAMBDA n : n.sounds /\ n.onset < span.start
                                              /\ End(n) > span.start)
  IN WithAdded([i \in DOMAIN cut |-> Moved(cut[i], span)],
               [i \in DOMAIN over |-> SplitTail(over[i], span)]
               \o [i \in DOMAIN straddling |-> PickupInTail(straddling[i], span)])

Rearticulate(notes, span) ==
  LET over == SelectSeq(notes, LAMBDA n : Crosses(n, span))
      cut == [i \in DOMAIN notes |-> Cut(notes[i], span)]
      pickups == SelectSeq(cut, LAMBDA n : n.sounds /\ n.onset < span.start)
      shortened(n, at, mark) ==
        [n EXCEPT !.onset = at, !.length = Lower(@, Length(span)), !.mark = mark]
  IN WithAdded(cut,
       [i \in DOMAIN over |-> shortened(over[i], span.start, "rearticulated")]
       \o [i \in DOMAIN pickups |->
             shortened(pickups[i], pickups[i].onset + Length(span), "wrapped_pickup")])

\* apply_boundary_policy, of a loop that is not empty.
Applied(notes, span, policy) ==
  Tidied(CASE policy = "carry" -> Carry(notes, span)
           [] policy = "truncate" -> Truncate(notes, span)
           [] policy = "split" -> Split(notes, span)
           [] policy = "rearticulate" -> Rearticulate(notes, span))
=============================================================================
