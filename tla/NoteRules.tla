------------------------------- MODULE NoteRules -------------------------------
(***************************************************************************)
(* The hard constraints the engines enforce on the notes of a part before  *)
(* it is offered: arrangement-engine (plan.rs, density.rs) and             *)
(* harmony-engine (generate.rs, bass.rs).  A note has an onset, a length,  *)
(* a sounding pitch (midi), and the pitch its spelling says (spelled);     *)
(* positions are integers.  Velocities, voices and ids are left out.       *)
(***************************************************************************)
EXTENDS Integers, Sequences, FiniteSets, SequencesExt

Lower(a, b) == IF a <= b THEN a ELSE b
Higher(a, b) == IF a >= b THEN a ELSE b
LOCAL Best(S) == CHOOSE x \in S : \A y \in S : x >= y

NoteEnd(n) == n.onset + n.length
Overlap(m, n) == m.onset < NoteEnd(n) /\ n.onset < NoteEnd(m)

InOrder(notes) ==
  SortSeq(notes, LAMBDA m, n : \/ m.onset < n.onset
                               \/ m.onset = n.onset /\ m.midi < n.midi)

-----------------------------------------------------------------------------
(* Arrangement: enforce.                                                   *)

\* Mutant of Folded: the spelling stays in its octave.
Folded_Unspelled(n, range) ==
  LET up == {k \in 0..10 : n.midi + 12 * k \in range.low..range.high}
      down == {k \in 0..10 : n.midi - 12 * k \in range.low..range.high}
  IN IF up # {} THEN [n EXCEPT !.midi = @ + 12 * (CHOOSE k \in up : TRUE)]
     ELSE IF down # {} THEN [n EXCEPT !.midi = @ - 12 * (CHOOSE k \in down : TRUE)]
     ELSE [n EXCEPT !.midi = Lower(Higher(@, range.low), range.high)]

\* By octaves towards the range while that does not cross it, then to it.
Folded(n, range) ==
  LET up == IF n.midi < range.low
            THEN Lower((range.low - n.midi + 11) \div 12,
                       Higher(0, (range.high - n.midi) \div 12)) ELSE 0
      risen == n.midi + 12 * up
      down == IF risen > range.high
              THEN Lower((risen - range.high + 11) \div 12,
                         Higher(0, (risen - range.low) \div 12)) ELSE 0
      octave == risen - 12 * down
  IN [n EXCEPT !.midi = Lower(Higher(octave, range.low), range.high),
               !.spelled = @ + octave - n.midi]

Clipped(n, span) ==
  LET from == Higher(n.onset, span.start)
  IN [n EXCEPT !.onset = from, !.length = Lower(NoteEnd(n), span.end) - from]

\* Mutant of OneAtATime: the earlier note is not shortened.
OneAtATime_Untrimmed(notes) ==
  FoldLeft(LAMBDA kept, n :
             IF kept # <<>> /\ Last(kept).onset = n.onset THEN kept ELSE Append(kept, n),
           <<>>, notes)

\* Of notes that begin together the first; the earlier gives way to the later.
OneAtATime(notes) ==
  FoldLeft(LAMBDA kept, n :
             IF kept = <<>> THEN <<n>>
             ELSE LET prev == Last(kept)
                      trimmed == IF NoteEnd(prev) > n.onset
                                 THEN [prev EXCEPT !.length = n.onset - prev.onset] ELSE prev
                  IN IF prev.onset = n.onset THEN kept ELSE Append(Front(kept), trimmed) \o <<n>>,
           <<>>, notes)

\* Mutant of AtMostAtOnce: notes already dropped count too.
AtMostAtOnce_All(notes, ceiling) ==
  LET fits(i) == Cardinality({j \in 1..(i - 1) : Overlap(notes[j], notes[i])}) < ceiling
      kept == SelectSeq([i \in DOMAIN notes |-> i], fits)
  IN [k \in DOMAIN kept |-> notes[kept[k]]]

AtMostAtOnce(notes, ceiling) ==
  FoldLeft(LAMBDA kept, n :
             IF Len(SelectSeq(kept, LAMBDA k : Overlap(k, n))) < ceiling
             THEN Append(kept, n) ELSE kept,
           <<>>, notes)

Enforced(notes, inst, span, polyphony) ==
  LET placed == [i \in DOMAIN notes |-> Clipped(Folded(notes[i], inst), span)]
      inside == InOrder(SelectSeq(placed, LAMBDA n : n.length > 0 /\ n.onset < span.end))
  IN IF polyphony <= 1 THEN OneAtATime(inside)
     ELSE AtMostAtOnce(inside, Lower(polyphony, Higher(inst.polyphony, 1)))

-----------------------------------------------------------------------------
(* Harmony: enforce_monophony walks the list and drops or trims as it goes *)
(* (the step that does neither moves on), and enforce_invariants.          *)

\* Mutant of Walked: it moves on from a note whose successor it dropped.
Walked_Skips(notes) ==
  LET step(w) ==
        LET m == w.notes[w.at]
            n == w.notes[w.at + 1]
        IN CASE NoteEnd(m) > n.onset /\ n.onset > m.onset ->
                  [notes |-> [w.notes EXCEPT ![w.at].length = n.onset - m.onset],
                   at |-> w.at + 1]
             [] NoteEnd(m) > n.onset /\ n.onset <= m.onset ->
                  [notes |-> RemoveAt(w.notes, w.at + 1), at |-> w.at + 1]
             [] OTHER -> [w EXCEPT !.at = @ + 1]
      walk[k \in 0..Len(notes)] ==
        IF k = 0 THEN [notes |-> notes, at |-> 1]
        ELSE LET w == walk[k - 1] IN IF w.at < Len(w.notes) THEN step(w) ELSE w
  IN SelectSeq(walk[Len(notes)].notes, LAMBDA n : n.length > 0)

Walked(notes) ==
  LET step(w) ==
        LET m == w.notes[w.at]
            n == w.notes[w.at + 1]
        IN CASE NoteEnd(m) > n.onset /\ n.onset > m.onset ->
                  [notes |-> [w.notes EXCEPT ![w.at].length = n.onset - m.onset],
                   at |-> w.at + 1]
             [] NoteEnd(m) > n.onset /\ n.onset <= m.onset ->
                  [notes |-> RemoveAt(w.notes, w.at + 1), at |-> w.at]
             [] OTHER -> [w EXCEPT !.at = @ + 1]
      walk[k \in 0..Len(notes)] ==
        IF k = 0 THEN [notes |-> notes, at |-> 1]
        ELSE LET w == walk[k - 1] IN IF w.at < Len(w.notes) THEN step(w) ELSE w
  IN SelectSeq(walk[Len(notes)].notes, LAMBDA n : n.length > 0)

EnforceMonophony(notes) == Walked(InOrder(notes))

EnforcedInvariants(notes, span, polyphonic) ==
  LET sound == SelectSeq(notes, LAMBDA n : n.length > 0 /\ n.midi \in 0..127)
      clipped == [i \in DOMAIN sound |-> Clipped(sound[i], span)]
      inside == InOrder(SelectSeq(clipped, LAMBDA n : n.length > 0))
  IN IF polyphonic THEN inside ELSE EnforceMonophony(inside)

-----------------------------------------------------------------------------
(* Density: rests and thinning.                                            *)

\* Mutant of Silence: the notes are taken as they are listed.
Silence_Unsorted(notes, window) ==
  LET cut == [i \in DOMAIN notes |-> <<Higher(notes[i].onset, window.start),
                                       Lower(NoteEnd(notes[i]), window.end)>>]
      sounding == SelectSeq(cut, LAMBDA w : w[1] < w[2])
      laid == FoldLeft(LAMBDA c, w : IF w[2] <= c.cursor THEN c
                                     ELSE [covered |-> c.covered + w[2] - Higher(w[1], c.cursor),
                                           cursor |-> w[2]],
                       [covered |-> 0, cursor |-> window.start], sounding)
  IN window.end - window.start - laid.covered

\* rest_ratio, times the length of the window: what is left of it as the notes
\* are laid down in their order.
Silence(notes, window) ==
  LET cut == [i \in DOMAIN notes |-> <<Higher(notes[i].onset, window.start),
                                       Lower(NoteEnd(notes[i]), window.end)>>]
      sounding == SortSeq(SelectSeq(cut, LAMBDA w : w[1] < w[2]), LAMBDA v, w : v[1] < w[1])
      laid == FoldLeft(LAMBDA c, w : IF w[2] <= c.cursor THEN c
                                     ELSE [covered |-> c.covered + w[2] - Higher(w[1], c.cursor),
                                           cursor |-> w[2]],
                       [covered |-> 0, cursor |-> window.start], sounding)
  IN window.end - window.start - laid.covered

\* Mutant of Rested: the breath is taken from the note, not from the window.
Rested_Shortened(notes, window, minimum) ==
  LET begin == {i \in DOMAIN notes : notes[i].onset \in window.start..(window.end - 1)}
  IN IF begin = {} \/ Silence(notes, window) >= minimum THEN notes
     ELSE LET late == Best({notes[i].onset : i \in begin})
              last == CHOOSE i \in begin : notes[i].onset = late /\
                        \A j \in begin : notes[j].onset = late => i <= j
          IN IF notes[last].length <= minimum THEN notes
             ELSE [notes EXCEPT ![last].length = @ - minimum]

\* ensure_rest, for one window: its last note (the first listed of those
\* that begin latest) ends early enough, unless the whole of it is too short.
Rested(notes, window, minimum) ==
  LET begin == {i \in DOMAIN notes : notes[i].onset \in window.start..(window.end - 1)}
  IN IF begin = {} \/ Silence(notes, window) >= minimum THEN notes
     ELSE LET late == Best({notes[i].onset : i \in begin})
              last == CHOOSE i \in begin : notes[i].onset = late /\
                        \A j \in begin : notes[j].onset = late => i <= j
              available == Lower(window.end, NoteEnd(notes[last])) - late
          IN IF available <= minimum THEN notes
             ELSE [notes EXCEPT ![last].length = Lower(@, available - minimum)]

EnsureRest(notes, windows, minimum) ==
  FoldLeft(LAMBDA ns, w : Rested(ns, w, minimum), notes, windows)

\* Mutant of ThinAgainst: the floor is not kept.
ThinAgainst_NoFloor(notes, busy, floor) ==
  SelectSeq(notes, LAMBDA n : n.onset \notin busy)

\* thin_against: attacks another part occupies go, the latest first, whole,
\* and never so many that fewer than the floor are left.
ThinAgainst(notes, busy, floor) ==
  LET attacks == {n.onset : n \in ToSet(notes)}
      droppable == Cardinality(attacks) - Higher(floor, 1)
      doomed == {q \in attacks \cap busy :
                   Cardinality({r \in attacks \cap busy : r > q}) < droppable}
  IN SelectSeq(notes, LAMBDA n : n.onset \notin doomed)
=============================================================================
