------------------------------ MODULE MelodyLine ------------------------------
(***************************************************************************)
(* Which notes of a take are its melody: the separation of overlapping     *)
(* notes into voices (voices.rs) and the modes of extraction               *)
(* (selection.rs).                                                         *)
(*                                                                         *)
(* A take is a sequence of notes sorted as NoteSet keeps them; a note has  *)
(* an id, an onset, a length, a midi number, a channel, and is or is not   *)
(* selected and muted.  Costs are in ten-thousandths of a semitone and     *)
(* rounded down, where the code has floats; the assumptions in words are   *)
(* left out, the confidence is named and not a number.                     *)
(***************************************************************************)
EXTENDS Integers, Sequences, FiniteSets, SequencesExt

CONSTANTS Beat,        \* the units of a quarter note
          MaxVoices    \* DEFAULT_MAX_VOICES

LineConstants == Beat \in Nat \ {0} /\ MaxVoices \in Nat \ {0}

LOCAL Abs(n) == IF n < 0 THEN -n ELSE n
LOCAL Higher(a, b) == IF a >= b THEN a ELSE b

End(n) == n.onset + n.length
Overlap(m, n) == m.onset < End(n) /\ n.onset < End(m)
InOrder(m, n) ==
  \/ m.onset < n.onset
  \/ m.onset = n.onset /\ (m.midi < n.midi \/ (m.midi = n.midi /\ m.id < n.id))
Ids(notes) == {notes[i].id : i \in DOMAIN notes}

\* subset, and the notes a test accepts: always in the order of the take.
Subset(notes, ids) == SelectSeq(notes, LAMBDA n : n.id \in ids)

\* Mutant of Monophonic: only neighbours are compared.
Monophonic_Neighbours(notes) ==
  \A i \in 1..(Len(notes) - 1) : ~Overlap(notes[i], notes[i + 1])
        \/ notes[i].onset = notes[i + 1].onset
\* is_monophonic.
Monophonic(notes) ==
  \A i, j \in DOMAIN notes : i < j => ~Overlap(notes[i], notes[j])

-----------------------------------------------------------------------------
(* voices.rs.                                                              *)

\* What it costs a line to go on with a note: the leap, the way from its mean,
\* the silence before it, and 48 and more where the line still sounds.
AssignmentCost(line, n) ==
  LET gap == n.onset - line.end
  IN 10000 * Abs(n.midi - line.midi)
     + (3500 * Abs(n.midi * line.count - line.sum)) \div line.count
     + (IF gap >= 0 THEN (20000 * gap) \div Beat ELSE 480000 + (10000 * (line.end - n.onset)) \div Beat)

NewVoiceCost == 110000

NewLine(n) == [ids |-> <<n.id>>, end |-> End(n), midi |-> n.midi, sum |-> n.midi, count |-> 1,
               from |-> n.onset]
Extended(line, n) ==
  [line EXCEPT !.ids = Append(@, n.id), !.end = Higher(@, End(n)), !.midi = n.midi,
               !.sum = @ + n.midi, !.count = @ + 1]

\* The first of the lines it costs least to continue.
Cheapest(lines, n) ==
  CHOOSE i \in DOMAIN lines : \A j \in DOMAIN lines :
    \/ AssignmentCost(lines[i], n) < AssignmentCost(lines[j], n)
    \/ AssignmentCost(lines[i], n) = AssignmentCost(lines[j], n) /\ i <= j

\* Mutant of Assigned: a line is never too dear to go on with.
Assigned_Loth(lines, n) ==
  IF lines = <<>> THEN <<NewLine(n)>>
  ELSE [lines EXCEPT ![Cheapest(lines, n)] = Extended(@, n)]

Assigned(lines, n) ==
  IF lines = <<>> \/ (Len(lines) < MaxVoices
                      /\ AssignmentCost(lines[Cheapest(lines, n)], n) > NewVoiceCost)
  THEN Append(lines, NewLine(n))
  ELSE [lines EXCEPT ![Cheapest(lines, n)] = Extended(@, n)]

\* By register, the highest mean first, then by entry, then by first note.
Above(l, m) ==
  \/ l.sum * m.count > m.sum * l.count
  \/ /\ l.sum * m.count = m.sum * l.count
     /\ (l.from < m.from \/ (l.from = m.from /\ l.ids[1] < m.ids[1]))

SeparateVoices(notes) ==
  LET lines == SortSeq(FoldLeft(Assigned, <<>>, notes), Above)
  IN [i \in DOMAIN lines |-> lines[i].ids]

-----------------------------------------------------------------------------
(* selection.rs.                                                           *)

SoundingAt(notes, t) == {n \in ToSet(notes) : n.onset <= t /\ t < End(n)}

\* extreme_line: at every onset the highest, or lowest, note that sounds;
\* of two at one pitch the later id, or the earlier.
ExtremeLine(notes, highest) ==
  LET beyond(m, n) == m.midi < n.midi \/ (m.midi = n.midi /\ m.id < n.id)
      pick(t) == CHOOSE n \in SoundingAt(notes, t) : \A m \in SoundingAt(notes, t) \ {n} :
                   IF highest THEN beyond(m, n) ELSE beyond(n, m)
  IN {pick(n.onset).id : n \in ToSet(notes)}

\* Mutant of MostProminent: the line with the most notes.
MostProminent_Busiest(notes, lines) ==
  LET best == CHOOSE i \in DOMAIN lines : \A j \in DOMAIN lines : Len(lines[j]) <= Len(lines[i])
  IN IF lines = <<>> THEN {} ELSE ToSet(lines[best])

\* most_prominent: the most sounding time, then the highest sum of pitches.
MostProminent(notes, lines) ==
  LET total(l) == FoldLeft(LAMBDA t, n : t + n.length, 0, Subset(notes, ToSet(l)))
      height(l) == FoldLeft(LAMBDA t, n : t + n.midi, 0, Subset(notes, ToSet(l)))
      beats(l, m) == total(l) > total(m) \/ (total(l) = total(m) /\ height(l) > height(m))
      best == CHOOSE i \in DOMAIN lines :
                \A j \in DOMAIN lines : ~beats(lines[j], lines[i])
                                        /\ (j < i => beats(lines[i], lines[j]))
  IN IF lines = <<>> THEN {} ELSE ToSet(lines[best])

Chosen(ids, mode, confidence, warnings) ==
  [ids |-> ids, mode |-> mode, confidence |-> confidence, warnings |-> warnings]

\* A line as the caller named it: sure of it if it is one line.
AsNamed(notes, ids, mode) ==
  IF Monophonic(Subset(notes, ids)) THEN Chosen(ids, mode, "explicit", {})
  ELSE Chosen(ids, mode, "separated", {"AMBIGUOUS_MELODY"})

\* Mutant of Auto: the whole take is looked at, whatever is selected.
Auto_Deaf(audible) ==
  IF Monophonic(audible) THEN Chosen(Ids(audible), "monophonic_voice", "monophonic", {})
  ELSE Chosen(ToSet(SeparateVoices(audible)[1]), "highest_voice", "separated",
              {"AMBIGUOUS_MELODY"})

\* auto: what is selected, or all; as it stands if that is one line, its top
\* voice if not.
Auto(audible) ==
  LET selected == {n.id : n \in {n \in ToSet(audible) : n.selected}}
      narrowed == selected # {} /\ selected # Ids(audible)
      working == IF selected = {} THEN audible ELSE Subset(audible, selected)
  IN IF Monophonic(working)
     THEN IF narrowed THEN Chosen(selected, "selected_notes", "subset", {})
          ELSE Chosen(Ids(working), "monophonic_voice", "monophonic", {})
     ELSE Chosen(ToSet(SeparateVoices(working)[1]), "highest_voice", "separated",
                 {"AMBIGUOUS_MELODY"})

\* Taking the line that a mode asks for; named are the notes the caller means.
Taken(audible, lines, named, mode) ==
  CASE mode = "auto" -> Auto(audible)
    [] mode \in {"selected_notes", "midi_channel"} -> AsNamed(audible, named, mode)
    [] mode \in {"highest_voice", "lowest_voice"} ->
         Chosen(ExtremeLine(audible, mode = "highest_voice"), mode, "explicit", {})
    [] mode = "monophonic_voice" ->
         IF Len(lines) > 1
         THEN Chosen(MostProminent(audible, lines), mode, "separated", {"AMBIGUOUS_MELODY"})
         ELSE Chosen(MostProminent(audible, lines), mode, "monophonic", {})
    [] mode = "all_notes_as_harmony" -> Chosen({}, mode, "explicit", {})

\* What is told of the line: ExtractedMelody.
Told(notes, audible, lines, mode, taken) ==
  [error |-> "none", melody |-> Subset(notes, taken.ids),
   accompaniment |-> Subset(notes, Ids(notes) \ taken.ids),
   mode |-> taken.mode, confidence |-> taken.confidence,
   warnings |-> taken.warnings
     \cup (IF Len(audible) < Len(notes) THEN {"MUTED_NOTES_EXCLUDED"} ELSE {})
     \cup (IF taken.ids = {} /\ mode # "all_notes_as_harmony" THEN {"EMPTY_MELODY"} ELSE {}),
   voices |-> Len(lines), lines |-> lines]

\* extract.  channel is the set of the channel asked for: one, or none.
Extract(notes, mode, channel) ==
  LET Of(audible, lines, named) ==
        IF notes = <<>> THEN [error |-> "NO_MIDI_SOURCE"]
        ELSE IF mode = "midi_channel" /\ channel = {} THEN [error |-> "INVALID_ARGUMENT"]
        ELSE IF mode \in {"selected_notes", "midi_channel"} /\ named = {}
             THEN [error |-> "AMBIGUOUS_MELODY"]
        ELSE Told(notes, audible, lines, mode, Taken(audible, lines, named, mode))
      Among(audible) ==
        Of(audible, SeparateVoices(audible),
           {n.id : n \in {n \in ToSet(audible) :
                            IF mode = "midi_channel" THEN n.channel \in channel ELSE n.selected}})
  IN Among(SelectSeq(notes, LAMBDA n : ~n.muted))
=============================================================================
