------------------------------- MODULE LoopAudit -------------------------------
(***************************************************************************)
(* The audit of a loop: what is heard on the two sides of the seam and how *)
(* its voices connect (wrap.rs), how well that serves what the loop is for *)
(* (intent.rs), what the report says and whether it calls the loop         *)
(* compatible (audit.rs), and the repairs it proposes (repair.rs).         *)
(*                                                                         *)
(* Notes and spans are those of LoopWrap.  A chord has a function, its     *)
(* pitch classes (tones), the one in the bass, its seventh (a set of at    *)
(* most one), an onset and a length.  Fits are in ten-thousandths, scores  *)
(* in millionths; what the rules of the knowledge base add is given, in    *)
(* tenths of a point.  The part a layer plays is left out.                 *)
(***************************************************************************)
EXTENDS LoopWrap

LOCAL Abs(n) == IF n < 0 THEN -n ELSE n
LOCAL Ascending(S) == SetToSortSeq(S, <)
LOCAL Within(x, low, high) == IF x < low THEN low ELSE IF x > high THEN high ELSE x

-----------------------------------------------------------------------------
(* How one sonority moves to another.                                      *)

Moves(pairs) == {Abs(pairs[i][2] - pairs[i][1]) : i \in DOMAIN pairs}
Travel(pairs) == FoldLeft(LAMBDA sum, p : sum + Abs(p[2] - p[1]), 0, pairs)
Leap(pairs) == Max(Moves(pairs) \cup {0})

\* Mutant of Connect: the voices are paired off from below.
Connect_InOrder(from, to) ==
  IF to = <<>> THEN <<>>
  ELSE [i \in DOMAIN from |-> <<from[i], to[IF i <= Len(to) THEN i ELSE Len(to)]>>]

\* connect: the cheapest way, with voices that may meet and never cross; of
\* several, the one that keeps the lower voices lowest.
Connect(from, to) ==
  LET cost[i \in 1..(Len(from) + 1), j \in DOMAIN to] ==
        IF i > Len(from) THEN 0
        ELSE Min({Abs(from[i] - to[k]) + cost[i + 1, k] : k \in j..Len(to)})
      goal[i \in 0..Len(from)] ==
        IF i = 0 THEN 1
        ELSE Min({k \in goal[i - 1]..Len(to) :
                    Abs(from[i] - to[k]) + cost[i + 1, k] = cost[i, goal[i - 1]]})
  IN IF to = <<>> THEN <<>> ELSE [i \in DOMAIN from |-> <<from[i], to[goal[i]]>>]

\* Mutant of Stepwise: the way with the least motion in all, less than a step each.
Stepwise_Strict(from, to) == from # <<>> /\ to # <<>> /\ Leap(Connect(from, to)) < 2

\* stepwise_connection_available: some such way moves no voice by more than
\* a whole step.
Stepwise(from, to) ==
  LET worst[i \in 1..(Len(from) + 1), j \in DOMAIN to] ==
        IF i > Len(from) THEN 0
        ELSE Min({Higher(Abs(from[i] - to[k]), worst[i + 1, k]) : k \in j..Len(to)})
  IN from # <<>> /\ to # <<>> /\ worst[1, 1] <= 2

\* Mutant: the distance up.
Folded_Up(from, to) == (to - from) % 12

\* folded_distance: from one pitch class to another the shorter way round.
Folded(from, to) == LET up == (to - from) % 12 IN IF up > 6 THEN up - 12 ELSE up

\* connect_pitch_classes: each to the nearest, of two the lower.
ConnectClasses(from, to) ==
  LET nearest(f) == CHOOSE t \in ToSet(to) : \A u \in ToSet(to) :
                      \/ Abs(Folded(f, t)) < Abs(Folded(f, u))
                      \/ Abs(Folded(f, t)) = Abs(Folded(f, u)) /\ t <= u
  IN IF to = <<>> THEN <<>>
     ELSE [i \in DOMAIN from |-> <<from[i], from[i] + Folded(from[i], nearest(from[i]))>>]

-----------------------------------------------------------------------------
(* What is heard at the seam.                                              *)

SoundingAt(notes, t) ==
  Ascending({n.midi : n \in {n \in ToSet(notes) : n.sounds /\ n.onset <= t /\ End(n) > t}})

FinalSonority(notes, span) ==
  LET onsets == {n.onset : n \in {n \in ToSet(notes) : n.sounds /\ n.onset < span.end
                                                       /\ End(n) > span.start}}
  IN IF onsets = {} THEN <<>> ELSE SoundingAt(notes, Max(onsets))

InitialSonority(notes, span) ==
  LET onsets == {n.onset : n \in {n \in ToSet(notes) : n.sounds /\ n.onset \in
                                                       span.start..(span.end - 1)}}
  IN SoundingAt(notes, IF onsets = {} THEN span.start ELSE Min(onsets))

\* The pitch classes heard, or else of the chord; the chord's bass leads.
ClassesOf(pitches, chord) ==
  LET classes == IF pitches # <<>> THEN {p % 12 : p \in ToSet(pitches)}
                 ELSE UNION {c.tones : c \in chord}
      bass == {c.bass : c \in chord} \cap classes
  IN Ascending(bass) \o Ascending(classes \ bass)

Uppers(s) == IF Len(s) > 1 THEN Tail(s) ELSE s

\* The leading tone that does not rise, the seventh of the last chord that
\* does not fall.
Tendencies(pairs, chord, tonic) ==
  {<<"leading", pairs[i][1]>> : i \in
     {i \in DOMAIN pairs : /\ pairs[i][1] % 12 = (tonic + 11) % 12
                           /\ pairs[i][2] - pairs[i][1] # 1 /\ pairs[i][2] % 12 # tonic}}
  \cup
  {<<"seventh", s>> : s \in
     {s \in UNION {c.seventh : c \in chord} :
        LET leaving == {i \in DOMAIN pairs : pairs[i][1] % 12 = s}
        IN leaving # {} /\ \A i \in leaving : pairs[i][2] - pairs[i][1] \notin {-1, -2}}}

IsPedal(n, span) == n.role = "pedal" \/ (Length(span) > 0 /\ n.length >= Length(span))

\* observe.
Observe(notes, chords, span, tonic) ==
  LET inside == SelectSeq(chords, LAMBDA c : c.onset < span.end
                                             /\ c.onset + c.length > span.start)
      lastChord == IF inside = <<>> THEN {} ELSE {Last(inside)}
      firstChord == IF inside = <<>> THEN {} ELSE {Head(inside)}
      pedals == {n \in ToSet(notes) : n.sounds /\ IsPedal(n, span)}
      Across(end, start, pairs, leap, bass, stepwise) ==
        [final |-> {c.function : c \in lastChord}, first |-> {c.function : c \in firstChord},
         slots |-> {<<c.length, d.length>> : c \in lastChord, d \in firstChord},
         end |-> end, start |-> start, leap |-> leap,
         bass |-> IF <<>> \in {end, start} THEN {} ELSE {bass},
         stepwise |-> stepwise,
         retained |-> \E i \in DOMAIN pairs : (pairs[i][1] - pairs[i][2]) % 12 = 0,
         common |-> {p % 12 : p \in ToSet(end)} \cap {p % 12 : p \in ToSet(start)},
         tendencies |-> Tendencies(pairs, lastChord, tonic),
         pedal |-> pedals # {},
         continues |-> \E n \in pedals : n.onset < span.end /\ End(n) > span.end]
      Heard(end, start) ==
        Across(end, start, Connect(end, start), Leap(Connect(Uppers(end), Uppers(start))),
               start[1] - end[1], Stepwise(Uppers(end), Uppers(start)))
      Joined(end, start, pairs) ==
        Across(end, start, pairs, Leap(pairs), Folded(end[1], start[1]),
               pairs # <<>> /\ Leap(pairs) <= 2)
      Read(end, start) ==
        Joined(end, start, ConnectClasses(Ascending(ToSet(end)), Ascending(ToSet(start))))
      Of(ending, opening) ==
        IF <<>> \notin {ending, opening} THEN Heard(ending, opening)
        ELSE Read(ClassesOf(ending, lastChord), ClassesOf(opening, firstChord))
  IN Of(FinalSonority(notes, span), InitialSonority(notes, span))

\* The facts about the seam itself.
Integrity(notes, span, modal) ==
  [hanging |-> HangingNotes(notes, span) # {},
   crossing |-> CrossingNotes(notes, span) # {},
   pickup |-> PickupLength(notes, span) > 0,
   exact |-> OccupiedLength(notes, span) = Length(span),
   modal |-> modal]

-----------------------------------------------------------------------------
(* How well the seam serves an intent: criteria in hundredths, weighted in *)
(* hundredths.                                                             *)

Smoothness(o) ==
  IF <<>> \in {o.end, o.start} THEN 50
  ELSE IF o.leap <= 2 THEN 100 ELSE Within(100 - 10 * (o.leap - 2), 0, 100)

BassContinuity(o) ==
  IF o.bass = {} THEN 50
  ELSE LET a == Abs(CHOOSE i \in o.bass : TRUE)
       IN CASE a = 0 -> 100 [] a \in 1..2 -> 95 [] a \in {5, 7} -> 90
            [] a \in {3, 4, 6} -> 70 [] a \in 8..12 -> 30 [] OTHER -> 10

Continuity(o) ==
  CASE o.continues -> 100
    [] ~o.continues /\ o.retained -> 90
    [] ~o.continues /\ ~o.retained /\ o.stepwise -> 75
    [] OTHER -> IF o.common # {} THEN 50 ELSE 10

RhythmStability(o) ==
  IF o.slots = {} THEN 70 ELSE IF \E s \in o.slots : s[1] # s[2] THEN 20 ELSE 100

Ends(o, f) == f \in o.final
Begins(o, f) == f \in o.first

FunctionalWrap(o) ==
  CASE Ends(o, "dominant") -> IF Begins(o, "tonic") THEN 100 ELSE 60
    [] Ends(o, "predominant") /\ Begins(o, "tonic") -> 55
    [] OTHER -> 0

Openness(o) ==
  CASE Ends(o, "dominant") -> 100 [] Ends(o, "predominant") -> 90
    [] Ends(o, "modal") -> 80 [] Ends(o, "tonic") -> 20 [] OTHER -> 60

Conclusiveness(o) ==
  CASE Ends(o, "tonic") -> 100 [] o.final = {} -> 50 [] OTHER -> 40

SeamIntegrity(i) ==
  Within(100 - (IF i.hanging THEN 60 ELSE 0) - (IF i.pickup THEN 25 ELSE 0)
             - (IF i.exact THEN 0 ELSE 30), 0, 100)

\* combine.
Combine(parts) ==
  (100 * FoldLeft(LAMBDA sum, p : sum + p[1] * p[2], 0, parts))
    \div FoldLeft(LAMBDA sum, p : sum + p[2], 0, parts)

FitClosedTonic(o, i) ==
  LET wrap == CASE Ends(o, "dominant") /\ Begins(o, "tonic") -> 100
                [] Ends(o, "predominant") /\ Begins(o, "tonic") -> 70
                [] ~Ends(o, "dominant") /\ ~Ends(o, "predominant") /\ Begins(o, "tonic") -> 55
                [] OTHER -> IF o.final = {} /\ o.first = {} THEN 50 ELSE 25
  IN Combine(<< <<wrap, 55>>, <<BassContinuity(o), 15>>, <<Smoothness(o), 12>>,
                <<RhythmStability(o), 8>>, <<SeamIntegrity(i), 10>> >>)

FitOpenDominant(o, i) ==
  LET open == CASE Ends(o, "dominant") -> 100 [] Ends(o, "predominant") -> 60
                [] Ends(o, "tonic") -> 15 [] OTHER -> 50
      restart == IF Begins(o, "tonic") THEN 100 ELSE IF o.common # {} THEN 70 ELSE 40
  IN Combine(<< <<open, 50>>, <<IF o.tendencies = {} THEN 60 ELSE 100, 20>>,
                <<restart, 15>>, <<SeamIntegrity(i), 15>> >>)

\* Mutant of FitModalDrone: a cadence is rewarded, as it is elsewhere.
FitModalDrone_Cadence(o, i, stability) ==
  Combine(<< <<IF i.modal THEN 100 ELSE 10, 30>>, <<Higher(stability, 50), 20>>,
             <<Continuity(o), 20>>, <<Smoothness(o), 15>>, <<FunctionalWrap(o), 15>> >>)

FitModalDrone(o, i, stability) ==
  Combine(<< <<IF i.modal THEN 100 ELSE 10, 30>>, <<Higher(stability, 50), 20>>,
             <<Continuity(o), 20>>, <<Smoothness(o), 15>>, <<100 - FunctionalWrap(o), 15>> >>)

FitSeamlessColor(o, i) ==
  LET shared == IF o.retained THEN 100 ELSE IF o.common # {} THEN 60 ELSE 15
  IN Combine(<< <<Smoothness(o), 30>>, <<shared, 25>>, <<BassContinuity(o), 20>>,
                <<RhythmStability(o), 10>>, <<SeamIntegrity(i), 15>> >>)

FitTransitionReady(o, i) ==
  Combine(<< <<Openness(o), 50>>, <<SeamIntegrity(i), 20>>, <<BassContinuity(o), 15>>,
             <<Smoothness(o), 15>> >>)

FitOneShotEnding(o, i) ==
  Combine(<< <<Conclusiveness(o), 70>>, <<IF i.crossing THEN 50 ELSE 100, 20>>,
             <<IF i.exact THEN 100 ELSE 0, 10>> >>)

Fit(intent, o, i, stability) ==
  CASE intent = "closed_tonic" -> FitClosedTonic(o, i)
    [] intent = "open_dominant" -> FitOpenDominant(o, i)
    [] intent = "modal_drone" -> FitModalDrone(o, i, stability)
    [] intent = "seamless_color" -> FitSeamlessColor(o, i)
    [] intent = "transition_ready" -> FitTransitionReady(o, i)
    [] intent = "one_shot_ending" -> FitOneShotEnding(o, i)

-----------------------------------------------------------------------------
(* The report.                                                             *)

DiscontinuityThreshold(o) == IF Len(o.end) >= 2 /\ Len(o.start) >= 2 THEN 4 ELSE 7

\* Mutant of Findings: a length that is off is taken for an overhang or pickup.
Findings_Merged(notes, span, o, i, fit) ==
  {c \in {"HANGING_NOTE", "PICKUP_PRESENT", "INTENT_MISMATCH"} :
     CASE c = "HANGING_NOTE" -> i.hanging
       [] c = "PICKUP_PRESENT" -> i.pickup
       [] c = "INTENT_MISMATCH" -> fit < 6000}

\* The codes of the findings; LENGTH_MISMATCH only where the others do not
\* account for it.
Findings(notes, span, o, i, fit) ==
  LET Reports(c) ==
        CASE c = "HANGING_NOTE" -> i.hanging
          [] c = "NOTE_CARRIED" -> CarriedNotes(notes, span) # {}
          [] c = "PICKUP_PRESENT" -> i.pickup
          [] c = "TAIL_PRESENT" -> TailLength(notes, span) > 0 /\ ~i.hanging
                                   /\ CarriedNotes(notes, span) = {}
          [] c = "LENGTH_MISMATCH" -> ~i.exact /\ ~i.hanging /\ ~i.pickup
          [] c = "BASS_DISCONTINUITY" -> \E b \in o.bass : Abs(b) > 7
          [] c = "VOICE_LEADING_DISCONTINUITY" ->
               <<>> \notin {o.end, o.start} /\ ~o.stepwise /\ o.leap > DiscontinuityThreshold(o)
          [] c = "UNRESOLVED_TENDENCY" -> o.tendencies # {}
          [] c = "HARMONIC_RHYTHM_CHANGE" -> \E s \in o.slots : s[1] # s[2]
          [] c = "PEDAL_RESTART" -> o.pedal /\ ~o.continues
          [] c = "INTENT_MISMATCH" -> fit < 6000
  IN {c \in {"HANGING_NOTE", "NOTE_CARRIED", "PICKUP_PRESENT", "TAIL_PRESENT",
             "LENGTH_MISMATCH", "BASS_DISCONTINUITY", "VOICE_LEADING_DISCONTINUITY",
             "UNRESOLVED_TENDENCY", "HARMONIC_RHYTHM_CHANGE", "PEDAL_RESTART",
             "INTENT_MISMATCH"} : Reports(c)}

ScoreOf(fit, points) ==
  Within(150000 + 72 * fit + 2500 * Within(points, -160, 120), 0, 1000000)

Compatible(intent, fit, score, i) ==
  IF intent = "one_shot_ending" THEN fit >= 6000 /\ i.exact
  ELSE score >= 600000 /\ fit >= 6000 /\ ~i.hanging /\ i.exact

\* audit_detailed.
Audit(notes, chords, span, frame, intent, points) ==
  LET Judged(o, i, fit, score) ==
        [seen |-> o, integrity |-> i, fit |-> fit, score |-> score,
         findings |-> Findings(notes, span, o, i, fit),
         compatible |-> Compatible(intent, fit, score, i)]
      Weighed(o, i, fit) == Judged(o, i, fit, ScoreOf(fit, points))
      Heard(o, i) == Weighed(o, i, Fit(intent, o, i, frame.stability))
  IN Heard(Observe(notes, chords, span, frame.tonic), Integrity(notes, span, frame.modal))

\* The repairs of the boundary, by the finding they answer and the policy
\* that carries them out.
BoundaryRepairs ==
  {[finding |-> "HANGING_NOTE", policy |-> "split"],
   [finding |-> "HANGING_NOTE", policy |-> "carry"],
   [finding |-> "PICKUP_PRESENT", policy |-> "split"],
   [finding |-> "PICKUP_PRESENT", policy |-> "rearticulate"],
   [finding |-> "LENGTH_MISMATCH", policy |-> "truncate"]}

Repairs(findings) == {r \in BoundaryRepairs : r.finding \in findings}
=============================================================================
