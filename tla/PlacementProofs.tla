---------------------------- MODULE PlacementProofs ----------------------------
(***************************************************************************)
(* Proofs about where notes are put, for every note and every bound: what  *)
(* an engine enforces lies in the range and the span it is given           *)
(* (NoteRules), the pieces a note is split into at the seam of a loop      *)
(* sound just when the note did (LoopWrap), every position lies in the bar *)
(* it is counted in, and every bar is found again by its number            *)
(* (MusicTime).                                                            *)
(***************************************************************************)
EXTENDS Integers, Sequences, SequenceTheorems, WellFoundedInduction, TLAPS

CONSTANTS DefaultBar, Beat

Rules == INSTANCE NoteRules
Wrap == INSTANCE LoopWrap
Time == INSTANCE MusicTime
Arr == INSTANCE Arranger

-----------------------------------------------------------------------------
(* Arithmetic.                                                             *)

LEMMA Divides ==
  ASSUME NEW g \in Nat \ {0}, NEW n \in Int
  PROVE  \E q \in Int : \E r \in 0..(g - 1) : n = g * q + r /\ q = n \div g /\ r = n % g
<1> DEFINE q == n \div g
           r == n % g
<1>1. q \in Int /\ r \in 0..(g - 1)
  OBVIOUS
<1>2. r = n - g * q
  OBVIOUS
<1>3. q = n \div g /\ r = n % g
  OBVIOUS
<1>4. \A x, y, z \in Int : z = x - y => x = y + z
  OBVIOUS
<1>5. g * q \in Int
  BY <1>1
<1> HIDE DEF q, r
<1>6. n = g * q + r
  BY <1>1, <1>2, <1>4, <1>5
<1> QED
  BY <1>1, <1>3, <1>6

LEMMA Remainder ==
  ASSUME NEW g \in Nat \ {0}, NEW q \in Int, NEW r \in 0..(g - 1)
  PROVE  (g * q + r) % g = r
<1>1. r \in Int /\ 0 <= r /\ r < g
  OBVIOUS
<1>2. (g * q + r) \div g = q
  BY <1>1
<1>3. g * q \in Int
  OBVIOUS
<1>4. \A n \in Int : n % g = n - g * (n \div g)
  OBVIOUS
<1>5. g * q + r \in Int
  BY <1>1, <1>3
<1>6. (g * q + r) % g = (g * q + r) - g * q
  BY <1>2, <1>4, <1>5
<1>7. \A x, y \in Int : (x + y) - x = y
  OBVIOUS
<1> QED
  BY <1>1, <1>3, <1>6, <1>7

\* A set of numbers that is not empty has a least.
LEMMA HasLeast ==
  ASSUME NEW S \in SUBSET Nat, S # {}
  PROVE  \E m \in S : \A x \in S : m <= x
<1>1. PICK m \in S : \A x \in S : ~(<<x, m>> \in OpToRel(<, Nat))
  BY WFMin, NatLessThanWellFounded
<1>2. \A x \in S : ~(x < m)
  BY <1>1 DEF OpToRel
<1>3. \A x \in S : m <= x
  BY <1>2
<1> QED
  BY <1>3

-----------------------------------------------------------------------------
(* What the engines enforce.                                               *)

LEMMA ByOctaves ==
  ASSUME NEW n \in Int
  PROVE  /\ n \div 12 \in Int /\ 12 * (n \div 12) <= n /\ n < 12 * (n \div 12) + 12
         /\ \A k \in Int : 12 * k <= n => k <= n \div 12
OBVIOUS

\* A note is brought into the range of its instrument; where the range is an
\* octave wide it keeps its pitch class, its spelling follows it, and one that
\* is in the range stays (fit_octave of enforce).
THEOREM FoldedIntoRange ==
  ASSUME NEW range \in [low : Int, high : Int], range.low <= range.high,
         NEW n \in [onset : Int, length : Int, midi : Int, spelled : Int]
  PROVE  LET f == Rules!Folded(n, range) IN
         /\ f.midi \in range.low..range.high
         /\ f.onset = n.onset /\ f.length = n.length
         /\ n.midi \in range.low..range.high => f = n
         /\ range.high - range.low >= 11 =>
              /\ \E k \in Int : f.midi = n.midi + 12 * k
              /\ f.spelled = n.spelled + f.midi - n.midi
<1> DEFINE low == range.low
           high == range.high
           m == n.midi
           up == IF m < low THEN Rules!Lower((low - m + 11) \div 12,
                                             Rules!Higher(0, (high - m) \div 12)) ELSE 0
           risen == m + 12 * up
           down == IF risen > high THEN Rules!Lower((risen - high + 11) \div 12,
                                                    Rules!Higher(0, (risen - low) \div 12)) ELSE 0
           octave == risen - 12 * down
           to == Rules!Lower(Rules!Higher(octave, low), high)
           f == Rules!Folded(n, range)
<1>1. low \in Int /\ high \in Int /\ m \in Int /\ low <= high /\ n.spelled \in Int
  OBVIOUS
<1>2. f = [n EXCEPT !.midi = to, !.spelled = @ + octave - n.midi]
  BY DEF Rules!Folded
<1>3. f.midi = to /\ f.spelled = n.spelled + octave - m /\ f.onset = n.onset /\ f.length = n.length
  BY <1>2
<1>4. m \in low..high => f = n
  <2> SUFFICES ASSUME m \in low..high PROVE f = n
    OBVIOUS
  <2>1. up = 0
    BY <1>1
  <2>2. risen = m
    BY <1>1, <2>1
  <2>3. down = 0
    BY <1>1, <2>2
  <2>4. octave = m
    BY <1>1, <2>2, <2>3
  <2>5. to = m
    BY <1>1, <2>4 DEF Rules!Lower, Rules!Higher
  <2>6. n.spelled + octave - n.midi = n.spelled
    BY <1>1, <2>4
  <2> HIDE DEF to, octave, f
  <2> QED
    BY <1>2, <2>5, <2>6
<1> HIDE DEF low, high, m, f
<1>5. up \in Int /\ (m >= low => up = 0) /\ up >= 0
  BY <1>1, ByOctaves DEF Rules!Lower, Rules!Higher
<1>6. high - low >= 11 /\ m < low => risen \in low..high
  <2> SUFFICES ASSUME high - low >= 11, m < low PROVE risen \in low..high
    OBVIOUS
  <2> DEFINE a == (low - m + 11) \div 12
             b == (high - m) \div 12
  <2>1. a \in Int /\ 12 * a <= low - m + 11 /\ low - m + 11 < 12 * a + 12
    BY <1>1
  <2>2. b \in Int /\ 12 * b <= high - m /\ high - m < 12 * b + 12
    BY <1>1
  <2>3. up = Rules!Lower(a, Rules!Higher(0, b))
    OBVIOUS
  <2> HIDE DEF a, b, up
  <2>4. a <= b /\ a > 0
    BY <1>1, <2>1, <2>2
  <2>5. up = a
    BY <2>1, <2>2, <2>3, <2>4 DEF Rules!Lower, Rules!Higher
  <2> QED
    BY <1>1, <2>1, <2>5
<1>7. risen \in Int /\ (m >= low => risen = m)
  BY <1>1, <1>5
<1>8. \E k \in Int : risen = m + 12 * k
  BY <1>5
<1> HIDE DEF up, risen
<1>9. down \in Int /\ (risen <= high => down = 0)
  BY <1>1, <1>7, ByOctaves DEF Rules!Lower, Rules!Higher
<1>10. high - low >= 11 /\ risen > high => octave \in low..high
  <2> SUFFICES ASSUME high - low >= 11, risen > high PROVE octave \in low..high
    OBVIOUS
  <2> DEFINE a == (risen - high + 11) \div 12
             b == (risen - low) \div 12
  <2>1. a \in Int /\ 12 * a <= risen - high + 11 /\ risen - high + 11 < 12 * a + 12
    BY <1>1, <1>7
  <2>2. b \in Int /\ 12 * b <= risen - low /\ risen - low < 12 * b + 12
    BY <1>1, <1>7
  <2>3. down = Rules!Lower(a, Rules!Higher(0, b))
    OBVIOUS
  <2> HIDE DEF a, b, down
  <2>4. a <= b /\ a > 0
    BY <1>1, <1>7, <2>1, <2>2
  <2>5. down = a
    BY <2>1, <2>2, <2>3, <2>4 DEF Rules!Lower, Rules!Higher
  <2> QED
    BY <1>1, <1>7, <2>1, <2>5
<1>11. octave \in Int /\ (risen <= high => octave = risen)
  BY <1>7, <1>9
<1>12. high - low >= 11 => octave \in low..high
  BY <1>1, <1>6, <1>7, <1>10, <1>11
<1>13. \E k \in Int : octave = m + 12 * k
  <2>1. PICK j \in Int : risen = m + 12 * j
    BY <1>8
  <2>2. octave = m + 12 * (j - down) /\ j - down \in Int
    BY <1>1, <1>9, <2>1
  <2> QED
    BY <2>2
<1> HIDE DEF octave, down
<1>14. to \in low..high /\ (octave \in low..high => to = octave)
  BY <1>1, <1>11 DEF Rules!Lower, Rules!Higher
<1> HIDE DEF to
<1>15. /\ f.midi \in low..high
       /\ f.onset = n.onset /\ f.length = n.length
       /\ m \in low..high => f = n
       /\ high - low >= 11 => /\ \E k \in Int : f.midi = m + 12 * k
                              /\ f.spelled = n.spelled + f.midi - m
  BY <1>3, <1>4, <1>12, <1>13, <1>14
<1> QED
  BY <1>15 DEF f, low, high, m

\* A note is cut to a span: what is left of it sounds in the span, and when
\* the note does, all of it is left; a note outside has no length left.
THEOREM ClippedIntoSpan ==
  ASSUME NEW span \in [start : Int, end : Int],
         NEW n \in [onset : Int, length : Nat, midi : Int, spelled : Int]
  PROVE  LET c == Rules!Clipped(n, span) IN
         /\ c.onset >= span.start /\ Rules!NoteEnd(c) <= span.end
         /\ \A q \in Int : c.onset <= q /\ q < Rules!NoteEnd(c) <=>
                             /\ n.onset <= q /\ q < Rules!NoteEnd(n)
                             /\ span.start <= q /\ q < span.end
         /\ c.midi = n.midi /\ c.spelled = n.spelled
<1> DEFINE from == Rules!Higher(n.onset, span.start)
           end == Rules!Lower(Rules!NoteEnd(n), span.end)
           c == Rules!Clipped(n, span)
<1>1. /\ n.onset \in Int /\ n.length \in Int /\ span.start \in Int /\ span.end \in Int
      /\ Rules!NoteEnd(n) \in Int
  BY DEF Rules!NoteEnd
<1>2. c.onset = from /\ c.length = end - from /\ c.midi = n.midi /\ c.spelled = n.spelled
  BY DEF Rules!Clipped
<1>3. /\ from \in Int /\ end \in Int /\ from >= span.start /\ end <= span.end
      /\ \A q \in Int : from <= q /\ q < end <=> /\ n.onset <= q /\ q < Rules!NoteEnd(n)
                                                 /\ span.start <= q /\ q < span.end
  BY <1>1 DEF Rules!Lower, Rules!Higher
<1> HIDE DEF from, end, c
<1>4. Rules!NoteEnd(c) = end
  BY <1>2, <1>3 DEF Rules!NoteEnd
<1> QED
  BY <1>2, <1>3, <1>4 DEF c

-----------------------------------------------------------------------------
(* A note and its pieces at the seam of a loop.                            *)

\* When in a loop that repeats something sounds that does from a to b.
Phases(span, a, b) == {Wrap!Wrapped(span, q) : q \in a..(b - 1)}
Heard(n, span) == Phases(span, n.onset, Wrap!End(n))

\* What Split makes of a note that sounds.
Pieces(n, span) ==
  LET cut == Wrap!Cut(n, span)
  IN {Wrap!Moved(cut, span)}
     \cup (IF Wrap!Crosses(n, span) THEN {Wrap!SplitTail(n, span)} ELSE {})
     \cup (IF cut.onset < span.start /\ Wrap!End(cut) > span.start
           THEN {Wrap!PickupInTail(cut, span)} ELSE {})

Loops == {span \in [start : Int, end : Int] : span.start < span.end}

LEMMA WrapIs ==
  ASSUME NEW span \in Loops, NEW q \in Int
  PROVE  /\ Wrap!Length(span) \in Nat \ {0} /\ Wrap!Length(span) = span.end - span.start
         /\ Wrap!Wrapped(span, q) \in span.start..(span.end - 1)
         /\ Wrap!Wrapped(span, q + Wrap!Length(span)) = Wrap!Wrapped(span, q)
         /\ q \in span.start..(span.end - 1) => Wrap!Wrapped(span, q) = q
<1> DEFINE L == Wrap!Length(span)
<1>1. span.start \in Int /\ span.end \in Int /\ span.start < span.end
  BY DEF Loops
<1>2. L \in Nat \ {0} /\ L = span.end - span.start
  BY <1>1 DEF Wrap!Length
<1>3. \A x \in Int : Wrap!Wrapped(span, x) = span.start + ((x - span.start) % L)
  BY DEF Wrap!Wrapped
<1> HIDE DEF L
<1>4. \A x \in Int : x % L \in 0..(L - 1) /\ (x \in 0..(L - 1) => x % L = x)
  BY <1>2
<1>5. q - span.start \in Int
  BY <1>1
<1>6. (q - span.start + L) % L = (q - span.start) % L
  <2> DEFINE x == q - span.start
  <2> HIDE DEF x
  <2>0. x \in Int
    BY <1>5 DEF x
  <2>1. PICK k \in Int : \E r \in 0..(L - 1) : x = L * k + r /\ k = x \div L /\ r = x % L
    BY <1>2, <2>0, Divides
  <2>2. PICK r \in 0..(L - 1) : x = L * k + r /\ r = x % L
    BY <2>1
  <2>3. x + L = L * (k + 1) + r
    BY <1>2, <2>2
  <2>4. \A j \in Int : (L * j + r) % L = r
    BY <1>2, Remainder
  <2> QED
    BY <2>2, <2>3, <2>4 DEF x
<1>7. (q + L) - span.start = q - span.start + L
  BY <1>1, <1>2
<1>8. q + L \in Int
  BY <1>2
<1>9. Wrap!Wrapped(span, q + L) = Wrap!Wrapped(span, q)
  <2>1. Wrap!Wrapped(span, q + L) = span.start + (((q + L) - span.start) % L)
    BY DEF Wrap!Wrapped, L
  <2>2. ((q + L) - span.start) % L = (q - span.start) % L
    BY <1>6, <1>7
  <2>3. Wrap!Wrapped(span, q) = span.start + ((q - span.start) % L)
    BY <1>3
  <2> QED
    BY ONLY <2>1, <2>2, <2>3
<1>10. Wrap!Wrapped(span, q) \in span.start..(span.end - 1)
  <2>1. PICK r \in 0..(L - 1) : r = (q - span.start) % L
    BY <1>4, <1>5
  <2>2. Wrap!Wrapped(span, q) = span.start + r
    BY <1>3, <2>1
  <2> QED
    BY <1>1, <1>2, <2>2
<1>11. q \in span.start..(span.end - 1) => Wrap!Wrapped(span, q) = q
  <2> SUFFICES ASSUME q \in span.start..(span.end - 1) PROVE Wrap!Wrapped(span, q) = q
    OBVIOUS
  <2>1. q - span.start \in 0..(L - 1)
    BY <1>1, <1>2
  <2>2. (q - span.start) % L = q - span.start
    BY <1>4, <1>5, <2>1
  <2> QED
    BY <1>1, <1>3, <2>2
<1> QED
  BY <1>2, <1>9, <1>10, <1>11 DEF L

LEMMA PhasesShift ==
  ASSUME NEW span \in Loops, NEW a \in Int, NEW b \in Int
  PROVE  Phases(span, a + Wrap!Length(span), b + Wrap!Length(span)) = Phases(span, a, b)
<1> DEFINE L == Wrap!Length(span)
<1>1. L \in Int /\ \A q \in Int : Wrap!Wrapped(span, q + L) = Wrap!Wrapped(span, q)
  BY WrapIs
<1> HIDE DEF L
<1>2. ASSUME NEW q \in a..(b - 1)
      PROVE  Wrap!Wrapped(span, q) \in Phases(span, a + L, b + L)
  <2>1. q + L \in (a + L)..(b + L - 1)
    BY <1>1
  <2> QED
    BY <1>1, <2>1 DEF Phases
<1>3. ASSUME NEW q \in (a + L)..(b + L - 1)
      PROVE  Wrap!Wrapped(span, q) \in Phases(span, a, b)
  <2>1. q - L \in a..(b - 1) /\ (q - L) + L = q /\ q - L \in Int
    BY <1>1
  <2> HIDE DEF L
  <2>2. Wrap!Wrapped(span, (q - L) + L) = Wrap!Wrapped(span, q - L)
    BY <1>1, <2>1
  <2> QED
    BY <2>1, <2>2 DEF Phases
<1>4. Phases(span, a, b) \subseteq Phases(span, a + L, b + L)
  BY <1>2 DEF Phases
<1>5. Phases(span, a + L, b + L) \subseteq Phases(span, a, b)
  <2> SUFFICES ASSUME NEW q \in (a + L)..((b + L) - 1)
               PROVE  Wrap!Wrapped(span, q) \in Phases(span, a, b)
    BY DEF Phases
  <2>1. q \in (a + L)..(b + L - 1)
    BY <1>1
  <2> QED
    BY <1>3, <2>1
<1> QED
  BY <1>4, <1>5 DEF L

LEMMA PhasesJoin ==
  ASSUME NEW span \in Loops, NEW a \in Int, NEW b \in Int, NEW c \in Int, a <= b, b <= c
  PROVE  Phases(span, a, c) = Phases(span, a, b) \cup Phases(span, b, c)
<1>1. a..(c - 1) = (a..(b - 1)) \cup (b..(c - 1))
  OBVIOUS
<1> QED
  BY <1>1 DEF Phases

\* As long as the loop is sounds all through it.
LEMMA PhasesAll ==
  ASSUME NEW span \in Loops, NEW a \in Int, NEW b \in Int, a = span.start \/ a = span.end,
         b - a >= Wrap!Length(span)
  PROVE  Phases(span, a, b) = span.start..(span.end - 1)
<1> DEFINE L == Wrap!Length(span)
<1>1. /\ L \in Nat \ {0} /\ L = span.end - span.start
      /\ span.start \in Int /\ span.end \in Int
  BY WrapIs DEF Loops
<1>2. Phases(span, a, b) \subseteq span.start..(span.end - 1)
  BY WrapIs DEF Phases
<1>3. Phases(span, span.start, span.end) = span.start..(span.end - 1)
  BY <1>1, WrapIs DEF Phases
<1>4. span.end = span.start + L
  BY <1>1
<1>5. Phases(span, span.end, span.end + L) = Phases(span, span.start, span.end)
  BY <1>1, <1>4, PhasesShift
<1>6. Phases(span, a, a + L) = span.start..(span.end - 1)
  BY <1>3, <1>4, <1>5
<1>7. a..(a + L - 1) \subseteq a..(b - 1)
  BY <1>1
<1>8. Phases(span, a, a + L) \subseteq Phases(span, a, b)
  <2> SUFFICES ASSUME NEW q \in a..((a + L) - 1)
               PROVE  Wrap!Wrapped(span, q) \in Phases(span, a, b)
    BY DEF Phases
  <2>1. q \in a..(b - 1)
    BY <1>1
  <2> QED
    BY <2>1 DEF Phases
<1> QED
  BY <1>2, <1>6, <1>8

Note == [onset : Int, length : Int, sounds : {TRUE}, midi : Int, id : Nat, mark : Wrap!Marks]

LEMMA CutIs ==
  ASSUME NEW span \in Loops, NEW n \in Note
  PROVE  /\ Wrap!Cut(n, span) \in Note
         /\ Wrap!Cut(n, span).onset = n.onset
         /\ Wrap!End(Wrap!Cut(n, span))
              = IF Wrap!Crosses(n, span) THEN span.end ELSE Wrap!End(n)
<1>1. n.onset \in Int /\ span.end \in Int /\ span.end - n.onset \in Int
      /\ n.onset + (span.end - n.onset) = span.end
  BY DEF Note, Loops
<1>2. CASE Wrap!Crosses(n, span)
  <2>1. Wrap!Cut(n, span) = [n EXCEPT !.length = span.end - n.onset]
    BY <1>2 DEF Wrap!Cut
  <2>2. [n EXCEPT !.length = span.end - n.onset] \in Note
    BY <1>1 DEF Note
  <2>3. /\ [n EXCEPT !.length = span.end - n.onset].onset = n.onset
        /\ [n EXCEPT !.length = span.end - n.onset].length = span.end - n.onset
    BY DEF Note
  <2> QED
    BY <1>1, <1>2, <2>1, <2>2, <2>3 DEF Wrap!End
<1>3. CASE ~Wrap!Crosses(n, span)
  <2>1. Wrap!Cut(n, span) = n
    BY <1>3 DEF Wrap!Cut
  <2> QED
    BY <1>3, <2>1
<1> QED
  BY <1>2, <1>3

LEMMA PickupIs ==
  ASSUME NEW span \in Loops, NEW n \in Note
  PROVE  /\ Wrap!PickupInTail(n, span).onset = span.end - (span.start - n.onset)
         /\ Wrap!End(Wrap!PickupInTail(n, span)) = span.end
<1>1. /\ Wrap!PickupInTail(n, span).onset = span.end - (span.start - n.onset)
      /\ Wrap!PickupInTail(n, span).length = span.start - n.onset
  BY DEF Wrap!PickupInTail, Note
<1>2. span.end \in Int /\ span.start \in Int /\ n.onset \in Int
  BY DEF Note, Loops
<1>3. \A e, s, o \in Int : (e - (s - o)) + (s - o) = e
  OBVIOUS
<1> QED
  BY <1>1, <1>2, <1>3 DEF Wrap!End

LEMMA TailIs ==
  ASSUME NEW span \in Loops, NEW n \in Note, Wrap!End(n) > span.end
  PROVE  /\ Wrap!SplitTail(n, span).onset = span.start
         /\ Wrap!End(Wrap!SplitTail(n, span))
              = IF Wrap!End(n) - span.end <= Wrap!Length(span)
                THEN span.start + (Wrap!End(n) - span.end) ELSE span.end
<1> DEFINE T == Wrap!SplitTail(n, span)
           h == Wrap!End(n) - span.end
<1>1. T.onset = span.start /\ T.length = Wrap!Lower(h, Wrap!Length(span))
  BY DEF Wrap!SplitTail, Note
<1>2. /\ span.start \in Int /\ span.end \in Int
      /\ Wrap!Length(span) = span.end - span.start
      /\ span.start + (span.end - span.start) = span.end
  BY DEF Loops, Wrap!Length
<1>3. Wrap!End(T) = span.start + Wrap!Lower(h, Wrap!Length(span))
  BY <1>1 DEF Wrap!End
<1> HIDE DEF T, h
<1>4. Wrap!Lower(h, Wrap!Length(span)) = IF h <= Wrap!Length(span) THEN h ELSE Wrap!Length(span)
  BY DEF Wrap!Lower
<1>5. CASE h <= Wrap!Length(span)
  <2>1. Wrap!End(T) = span.start + h
    BY <1>3, <1>4, <1>5
  <2> QED
    BY <1>1, <1>5, <2>1 DEF T, h
<1>6. CASE ~(h <= Wrap!Length(span))
  <2>1. Wrap!End(T) = span.end
    BY <1>2, <1>3, <1>4, <1>6
  <2> QED
    BY <1>1, <1>6, <2>1 DEF T, h
<1> QED
  BY <1>5, <1>6

LEMMA MovedIs ==
  ASSUME NEW span \in Loops, NEW n \in Note
  PROVE  LET m == Wrap!Moved(n, span)
             e == Wrap!End(n)
         IN /\ n.onset >= span.start => m.onset = n.onset /\ Wrap!End(m) = e
            /\ n.onset < span.start /\ e <= span.start =>
                 m.onset = n.onset + Wrap!Length(span) /\ Wrap!End(m) = e + Wrap!Length(span)
            /\ n.onset < span.start /\ e > span.start =>
                 m.onset = span.start /\ Wrap!End(m) = e
<1> DEFINE m == Wrap!Moved(n, span)
           e == Wrap!End(n)
           L == Wrap!Length(span)
<1>1. /\ span.start \in Int /\ n.onset \in Int /\ n.length \in Int /\ n.sounds
      /\ e = n.onset + n.length /\ e \in Int
  <2>1. span.start \in Int
    BY DEF Loops
  <2>2. n.onset \in Int /\ n.length \in Int
    BY DEF Note
  <2>3. n.sounds
    BY Zenon DEF Note
  <2> QED
    BY <2>1, <2>2, <2>3 DEF Wrap!End
<1>2. L \in Int
  BY DEF Loops, Wrap!Length
<1>3. CASE n.onset >= span.start
  <2>1. ~(n.onset < span.start)
    BY <1>1, <1>3
  <2>2. m = n
    BY <1>3, <2>1 DEF Wrap!Moved
  <2> QED
    BY <1>3, <2>1, <2>2
<1>4. CASE n.onset < span.start /\ e <= span.start
  <2>1. ~(n.onset >= span.start) /\ ~(e > span.start)
    BY <1>1, <1>4
  <2>2. m = [n EXCEPT !.onset = @ + L, !.mark = "wrapped_pickup"]
    BY <1>1, <1>4, <2>1 DEF Wrap!Moved
  <2>3. m.onset = n.onset + L /\ m.length = n.length
    BY <2>2 DEF Note
  <2>4. (n.onset + L) + n.length = (n.onset + n.length) + L
    BY <1>1, <1>2
  <2> QED
    BY <1>1, <2>1, <2>3, <2>4 DEF Wrap!End
<1>5. CASE n.onset < span.start /\ e > span.start
  <2>1. ~(n.onset >= span.start) /\ ~(e <= span.start)
    BY <1>1, <1>5
  <2>2. m = [n EXCEPT !.onset = span.start, !.length = e - span.start]
    BY <1>1, <2>1 DEF Wrap!Moved
  <2>3. m.onset = span.start /\ m.length = e - span.start
    BY <2>2 DEF Note
  <2>4. span.start + (e - span.start) = e
    BY <1>1
  <2> QED
    BY <2>1, <2>3, <2>4 DEF Wrap!End
<1> QED
  BY <1>1, <1>3, <1>4, <1>5

\* The pieces of a note that begins at most a repeat before the loop and before
\* its end lie in the loop, and sound, when it repeats, just when the note does
\* (apply_boundary_policy, split): nothing is lost at the seam and nothing added.
THEOREM SplitSoundsTheSame ==
  ASSUME NEW span \in Loops,
         NEW n \in Note, n.length > 0,
         n.onset >= span.start - Wrap!Length(span), n.onset < span.end
  PROVE  /\ \A p \in Pieces(n, span) : p.onset >= span.start /\ Wrap!End(p) <= span.end
         /\ UNION {Heard(p, span) : p \in Pieces(n, span)} = Heard(n, span)
<1> DEFINE L == Wrap!Length(span)
           cut == Wrap!Cut(n, span)
           end == Wrap!End(n)
           upTo == Wrap!End(cut)
           over == Wrap!Crosses(n, span)
           early == cut.onset < span.start
           moved == Wrap!Moved(cut, span)
           tail == Wrap!SplitTail(n, span)
           pickup == Wrap!PickupInTail(cut, span)
<1>1. /\ L \in Nat \ {0} /\ L = span.end - span.start /\ span.end = span.start + L
      /\ span.start \in Int /\ span.end \in Int /\ span.start < span.end
  <2>1. L \in Nat \ {0} /\ L = span.end - span.start
    <3>1. 0 \in Int
      OBVIOUS
    <3> QED
      BY <3>1, WrapIs
  <2> QED
    BY <2>1 DEF Loops
<1>2. n.onset \in Int /\ end \in Int /\ n.onset < end /\ end = n.onset + n.length
  <2>1. n.onset \in Int /\ n.length \in Int
    BY DEF Note
  <2> QED
    BY <2>1 DEF Wrap!End
<1>3. over <=> end > span.end
  <2>1. n.sounds
    BY Zenon DEF Note
  <2> QED
    BY <2>1 DEF Wrap!Crosses
<1>4. /\ cut \in Note /\ cut.onset = n.onset
      /\ upTo = IF over THEN span.end ELSE end
  BY CutIs
<1>5. /\ ~early => moved.onset = cut.onset /\ Wrap!End(moved) = upTo
      /\ early /\ upTo <= span.start =>
           moved.onset = cut.onset + L /\ Wrap!End(moved) = upTo + L
      /\ early /\ upTo > span.start =>
           moved.onset = span.start /\ Wrap!End(moved) = upTo
  <2>1. ~early => cut.onset >= span.start
    BY <1>1, <1>2, <1>4
  <2> HIDE DEF cut
  <2> QED
    BY <1>4, <2>1, MovedIs
<1>6. pickup.onset = span.end - (span.start - cut.onset) /\ Wrap!End(pickup) = span.end
  <2> HIDE DEF cut
  <2> QED
    BY <1>4, PickupIs
<1>7. over => /\ tail.onset = span.start
              /\ Wrap!End(tail) = IF end - span.end <= L
                                  THEN span.start + (end - span.end) ELSE span.end
  BY <1>3, <1>4, TailIs
<1>8. Pieces(n, span) = {moved} \cup (IF over THEN {tail} ELSE {})
                        \cup (IF early /\ upTo > span.start THEN {pickup} ELSE {})
  BY DEF Pieces
<1> HIDE DEF cut, end, upTo, over, early, moved, tail, pickup, L
<1>11. early <=> n.onset < span.start
  BY <1>4 DEF early
<1>12. upTo \in Int /\ n.onset < upTo /\ upTo <= span.end /\ upTo <= end
  BY <1>1, <1>2, <1>3, <1>4
<1>13. over => /\ Wrap!End(tail) \in Int /\ Wrap!End(tail) <= span.end
               /\ Wrap!End(tail) = IF end - span.end <= L
                                   THEN span.start + (end - span.end) ELSE span.end
  <2> SUFFICES ASSUME over
               PROVE  Wrap!End(tail) \in Int /\ Wrap!End(tail) <= span.end
    BY <1>7
  <2>1. CASE end - span.end <= L
    <3>1. Wrap!End(tail) = span.start + (end - span.end)
      BY <1>7, <2>1
    <3> QED
      BY <1>1, <1>2, <2>1, <3>1
  <2>2. CASE ~(end - span.end <= L)
    BY <1>1, <1>7, <2>2
  <2> QED
    BY <2>1, <2>2
<1>14. Wrap!End(pickup) = span.end /\ pickup.onset = n.onset + L
  BY <1>1, <1>2, <1>4, <1>6
<1>9. n.onset >= span.start - L
  BY DEF L
<1>15. \A p \in Pieces(n, span) : p.onset >= span.start /\ Wrap!End(p) <= span.end
  <2>1. moved.onset >= span.start /\ Wrap!End(moved) <= span.end
    <3>1. CASE ~early
      BY <1>1, <1>2, <1>4, <1>5, <1>11, <1>12, <3>1
    <3>2. CASE early /\ upTo <= span.start
      BY <1>1, <1>2, <1>4, <1>5, <1>12, <1>9, <3>2
    <3>3. CASE early /\ upTo > span.start
      BY <1>1, <1>5, <1>12, <3>3
    <3> QED
      BY <1>1, <1>12, <3>1, <3>2, <3>3
  <2>2. over => tail.onset >= span.start /\ Wrap!End(tail) <= span.end
    BY <1>1, <1>7, <1>13
  <2>3. pickup.onset >= span.start /\ Wrap!End(pickup) <= span.end
    <3>1. n.onset + L >= span.start
      BY <1>1, <1>2, <1>9
    <3>2. pickup.onset >= span.start
      BY <1>14, <3>1
    <3>3. span.end <= span.end
      BY <1>1
    <3> QED
      BY <1>14, <3>2, <3>3
  <2> QED
    BY <1>8, <2>1, <2>2, <2>3
<1>16. over => Heard(tail, span) = Phases(span, span.end, end)
  <2> SUFFICES ASSUME over PROVE Heard(tail, span) = Phases(span, span.end, end)
    OBVIOUS
  <2>1. Heard(tail, span) = Phases(span, span.start, Wrap!End(tail))
    BY <1>7 DEF Heard
  <2>2. CASE end - span.end <= L
    <3>1. Wrap!End(tail) + L = end /\ Wrap!End(tail) \in Int
      BY <1>1, <1>2, <1>13, <2>2
    <3>2. Phases(span, span.start + L, Wrap!End(tail) + L)
            = Phases(span, span.start, Wrap!End(tail))
      BY <1>1, <3>1, PhasesShift DEF L
    <3> QED
      BY <1>1, <2>1, <3>1, <3>2
  <2>3. CASE end - span.end > L
    <3>1. Wrap!End(tail) = span.end
      BY <1>1, <1>2, <1>13, <2>3
    <3>2. Phases(span, span.start, span.end) = span.start..(span.end - 1)
      <4>1. span.end - span.start >= Wrap!Length(span)
        BY <1>1 DEF L
      <4> QED
        BY <1>1, <4>1, PhasesAll
    <3>3. end - span.end >= Wrap!Length(span)
      BY <1>1, <1>2, <2>3 DEF L
    <3>4. Phases(span, span.end, end) = span.start..(span.end - 1)
      <4>1. \A a, b \in Int : a = span.end /\ b - a >= Wrap!Length(span) =>
              Phases(span, a, b) = span.start..(span.end - 1)
        BY PhasesAll
      <4> QED
        BY <1>1, <1>2, <3>3, <4>1
    <3> QED
      BY <2>1, <3>1, <3>2, <3>4
  <2> QED
    BY <1>1, <1>2, <2>2, <2>3
<1>17. Heard(moved, span) \cup (IF early /\ upTo > span.start THEN Heard(pickup, span) ELSE {})
         = Phases(span, n.onset, upTo)
  <2>1. CASE ~early
    BY <1>4, <1>5, <2>1 DEF Heard
  <2>2. CASE early /\ upTo <= span.start
    <3>1. ~(upTo > span.start)
      BY <1>1, <1>12, <2>2
    <3>2. Heard(moved, span) = Phases(span, n.onset + L, upTo + L)
      BY <1>4, <1>5, <2>2 DEF Heard
    <3>3. Phases(span, n.onset + L, upTo + L) = Phases(span, n.onset, upTo)
      BY <1>2, <1>12, PhasesShift DEF L
    <3> QED
      BY <3>1, <3>2, <3>3
  <2>3. CASE early /\ upTo > span.start
    <3>1. Heard(moved, span) = Phases(span, span.start, upTo)
      BY <1>5, <2>3 DEF Heard
    <3>2. Heard(pickup, span) = Phases(span, n.onset + L, span.start + L)
      BY <1>1, <1>14 DEF Heard
    <3>3. Phases(span, n.onset + L, span.start + L) = Phases(span, n.onset, span.start)
      BY <1>1, <1>2, PhasesShift DEF L
    <3>4. n.onset <= span.start /\ span.start <= upTo
      BY <1>1, <1>2, <1>11, <1>12, <2>3
    <3>5. Phases(span, n.onset, upTo)
            = Phases(span, n.onset, span.start) \cup Phases(span, span.start, upTo)
      <4>1. \A a, b, c \in Int : a <= b /\ b <= c =>
              Phases(span, a, c) = Phases(span, a, b) \cup Phases(span, b, c)
        BY PhasesJoin
      <4> DEFINE o == n.onset
                 s == span.start
      <4>2. o \in Int /\ s \in Int /\ upTo \in Int /\ o <= s /\ s <= upTo
        BY <1>1, <1>2, <1>12, <3>4
      <4> HIDE DEF o, s
      <4>3. Phases(span, o, upTo) = Phases(span, o, s) \cup Phases(span, s, upTo)
        BY <4>1, <4>2
      <4> QED
        BY <4>3 DEF o, s
    <3> QED
      BY <2>3, <3>1, <3>2, <3>3, <3>5
  <2> QED
    BY <1>1, <1>12, <2>1, <2>2, <2>3
<1>18. Heard(n, span) = Phases(span, n.onset, upTo)
                        \cup (IF over THEN Heard(tail, span) ELSE {})
  <2>1. Heard(n, span) = Phases(span, n.onset, end)
    BY DEF Heard, end
  <2>2. CASE over
    <3>1. upTo = span.end /\ n.onset <= span.end /\ span.end <= end
      BY <1>1, <1>2, <1>3, <1>4, <2>2
    <3>2. Phases(span, n.onset, end)
            = Phases(span, n.onset, span.end) \cup Phases(span, span.end, end)
      <4>1. \A a, b, c \in Int : a <= b /\ b <= c =>
              Phases(span, a, c) = Phases(span, a, b) \cup Phases(span, b, c)
        BY PhasesJoin
      <4> DEFINE o == n.onset
                 f == span.end
      <4>2. o \in Int /\ f \in Int /\ end \in Int /\ o <= f /\ f <= end
        BY <1>1, <1>2, <3>1
      <4> HIDE DEF o, f
      <4>3. Phases(span, o, end) = Phases(span, o, f) \cup Phases(span, f, end)
        BY <4>1, <4>2
      <4> QED
        BY <4>3 DEF o, f
    <3> QED
      BY <1>16, <2>1, <2>2, <3>1, <3>2
  <2>3. CASE ~over
    BY <1>4, <2>1, <2>3
  <2> QED
    BY <2>2, <2>3
<1>19. UNION {Heard(p, span) : p \in Pieces(n, span)}
         = Heard(moved, span) \cup (IF over THEN Heard(tail, span) ELSE {})
           \cup (IF early /\ upTo > span.start THEN Heard(pickup, span) ELSE {})
  BY <1>8
<1> QED
  BY <1>15, <1>17, <1>18, <1>19

-----------------------------------------------------------------------------
(* Bars: a map of metre events that the search by position and the search  *)
(* by number both count from (Time!IsMap).                                 *)

\* f is the position or the number of every event of a map, in order.
Rising(f, n) ==
  /\ n \in Nat \ {0}
  /\ f \in [1..n -> Int]
  /\ \A i \in 1..(n - 1) : f[i] < f[i + 1]

\* The event, of n, that q is counted from: the last not after it, or the first.
CountsFrom(f, n, q, k) ==
  /\ k \in 1..n
  /\ f[k] <= q \/ k = 1
  /\ k < n => q < f[k + 1]

LEMMA RisesThroughout ==
  ASSUME NEW f, NEW n, Rising(f, n), NEW i \in 1..n, NEW j \in 1..n, i < j
  PROVE  f[i] < f[j]
<1> DEFINE Bad == {x \in 1..n : i < x /\ ~(f[i] < f[x])}
<1>1. n \in Nat /\ f \in [1..n -> Int]
  BY DEF Rising
<1>2. SUFFICES ASSUME Bad # {} PROVE FALSE
  BY <1>1
<1>3. PICK m \in Bad : \A x \in Bad : m <= x
  <2>1. Bad \in SUBSET Nat
    BY <1>1
  <2> HIDE DEF Bad
  <2> QED
    BY <1>2, <2>1, HasLeast
<1>4. m \in 1..n /\ i < m /\ ~(f[i] < f[m])
  BY <1>3
<1>5. m - 1 \in 1..(n - 1) /\ m - 1 \in 1..n /\ (m - 1) + 1 = m
  BY <1>1, <1>4
<1>6. f[m - 1] < f[m]
  BY <1>5 DEF Rising
<1>7. m - 1 \notin Bad
  BY <1>3, <1>5
<1>8. f[i] \in Int /\ f[m] \in Int /\ f[m - 1] \in Int
  BY <1>1, <1>4, <1>5
<1>9. i = m - 1 \/ f[i] < f[m - 1]
  BY <1>4, <1>5, <1>7
<1> QED
  BY <1>4, <1>6, <1>8, <1>9

LEMMA SomeEventCounts ==
  ASSUME NEW f, NEW n, Rising(f, n), NEW q \in Int
  PROVE  \E k \in 1..n : CountsFrom(f, n, q, k)
<1> DEFINE Later == {x \in 1..n : q < f[x]}
<1>1. n \in Nat \ {0} /\ f \in [1..n -> Int]
  BY DEF Rising
<1>2. CASE Later = {}
  <2>1. f[n] <= q /\ n \in 1..n
    BY <1>1, <1>2
  <2> QED
    BY <1>1, <2>1 DEF CountsFrom
<1>3. CASE Later # {}
  <2>1. PICK m \in Later : \A x \in Later : m <= x
    <3>1. Later \in SUBSET Nat
      BY <1>1
    <3> HIDE DEF Later
    <3> QED
      BY <1>3, <3>1, HasLeast
  <2>2. CASE m = 1
    <3>1. 1 \in 1..n
      BY <1>1
    <3>2. \A x \in 1..n : 1 < x => q < f[x]
      <4> SUFFICES ASSUME NEW x \in 1..n, 1 < x PROVE q < f[x]
        OBVIOUS
      <4>1. q < f[1]
        BY <2>1, <2>2
      <4>2. f[1] < f[x]
        BY <3>1, RisesThroughout
      <4> QED
        BY <1>1, <3>1, <4>1, <4>2
    <3>3. 1 < n => q < f[1 + 1]
      BY <1>1, <3>2
    <3> QED
      BY <3>1, <3>3 DEF CountsFrom
  <2>3. CASE m # 1
    <3>1. m - 1 \in 1..n /\ (m - 1) + 1 = m
      BY <1>1, <2>1, <2>3
    <3>2. m - 1 \notin Later
      BY <2>1, <3>1
    <3>3. f[m - 1] <= q
      BY <1>1, <3>1, <3>2
    <3> QED
      BY <2>1, <3>1, <3>3 DEF CountsFrom
  <2> QED
    BY <2>2, <2>3
<1> QED
  BY <1>2, <1>3

\* The event that a position is counted from is the one that the search finds:
\* one before the first that is later, and the first when that is later already.
LEMMA SearchFinds ==
  ASSUME NEW f, NEW n, Rising(f, n), NEW q \in Int, NEW k, CountsFrom(f, n, q, k)
  PROVE  LET stop == {i \in 1..n : ~(f[i] <= q)}
             upTo == IF stop = {} THEN n
                     ELSE (CHOOSE i \in stop : \A j \in stop : i <= j) - 1
         IN (IF upTo = 0 THEN 1 ELSE upTo) = k
<1> DEFINE stop == {i \in 1..n : ~(f[i] <= q)}
           first == CHOOSE i \in stop : \A j \in stop : i <= j
<1>1. n \in Nat \ {0} /\ f \in [1..n -> Int] /\ k \in 1..n
  BY DEF Rising, CountsFrom
<1>2. CASE f[k] <= q
  <2>1. \A i \in 1..n : i <= k => f[i] <= q
    <3> SUFFICES ASSUME NEW i \in 1..n, i <= k PROVE f[i] <= q
      OBVIOUS
    <3>1. i = k \/ f[i] < f[k]
      BY <1>1, RisesThroughout
    <3> QED
      BY <1>1, <1>2, <3>1
  <2>2. CASE k = n
    <3>1. stop = {}
      BY <1>1, <2>1, <2>2
    <3> QED
      BY <1>1, <2>2, <3>1
  <2>3. CASE k # n
    <3>1. k + 1 \in 1..n /\ q < f[k + 1]
      BY <1>1, <2>3 DEF CountsFrom
    <3>2. k + 1 \in stop
      BY <1>1, <3>1
    <3>3. \A i \in stop : k + 1 <= i
      BY <1>1, <2>1
    <3>4. first \in stop /\ \A j \in stop : first <= j
      BY <3>2, <3>3
    <3>5. first \in 1..n /\ first <= k + 1 /\ k + 1 <= first
      BY <3>2, <3>3, <3>4
    <3>6. first - 1 = k /\ k # 0
      BY <1>1, <3>5
    <3> QED
      BY <3>2, <3>6
  <2> QED
    BY <2>2, <2>3
<1>3. CASE ~(f[k] <= q)
  <2>1. k = 1 /\ 1 \in stop
    BY <1>1, <1>3 DEF CountsFrom
  <2>2. \A i \in stop : 1 <= i
    BY <1>1
  <2>3. first \in stop /\ \A j \in stop : first <= j
    BY <2>1, <2>2
  <2>4. first = 1
    BY <1>1, <2>1, <2>2, <2>3
  <2> QED
    BY <2>1, <2>4
<1> QED
  BY <1>2, <1>3

LEMMA EventsTyped ==
  ASSUME NEW map, Time!IsMap(map), NEW k \in 1..Len(map)
  PROVE  /\ map[k].at \in Int /\ map[k].bar \in Nat \ {0} /\ map[k].measure \in Int
         /\ k < Len(map) => map[k + 1].at \in Int /\ map[k + 1].measure \in Int
         /\ k < Len(map) => Time!Follows(map, k)
<1>1. Len(map) \in Nat
  BY DEF Time!IsMap
<1>2. \A i \in 1..Len(map) : map[i] \in [at : Int, bar : Nat \ {0}, measure : Int]
  BY ElementOfSeq DEF Time!IsMap
<1>3. k < Len(map) => k + 1 \in 1..Len(map) /\ k \in 1..(Len(map) - 1)
  BY <1>1
<1>4. k < Len(map) => Time!Follows(map, k)
  BY <1>3 DEF Time!IsMap
<1> QED
  BY <1>2, <1>3, <1>4

LEMMA MapRises ==
  ASSUME NEW map, Time!IsMap(map)
  PROVE  /\ Rising([i \in 1..Len(map) |-> map[i].at], Len(map))
         /\ Rising([i \in 1..Len(map) |-> map[i].measure], Len(map))
<1> DEFINE n == Len(map)
<1>1. /\ n \in Nat \ {0}
      /\ \A i \in 1..n : map[i].at \in Int /\ map[i].bar \in Nat \ {0} /\ map[i].measure \in Int
  <2>1. n \in Nat \ {0}
    BY DEF Time!IsMap
  <2> QED
    BY <2>1, EventsTyped
<1>2. \A i \in 1..(n - 1) : i \in 1..n /\ i + 1 \in 1..n
  BY <1>1
<1>3. \A d, b \in Nat \ {0} : Time!BarsIn(d, b) \in Nat \ {0}
  <2> SUFFICES ASSUME NEW d \in Nat \ {0}, NEW b \in Nat \ {0}
               PROVE  Time!BarsIn(d, b) \in Nat \ {0}
    OBVIOUS
  <2>1. d \in Int
    OBVIOUS
  <2>2. PICK x \in Int : \E r \in 0..(b - 1) : d = b * x + r /\ x = d \div b /\ r = d % b
    BY <2>1, Divides
  <2>3. PICK r \in 0..(b - 1) : d = b * x + r /\ x = d \div b /\ r = d % b
    BY <2>2
  <2>4. x >= 0
    BY <2>3
  <2>5. x # 0 \/ r # 0
    BY <2>3
  <2> QED
    BY <2>3, <2>4, <2>5 DEF Time!BarsIn
<1>4. \A i \in 1..(n - 1) : map[i].at < map[i + 1].at /\ map[i].measure < map[i + 1].measure
  <2> SUFFICES ASSUME NEW i \in 1..(n - 1)
               PROVE  map[i].at < map[i + 1].at /\ map[i].measure < map[i + 1].measure
    OBVIOUS
  <2>1. Time!Follows(map, i)
    BY DEF Time!IsMap
  <2>2. map[i + 1].at - map[i].at \in Nat \ {0}
    BY <1>1, <1>2, <2>1 DEF Time!Follows
  <2>3. Time!BarsIn(map[i + 1].at - map[i].at, map[i].bar) \in Nat \ {0}
    BY <1>1, <1>2, <1>3, <2>2
  <2> QED
    BY <1>1, <1>2, <2>1, <2>3 DEF Time!Follows
<1> HIDE DEF n
<1>5. Rising([i \in 1..n |-> map[i].at], n)
  BY <1>1, <1>2, <1>4 DEF Rising
<1>6. Rising([i \in 1..n |-> map[i].measure], n)
  BY <1>1, <1>2, <1>4 DEF Rising
<1> QED
  BY <1>5, <1>6 DEF n

LEMMA MeterIs ==
  ASSUME NEW map, Time!IsMap(map), NEW q \in Int, NEW k,
         CountsFrom([i \in 1..Len(map) |-> map[i].at], Len(map), q, k)
  PROVE  Time!MeterAt(map, q) = map[k]
<1> DEFINE n == Len(map)
           f == [i \in 1..n |-> map[i].at]
           stop == {i \in 1..n : ~(f[i] <= q)}
           upTo == IF stop = {} THEN n
                   ELSE (CHOOSE i \in stop : \A j \in stop : i <= j) - 1
<1>1. Rising(f, n)
  BY MapRises
<1>2. (IF upTo = 0 THEN 1 ELSE upTo) = k
  <2> HIDE DEF f, n
  <2>1. CountsFrom(f, n, q, k)
    BY DEF f, n
  <2> QED
    BY <1>1, <2>1, SearchFinds
<1>3. DOMAIN map = 1..n
  BY DEF Time!IsMap
<1>4. stop = {i \in DOMAIN map : ~(map[i].at <= q)}
  BY <1>3
<1> HIDE DEF f, stop
<1>5. Time!MeterAt(map, q) = map[IF upTo = 0 THEN 1 ELSE upTo]
  BY <1>4 DEF Time!MeterAt, Time!LastWhere
<1> QED
  BY <1>2, <1>5

LEMMA StartIs ==
  ASSUME NEW map, Time!IsMap(map), NEW b \in Int, NEW k,
         CountsFrom([i \in 1..Len(map) |-> map[i].measure], Len(map), b, k)
  PROVE  Time!BarStart(map, b) = map[k].at + map[k].bar * (b - map[k].measure)
<1> DEFINE n == Len(map)
           f == [i \in 1..n |-> map[i].measure]
           stop == {i \in 1..n : ~(f[i] <= b)}
           upTo == IF stop = {} THEN n
                   ELSE (CHOOSE i \in stop : \A j \in stop : i <= j) - 1
           m == map[IF upTo = 0 THEN 1 ELSE upTo]
<1>1. Rising(f, n)
  BY MapRises
<1>2. (IF upTo = 0 THEN 1 ELSE upTo) = k
  <2> HIDE DEF f, n
  <2>1. CountsFrom(f, n, b, k)
    BY DEF f, n
  <2> QED
    BY <1>1, <2>1, SearchFinds
<1>3. DOMAIN map = 1..n
  BY DEF Time!IsMap
<1>4. stop = {i \in DOMAIN map : ~(map[i].measure <= b)}
  BY <1>3
<1> HIDE DEF f, stop
<1>5. Time!BarStart(map, b) = m.at + m.bar * (b - m.measure)
  BY <1>4 DEF Time!BarStart, Time!LastWhere
<1> QED
  BY <1>2, <1>5

LEMMA BarsCut ==
  ASSUME NEW d \in Nat \ {0}, NEW g \in Nat \ {0}, NEW x \in Int
  PROVE  /\ x < d => x \div g < Time!BarsIn(d, g)
         /\ x < Time!BarsIn(d, g) => g * x < d
<1>1. d \in Int
  OBVIOUS
<1>2. PICK a \in Int : \E r \in 0..(g - 1) : d = g * a + r /\ a = d \div g /\ r = d % g
  BY <1>1, Divides
<1>3. PICK r \in 0..(g - 1) : d = g * a + r /\ a = d \div g /\ r = d % g
  BY <1>2
<1>4. Time!BarsIn(d, g) = IF r = 0 THEN a ELSE a + 1
  BY <1>3 DEF Time!BarsIn
<1>5. PICK c \in Int : \E s \in 0..(g - 1) : x = g * c + s /\ c = x \div g /\ s = x % g
  BY Divides
<1>6. PICK s \in 0..(g - 1) : x = g * c + s /\ c = x \div g /\ s = x % g
  BY <1>5
<1>7. \A y, z \in Int : y <= z => g * y <= g * z
  OBVIOUS
<1>8. g * (a + 1) = g * a + g /\ g * (a - 1) = g * a - g
  OBVIOUS
<1>9. x < d => c < (IF r = 0 THEN a ELSE a + 1)
  <2> SUFFICES ASSUME x < d, ~(c < (IF r = 0 THEN a ELSE a + 1)) PROVE FALSE
    OBVIOUS
  <2>1. CASE r = 0
    <3>1. g * a <= g * c
      BY <1>7, <2>1
    <3> QED
      BY <1>3, <1>6, <2>1, <3>1
  <2>2. CASE r # 0
    <3>1. g * (a + 1) <= g * c
      BY <1>7, <2>2
    <3> QED
      BY <1>3, <1>6, <1>8, <3>1
  <2> QED
    BY <2>1, <2>2
<1>10. x < (IF r = 0 THEN a ELSE a + 1) => g * x < d
  <2>1. CASE r = 0
    <3> SUFFICES ASSUME x < a PROVE g * x < d
      BY <2>1
    <3>1. g * x <= g * (a - 1)
      BY <1>7
    <3> QED
      BY <1>3, <1>8, <3>1
  <2>2. CASE r # 0
    <3> SUFFICES ASSUME x < a + 1 PROVE g * x < d
      BY <2>2
    <3>1. g * x <= g * a
      BY <1>7
    <3> QED
      BY <1>3, <2>2, <3>1
  <2> QED
    BY <2>1, <2>2
<1> QED
  BY <1>4, <1>6, <1>9, <1>10

\* Every position lies in the bar it is counted in, which is as long as the metre
\* there says (TimeMap::bar_of, bar_start, position_in_bar).
THEOREM InsideItsBar ==
  ASSUME NEW map, Time!IsMap(map), NEW q \in Int
  PROVE  /\ Time!PositionInBar(map, q) >= 0
         /\ Time!PositionInBar(map, q) < Time!MeterAt(map, q).bar
<1> DEFINE n == Len(map)
           f == [i \in 1..n |-> map[i].at]
           h == [i \in 1..n |-> map[i].measure]
<1>1. Rising(f, n) /\ Rising(h, n)
  BY MapRises
<1>2. PICK k \in 1..n : CountsFrom(f, n, q, k)
  <2> HIDE DEF f, n
  <2> QED
    BY <1>1, SomeEventCounts
<1> DEFINE g == map[k].bar
           x == (q - map[k].at) \div g
<1>3. /\ map[k].at \in Int /\ g \in Nat \ {0} /\ map[k].measure \in Int
      /\ k < n => map[k + 1].at \in Int /\ map[k + 1].measure \in Int
      /\ k < n => Time!Follows(map, k)
  BY <1>2, EventsTyped
<1>4. Time!MeterAt(map, q) = map[k]
  BY <1>2, MeterIs
<1>5. q - map[k].at \in Int /\ x \in Int
  BY <1>3
<1>6. Time!BarOf(map, q) = map[k].measure + x
  BY <1>4 DEF Time!BarOf
<1>7. CountsFrom(h, n, map[k].measure + x, k)
  <2>1. h[k] <= map[k].measure + x \/ k = 1
    <3>1. f[k] = map[k].at /\ h[k] = map[k].measure
      BY <1>2
    <3>2. CASE map[k].at <= q
      <4>1. q - map[k].at >= 0
        BY <1>3, <3>2
      <4> DEFINE y == q - map[k].at
      <4>2. x >= 0
        <5>1. \A z \in Nat : \A d \in Nat \ {0} : z \div d >= 0
          OBVIOUS
        <5>2. q - map[k].at \in Nat
          BY <1>5, <4>1
        <5> QED
          BY <1>3, <5>1, <5>2
      <4> HIDE DEF x, h
      <4> QED
        BY <1>3, <1>5, <3>1, <4>2
    <3>3. CASE ~(map[k].at <= q)
      BY <1>2, <3>1, <3>3 DEF CountsFrom
    <3> QED
      BY <3>2, <3>3
  <2>2. k < n => map[k].measure + x < h[k + 1]
    <3> SUFFICES ASSUME k < n PROVE map[k].measure + x < h[k + 1]
      OBVIOUS
    <3>1. k + 1 \in 1..n /\ h[k + 1] = map[k + 1].measure /\ f[k + 1] = map[k + 1].at
      BY <1>2
    <3>2. q < map[k + 1].at
      BY <1>2, <3>1 DEF CountsFrom
    <3> DEFINE d == map[k + 1].at - map[k].at
    <3>3. d \in Nat \ {0} /\ q - map[k].at < d /\ map[k + 1].measure = map[k].measure + Time!BarsIn(d, g)
      BY <1>3, <3>2 DEF Time!Follows
    <3> HIDE DEF d
    <3>4. x < Time!BarsIn(d, g)
      BY <1>3, <1>5, <3>3, BarsCut
    <3>5. Time!BarsIn(d, g) \in Int
      BY <1>3, <3>3 DEF Time!BarsIn
    <3> HIDE DEF x, h, f
    <3> QED
      BY <1>3, <1>5, <3>1, <3>3, <3>4, <3>5
  <2> QED
    BY <1>2, <2>1, <2>2 DEF CountsFrom
<1>8. Time!BarStart(map, map[k].measure + x) = map[k].at + g * ((map[k].measure + x) - map[k].measure)
  <2>1. map[k].measure + x \in Int
    BY <1>3, <1>5
  <2> HIDE DEF x
  <2> QED
    BY <1>7, <2>1, StartIs
<1> DEFINE at == map[k].at
           first == map[k].measure
           y == q - at
<1>9. at \in Int /\ first \in Int /\ y \in Int /\ y = q - at /\ g \in Nat \ {0} /\ x = y \div g
  BY <1>3, <1>5
<1>10. Time!PositionInBar(map, q) = q - (at + g * ((first + x) - first))
  BY <1>6, <1>8 DEF Time!PositionInBar
<1> HIDE DEF at, first, y, g, x
<1>11. PICK c \in Int : \E r \in 0..(g - 1) : y = g * c + r /\ c = y \div g /\ r = y % g
  BY <1>9, Divides
<1>12. PICK r \in 0..(g - 1) : y = g * c + r /\ c = y \div g /\ r = y % g
  BY <1>11
<1>13. (first + x) - first = c
  <2>1. x = c /\ c \in Int
    BY <1>9, <1>12
  <2> QED
    BY <1>9, <2>1
<1>14. q - (at + g * c) = r
  <2>1. \A u, v, w, z \in Int : u - v = w + z => u - (v + w) = z
    OBVIOUS
  <2>2. g * c \in Int /\ r \in Int
    BY <1>9
  <2>3. q - at = g * c + r
    BY <1>9, <1>12
  <2> QED
    BY <1>9, <2>1, <2>2, <2>3
<1>15. Time!PositionInBar(map, q) = r
  BY <1>10, <1>13, <1>14
<1>16. Time!MeterAt(map, q).bar = g
  BY <1>4 DEF g
<1> QED
  BY <1>9, <1>12, <1>15, <1>16

\* The bar that starts where bar b starts is bar b (TimeMap::bar_start, bar_of): no
\* bar is skipped or counted twice where the metre changes.
THEOREM BarsFoundAgain ==
  ASSUME NEW map, Time!IsMap(map), NEW b \in Int
  PROVE  /\ Time!BarStart(map, b) \in Int
         /\ Time!BarOf(map, Time!BarStart(map, b)) = b
         /\ Time!PositionInBar(map, Time!BarStart(map, b)) = 0
<1> DEFINE n == Len(map)
           f == [i \in 1..n |-> map[i].at]
           h == [i \in 1..n |-> map[i].measure]
           q == Time!BarStart(map, b)
<1>1. Rising(f, n) /\ Rising(h, n)
  BY MapRises
<1>2. PICK k \in 1..n : CountsFrom(h, n, b, k)
  <2> HIDE DEF h, n
  <2> QED
    BY <1>1, SomeEventCounts
<1> DEFINE at == map[k].at
           g == map[k].bar
           first == map[k].measure
           x == b - first
<1>3. at \in Int /\ g \in Nat \ {0} /\ first \in Int /\ x \in Int
  BY <1>2, EventsTyped
<1>4. q = at + g * x
  BY <1>2, StartIs
<1>5. f[k] = at /\ h[k] = first
  BY <1>2
<1>6. k < n => /\ f[k + 1] = map[k + 1].at /\ h[k + 1] = map[k + 1].measure
               /\ map[k + 1].at \in Int /\ map[k + 1].measure \in Int
               /\ Time!Follows(map, k)
  <2>1. n \in Nat
    BY DEF Time!IsMap
  <2>2. k < n => k + 1 \in 1..n
    BY <1>2, <2>1
  <2> QED
    BY <1>2, <2>2, EventsTyped
<1>7. q \in Int
  BY <1>3, <1>4
<1>8. CountsFrom(f, n, q, k)
  <2>1. f[k] <= q \/ k = 1
    <3>1. first <= b \/ k = 1
      BY <1>2, <1>5 DEF CountsFrom
    <3>2. \A u \in Nat : g * u >= 0
      BY <1>3
    <3>3. CASE first <= b
      <4> HIDE DEF first, at, g, f, q
      <4>1. x \in Nat
        BY <1>3, <3>3
      <4> HIDE DEF x
      <4>2. g * x >= 0 /\ g * x \in Int
        BY <1>3, <3>2, <4>1
      <4> QED
        BY <1>3, <1>4, <1>5, <4>2
    <3> QED
      BY <3>1, <3>3
  <2>2. k < n => q < f[k + 1]
    <3> SUFFICES ASSUME k < n PROVE q < f[k + 1]
      OBVIOUS
    <3> DEFINE d == map[k + 1].at - at
    <3>1. d \in Nat \ {0} /\ f[k + 1] = at + d
      BY <1>3, <1>6 DEF Time!Follows
    <3>2. h[k + 1] = first + Time!BarsIn(d, g)
      BY <1>6 DEF Time!Follows
    <3>3. b < h[k + 1]
      BY <1>2 DEF CountsFrom
    <3>4. Time!BarsIn(d, g) \in Int
      BY <1>3, <3>1 DEF Time!BarsIn
    <3> HIDE DEF d, g, first, at, h, f, q
    <3>5. x < Time!BarsIn(d, g)
      BY <1>3, <3>2, <3>3, <3>4
    <3> HIDE DEF x
    <3>6. g * x < d /\ g * x \in Int
      BY <1>3, <3>1, <3>5, BarsCut
    <3> QED
      BY <1>3, <1>4, <3>1, <3>6
  <2> QED
    BY <1>2, <2>1, <2>2 DEF CountsFrom
<1>9. Time!BarOf(map, q) = first + (q - at) \div g
  <2>1. Time!MeterAt(map, q) = map[k]
    BY <1>7, <1>8, MeterIs
  <2> QED
    BY <2>1 DEF Time!BarOf
<1>10. Time!BarOf(map, q) = b
  <2> HIDE DEF at, g, first, q
  <2>1. \A u, v \in Int : (u + v) - u = v
    OBVIOUS
  <2>2. g * x \in Int
    BY <1>3
  <2>3. q - at = g * x
    BY <1>3, <1>4, <2>1, <2>2
  <2>4. (g * x) \div g = x
    BY <1>3
  <2>5. first + x = b
    BY <1>3
  <2> QED
    BY <1>9, <2>3, <2>4, <2>5
<1>11. Time!PositionInBar(map, q) = q - q
  BY <1>10 DEF Time!PositionInBar
<1> HIDE DEF q
<1>12. Time!PositionInBar(map, q) = 0
  BY <1>7, <1>11
<1> QED
  BY <1>7, <1>10, <1>12 DEF q

-----------------------------------------------------------------------------
(* Arrangement: the windows a part is placed in.                           *)

LEMMA LargerOf ==
  ASSUME NEW a \in Int, NEW b \in Int
  PROVE  Arr!Max({a, b}) = IF a >= b THEN a ELSE b
<1>1. CASE a >= b
  BY <1>1 DEF Arr!Max
<1>2. CASE b > a
  BY <1>2 DEF Arr!Max
<1> QED
  BY <1>1, <1>2

LEMMA SmallerOf ==
  ASSUME NEW a \in Int, NEW b \in Int
  PROVE  Arr!Min({a, b}) = IF a <= b THEN a ELSE b
<1>1. CASE a <= b
  BY <1>1 DEF Arr!Min
<1>2. CASE b < a
  BY <1>2 DEF Arr!Min
<1> QED
  BY <1>1, <1>2

LEMMA SharedIs ==
  ASSUME NEW window, window[1] \in Int, window[2] \in Int,
         NEW inst, inst.low \in Int, inst.high \in Int, inst.low <= inst.high
  PROVE  \E a, b \in Int : /\ Arr!SharedWindow(window, inst) = <<a, b>>
                           /\ inst.low <= a /\ a <= b /\ b <= inst.high
<1>1. PICK l \in Int : l = Arr!Max({window[1], inst.low}) /\ l >= inst.low
  BY LargerOf
<1>2. PICK h \in Int : h = Arr!Min({window[2], inst.high}) /\ h <= inst.high
  BY SmallerOf
<1>3. Arr!SharedWindow(window, inst) = IF l >= h THEN <<inst.low, inst.high>> ELSE <<l, h>>
  BY <1>1, <1>2, Zenon DEF Arr!SharedWindow
<1>4. CASE l >= h
  BY <1>3, <1>4
<1>5. CASE h > l
  BY <1>1, <1>2, <1>3, <1>5
<1> QED
  BY <1>4, <1>5

\* normalize_window: whatever window is asked for, the one a part is placed in
\* is a window of its instrument, and an octave at least where that has one.
THEOREM WindowHasAnOctave ==
  ASSUME NEW window, window[1] \in Int, window[2] \in Int,
         NEW inst, inst.low \in Int, inst.high \in Int, inst.low <= inst.high
  PROVE  LET w == Arr!NormalWindow(window, inst)
         IN /\ inst.low <= w[1] /\ w[1] <= w[2] /\ w[2] <= inst.high
            /\ inst.high - inst.low >= 12 => w[2] - w[1] >= 12
<1>1. PICK a, b \in Int : /\ Arr!SharedWindow(window, inst) = <<a, b>>
                          /\ inst.low <= a /\ a <= b /\ b <= inst.high
  BY SharedIs
<1>2. PICK m \in Int : m = Arr!Min({a + 12, inst.high})
                       /\ m = IF a + 12 <= inst.high THEN a + 12 ELSE inst.high
  BY SmallerOf
<1>3. PICK t \in Int : t = (IF b - a < 12 THEN m ELSE b)
  BY <1>2
<1>4. PICK n \in Int : n = Arr!Max({t - 12, inst.low})
                       /\ n = IF t - 12 >= inst.low THEN t - 12 ELSE inst.low
  BY LargerOf
<1>5. PICK s \in Int : s = (IF t - a < 12 THEN n ELSE a)
  BY <1>4
<1>6. <<a, b>>[1] = a /\ <<a, b>>[2] = b
  OBVIOUS
<1>7. PICK kept : kept = Arr!SharedWindow(window, inst) /\ kept[1] = a /\ kept[2] = b
  BY <1>1, <1>6, Zenon
<1>8. Arr!NormalWindow(window, inst) = <<s, t>>
  <2>1. (IF kept[2] - kept[1] < 12 THEN Arr!Min({kept[1] + 12, inst.high}) ELSE kept[2]) = t
    BY <1>2, <1>3, <1>7, Zenon
  <2>2. (IF t - kept[1] < 12 THEN Arr!Max({t - 12, inst.low}) ELSE kept[1]) = s
    BY <1>4, <1>5, <1>7, Zenon
  <2> QED
    BY <1>7, <2>1, <2>2, Zenon DEF Arr!NormalWindow
<1>9. /\ inst.low <= s /\ s <= t /\ t <= inst.high
      /\ inst.high - inst.low >= 12 => t - s >= 12
  BY <1>1, <1>2, <1>3, <1>4, <1>5
<1> QED
  BY <1>8, <1>9

\* shift_window: a section's shift keeps a window within the limits of the part,
\* and an octave wide at least where the limits are.
THEOREM ShiftKeepsAnOctave ==
  ASSUME NEW a \in Int, NEW b \in Int, NEW from \in Int, NEW to \in Int,
         from <= a, a <= b, b <= to, NEW shift \in Int
  PROVE  LET w == Arr!ShiftWindow(<<a, b>>, <<from, to>>, shift)
         IN /\ from <= w[1] /\ w[1] <= w[2] /\ w[2] <= to
            /\ shift # 0 /\ to - from >= 12 => w[2] - w[1] >= 12
<1>1. CASE shift = 0 \/ to - from < 12
  BY <1>1 DEF Arr!ShiftWindow
<1>2. CASE shift # 0 /\ to - from >= 12
  <2>1. PICK l \in Int : /\ l = Arr!Within(a + shift, from, to - 12)
                         /\ from <= l /\ l <= to - 12
    BY <1>2 DEF Arr!Within
  <2>2. PICK h \in Int : /\ h = Arr!Within(b + shift, l + 12, to)
                         /\ l + 12 <= h /\ h <= to
    BY <2>1 DEF Arr!Within
  <2>3. Arr!ShiftWindow(<<a, b>>, <<from, to>>, shift) = <<l, h>>
    BY <1>2, <2>1, <2>2 DEF Arr!ShiftWindow
  <2> QED
    BY <1>2, <2>1, <2>2, <2>3
<1> QED
  BY <1>1, <1>2

\* separate: pushed off the part below it, a window stays in its bounds, is only
\* ever moved up, keeps its width or an octave, and does not begin more than an
\* octave above the centre it had.
THEOREM PushedStaysInside ==
  ASSUME NEW below, below[1] \in Int, below[2] \in Int,
         NEW w, w[1] \in Int, w[2] \in Int,
         NEW bound, bound[1] \in Int, bound[2] \in Int,
         bound[1] <= w[1], w[1] <= w[2], w[2] <= bound[2],
         NEW home \in Int, NEW spread \in Int
  PROVE  LET r == Arr!PushedOff(w, below, bound, home, spread)
         IN /\ w[1] <= r[1] /\ r[1] <= r[2] /\ w[2] <= r[2] /\ r[2] <= bound[2]
            /\ r[2] - r[1] = w[2] - w[1] \/ r[2] - r[1] >= 12
            /\ r = w \/ r[1] <= home + 12
<1>1. \A a, b \in Int : /\ Arr!Max({a, b}) \in Int
                        /\ Arr!Max({a, b}) >= a /\ Arr!Max({a, b}) >= b
                        /\ Arr!Max({a, b}) = a \/ Arr!Max({a, b}) = b
                        /\ Arr!Min({a, b}) \in Int
                        /\ Arr!Min({a, b}) <= a /\ Arr!Min({a, b}) <= b
                        /\ Arr!Min({a, b}) = a \/ Arr!Min({a, b}) = b
  BY LargerOf, SmallerOf
<1>2. Arr!Tolerated(below, w, spread) \in Int
  <2>1. below[2] - below[1] \in Int /\ w[2] - w[1] \in Int
    OBVIOUS
  <2>2. PICK x \in Int : x = Arr!Min({below[2] - below[1], w[2] - w[1]})
    BY <1>1, <2>1, Zenon
  <2>3. x + 1 \in Int /\ 1 \in Int
    OBVIOUS
  <2>4. PICK smaller \in Int : smaller = Arr!Max({x + 1, 1})
    BY <1>1, <2>3, Zenon
  <2>5. Arr!Tolerated(below, w, spread) = ((100 - spread) * smaller + 50) \div 100
    BY <2>2, <2>4, Zenon DEF Arr!Tolerated
  <2>6. (100 - spread) * smaller \in Int
    OBVIOUS
  <2>7. \A k \in Int : (k + 50) \div 100 \in Int
    OBVIOUS
  <2> QED
    BY <2>5, <2>6, <2>7, Zenon
<1>3. PICK want \in Int : want = Arr!Wanted(below, w, home, spread) /\ want <= home + 12
  <2>1. PICK t \in Int : t = Arr!Tolerated(below, w, spread)
    BY <1>2, Zenon
  <2>2. PICK u \in Int : u = below[2] - t + (5 * spread + 50) \div 100
    OBVIOUS
  <2>3. PICK v \in Int : v = home + 12
    OBVIOUS
  <2>4. PICK want \in Int : want = Arr!Min({u, v})
    BY <1>1, Zenon
  <2>5. want <= v
    BY <1>1, <2>4
  <2>6. want = Arr!Wanted(below, w, home, spread)
    BY <2>1, <2>2, <2>3, <2>4, Zenon DEF Arr!Wanted
  <2> QED
    BY <2>3, <2>5, <2>6
<1>4. PICK room \in Int : /\ room = Arr!Headroom(w, bound, home)
                          /\ 0 <= room /\ room <= bound[2] - w[2]
  <2>1. PICK c \in Int : c = home + 12 - (w[1] + w[2]) \div 2
    OBVIOUS
  <2>2. PICK p \in Int : p = bound[2] - w[2] /\ p >= 0
    OBVIOUS
  <2>3. PICK m \in Int : m = Arr!Max({p, 0}) /\ m = p
    BY <2>2, LargerOf
  <2>4. PICK n \in Int : n = Arr!Max({c, 0}) /\ n >= 0
    BY LargerOf
  <2>5. PICK room \in Int : /\ room = Arr!Min({m, n})
                            /\ room <= m /\ (room = m \/ room = n)
    BY <1>1, Zenon
  <2>6. room = Arr!Headroom(w, bound, home)
    BY <2>1, <2>2, <2>3, <2>4, <2>5, Zenon DEF Arr!Headroom
  <2>7. 0 <= room /\ room <= p
    BY <2>2, <2>3, <2>4, <2>5
  <2> QED
    BY <2>2, <2>5, <2>6, <2>7
<1>5. CASE Arr!IsClear(below, w, home, spread)
  <2>1. Arr!PushedOff(w, below, bound, home, spread) = w
    BY <1>5, Zenon DEF Arr!PushedOff
  <2> QED
    BY <2>1
<1>6. CASE ~Arr!IsClear(below, w, home, spread)
  <2>1. w[1] < want
    <3>1. ~(w[1] >= want)
      BY <1>3, <1>6, Zenon DEF Arr!IsClear
    <3> QED
      BY <3>1
  <2>2. PICK far \in Int : far = want - w[1]
    OBVIOUS
  <2>3. PICK shift \in Int : /\ shift = Arr!Min({far, room}) /\ shift <= far
                             /\ 0 <= shift /\ shift <= room
    BY <1>4, <2>1, <2>2, SmallerOf
  <2>4. PICK a, b \in Int : a = w[1] + shift /\ b = w[2] + shift
    OBVIOUS
  <2>l. shift = Arr!Lift(w, below, bound, home, spread)
    BY <1>3, <1>4, <2>2, <2>3, Zenon DEF Arr!Lift
  <2>5. PICK edge \in Int : edge = b - 12
    OBVIOUS
  <2>6. CASE a < want /\ want <= edge
    <3>1. Arr!PushedOff(w, below, bound, home, spread) = <<want, b>>
      BY <1>3, <1>6, <2>4, <2>5, <2>6, <2>l DEF Arr!PushedOff
    <3> QED
      BY <1>3, <1>4, <2>1, <2>2, <2>3, <2>4, <2>5, <2>6, <3>1
  <2>7. CASE ~(a < want /\ want <= edge)
    <3>1. Arr!PushedOff(w, below, bound, home, spread) = <<a, b>>
      BY <1>3, <1>6, <2>4, <2>5, <2>7, <2>l DEF Arr!PushedOff
    <3> QED
      BY <1>3, <1>4, <2>1, <2>2, <2>3, <2>4, <2>7, <3>1
  <2> QED
    BY <2>6, <2>7
<1> QED
  BY <1>5, <1>6
================================================================================
