---------------------------- MODULE PlanProofs ----------------------------
(***************************************************************************)
(* Proofs about plans, for every candidate, source item and limit: where   *)
(* the builder writes a note, how the operations and the outputs of a plan *)
(* lie, that what build_plan returns the bridge takes, and that staging    *)
(* makes of it what it announces (PlanBuild).                              *)
(***************************************************************************)
EXTENDS PlanQuestions, SequenceTheorems, FiniteSetTheorems, WellFoundedInduction, TLAPS

-----------------------------------------------------------------------------
(* The plan builder.                                                       *)

LEMMA SnapsUpFromZero ==
  ASSUME Grid \in Nat \ {0}, NEW x \in Nat
  PROVE  \E k \in Int : \E z \in Int :
           /\ z = Grid * k /\ -z = Grid * (-k) /\ Plan!Snapped(x) = z /\ Plan!Snapped(-x) = -z
           /\ 2 * (z - x) <= Grid /\ 2 * (x - z) < Grid
<1> DEFINE n == 2 * x + Grid
           k == n \div (2 * Grid)
<1>1. n \in Int /\ 2 * Grid \in Nat \ {0}
  OBVIOUS
<1>2. Plan!Snapped(x) = Grid * k
  BY DEF Plan!Snapped
<1>3. Plan!Snapped(-x) = -(Grid * k)
  <2>1. CASE x = 0
    <3>1. k = 0
      BY <2>1
    <3>2. -x = x
      <4>1. PICK m \in Int : m = -x /\ x + m = 0
        OBVIOUS
      <4>2. m \in Int /\ x + m = 0
        BY <4>1
      <4>3. m = 0
        BY <2>1, <4>2
      <4>4. m = x
        BY <2>1, <4>3
      <4> QED
        BY ONLY <4>1, <4>4
    <3> HIDE DEF k
    <3>3. Grid * k = 0
      BY <3>1
    <3> QED
      BY <1>2, <3>2, <3>3
  <2>2. CASE x # 0
    <3>1. ~(-x >= 0) /\ -(-x) = x
      BY <2>2
    <3> QED
      BY <3>1 DEF Plan!Snapped
  <2> QED
    BY <2>1, <2>2
<1> HIDE DEF n
<1>4. k \in Int /\ (2 * Grid) * k <= n /\ n < (2 * Grid) * k + 2 * Grid
  BY <1>1
<1> HIDE DEF k
<1>5. PICK z \in Int : z = Grid * k
  BY <1>4
<1>6. (2 * Grid) * k = 2 * z /\ -z = Grid * (-k) /\ -k \in Int
  BY <1>4, <1>5
<1>7. 2 * z <= 2 * x + Grid /\ 2 * x + Grid < 2 * z + 2 * Grid
  BY <1>4, <1>6 DEF n
<1>8. 2 * (z - x) <= Grid /\ 2 * (x - z) < Grid
  BY <1>7
<1> QED
  BY <1>2, <1>3, <1>4, <1>5, <1>6, <1>8

LEMMA SnapsBy ==
  ASSUME Grid \in Nat \ {0}, NEW q \in Int
  PROVE  /\ \E k \in Int : Plan!Snapped(q) = Grid * k
         /\ Plan!Snapped(q) \in Int
         /\ 2 * (Plan!Snapped(q) - q) <= Grid /\ (q <= 0 => 2 * (Plan!Snapped(q) - q) < Grid)
         /\ 2 * (q - Plan!Snapped(q)) <= Grid /\ (q >= 0 => 2 * (q - Plan!Snapped(q)) < Grid)
         /\ Plan!Snapped(-q) = -Plan!Snapped(q)
<1>2. ASSUME q >= 0, q # 0
      PROVE  /\ \E k \in Int : Plan!Snapped(q) = Grid * k
             /\ Plan!Snapped(q) \in Int
             /\ 2 * (Plan!Snapped(q) - q) <= Grid /\ 2 * (q - Plan!Snapped(q)) < Grid
             /\ Plan!Snapped(-q) = -Plan!Snapped(q)
  <2>1. q \in Nat
    BY <1>2
  <2> QED
    BY <2>1, SnapsUpFromZero
<1>3. ASSUME q <= 0
      PROVE  /\ \E k \in Int : Plan!Snapped(q) = Grid * k
             /\ Plan!Snapped(q) \in Int
             /\ 2 * (Plan!Snapped(q) - q) < Grid /\ 2 * (q - Plan!Snapped(q)) <= Grid
             /\ Plan!Snapped(-q) = -Plan!Snapped(q)
  <2>1. PICK x \in Nat : q = -x /\ -q = x
    BY <1>3
  <2>2. PICK k \in Int : \E z \in Int :
           /\ z = Grid * k /\ -z = Grid * (-k) /\ Plan!Snapped(x) = z /\ Plan!Snapped(-x) = -z
           /\ 2 * (z - x) <= Grid /\ 2 * (x - z) < Grid
    BY SnapsUpFromZero
  <2>3. PICK z \in Int :
           /\ z = Grid * k /\ -z = Grid * (-k) /\ Plan!Snapped(x) = z /\ Plan!Snapped(-x) = -z
           /\ 2 * (z - x) <= Grid /\ 2 * (x - z) < Grid
    BY <2>2
  <2>4. Plan!Snapped(q) = -z /\ Plan!Snapped(-q) = z /\ -z \in Int
    BY <2>1, <2>3
  <2>5. 2 * (-z - q) < Grid /\ 2 * (q - (-z)) <= Grid
    BY <2>1, <2>3
  <2>6. Plan!Snapped(q) = Grid * (-k) /\ -k \in Int
    BY <2>3, <2>4
  <2>7. Plan!Snapped(-q) = -Plan!Snapped(q)
    BY <2>4
  <2> QED
    BY <2>4, <2>5, <2>6, <2>7
<1>4. ASSUME q = 0
      PROVE  2 * (q - Plan!Snapped(q)) < Grid
  BY <1>4, SnapsUpFromZero
<1>5. CASE q > 0
  <2>1. ~(q <= 0) /\ q # 0 /\ q >= 0
    BY <1>5
  <2>2. /\ \E k \in Int : Plan!Snapped(q) = Grid * k
        /\ Plan!Snapped(q) \in Int
        /\ 2 * (Plan!Snapped(q) - q) <= Grid /\ 2 * (q - Plan!Snapped(q)) < Grid
        /\ Plan!Snapped(-q) = -Plan!Snapped(q)
    BY <1>2, <2>1, Zenon
  <2>3. 2 * (q - Plan!Snapped(q)) <= Grid
    BY <2>2
  <2> QED
    BY <2>1, <2>2, <2>3, Zenon
<1>6. CASE q < 0
  <2>1. ~(q >= 0) /\ q <= 0
    BY <1>6
  <2>2. /\ \E k \in Int : Plan!Snapped(q) = Grid * k
        /\ Plan!Snapped(q) \in Int
        /\ 2 * (Plan!Snapped(q) - q) < Grid /\ 2 * (q - Plan!Snapped(q)) <= Grid
        /\ Plan!Snapped(-q) = -Plan!Snapped(q)
    BY <1>3, <2>1, Zenon
  <2>3. 2 * (Plan!Snapped(q) - q) <= Grid
    BY <2>2
  <2> QED
    BY <2>1, <2>2, <2>3, Zenon
<1>7. CASE q = 0
  <2>1. q <= 0
    BY <1>7
  <2>2. /\ \E k \in Int : Plan!Snapped(q) = Grid * k
        /\ Plan!Snapped(q) \in Int
        /\ 2 * (Plan!Snapped(q) - q) < Grid /\ 2 * (q - Plan!Snapped(q)) <= Grid
        /\ Plan!Snapped(-q) = -Plan!Snapped(q)
    BY <1>3, <2>1, Zenon
  <2>3. 2 * (q - Plan!Snapped(q)) < Grid
    BY <1>4, <1>7, Zenon
  <2>4. 2 * (Plan!Snapped(q) - q) <= Grid
    BY <2>2
  <2> QED
    BY <2>2, <2>3, <2>4, Zenon
<1>8. q > 0 \/ q < 0 \/ q = 0
  OBVIOUS
<1> QED
  BY <1>5, <1>6, <1>7, <1>8, Zenon

\* A position is put on the grid, no further than half a step from where it
\* is, and alike on both sides of zero (BeatTime::from_f64_grid).
THEOREM SnapsToNearest ==
  ASSUME Plan!PlanConstants, NEW q \in Int
  PROVE  /\ \E k \in Int : Plan!Snapped(q) = Grid * k
         /\ 2 * (Plan!Snapped(q) - q) <= Grid /\ 2 * (q - Plan!Snapped(q)) <= Grid
         /\ Plan!Snapped(-q) = -Plan!Snapped(q)
BY SnapsBy DEF Plan!PlanConstants

\* Of two positions a step of the grid or more apart the later stays later, by
\* a step or more: an item that spans a step is not empty when it is written.
THEOREM StepsStayApart ==
  ASSUME Plan!PlanConstants, NEW p \in Int, NEW q \in Int, q - p >= Grid
  PROVE  Plan!Snapped(q) - Plan!Snapped(p) >= Grid
<1>1. Grid \in Nat \ {0}
  BY DEF Plan!PlanConstants
<1>2. PICK j \in Int : Plan!Snapped(p) = Grid * j
  BY <1>1, SnapsBy
<1>3. PICK k \in Int : Plan!Snapped(q) = Grid * k
  BY <1>1, SnapsBy
<1>4. /\ Plan!Snapped(p) \in Int /\ Plan!Snapped(q) \in Int
      /\ 2 * (Plan!Snapped(p) - p) <= Grid /\ (p <= 0 => 2 * (Plan!Snapped(p) - p) < Grid)
      /\ 2 * (q - Plan!Snapped(q)) <= Grid /\ (q >= 0 => 2 * (q - Plan!Snapped(q)) < Grid)
  BY <1>1, SnapsBy
<1>5. p <= 0 \/ q >= 0
  BY <1>1
<1>6. Plan!Snapped(q) > Plan!Snapped(p)
  BY <1>1, <1>4, <1>5
<1>7. \A g \in Nat \ {0} : \A a, b \in Int : g * a > g * b => g * a - g * b >= g
  OBVIOUS
<1> QED
  BY <1>1, <1>2, <1>3, <1>6, <1>7

\* A note is written inside its item, of some length and with a velocity of
\* MIDI, whatever the candidate had; one that lies in the item stays as it is
\* (planned_note).
THEOREM WrittenInside ==
  ASSUME Plan!PlanConstants, NEW start \in Int, NEW end \in Int, end - start >= Grid,
         NEW n \in [onset : Int, length : Int, pitch : Int, velocity : Int]
  PROVE  LET w == Plan!PlannedNote(n, start, end) IN
         /\ start <= w.start /\ w.start < w.end /\ w.end <= end
         /\ w.pitch = n.pitch /\ w.velocity \in 1..127
         /\ n.onset >= start /\ Plan!NoteEnd(n) <= end /\ n.length > 0 =>
              w.start = n.onset /\ w.end = Plan!NoteEnd(n)
<1>1. Grid \in Nat \ {0}
  BY DEF Plan!PlanConstants
<1>2. /\ n.onset \in Int /\ Plan!NoteEnd(n) \in Int /\ Plan!NoteEnd(n) = n.onset + n.length
      /\ n.length \in Int /\ n.velocity \in Int
  BY DEF Plan!NoteEnd
<1> DEFINE a == Plan!Higher(n.onset, start)
           b == Plan!Lower(Plan!NoteEnd(n), end)
           inside == Plan!Higher(Plan!Lower(a, end - Grid), start)
<1>3. \A x, y : /\ Plan!Written(n, x, y).start = x /\ Plan!Written(n, x, y).end = y
                /\ Plan!Written(n, x, y).pitch = n.pitch
                /\ Plan!Written(n, x, y).velocity = Plan!Lower(Plan!Higher(n.velocity, 1), 127)
  BY DEF Plan!Written
<1>4. Plan!Lower(Plan!Higher(n.velocity, 1), 127) \in 1..127
  <2>1. \A v \in Int : Plan!Lower(Plan!Higher(v, 1), 127) \in 1..127
    BY DEF Plan!Lower, Plan!Higher
  <2> QED
    BY <1>2, <2>1
<1>5. Plan!PlannedNote(n, start, end) = IF b > a THEN Plan!Written(n, a, b)
                                   ELSE Plan!Written(n, inside, inside + Grid)
  BY DEF Plan!PlannedNote
<1>6. a \in Int /\ b \in Int /\ a >= start /\ b <= end
  BY <1>2 DEF Plan!Lower, Plan!Higher
<1>7. inside \in Int /\ inside >= start /\ inside + Grid <= end
  <2> DEFINE low == Plan!Lower(a, end - Grid)
  <2> HIDE DEF a
  <2>1. low \in Int /\ low <= end - Grid
    BY <1>1, <1>6 DEF Plan!Lower
  <2>2. inside = Plan!Higher(low, start)
    OBVIOUS
  <2> HIDE DEF low, inside
  <2>3. inside \in Int /\ inside >= start /\ (inside = low \/ inside = start)
    BY <2>1, <2>2 DEF Plan!Higher
  <2> QED
    BY <1>1, <2>1, <2>3
<1>8. n.onset >= start /\ Plan!NoteEnd(n) <= end /\ n.length > 0 =>
        a = n.onset /\ b = Plan!NoteEnd(n) /\ b > a
  BY <1>2 DEF Plan!Lower, Plan!Higher
<1> HIDE DEF a, b, inside
<1>9. CASE b > a
  BY <1>3, <1>4, <1>5, <1>6, <1>8, <1>9
<1>10. CASE ~(b > a)
  <2>1. inside < inside + Grid
    BY <1>1, <1>7
  <2> QED
    BY <1>3, <1>4, <1>5, <1>7, <1>8, <1>10, <2>1
<1> QED
  BY <1>9, <1>10

-----------------------------------------------------------------------------
(* Induction, and what the recursive functions of the plan builder return: *)
(* the sum of a sequence, the parts that are heard, sequences joined.       *)

\* What holds of 0 and of each number with the one before it holds up to n.
LEMMA Climb ==
  ASSUME NEW n \in Nat, NEW P, 0 \in P, \A k \in 1..n : k - 1 \in P => k \in P
  PROVE  \A k \in 0..n : k \in P
<1> DEFINE Bad == {k \in 0..n : k \notin P}
<1>1. SUFFICES ASSUME Bad # {} PROVE FALSE
  OBVIOUS
<1>2. PICK m \in Bad : \A x \in Bad : m <= x
  <2>1. Bad \in SUBSET Nat
    OBVIOUS
  <2> HIDE DEF Bad
  <2> QED
    <3>1. PICK m \in Bad : \A x \in Bad : ~(<<x, m>> \in OpToRel(<, Nat))
      BY <1>1, <2>1, WFMin, NatLessThanWellFounded
    <3>2. \A x \in Bad : ~(x < m)
      BY <2>1, <3>1 DEF OpToRel
    <3> QED
      BY <2>1, <3>2
<1>3. m \in 0..n /\ m # 0 /\ m \notin P
  BY <1>2
<1>4. m \in 1..n /\ m - 1 \in 0..n
  BY <1>3
<1>5. m - 1 \notin Bad
  BY <1>2, <1>4
<1>6. m - 1 \in P
  BY <1>4, <1>5
<1> QED
  BY <1>3, <1>4, <1>6

\* What starts from base and goes on from each value to the next by h.
Follows(s, n, V, base, h) ==
  s \in [0..n -> V] /\ s[0] = base /\ \A k \in 1..n : s[k] = h[k][s[k - 1]]

\* There is a sequence of values defined by recursion.
LEMMA Recursion ==
  ASSUME NEW n \in Nat, NEW V, NEW base \in V, NEW h \in [1..n -> [V -> V]]
  PROVE  \E s : Follows(s, n, V, base, h)
<1> DEFINE P == {m \in 0..n : \E s : Follows(s, m, V, base, h)}
<1>1. 0 \in P
  <2>1. Follows([k \in 0..0 |-> base], 0, V, base, h)
    BY DEF Follows
  <2> QED
    BY <2>1
<1>2. ASSUME NEW m \in 1..n, m - 1 \in P
      PROVE  m \in P
  <2>1. PICK s : Follows(s, m - 1, V, base, h)
    BY <1>2
  <2>2. m \in Nat /\ m - 1 \in 0..(m - 1) /\ m \notin 0..(m - 1)
    OBVIOUS
  <2>3. h[m][s[m - 1]] \in V
    BY <2>1, <2>2 DEF Follows
  <2> DEFINE t == [k \in 0..m |-> IF k = m THEN h[m][s[m - 1]] ELSE s[k]]
  <2>4. t \in [0..m -> V] /\ t[0] = base
    BY <2>1, <2>2, <2>3 DEF Follows
  <2>5. ASSUME NEW k \in 1..m
        PROVE  t[k] = h[k][t[k - 1]]
    <3>1. k - 1 \in 0..m /\ k - 1 # m /\ k \in 0..m
      BY <2>2
    <3>2. t[k - 1] = s[k - 1]
      BY <3>1
    <3>3. CASE k = m
      BY <3>1, <3>2, <3>3
    <3>4. CASE k # m
      <4>1. k \in 1..(m - 1)
        BY <2>2, <3>4
      <4>2. s[k] = h[k][s[k - 1]]
        BY <2>1, <4>1 DEF Follows
      <4> QED
        BY <3>1, <3>2, <3>4, <4>2
    <3> QED
      BY <3>3, <3>4
  <2>6. Follows(t, m, V, base, h)
    BY <2>4, <2>5 DEF Follows
  <2> HIDE DEF t
  <2> QED
    BY <2>6
<1>3. \A m \in 0..n : m \in P
  <2> HIDE DEF P
  <2>1. \A m \in 1..n : m - 1 \in P => m \in P
    BY <1>2
  <2> QED
    BY <1>1, <2>1, Climb
<1>4. n \in P
  BY <1>3
<1> QED
  BY <1>4

\* A sum is taken one number at a time.
LEMMA TotalSteps ==
  ASSUME NEW f \in Seq(Int)
  PROVE  \E s \in [0..Len(f) -> Int] :
           /\ s[0] = 0 /\ Plan!Total(f) = s[Len(f)]
           /\ \A k \in 1..Len(f) : s[k] = s[k - 1] + f[k]
<1> DEFINE n == Len(f)
           Is(s) == s = [k \in 0..n |-> IF k = 0 THEN 0 ELSE s[k - 1] + f[k]]
           h == [k \in 1..n |-> [v \in Int |-> v + f[k]]]
<1>1. n \in Nat /\ \A k \in 1..n : f[k] \in Int
  OBVIOUS
<1>2. h \in [1..n -> [Int -> Int]]
  BY <1>1
<1>3. \E s : Follows(s, n, Int, 0, h)
  <2>1. 0 \in Int
    OBVIOUS
  <2> HIDE DEF h, n
  <2> QED
    BY <1>1, <1>2, <2>1, Recursion
<1>4. PICK s \in [0..n -> Int] : s[0] = 0 /\ \A k \in 1..n : s[k] = h[k][s[k - 1]]
  BY <1>3 DEF Follows
<1>5. ASSUME NEW k \in 1..n
      PROVE  s[k - 1] \in Int /\ s[k] = s[k - 1] + f[k]
  <2>1. k - 1 \in 0..n
    BY <1>1
  <2>2. s[k - 1] \in Int /\ s[k] = h[k][s[k - 1]]
    BY <1>4, <2>1
  <2>3. h[k][s[k - 1]] = s[k - 1] + f[k]
    BY <2>2
  <2> QED
    BY <2>2, <2>3
<1>6. Is(s)
  <2>1. \A k \in 0..n : s[k] = IF k = 0 THEN 0 ELSE s[k - 1] + f[k]
    BY <1>1, <1>4, <1>5
  <2> QED
    BY <1>4, <2>1
<1>7. Plan!Total(f) = (CHOOSE t : Is(t))[n]
  BY DEF Plan!Total
<1>8. PICK t : t = (CHOOSE u : Is(u))
  OBVIOUS
<1>9. Is(t)
  <2> HIDE DEF Is
  <2> QED
    BY <1>6, <1>8
<1>10. \A k \in 0..n : t[k] = IF k = 0 THEN 0 ELSE t[k - 1] + f[k]
  BY <1>9
<1>11. t[0] = 0 /\ \A k \in 1..n : t[k] = t[k - 1] + f[k]
  BY <1>1, <1>10
<1>12. \A k \in 0..n : t[k] \in Int
  <2> DEFINE P == {k \in 0..n : t[k] \in Int}
  <2>1. 0 \in P
    BY <1>1, <1>11
  <2>2. \A k \in 1..n : k - 1 \in P => k \in P
    BY <1>1, <1>11
  <2>3. \A k \in 0..n : k \in P
    <3> HIDE DEF P
    <3> QED
      BY <1>1, <2>1, <2>2, Climb
  <2> QED
    BY <2>3
<1>13. t \in [0..n -> Int]
  BY <1>9, <1>12
<1> QED
  BY <1>7, <1>8, <1>11, <1>13

\* The sum of a sequence with one number that is not zero is that number.
LEMMA TotalOfOne ==
  ASSUME NEW f \in Seq(Int), NEW p \in DOMAIN f, \A j \in DOMAIN f : j # p => f[j] = 0
  PROVE  Plan!Total(f) = f[p]
<1>1. Len(f) \in Nat /\ DOMAIN f = 1..Len(f) /\ f[p] \in Int
  OBVIOUS
<1>2. PICK s \in [0..Len(f) -> Int] :
           /\ s[0] = 0 /\ Plan!Total(f) = s[Len(f)]
           /\ \A k \in 1..Len(f) : s[k] = s[k - 1] + f[k]
  BY TotalSteps
<1> DEFINE P == {k \in 0..Len(f) : s[k] = IF k < p THEN 0 ELSE f[p]}
<1>3. 0 \in P
  BY <1>1, <1>2
<1>4. ASSUME NEW k \in 1..Len(f), k - 1 \in P
      PROVE  k \in P
  <2>1. s[k] = s[k - 1] + f[k]
    BY <1>2
  <2>2. k = p \/ f[k] = 0
    BY <1>1
  <2> QED
    BY <1>1, <1>4, <2>1, <2>2
<1>5. \A k \in 0..Len(f) : k \in P
  <2> HIDE DEF P
  <2> QED
    BY <1>1, <1>3, <1>4, Climb
<1> QED
  BY <1>1, <1>2, <1>5

\* The sum of zeros is zero.
LEMMA TotalOfNone ==
  ASSUME NEW f \in Seq(Int), \A j \in DOMAIN f : f[j] = 0
  PROVE  Plan!Total(f) = 0
<1>1. Len(f) \in Nat /\ DOMAIN f = 1..Len(f)
  OBVIOUS
<1>2. PICK s \in [0..Len(f) -> Int] :
           /\ s[0] = 0 /\ Plan!Total(f) = s[Len(f)]
           /\ \A k \in 1..Len(f) : s[k] = s[k - 1] + f[k]
  BY TotalSteps
<1> DEFINE P == {k \in 0..Len(f) : s[k] = 0}
<1>3. 0 \in P /\ \A k \in 1..Len(f) : k - 1 \in P => k \in P
  BY <1>1, <1>2
<1>4. \A k \in 0..Len(f) : k \in P
  <2> HIDE DEF P
  <2> QED
    BY <1>1, <1>3, Climb
<1> QED
  BY <1>1, <1>2, <1>4

\* The parts that are heard are picked one at a time.
LEMMA HeardSteps ==
  ASSUME NEW S, NEW c \in Seq(S)
  PROVE  \E s \in [0..Len(c) -> Seq(S)] :
           /\ s[0] = <<>> /\ Plan!Heard(c) = s[Len(c)]
           /\ \A k \in 1..Len(c) :
                s[k] = IF c[k] = <<>> THEN s[k - 1] ELSE Append(s[k - 1], c[k])
<1> DEFINE n == Len(c)
           Is(s) == s = [k \in 0..n |-> IF k = 0 THEN <<>>
                                        ELSE IF c[k] = <<>> THEN s[k - 1]
                                        ELSE Append(s[k - 1], c[k])]
           h == [k \in 1..n |-> [v \in Seq(S) |-> IF c[k] = <<>> THEN v ELSE Append(v, c[k])]]
<1>1. n \in Nat /\ \A k \in 1..n : c[k] \in S
  OBVIOUS
<1>2. h \in [1..n -> [Seq(S) -> Seq(S)]]
  <2>1. ASSUME NEW k \in 1..n, NEW v \in Seq(S)
        PROVE  (IF c[k] = <<>> THEN v ELSE Append(v, c[k])) \in Seq(S)
    <3>1. c[k] \in S
      BY <1>1
    <3>2. Append(v, c[k]) \in Seq(S)
      BY <3>1
    <3> QED
      BY <3>2
  <2> HIDE DEF n
  <2> QED
    BY <2>1
<1>3. \E s : Follows(s, n, Seq(S), <<>>, h)
  <2>1. <<>> \in Seq(S)
    OBVIOUS
  <2> HIDE DEF h, n
  <2> QED
    BY <1>1, <1>2, <2>1, Recursion
<1>4. PICK s \in [0..n -> Seq(S)] : s[0] = <<>> /\ \A k \in 1..n : s[k] = h[k][s[k - 1]]
  BY <1>3 DEF Follows
<1>5. ASSUME NEW k \in 1..n
      PROVE  s[k] = IF c[k] = <<>> THEN s[k - 1] ELSE Append(s[k - 1], c[k])
  <2>1. k - 1 \in 0..n
    BY <1>1
  <2>2. s[k - 1] \in Seq(S) /\ s[k] = h[k][s[k - 1]]
    BY <1>4, <2>1
  <2> QED
    BY <2>2
<1>6. Is(s)
  <2>1. ASSUME NEW k \in 0..n
        PROVE  s[k] = IF k = 0 THEN <<>>
                      ELSE IF c[k] = <<>> THEN s[k - 1] ELSE Append(s[k - 1], c[k])
    <3>1. CASE k = 0
      BY <1>4, <3>1
    <3>2. CASE k # 0
      <4>1. k \in 1..n
        BY <1>1, <3>2
      <4> QED
        BY <1>5, <3>2, <4>1
    <3> QED
      BY <3>1, <3>2
  <2> QED
    BY <1>4, <2>1
<1>7. Plan!Heard(c) = (CHOOSE t : Is(t))[n]
  BY DEF Plan!Heard
<1>8. PICK t : t = (CHOOSE u : Is(u))
  OBVIOUS
<1>9. Is(t)
  <2> HIDE DEF Is
  <2> QED
    BY <1>6, <1>8
<1>10. \A k \in 0..n : t[k] = IF k = 0 THEN <<>>
                              ELSE IF c[k] = <<>> THEN t[k - 1] ELSE Append(t[k - 1], c[k])
  BY <1>9
<1>11. t[0] = <<>> /\ \A k \in 1..n : t[k] = IF c[k] = <<>> THEN t[k - 1] ELSE Append(t[k - 1], c[k])
  BY <1>1, <1>10
<1>12. \A k \in 0..n : t[k] \in Seq(S)
  <2> DEFINE P == {k \in 0..n : t[k] \in Seq(S)}
  <2>1. 0 \in P
    <3>1. 0 \in 0..n /\ <<>> \in Seq(S)
      BY <1>1
    <3> QED
      BY <1>11, <3>1
  <2>2. ASSUME NEW k \in 1..n, k - 1 \in P PROVE k \in P
    <3>1. t[k - 1] \in Seq(S) /\ c[k] \in S /\ k \in 0..n
      BY <1>1, <2>2
    <3>2. t[k] = t[k - 1] \/ t[k] = Append(t[k - 1], c[k])
      BY <1>11
    <3>3. Append(t[k - 1], c[k]) \in Seq(S)
      BY <3>1
    <3>4. t[k] \in Seq(S)
      BY <3>1, <3>2, <3>3
    <3> QED
      BY <3>1, <3>4
  <2>3. \A k \in 1..n : k - 1 \in P => k \in P
    BY <2>2
  <2>4. \A k \in 0..n : k \in P
    <3> HIDE DEF P
    <3> QED
      BY <1>1, <2>1, <2>3, Climb
  <2> QED
    BY <2>4
<1>13. t \in [0..n -> Seq(S)]
  BY <1>9, <1>12
<1> QED
  BY <1>7, <1>8, <1>11, <1>13

\* What is left of the parts are those with notes, and all of them.
LEMMA HeardAre ==
  ASSUME NEW S, NEW c \in Seq(S)
  PROVE  /\ Plan!Heard(c) \in Seq(S)
         /\ ToSet(Plan!Heard(c)) = ToSet(c) \ {<<>>}
<1>1. PICK s \in [0..Len(c) -> Seq(S)] :
           /\ s[0] = <<>> /\ Plan!Heard(c) = s[Len(c)]
           /\ \A k \in 1..Len(c) :
                s[k] = IF c[k] = <<>> THEN s[k - 1] ELSE Append(s[k - 1], c[k])
  BY HeardSteps
<1>2. Len(c) \in Nat /\ DOMAIN c = 1..Len(c)
  OBVIOUS
<1> DEFINE Upto(k) == {c[j] : j \in 1..k} \ {<<>>}
           P == {k \in 0..Len(c) : ToSet(s[k]) = Upto(k)}
<1>3. 0 \in P
  BY <1>1, <1>2 DEF ToSet
<1>4. ASSUME NEW k \in 1..Len(c), k - 1 \in P
      PROVE  k \in P
  <2>0. k - 1 \in 0..Len(c) /\ k \in 0..Len(c)
    BY <1>2
  <2>1. s[k - 1] \in Seq(S) /\ c[k] \in S /\ ToSet(s[k - 1]) = Upto(k - 1)
    <3>1. s[k - 1] \in Seq(S)
      BY <1>1, <2>0
    <3>2. c[k] \in S
      BY <1>2
    <3>3. ToSet(s[k - 1]) = Upto(k - 1)
      <4> HIDE DEF Upto
      <4> QED
        BY <1>4
    <3> QED
      BY <3>1, <3>2, <3>3
  <2>2. {c[j] : j \in 1..k} = {c[j] : j \in 1..(k - 1)} \cup {c[k]}
    <3>1. \A j : j \in 1..k <=> j \in 1..(k - 1) \/ j = k
      BY <1>2
    <3> QED
      BY <3>1
  <2>3. CASE c[k] = <<>>
    <3>1. s[k] = s[k - 1]
      BY <1>1, <2>3
    <3>2. Upto(k) = Upto(k - 1)
      BY <2>2, <2>3
    <3> HIDE DEF Upto
    <3>3. ToSet(s[k]) = Upto(k)
      BY <2>1, <3>1, <3>2
    <3> QED
      BY <2>0, <3>3
  <2>4. CASE c[k] # <<>>
    <3>1. s[k] = Append(s[k - 1], c[k])
      BY <1>1, <2>4
    <3>2. ToSet(s[k]) = ToSet(s[k - 1]) \cup {c[k]}
      <4> DEFINE a == s[k - 1]
      <4> HIDE DEF a
      <4>1. a \in Seq(S)
        BY <2>1 DEF a
      <4>2. ToSet(Append(a, c[k])) = ToSet(a) \cup {c[k]}
        <5>1. /\ Len(Append(a, c[k])) = Len(a) + 1
              /\ \A i \in 1..(Len(a) + 1) : Append(a, c[k])[i] = IF i = Len(a) + 1 THEN c[k] ELSE a[i]
              /\ DOMAIN Append(a, c[k]) = 1..(Len(a) + 1) /\ DOMAIN a = 1..Len(a) /\ Len(a) \in Nat
          BY <2>1, <4>1
        <5>2. \A i : i \in 1..(Len(a) + 1) <=> i \in 1..Len(a) \/ i = Len(a) + 1
          BY <5>1
        <5>3. \A i \in 1..Len(a) : i # Len(a) + 1
          BY <5>1
        <5> QED
          BY <5>1, <5>2, <5>3 DEF ToSet
      <4> QED
        BY <3>1, <4>2 DEF a
    <3>3. Upto(k) = Upto(k - 1) \cup {c[k]}
      BY <2>2, <2>4
    <3> HIDE DEF Upto
    <3>4. ToSet(s[k]) = Upto(k)
      BY <2>1, <3>2, <3>3
    <3> QED
      BY <2>0, <3>4
  <2> QED
    BY <2>3, <2>4
<1>5. \A k \in 0..Len(c) : k \in P
  <2>1. \A k \in 1..Len(c) : k - 1 \in P => k \in P
    BY <1>4
  <2> HIDE DEF P
  <2> QED
    BY <1>2, <1>3, <2>1, Climb
<1>6. ToSet(s[Len(c)]) = Upto(Len(c)) /\ s[Len(c)] \in Seq(S)
  <2>1. Len(c) \in 0..Len(c)
    BY <1>2
  <2>2. s[Len(c)] \in Seq(S)
    BY <2>1
  <2> HIDE DEF Upto
  <2>3. ToSet(s[Len(c)]) = Upto(Len(c))
    BY <1>5, <2>1
  <2> QED
    BY <2>2, <2>3
<1>7. ToSet(c) = {c[j] : j \in 1..Len(c)}
  BY <1>2 DEF ToSet
<1> QED
  BY <1>1, <1>6, <1>7

\* Sequences of one length, two or three, behind each other.
LEMMA Blocks ==
  ASSUME NEW w \in {2, 3}, NEW S, NEW s \in Seq(Seq(S)), s # <<>>,
         \A i \in DOMAIN s : Len(s[i]) = w
  PROVE  /\ FlattenSeq(s) \in Seq(S) /\ Len(FlattenSeq(s)) = w * Len(s)
         /\ \A i \in 1..Len(s), k \in 1..w : FlattenSeq(s)[w * (i - 1) + k] = s[i][k]
<1> DEFINE n == Len(s)
           Is(f) == f = [i \in 1..n |-> IF i = 1 THEN s[i] ELSE f[i - 1] \o s[i]]
           h == [i \in 1..n |-> [v \in Seq(S) |-> IF i = 1 THEN s[i] ELSE v \o s[i]]]
<1>1. n \in Nat \ {0} /\ DOMAIN s = 1..n /\ \A i \in 1..n : s[i] \in Seq(S)
  OBVIOUS
<1>2. h \in [1..n -> [Seq(S) -> Seq(S)]]
  <2>1. ASSUME NEW i \in 1..n, NEW v \in Seq(S)
        PROVE  (IF i = 1 THEN s[i] ELSE v \o s[i]) \in Seq(S)
    <3>1. s[i] \in Seq(S)
      BY <1>1
    <3>2. v \o s[i] \in Seq(S)
      BY <3>1
    <3> QED
      BY <3>1, <3>2
  <2> HIDE DEF n
  <2> QED
    BY <2>1
<1>3. \E f : Follows(f, n, Seq(S), <<>>, h)
  <2>1. <<>> \in Seq(S) /\ n \in Nat
    BY <1>1
  <2> HIDE DEF h, n
  <2> QED
    BY <1>2, <2>1, Recursion
<1>4. PICK g \in [0..n -> Seq(S)] : g[0] = <<>> /\ \A k \in 1..n : g[k] = h[k][g[k - 1]]
  BY <1>3 DEF Follows
<1>5. ASSUME NEW k \in 1..n
      PROVE  g[k] = IF k = 1 THEN s[k] ELSE g[k - 1] \o s[k]
  <2>1. k - 1 \in 0..n
    BY <1>1
  <2>2. g[k - 1] \in Seq(S) /\ g[k] = h[k][g[k - 1]]
    BY <1>4, <2>1
  <2> QED
    BY <2>2
<1> DEFINE f0 == [i \in 1..n |-> g[i]]
<1>6. Is(f0)
  <2>1. ASSUME NEW i \in 1..n
        PROVE  f0[i] = IF i = 1 THEN s[i] ELSE f0[i - 1] \o s[i]
    <3>1. i # 1 => i - 1 \in 1..n
      BY <1>1
    <3>2. i # 1 => f0[i - 1] = g[i - 1]
      BY <3>1
    <3> QED
      BY <1>5, <3>2
  <2> QED
    BY <2>1
<1>7. FlattenSeq(s) = (CHOOSE f : Is(f))[n]
  BY <1>1 DEF FlattenSeq
<1>8. PICK f : f = (CHOOSE u : Is(u))
  OBVIOUS
<1>9. Is(f)
  <2> HIDE DEF Is, f0
  <2> QED
    BY <1>6, <1>8
<1>10. \A i \in 1..n : f[i] = IF i = 1 THEN s[i] ELSE f[i - 1] \o s[i]
  BY <1>9
<1> DEFINE Good(j, v) == /\ v \in Seq(S) /\ Len(v) = w * j
                         /\ \A i \in 1..j, k \in 1..w : v[w * (i - 1) + k] = s[i][k]
           P == {j \in 0..n : j = 0 \/ Good(j, f[j])}
<1>11. ASSUME NEW j \in 1..n, j - 1 \in P
       PROVE  j \in P
  <2>1. s[j] \in Seq(S) /\ Len(s[j]) = w /\ j \in Nat /\ j \in 0..n
    <3>1. s[j] \in Seq(S) /\ j \in DOMAIN s
      BY <1>1
    <3>2. j \in Nat /\ j \in 0..n
      BY <1>1
    <3> QED
      BY <3>1, <3>2
  <2>2. CASE j = 1
    <3>1. f[j] = s[j]
      BY <1>10, <2>2
    <3>2. w * 1 = w /\ \A i \in 1..1, k \in 1..w : i = 1 /\ w * (i - 1) + k = k
      OBVIOUS
    <3>3. w * j = w
      BY <2>2, <3>2
    <3>4. Good(j, f[j])
      BY <2>1, <2>2, <3>1, <3>2, <3>3
    <3> HIDE DEF Good
    <3> QED
      BY <2>1, <3>4
  <2>3. CASE j # 1
    <3>1. f[j] = f[j - 1] \o s[j] /\ Good(j - 1, f[j - 1])
      <4>1. f[j] = f[j - 1] \o s[j]
        BY <1>10, <2>3
      <4>2. j - 1 # 0
        BY <2>1, <2>3
      <4>3. Good(j - 1, f[j - 1])
        <5> HIDE DEF Good
        <5> QED
          BY <1>11, <4>2
      <4> QED
        BY <4>1, <4>3
    <3> DEFINE v == f[j - 1]
    <3> HIDE DEF v
    <3>2. v \in Seq(S) /\ Len(v) = w * (j - 1)
          /\ \A i \in 1..(j - 1), k \in 1..w : v[w * (i - 1) + k] = s[i][k]
      BY <3>1 DEF v
    <3>3. v \o s[j] \in Seq(S) /\ Len(v \o s[j]) = w * (j - 1) + w
          /\ \A x \in 1..(w * (j - 1) + w) :
               (v \o s[j])[x] = IF x <= w * (j - 1) THEN v[x] ELSE s[j][x - w * (j - 1)]
      <4>1. PICK t : t = s[j]
        OBVIOUS
      <4>2. t \in Seq(S) /\ Len(t) = w
        BY <2>1, <4>1
      <4>3. /\ v \o t \in Seq(S) /\ Len(v \o t) = Len(v) + Len(t)
            /\ \A x \in 1..(Len(v) + Len(t)) :
                 (v \o t)[x] = IF x <= Len(v) THEN v[x] ELSE t[x - Len(v)]
        BY <3>2, <4>2, ConcatProperties
      <4> QED
        BY <3>2, <4>1, <4>2, <4>3, Zenon
    <3>4. w * (j - 1) + w = w * j
      BY <2>1
    <3>5. ASSUME NEW i \in 1..j, NEW k \in 1..w
          PROVE  (v \o s[j])[w * (i - 1) + k] = s[i][k]
      <4>1. w * (i - 1) + k \in 1..(w * (j - 1) + w)
        BY <2>1
      <4>2. CASE i = j
        <5>1. ~(w * (i - 1) + k <= w * (j - 1)) /\ (w * (i - 1) + k) - w * (j - 1) = k
          BY <2>1, <4>2
        <5> QED
          BY <3>3, <4>1, <4>2, <5>1
      <4>3. CASE i # j
        <5>1. i \in 1..(j - 1) /\ w * (i - 1) + k <= w * (j - 1)
          BY <2>1, <4>3
        <5> QED
          BY <3>2, <3>3, <4>1, <5>1
      <4> QED
        BY <4>2, <4>3
    <3>6. Good(j, v \o s[j])
      BY <3>3, <3>4, <3>5
    <3>7. v \o s[j] = f[j]
      BY <3>1 DEF v
    <3>8. Good(j, f[j])
      <4> HIDE DEF Good
      <4> QED
        BY <3>6, <3>7
    <3> HIDE DEF Good
    <3> QED
      BY <2>1, <3>8
  <2> QED
    BY <2>2, <2>3
<1>12. \A j \in 0..n : j \in P
  <2>1. \A j \in 1..n : j - 1 \in P => j \in P
    BY <1>11
  <2>2. 0 \in P /\ n \in Nat
    BY <1>1
  <2> HIDE DEF P, n
  <2> QED
    BY <2>1, <2>2, Climb
<1>13. Good(n, f[n])
  BY <1>1, <1>12
<1> QED
  BY <1>7, <1>8, <1>13

-----------------------------------------------------------------------------
(* Finite sets of positions: the span of a plan.                           *)

\* The image of a finite set is finite and not larger.
LEMMA ImageOf ==
  ASSUME NEW S, IsFiniteSet(S), NEW f, DOMAIN f = S
  PROVE  IsFiniteSet({f[x] : x \in S}) /\ Cardinality({f[x] : x \in S}) <= Cardinality(S)
<1> DEFINE T == {f[x] : x \in S}
           g == [x \in S |-> f[x]]
<1>1. g \in Surjection(S, T)
  BY DEF Surjection
<1> HIDE DEF T, g
<1>2. IsFiniteSet(T) /\ Cardinality(T) <= Cardinality(S)
  BY <1>1, FS_Surjection
<1> QED
  BY <1>2 DEF T

\* A finite set of integers that is not empty has a least and a greatest.
LEMMA HasEnds ==
  ASSUME NEW S \in SUBSET Int, IsFiniteSet(S), S # {}
  PROVE  /\ \E m \in S : \A x \in S : m <= x
         /\ \E m \in S : \A x \in S : m >= x
<1> DEFINE Ends(T) == /\ \E m \in T : \A x \in T : m <= x
                      /\ \E m \in T : \A x \in T : m >= x
           P == {k \in 0..Cardinality(S) :
                   \A T \in SUBSET S : Cardinality(T) = k /\ T # {} => Ends(T)}
<1>1. Cardinality(S) \in Nat
  BY FS_CardinalityType
<1>2. \A T \in SUBSET S : IsFiniteSet(T)
  BY FS_Subset
<1>3. 0 \in P
  BY <1>1, <1>2, FS_EmptySet
<1>4. ASSUME NEW k \in 1..Cardinality(S), k - 1 \in P
      PROVE  k \in P
  <2>1. SUFFICES ASSUME NEW T \in SUBSET S, Cardinality(T) = k, T # {} PROVE Ends(T)
    BY <1>1
  <2>2. PICK t \in T : TRUE
    BY <2>1
  <2>3. Cardinality(T \ {t}) = k - 1 /\ T \ {t} \in SUBSET S
    BY <1>2, <2>1, FS_RemoveElement
  <2>4. CASE T \ {t} = {}
    <3>1. t \in Int /\ \A x \in T : x = t
      BY <2>2, <2>4
    <3> QED
      BY <2>2, <3>1
  <2>5. CASE T \ {t} # {}
    <3>1. Ends(T \ {t})
      <4> HIDE DEF Ends
      <4> QED
        BY <1>4, <2>3, <2>5
    <3>2. PICK a \in T \ {t} : \A x \in T \ {t} : a <= x
      BY <3>1
    <3>3. PICK b \in T \ {t} : \A x \in T \ {t} : b >= x
      BY <3>1
    <3>4. T \in SUBSET Int /\ t \in Int /\ a \in Int /\ b \in Int
      OBVIOUS
    <3>5. \E m \in T : \A x \in T : m <= x
      <4>1. CASE a <= t
        BY <3>2, <3>4, <4>1
      <4>2. CASE t <= a
        <5>1. \A x \in T : t <= x
          BY <3>2, <3>4, <4>2
        <5> QED
          BY <5>1
      <4> QED
        BY <3>4, <4>1, <4>2
    <3>6. \E m \in T : \A x \in T : m >= x
      <4>1. CASE b >= t
        BY <3>3, <3>4, <4>1
      <4>2. CASE t >= b
        <5>1. \A x \in T : t >= x
          BY <3>3, <3>4, <4>2
        <5> QED
          BY <5>1
      <4> QED
        BY <3>4, <4>1, <4>2
    <3> QED
      BY <3>5, <3>6
  <2> QED
    BY <2>4, <2>5
<1>5. Cardinality(S) \in P
  <2>1. \A k \in 1..Cardinality(S) : k - 1 \in P => k \in P
    BY <1>4
  <2> HIDE DEF P
  <2>2. \A k \in 0..Cardinality(S) : k \in P
    BY <1>1, <1>3, <2>1, Climb
  <2> QED
    BY <1>1, <2>2
<1>6. Ends(S)
  <2> HIDE DEF Ends
  <2> QED
    BY <1>5
<1> QED
  BY <1>6

\* A candidate has finitely many notes.
LEMMA NotesFinite ==
  ASSUME NEW S, NEW parts \in Seq(Seq(S))
  PROVE  IsFiniteSet(Plan!NotesOf(parts)) /\ Plan!NotesOf(parts) \subseteq S
<1>1. DOMAIN parts = 1..Len(parts) /\ Len(parts) \in Nat
      /\ \A i \in DOMAIN parts : parts[i] \in Seq(S)
  OBVIOUS
<1>2. ASSUME NEW p \in Seq(S)
      PROVE  IsFiniteSet(ToSet(p)) /\ ToSet(p) \subseteq S
  <2>1. DOMAIN p = 1..Len(p) /\ Len(p) \in Nat
    OBVIOUS
  <2>2. IsFiniteSet(DOMAIN p)
    BY <2>1, FS_Interval
  <2>3. IsFiniteSet({p[i] : i \in DOMAIN p})
    BY <2>2, ImageOf
  <2>4. ToSet(p) = {p[i] : i \in DOMAIN p}
    BY DEF ToSet
  <2> QED
    BY <2>3, <2>4
<1> DEFINE f == [i \in DOMAIN parts |-> ToSet(parts[i])]
           U == {f[i] : i \in DOMAIN parts}
<1>3. IsFiniteSet(U)
  <2>1. IsFiniteSet(DOMAIN parts)
    BY <1>1, FS_Interval
  <2>2. DOMAIN f = DOMAIN parts
    OBVIOUS
  <2> HIDE DEF f
  <2> QED
    BY <2>1, <2>2, ImageOf
<1>4. \A T \in U : IsFiniteSet(T) /\ T \subseteq S
  BY <1>1, <1>2
<1>5. Plan!NotesOf(parts) = UNION U
  BY DEF Plan!NotesOf, Plan!ToSet, ToSet
<1> HIDE DEF U
<1>6. IsFiniteSet(UNION U)
  BY <1>3, <1>4, FS_UNION
<1> QED
  BY <1>4, <1>5, <1>6

\* The span of a plan holds the source item and every note.
LEMMA SpanHolds ==
  ASSUME NEW item, item.start \in Int, item.end \in Int,
         NEW parts \in Seq(Seq(LastingNote)), Grid \in Nat
  PROVE  /\ Plan!SpanStart(item, parts) \in Int /\ Plan!SpanEnd(item, parts) \in Int
         /\ Plan!SpanStart(item, parts) <= item.start /\ item.end <= Plan!SpanEnd(item, parts)
         /\ \A n \in Plan!NotesOf(parts) :
              Plan!SpanStart(item, parts) <= n.onset /\ Plan!NoteEnd(n) <= Plan!SpanEnd(item, parts)
<1> DEFINE N == Plan!NotesOf(parts)
           f == [n \in N |-> n.onset]
           g == [n \in N |-> Plan!NoteEnd(n)]
           A == {item.start} \cup {n.onset : n \in N}
           B == {item.end} \cup {Plan!NoteEnd(n) : n \in N}
<1>1. IsFiniteSet(N) /\ N \subseteq LastingNote
  BY NotesFinite
<1>2. \A n \in N : n.onset \in Int /\ Plan!NoteEnd(n) \in Int
  BY <1>1 DEF LastingNote, Plan!NoteEnd
<1>3. A \in SUBSET Int /\ B \in SUBSET Int /\ A # {} /\ B # {}
  BY <1>2
<1>4. {n.onset : n \in N} = {f[n] : n \in N} /\ {Plan!NoteEnd(n) : n \in N} = {g[n] : n \in N}
  OBVIOUS
<1>5. IsFiniteSet({f[n] : n \in N}) /\ IsFiniteSet({g[n] : n \in N})
  <2>1. DOMAIN f = N /\ DOMAIN g = N
    OBVIOUS
  <2> HIDE DEF f, g, N
  <2> QED
    BY <1>1, <2>1, ImageOf
<1>6. IsFiniteSet(A) /\ IsFiniteSet(B)
  <2> HIDE DEF f, g
  <2>1. A = {f[n] : n \in N} \cup {item.start} /\ B = {g[n] : n \in N} \cup {item.end}
    BY <1>4
  <2> QED
    BY <1>5, <2>1, FS_AddElement
<1>7. Plan!SpanStart(item, parts) = CHOOSE x \in A : \A y \in A : x <= y
  BY DEF Plan!SpanStart, Plan!Min
<1>8. Plan!SpanEnd(item, parts) = CHOOSE x \in B : \A y \in B : x >= y
  BY DEF Plan!SpanEnd, Plan!Max
<1>9. \A n \in N : n.onset \in A /\ Plan!NoteEnd(n) \in B
  OBVIOUS
<1>10. item.start \in A /\ item.end \in B
  OBVIOUS
<1> HIDE DEF A, B
<1>11. (\E x \in A : \A y \in A : x <= y) /\ \E x \in B : \A y \in B : x >= y
  BY <1>3, <1>6, HasEnds
<1> DEFINE a == Plan!SpanStart(item, parts)
           b == Plan!SpanEnd(item, parts)
<1>12. a \in A /\ \A y \in A : a <= y
  BY <1>7, <1>11
<1>13. b \in B /\ \A y \in B : b >= y
  BY <1>8, <1>11
<1> HIDE DEF a, b
<1>14. a \in Int /\ b \in Int /\ a <= item.start /\ item.end <= b
  BY <1>3, <1>10, <1>12, <1>13
<1>15. \A n \in N : a <= n.onset /\ Plan!NoteEnd(n) <= b
  BY <1>3, <1>9, <1>12, <1>13
<1> QED
  BY <1>14, <1>15 DEF a, b

-----------------------------------------------------------------------------
(* How the operations and the outputs of a plan lie.                       *)

IsFolder(o) == /\ o.op = "create_folder_track" /\ o.id = <<"f", 0>>
               /\ o.ref = <<"none", 0>> /\ o.notes = <<>>
IsTrack(o, i) == /\ o.op = "create_track" /\ o.id = <<"t", i - 1>>
                 /\ o.ref = <<"f", 0>> /\ o.notes = <<>>
IsItem(o, i, start, end) == /\ o.op = "create_midi_item" /\ o.id = <<"i", i - 1>>
                            /\ o.ref = <<"t", i - 1>> /\ o.notes = <<>>
                            /\ o.start = start /\ o.end = end
IsInsert(o, i, part, start, end) ==
  /\ o.op = "insert_notes" /\ o.id = <<"none", 0>> /\ o.ref = <<"i", i - 1>>
  /\ o.notes = [k \in DOMAIN part |-> Plan!PlannedNote(part[k], start, end)]
IsRegion(o, start, end) == /\ o.op = "create_region" /\ o.id = <<"r", 0>>
                           /\ o.ref = <<"none", 0>> /\ o.notes = <<>>
                           /\ o.start = start /\ o.end = end
IsSend(o) == /\ o.op = "create_midi_send" /\ o.id = <<"s", 0>>
             /\ o.ref = <<"t", 0>> /\ o.notes = <<>>

One(flag, options) == IF flag \in options THEN 1 ELSE 0

\* How the operations of a plan lie: a folder, three for each part, a region and
\* a send if they are wanted.
Laid(ops, parts, start, end, options) ==
  /\ DOMAIN ops = 1..Len(ops)
  /\ Len(ops) = 3 * Len(parts) + 1 + One("region", options) + One("route", options)
  /\ IsFolder(ops[1])
  /\ \A i \in 1..Len(parts) : /\ IsTrack(ops[3 * i - 1], i)
                              /\ IsItem(ops[3 * i], i, start, end)
                              /\ IsInsert(ops[3 * i + 1], i, parts[i], start, end)
  /\ "region" \in options => IsRegion(ops[3 * Len(parts) + 2], start, end)
  /\ "route" \in options => IsSend(ops[3 * Len(parts) + 2 + One("region", options)])

Optional(flag, options, x, s) ==
  /\ s \in Seq({x}) /\ Len(s) = One(flag, options)
  /\ flag \in options => s[1] = x

LEMMA OptionalIs ==
  ASSUME NEW flag, NEW options, NEW x
  PROVE  Optional(flag, options, x, IF flag \in options THEN <<x>> ELSE <<>>)
<1>1. <<x>> \in Seq({x}) /\ Len(<<x>>) = 1 /\ <<x>>[1] = x
  OBVIOUS
<1>2. <<>> \in Seq({x}) /\ Len(<<>>) = 0
  OBVIOUS
<1>3. CASE flag \in options
  BY <1>1, <1>3, Zenon DEF Optional, One
<1>4. CASE flag \notin options
  <2>1. One(flag, options) = 0
    BY <1>4 DEF One
  <2>2. PICK s : s = (IF flag \in options THEN <<x>> ELSE <<>>) /\ s = <<>>
    BY <1>4
  <2>3. Optional(flag, options, x, s)
    BY <1>2, <1>4, <2>1, <2>2 DEF Optional
  <2> QED
    BY <2>2, <2>3
<1> QED
  BY <1>3, <1>4

\* One at the head, a body, and two more that are there when they are wanted.
Joined(whole, head, body, flag, x, mark, y, options) ==
  /\ DOMAIN whole = 1..Len(whole)
  /\ Len(whole) = 1 + Len(body) + One(flag, options) + One(mark, options)
  /\ whole[1] = head
  /\ \A j \in 1..Len(body) : whole[j + 1] = body[j]
  /\ flag \in options => whole[Len(body) + 2] = x
  /\ mark \in options => whole[Len(body) + 2 + One(flag, options)] = y

\* What is joined is found again at its place.
LEMMA JoinedIs ==
  ASSUME NEW V, NEW body \in Seq(V), NEW head, NEW x, NEW y, NEW options, NEW flag, NEW mark,
         NEW g, Optional(flag, options, x, g), NEW h, Optional(mark, options, y, h)
  PROVE  Joined(<<head>> \o body \o g \o h, head, body, flag, x, mark, y, options)
<1> DEFINE W == V \cup {head, x, y}
           a == One(flag, options)
           b == One(mark, options)
           n == Len(body)
<1>1. a \in {0, 1} /\ b \in {0, 1} /\ n \in Nat
      /\ (flag \in options => a = 1) /\ (mark \in options => b = 1)
  BY DEF One
<1>2. \A T \in SUBSET W : \A q \in Seq(T) : q \in Seq(W)
  OBVIOUS
<1>3. <<head>> \in Seq(W) /\ Len(<<head>>) = 1 /\ <<head>>[1] = head
  OBVIOUS
<1>4. V \in SUBSET W /\ {x} \in SUBSET W /\ {y} \in SUBSET W
  OBVIOUS
<1> HIDE DEF W, a, b, n
<1>5. body \in Seq(W) /\ Len(body) = n
  BY <1>2, <1>4 DEF n
<1>6. g \in Seq(W) /\ Len(g) = a /\ (flag \in options => g[1] = x)
  BY <1>2, <1>4 DEF Optional, a
<1>7. h \in Seq(W) /\ Len(h) = b /\ (mark \in options => h[1] = y)
  BY <1>2, <1>4 DEF Optional, b
<1>8. PICK p : p = <<head>> \o body
  OBVIOUS
<1>9. /\ p \in Seq(W) /\ Len(p) = 1 + n /\ p[1] = head
      /\ \A j \in 1..n : p[j + 1] = body[j]
  <2>1. \A j \in 1..(1 + n) : p[j] = IF j <= 1 THEN <<head>>[j] ELSE body[j - 1]
    BY <1>3, <1>5, <1>8, ConcatProperties
  <2>2. p \in Seq(W) /\ Len(p) = 1 + n
    BY <1>3, <1>5, <1>8, ConcatProperties
  <2>3. 1 \in 1..(1 + n) /\ \A j \in 1..n : j + 1 \in 1..(1 + n) /\ ~(j + 1 <= 1) /\ (j + 1) - 1 = j
    BY <1>1
  <2> QED
    BY <1>3, <2>1, <2>2, <2>3
<1>10. PICK q : q = p \o g
  OBVIOUS
<1>11. /\ q \in Seq(W) /\ Len(q) = 1 + n + a
       /\ \A j \in 1..(1 + n) : q[j] = p[j]
       /\ flag \in options => q[n + 2] = x
  <2>1. \A j \in 1..((1 + n) + a) : q[j] = IF j <= 1 + n THEN p[j] ELSE g[j - (1 + n)]
    <3>1. \A j \in 1..(Len(p) + Len(g)) : (p \o g)[j] = IF j <= Len(p) THEN p[j] ELSE g[j - Len(p)]
      BY <1>6, <1>9, ConcatProperties
    <3> QED
      BY <1>6, <1>9, <1>10, <3>1, Zenon
  <2>2. q \in Seq(W) /\ Len(q) = (1 + n) + a
    BY <1>6, <1>9, <1>10, ConcatProperties
  <2>3. \A j \in 1..(1 + n) : j \in 1..((1 + n) + a) /\ j <= 1 + n
    BY <1>1
  <2>4. a = 1 => n + 2 \in 1..((1 + n) + a) /\ ~(n + 2 <= 1 + n) /\ (n + 2) - (1 + n) = 1
    BY <1>1
  <2> QED
    BY <1>1, <1>6, <2>1, <2>2, <2>3, <2>4
<1>12. PICK r : r = q \o h
  OBVIOUS
<1>13. /\ r \in Seq(W) /\ Len(r) = 1 + n + a + b
       /\ \A j \in 1..(1 + n + a) : r[j] = q[j]
       /\ mark \in options => r[n + 2 + a] = y
  <2>1. \A j \in 1..((1 + n + a) + b) : r[j] = IF j <= 1 + n + a THEN q[j] ELSE h[j - (1 + n + a)]
    BY <1>7, <1>11, <1>12, ConcatProperties
  <2>2. r \in Seq(W) /\ Len(r) = (1 + n + a) + b
    BY <1>7, <1>11, <1>12, ConcatProperties
  <2>3. \A j \in 1..(1 + n + a) : j \in 1..((1 + n + a) + b) /\ j <= 1 + n + a
    BY <1>1
  <2>4. b = 1 => /\ n + 2 + a \in 1..((1 + n + a) + b) /\ ~(n + 2 + a <= 1 + n + a)
                 /\ (n + 2 + a) - (1 + n + a) = 1
    BY <1>1
  <2> QED
    BY <1>1, <1>7, <2>1, <2>2, <2>3, <2>4
<1>14. /\ 1 \in 1..(1 + n) /\ 1 \in 1..(1 + n + a)
       /\ \A j \in 1..n : j + 1 \in 1..(1 + n) /\ j + 1 \in 1..(1 + n + a)
       /\ a = 1 => n + 2 \in 1..(1 + n + a)
  BY <1>1
<1>15. DOMAIN r = 1..Len(r)
  BY <1>13
<1>16. /\ Len(r) = 1 + n + a + b /\ r[1] = head
       /\ \A j \in 1..n : r[j + 1] = body[j]
       /\ flag \in options => r[n + 2] = x
  BY <1>1, <1>9, <1>11, <1>13, <1>14
<1>17. r = <<head>> \o body \o g \o h
  BY <1>8, <1>10, <1>12
<1>18. Joined(r, head, body, flag, x, mark, y, options)
  BY <1>13, <1>15, <1>16, Zenon DEF Joined, n, a, b
<1> QED
  BY <1>17, <1>18

\* The fields of an operation are what it was made of.
LEMMA OperationIs ==
  ASSUME NEW op, NEW id, NEW ref, NEW from, NEW to, NEW notes
  PROVE  LET o == Plan!Operation(op, id, ref, from, to, notes) IN
         /\ o.op = op /\ o.id = id /\ o.ref = ref
         /\ o.start = from /\ o.end = to /\ o.notes = notes
  BY DEF Plan!Operation

\* A part has a track, an item and an insertion of its notes.
LEMMA PartIs ==
  ASSUME NEW part, NEW i \in Nat \ {0}, NEW start, NEW end
  PROVE  LET s == Plan!PartOperations(part, i - 1, start, end) IN
         /\ Len(s) = 3 /\ DOMAIN s = 1..3
         /\ IsTrack(s[1], i) /\ IsItem(s[2], i, start, end) /\ IsInsert(s[3], i, part, start, end)
<1> DEFINE a == Plan!Operation("create_track", <<"t", i - 1>>, <<"f", 0>>, 0, 0, <<>>)
           b == Plan!Operation("create_midi_item", <<"i", i - 1>>, <<"t", i - 1>>, start, end, <<>>)
           c == Plan!Operation("insert_notes", Plan!NoId, <<"i", i - 1>>, 0, 0,
                  [k \in DOMAIN part |-> Plan!PlannedNote(part[k], start, end)])
           s == Plan!PartOperations(part, i - 1, start, end)
<1>1. s = <<a, b, c>>
  BY DEF Plan!PartOperations
<1>2. IsTrack(a, i)
  BY OperationIs DEF IsTrack
<1>3. IsItem(b, i, start, end)
  BY OperationIs DEF IsItem
<1>4. IsInsert(c, i, part, start, end)
  BY OperationIs DEF IsInsert, Plan!NoId
<1> HIDE DEF a, b, c, s
<1>5. Len(s) = 3 /\ DOMAIN s = 1..3 /\ s[1] = a /\ s[2] = b /\ s[3] = c
  BY <1>1
<1> QED
  BY <1>2, <1>3, <1>4, <1>5 DEF s

\* The operations build_plan makes lie like that.
LEMMA OperationsLaid ==
  ASSUME NEW S, NEW parts \in Seq(S), parts # <<>>, NEW start, NEW end, NEW options
  PROVE  Laid(Plan!Operations(parts, start, end, options), parts, start, end, options)
<1> DEFINE n == Len(parts)
           s == [i \in DOMAIN parts |-> Plan!PartOperations(parts[i], i - 1, start, end)]
           V == {s[i][k] : i \in 1..n, k \in 1..3}
           folder == Plan!Operation("create_folder_track", <<"f", 0>>, Plan!NoId, 0, 0, <<>>)
           region == Plan!Operation("create_region", <<"r", 0>>, Plan!NoId, start, end, <<>>)
           send == Plan!Operation("create_midi_send", <<"s", 0>>, <<"t", 0>>, 0, 0, <<>>)
           F == FlattenSeq(s)
           G == IF "region" \in options THEN <<region>> ELSE <<>>
           H == IF "route" \in options THEN <<send>> ELSE <<>>
           ops == Plan!Operations(parts, start, end, options)
<1>1. n \in Nat \ {0} /\ DOMAIN parts = 1..n
  OBVIOUS
<1>2. ops = <<folder>> \o F \o G \o H
  BY DEF Plan!Operations, Plan!FlattenSeq, FlattenSeq
<1>3. IsFolder(folder) /\ IsRegion(region, start, end) /\ IsSend(send)
  BY OperationIs DEF IsFolder, IsRegion, IsSend, Plan!NoId
<1>4. ASSUME NEW i \in 1..n
      PROVE  /\ Len(s[i]) = 3 /\ DOMAIN s[i] = 1..3
             /\ IsTrack(s[i][1], i) /\ IsItem(s[i][2], i, start, end)
             /\ IsInsert(s[i][3], i, parts[i], start, end)
  <2>1. s[i] = Plan!PartOperations(parts[i], i - 1, start, end) /\ i \in Nat \ {0}
    BY <1>1
  <2> QED
    BY <2>1, PartIs
<1>5. s \in Seq(Seq(V)) /\ Len(s) = n /\ DOMAIN s = 1..n
  <2>1. DOMAIN s = 1..n /\ \A i \in 1..n : s[i] = <<s[i][1], s[i][2], s[i][3]>>
    BY <1>1 DEF Plan!PartOperations
  <2> HIDE DEF s
  <2>2. \A i \in 1..n, k \in 1..3 : s[i][k] \in V
    OBVIOUS
  <2> HIDE DEF V, n
  <2>3. ASSUME NEW i \in 1..n PROVE s[i] \in Seq(V)
    <3>1. PICK a, b, c : a = s[i][1] /\ b = s[i][2] /\ c = s[i][3]
      OBVIOUS
    <3>2. a \in V /\ b \in V /\ c \in V
      BY <2>2, <3>1
    <3>3. <<a, b, c>> \in Seq(V)
      BY <3>2
    <3>4. s[i] = <<a, b, c>>
      BY <2>1, <3>1
    <3> QED
      BY <3>3, <3>4
  <2>4. s \in [1..n -> Seq(V)]
    <3>1. s = [i \in 1..n |-> s[i]]
      <4> USE DEF s
      <4>1. DOMAIN parts = 1..n
        BY <1>1
      <4> QED
        BY <4>1
    <3> QED
      BY <2>3, <3>1
  <2> QED
    BY <1>1, <2>1, <2>4
<1> HIDE DEF V, s, n, F, folder, region, send, G, H, ops
<1>6. F \in Seq(V) /\ Len(F) = 3 * n
      /\ \A i \in 1..n, k \in 1..3 : F[3 * (i - 1) + k] = s[i][k]
  <2>1. s # <<>> /\ \A i \in DOMAIN s : Len(s[i]) = 3
    BY <1>1, <1>4, <1>5
  <2>2. 3 \in {2, 3}
    OBVIOUS
  <2>3. F \in Seq(V) /\ Len(F) = 3 * Len(s)
        /\ \A i \in 1..Len(s), k \in 1..3 : F[3 * (i - 1) + k] = s[i][k]
    BY <1>5, <2>1, <2>2, Blocks DEF F
  <2> QED
    BY <1>5, <2>3
<1>7. Optional("region", options, region, G)
  BY OptionalIs DEF G
<1>8. Optional("route", options, send, H)
  BY OptionalIs DEF H
<1>9. Joined(ops, folder, F, "region", region, "route", send, options)
  BY <1>2, <1>6, <1>7, <1>8, JoinedIs
<1>10. /\ ops[1] = folder
       /\ Len(ops) = 1 + 3 * n + One("region", options) + One("route", options)
       /\ DOMAIN ops = 1..Len(ops)
       /\ \A j \in 1..(3 * n) : ops[j + 1] = F[j]
       /\ "region" \in options => ops[3 * n + 2] = region
       /\ "route" \in options => ops[3 * n + 2 + One("region", options)] = send
  BY <1>6, <1>9 DEF Joined
<1>11. ASSUME NEW i \in 1..n
       PROVE  ops[3 * i - 1] = s[i][1] /\ ops[3 * i] = s[i][2] /\ ops[3 * i + 1] = s[i][3]
  <2>1. \A k \in 1..3 : 3 * (i - 1) + k \in 1..(3 * n)
    BY <1>1
  <2>2. /\ (3 * (i - 1) + 1) + 1 = 3 * i - 1 /\ (3 * (i - 1) + 2) + 1 = 3 * i
        /\ (3 * (i - 1) + 3) + 1 = 3 * i + 1 /\ 1 \in 1..3 /\ 2 \in 1..3 /\ 3 \in 1..3
    BY <1>1
  <2> QED
    BY <1>6, <1>10, <2>1, <2>2
<1>12. Len(ops) = 3 * n + 1 + One("region", options) + One("route", options)
  BY <1>1, <1>10 DEF One
<1>13. Len(parts) = n
  BY DEF n
<1>14. Laid(ops, parts, start, end, options)
  BY <1>3, <1>4, <1>10, <1>11, <1>12, <1>13, Zenon DEF Laid
<1> QED
  BY <1>14 DEF ops

Output(id, what, count) == [id |-> id, kind |-> what, count |-> count]

\* How the outputs of a plan lie.
Announced(expected, parts, options) ==
  /\ DOMAIN expected = 1..Len(expected)
  /\ Len(expected) = 2 * Len(parts) + 1 + One("region", options) + One("route", options)
  /\ expected[1] = Output(<<"f", 0>>, "folder_track", -1)
  /\ \A i \in 1..Len(parts) :
       /\ expected[2 * i] = Output(<<"t", i - 1>>, "track", -1)
       /\ expected[2 * i + 1] = Output(<<"i", i - 1>>, "midi_item", Len(parts[i]))
  /\ "region" \in options =>
       expected[2 * Len(parts) + 2] = Output(<<"r", 0>>, "region", -1)
  /\ "route" \in options =>
       expected[2 * Len(parts) + 2 + One("region", options)] = Output(<<"s", 0>>, "send", -1)

\* The outputs build_plan announces lie like that.
LEMMA ExpectedLaid ==
  ASSUME NEW S, NEW parts \in Seq(S), parts # <<>>, NEW options
  PROVE  Announced(Plan!Expected(parts, options), parts, options)
<1> DEFINE n == Len(parts)
           s == [i \in DOMAIN parts |->
                   << [id |-> <<"t", i - 1>>, kind |-> "track", count |-> -1],
                      [id |-> <<"i", i - 1>>, kind |-> "midi_item", count |-> Len(parts[i])] >>]
           V == {s[i][k] : i \in 1..n, k \in 1..2}
           folder == [id |-> <<"f", 0>>, kind |-> "folder_track", count |-> -1]
           region == [id |-> <<"r", 0>>, kind |-> "region", count |-> -1]
           send == [id |-> <<"s", 0>>, kind |-> "send", count |-> -1]
           F == FlattenSeq(s)
           G == IF "region" \in options THEN <<region>> ELSE <<>>
           H == IF "route" \in options THEN <<send>> ELSE <<>>
           e == Plan!Expected(parts, options)
<1>1. n \in Nat \ {0} /\ DOMAIN parts = 1..n
  OBVIOUS
<1>2. e = <<folder>> \o F \o G \o H
  BY DEF Plan!Expected, Plan!FlattenSeq, FlattenSeq
<1>3. /\ folder = Output(<<"f", 0>>, "folder_track", -1)
      /\ region = Output(<<"r", 0>>, "region", -1) /\ send = Output(<<"s", 0>>, "send", -1)
  BY DEF Output
<1>4. ASSUME NEW i \in 1..n
      PROVE  /\ Len(s[i]) = 2 /\ DOMAIN s[i] = 1..2 /\ s[i] = <<s[i][1], s[i][2]>>
             /\ s[i][1] = Output(<<"t", i - 1>>, "track", -1)
             /\ s[i][2] = Output(<<"i", i - 1>>, "midi_item", Len(parts[i]))
  BY <1>1 DEF Output
<1>5. s \in Seq(Seq(V)) /\ Len(s) = n /\ DOMAIN s = 1..n
  <2>1. DOMAIN s = 1..n
    BY <1>1
  <2>2. s = [i \in 1..n |-> s[i]]
    BY <1>1
  <2> HIDE DEF s
  <2>3. \A i \in 1..n, k \in 1..2 : s[i][k] \in V
    OBVIOUS
  <2> HIDE DEF V, n
  <2>4. ASSUME NEW i \in 1..n PROVE s[i] \in Seq(V)
    <3>1. PICK a, b : a = s[i][1] /\ b = s[i][2]
      OBVIOUS
    <3>2. a \in V /\ b \in V
      BY <2>3, <3>1
    <3>3. <<a, b>> \in Seq(V)
      BY <3>2
    <3>4. s[i] = <<a, b>>
      BY <1>4, <3>1
    <3> QED
      BY <3>3, <3>4
  <2>5. s \in [1..n -> Seq(V)]
    BY <2>2, <2>4
  <2> QED
    BY <1>1, <2>1, <2>5
<1> HIDE DEF V, s, n, F, folder, region, send, G, H, e
<1>6. F \in Seq(V) /\ Len(F) = 2 * n
      /\ \A i \in 1..n, k \in 1..2 : F[2 * (i - 1) + k] = s[i][k]
  <2>1. s # <<>> /\ \A i \in DOMAIN s : Len(s[i]) = 2
    BY <1>1, <1>4, <1>5
  <2>2. 2 \in {2, 3}
    OBVIOUS
  <2>3. F \in Seq(V) /\ Len(F) = 2 * Len(s)
        /\ \A i \in 1..Len(s), k \in 1..2 : F[2 * (i - 1) + k] = s[i][k]
    BY <1>5, <2>1, <2>2, Blocks DEF F
  <2> QED
    BY <1>5, <2>3
<1>7. Optional("region", options, region, G)
  BY OptionalIs DEF G
<1>8. Optional("route", options, send, H)
  BY OptionalIs DEF H
<1>9. Joined(e, folder, F, "region", region, "route", send, options)
  BY <1>2, <1>6, <1>7, <1>8, JoinedIs
<1>10. /\ e[1] = folder
       /\ Len(e) = 1 + 2 * n + One("region", options) + One("route", options)
       /\ DOMAIN e = 1..Len(e)
       /\ \A j \in 1..(2 * n) : e[j + 1] = F[j]
       /\ "region" \in options => e[2 * n + 2] = region
       /\ "route" \in options => e[2 * n + 2 + One("region", options)] = send
  BY <1>6, <1>9 DEF Joined
<1>11. ASSUME NEW i \in 1..n
       PROVE  e[2 * i] = s[i][1] /\ e[2 * i + 1] = s[i][2]
  <2>1. \A k \in 1..2 : 2 * (i - 1) + k \in 1..(2 * n)
    BY <1>1
  <2>2. /\ (2 * (i - 1) + 1) + 1 = 2 * i /\ (2 * (i - 1) + 2) + 1 = 2 * i + 1
        /\ 1 \in 1..2 /\ 2 \in 1..2
    BY <1>1
  <2> QED
    BY <1>6, <1>10, <2>1, <2>2
<1>12. Len(e) = 2 * n + 1 + One("region", options) + One("route", options)
  BY <1>1, <1>10 DEF One
<1>13. Len(parts) = n
  BY DEF n
<1>14. Announced(e, parts, options)
  BY <1>3, <1>4, <1>10, <1>11, <1>12, <1>13, Zenon DEF Announced
<1> QED
  BY <1>14 DEF e

\* Every operation is one of those.
LEMMA Places ==
  ASSUME NEW n \in Nat, NEW options,
         NEW w \in 1..(3 * n + 1 + One("region", options) + One("route", options))
  PROVE  \/ w = 1
         \/ \E i \in 1..n : w = 3 * i - 1 \/ w = 3 * i \/ w = 3 * i + 1
         \/ "region" \in options /\ w = 3 * n + 2
         \/ "route" \in options /\ w = 3 * n + 2 + One("region", options)
<1>1. CASE w > 1 /\ w <= 3 * n + 1
  <2> DEFINE i == (w + 1) \div 3
  <2>1. i \in Int /\ 3 * i <= w + 1 /\ w + 1 < 3 * i + 3
    OBVIOUS
  <2> HIDE DEF i
  <2>2. i \in 1..n /\ (w = 3 * i - 1 \/ w = 3 * i \/ w = 3 * i + 1)
    BY <1>1, <2>1
  <2> QED
    BY <2>2
<1>2. CASE w > 3 * n + 1
  BY <1>2 DEF One
<1> QED
  BY <1>1, <1>2

\* The place of an operation that makes something, by the name of what it makes.
Place(id, n, options) ==
  CASE id[1] = "f" -> 1
    [] id[1] = "t" -> 3 * id[2] + 2
    [] id[1] = "i" -> 3 * id[2] + 3
    [] id[1] = "r" -> 3 * n + 2
    [] id[1] = "s" -> 3 * n + 2 + One("region", options)

Slot(ops, w, parts, start, end, options) ==
  \/ w = 1 /\ IsFolder(ops[w])
  \/ \E i \in 1..Len(parts) : w = 3 * i - 1 /\ IsTrack(ops[w], i)
  \/ \E i \in 1..Len(parts) : w = 3 * i /\ IsItem(ops[w], i, start, end)
  \/ \E i \in 1..Len(parts) : w = 3 * i + 1 /\ IsInsert(ops[w], i, parts[i], start, end)
  \/ /\ "region" \in options /\ w = 3 * Len(parts) + 2 /\ IsRegion(ops[w], start, end)
  \/ /\ "route" \in options /\ w = 3 * Len(parts) + 2 + One("region", options)
     /\ IsSend(ops[w])

\* What every operation is follows from its place.
LEMMA Slots ==
  ASSUME NEW ops, NEW parts, Len(parts) \in Nat, NEW start, NEW end, NEW options,
         Laid(ops, parts, start, end, options), NEW w \in DOMAIN ops
  PROVE  Slot(ops, w, parts, start, end, options)
<1>1. w \in 1..(3 * Len(parts) + 1 + One("region", options) + One("route", options))
  BY DEF Laid
<1>2. \/ w = 1
      \/ \E i \in 1..Len(parts) : w = 3 * i - 1 \/ w = 3 * i \/ w = 3 * i + 1
      \/ "region" \in options /\ w = 3 * Len(parts) + 2
      \/ "route" \in options /\ w = 3 * Len(parts) + 2 + One("region", options)
  BY <1>1, Places
<1> QED
  BY <1>2, Zenon DEF Slot, Laid

\* An operation that makes something is found by the name of what it makes.
LEMMA PlacedByName ==
  ASSUME NEW ops, NEW parts, Len(parts) \in Nat, NEW start, NEW end, NEW options,
         Laid(ops, parts, start, end, options), NEW w \in DOMAIN ops,
         ops[w].op # "insert_notes"
  PROVE  w = Place(ops[w].id, Len(parts), options)
<1>1. Slot(ops, w, parts, start, end, options)
  BY Slots
<1>2. CASE w = 1 /\ IsFolder(ops[w])
  BY <1>2 DEF IsFolder, Place
<1>3. ASSUME NEW i \in 1..Len(parts), w = 3 * i - 1, IsTrack(ops[w], i)
      PROVE  w = Place(ops[w].id, Len(parts), options)
  BY <1>3 DEF IsTrack, Place
<1>4. ASSUME NEW i \in 1..Len(parts), w = 3 * i, IsItem(ops[w], i, start, end)
      PROVE  w = Place(ops[w].id, Len(parts), options)
  BY <1>4 DEF IsItem, Place
<1>5. ASSUME NEW i \in 1..Len(parts), IsInsert(ops[w], i, parts[i], start, end)
      PROVE  FALSE
  BY <1>5 DEF IsInsert
<1>6. CASE w = 3 * Len(parts) + 2 /\ IsRegion(ops[w], start, end)
  BY <1>6 DEF IsRegion, Place
<1>7. CASE w = 3 * Len(parts) + 2 + One("region", options) /\ IsSend(ops[w])
  BY <1>7 DEF IsSend, Place
<1> QED
  BY <1>1, <1>2, <1>3, <1>4, <1>5, <1>6, <1>7, Zenon DEF Slot

-----------------------------------------------------------------------------
(* What the bridge counts and looks up in them.                            *)

\* There is an operation, and there are finitely many.
LEMMA OpsFinite ==
  ASSUME NEW ops, NEW parts, Len(parts) \in Nat, NEW start, NEW end, NEW options,
         Laid(ops, parts, start, end, options)
  PROVE  Len(ops) \in Nat /\ Len(ops) >= 1 /\ DOMAIN ops = 1..Len(ops)
BY DEF Laid, One

\* A plan makes a track for each part and one for the folder.
LEMMA TracksCounted ==
  ASSUME NEW ops, NEW parts, Len(parts) \in Nat, NEW start, NEW end, NEW options,
         Laid(ops, parts, start, end, options)
  PROVE  Cardinality({w \in DOMAIN ops : ops[w].op \in {"create_folder_track", "create_track"}})
           <= Len(parts) + 1
<1> DEFINE n == Len(parts)
           C == {w \in DOMAIN ops : ops[w].op \in {"create_folder_track", "create_track"}}
           f == [i \in 1..(n + 1) |-> 3 * i - 4]
           D == {f[i] : i \in 1..(n + 1)}
           E == D \cup {1}
           g == [i \in 1..(n + 1) |-> IF i = 1 THEN 1 ELSE 3 * i - 4]
           T == {g[i] : i \in 1..(n + 1)}
<1>1. ASSUME NEW w \in C
      PROVE  w \in T
  <2>1. Slot(ops, w, parts, start, end, options)
    BY Slots
  <2>2. ASSUME NEW i \in 1..n, w = 3 * i - 1 PROVE w \in T
    <3>1. i + 1 \in 1..(n + 1) /\ i + 1 # 1 /\ 3 * (i + 1) - 4 = w
      BY <2>2
    <3> QED
      BY <3>1
  <2>3. CASE w = 1
    <3>1. 1 \in 1..(n + 1)
      OBVIOUS
    <3> QED
      BY <2>3, <3>1
  <2>4. ops[w].op \in {"create_folder_track", "create_track"}
    OBVIOUS
  <2>5. /\ IsRegion(ops[w], start, end) => FALSE
        /\ IsSend(ops[w]) => FALSE
        /\ \A i \in 1..n : IsItem(ops[w], i, start, end) => FALSE
        /\ \A i \in 1..n : IsInsert(ops[w], i, parts[i], start, end) => FALSE
    BY <2>4 DEF IsRegion, IsSend, IsItem, IsInsert
  <2> HIDE DEF T
  <2> QED
    BY <2>1, <2>2, <2>3, <2>5, Zenon DEF Slot
<1>2. IsFiniteSet(1..(n + 1)) /\ Cardinality(1..(n + 1)) = n + 1
  BY FS_Interval
<1>3. IsFiniteSet(T) /\ Cardinality(T) <= n + 1
  <2>1. DOMAIN g = 1..(n + 1)
    OBVIOUS
  <2> HIDE DEF g
  <2> QED
    BY <1>2, <2>1, ImageOf
<1>4. C \subseteq T
  BY <1>1
<1> HIDE DEF C, T
<1>5. Cardinality(C) <= Cardinality(T) /\ IsFiniteSet(C)
  BY <1>3, <1>4, FS_Subset
<1>6. Cardinality(C) \in Nat /\ Cardinality(T) \in Nat
  BY <1>3, <1>5, FS_CardinalityType
<1>7. Cardinality(C) <= n + 1
  BY <1>3, <1>5, <1>6
<1> QED
  BY <1>7 DEF C

\* A plan makes an item for each part.
LEMMA ItemsCounted ==
  ASSUME NEW ops, NEW parts, Len(parts) \in Nat, NEW start, NEW end, NEW options,
         Laid(ops, parts, start, end, options)
  PROVE  Cardinality({w \in DOMAIN ops : ops[w].op \in {"create_midi_item"}}) <= Len(parts)
<1> DEFINE n == Len(parts)
           C == {w \in DOMAIN ops : ops[w].op \in {"create_midi_item"}}
           g == [i \in 1..n |-> 3 * i]
           T == {g[i] : i \in 1..n}
<1>1. ASSUME NEW w \in C
      PROVE  w \in T
  <2>1. Slot(ops, w, parts, start, end, options)
    BY Slots
  <2>2. \A i \in 1..n : w = 3 * i => w \in T
    OBVIOUS
  <2>3. ops[w].op = "create_midi_item"
    OBVIOUS
  <2> HIDE DEF T
  <2> QED
    BY <2>1, <2>2, <2>3, SMT DEF Slot, IsFolder, IsTrack, IsInsert, IsRegion, IsSend
<1>2. IsFiniteSet(1..n) /\ Cardinality(1..n) = n
  BY FS_Interval
<1>3. IsFiniteSet(T) /\ Cardinality(T) <= n
  <2>1. DOMAIN g = 1..n
    OBVIOUS
  <2> HIDE DEF g
  <2> QED
    BY <1>2, <2>1, ImageOf
<1>4. C \subseteq T
  BY <1>1
<1> HIDE DEF C, T
<1>5. Cardinality(C) <= Cardinality(T) /\ IsFiniteSet(C)
  BY <1>3, <1>4, FS_Subset
<1>6. Cardinality(C) \in Nat /\ Cardinality(T) \in Nat
  BY <1>3, <1>5, FS_CardinalityType
<1>7. Cardinality(C) <= n
  BY <1>3, <1>5, <1>6
<1> QED
  BY <1>7 DEF C

\* No two operations make something of the same name.
LEMMA NamedOnce ==
  ASSUME NEW ops, NEW parts, Len(parts) \in Nat, NEW start, NEW end, NEW options,
         Laid(ops, parts, start, end, options)
  PROVE  \A i, j \in {w \in DOMAIN ops : ops[w].op # "insert_notes"} :
           ops[i].id = ops[j].id => i = j
BY PlacedByName

\* What an operation refers to was made before it, and is of the kind it needs.
LEMMA UsesDeclared ==
  ASSUME NEW ops, NEW parts, Len(parts) \in Nat \ {0}, NEW start, NEW end, NEW options,
         Laid(ops, parts, start, end, options), NEW w \in DOMAIN ops, ops[w].ref # Plan!NoId
  PROVE  \E j \in {v \in DOMAIN ops : ops[v].op # "insert_notes"} :
           /\ j < w /\ ops[j].id = ops[w].ref
           /\ Plan!SymbolKind(ops[j].op) \in Plan!WantedKinds(ops[w].op)
<1> DEFINE n == Len(parts)
           D == {v \in DOMAIN ops : ops[v].op # "insert_notes"}
           Goal == \E j \in D : /\ j < w /\ ops[j].id = ops[w].ref
                                /\ Plan!SymbolKind(ops[j].op) \in Plan!WantedKinds(ops[w].op)
<1>1. Slot(ops, w, parts, start, end, options)
  BY Slots
<1>2. DOMAIN ops = 1..Len(ops) /\ Len(ops) \in Nat /\ Len(ops) >= 3 * n + 1
  BY DEF Laid, One
<1>3. 1 \in D /\ ops[1].id = <<"f", 0>> /\ Plan!SymbolKind(ops[1].op) = "folder_track"
  BY <1>2 DEF Laid, IsFolder, Plan!SymbolKind
<1>4. ASSUME NEW i \in 1..n
      PROVE  /\ 3 * i - 1 \in D /\ ops[3 * i - 1].id = <<"t", i - 1>>
             /\ Plan!SymbolKind(ops[3 * i - 1].op) = "track"
             /\ 3 * i \in D /\ ops[3 * i].id = <<"i", i - 1>>
             /\ Plan!SymbolKind(ops[3 * i].op) = "midi_item"
  <2>1. IsTrack(ops[3 * i - 1], i) /\ IsItem(ops[3 * i], i, start, end)
    BY DEF Laid
  <2>2. 3 * i - 1 \in 1..Len(ops) /\ 3 * i \in 1..Len(ops)
    BY <1>2
  <2> QED
    BY <1>2, <2>1, <2>2 DEF IsTrack, IsItem, Plan!SymbolKind
<1>5. ASSUME IsFolder(ops[w]) \/ IsRegion(ops[w], start, end)
      PROVE  Goal
  BY <1>5 DEF IsFolder, IsRegion, Plan!NoId
<1>6. ASSUME NEW i \in 1..n, w = 3 * i - 1, IsTrack(ops[w], i)
      PROVE  Goal
  <2>1. 1 < w /\ ops[w].ref = <<"f", 0>> /\ Plan!WantedKinds(ops[w].op) = {"folder_track"}
    BY <1>6 DEF IsTrack, Plan!WantedKinds
  <2> HIDE DEF D
  <2> QED
    BY <1>3, <2>1
<1>7. ASSUME NEW i \in 1..n, w = 3 * i, IsItem(ops[w], i, start, end)
      PROVE  Goal
  <2>1. 3 * i - 1 < w /\ ops[w].ref = <<"t", i - 1>>
        /\ Plan!WantedKinds(ops[w].op) = {"track", "folder_track"}
    BY <1>7 DEF IsItem, Plan!WantedKinds
  <2> HIDE DEF D
  <2> QED
    BY <1>4, <2>1
<1>8. ASSUME NEW i \in 1..n, w = 3 * i + 1, IsInsert(ops[w], i, parts[i], start, end)
      PROVE  Goal
  <2>1. 3 * i < w /\ ops[w].ref = <<"i", i - 1>> /\ Plan!WantedKinds(ops[w].op) = {"midi_item"}
    BY <1>8 DEF IsInsert, Plan!WantedKinds
  <2> HIDE DEF D
  <2> QED
    BY <1>4, <2>1
<1>9. ASSUME w = 3 * n + 2 + One("region", options), IsSend(ops[w])
      PROVE  Goal
  <2>1. PICK j \in Int : 1 \in 1..n /\ j = 3 * 1 - 1 /\ j < w /\ 1 - 1 = 0
    BY <1>9 DEF One
  <2>2. ops[w].ref = <<"t", 0>> /\ Plan!WantedKinds(ops[w].op) = {"track", "folder_track"}
    BY <1>9 DEF IsSend, Plan!WantedKinds
  <2>3. /\ j \in D /\ ops[j].id = <<"t", 1 - 1>>
        /\ Plan!SymbolKind(ops[j].op) = "track"
    BY <1>4, <2>1
  <2> HIDE DEF D
  <2>4. ops[j].id = ops[w].ref
    BY <2>1, <2>2, <2>3
  <2>5. Plan!SymbolKind(ops[j].op) \in Plan!WantedKinds(ops[w].op)
    BY <2>2, <2>3
  <2>6. j \in D /\ j < w
    BY <2>1, <2>3
  <2> QED
    BY <2>4, <2>5, <2>6, Zenon
<1> HIDE DEF Goal
<1>10. Goal
  <2> HIDE DEF D
  <2> QED
    BY <1>1, <1>5, <1>6, <1>7, <1>8, <1>9, Zenon DEF Slot
<1> QED
  BY <1>10 DEF Goal

\* What an operation places in time is the item and the region, which span the plan.
LEMMA SpansAre ==
  ASSUME NEW ops, NEW parts, Len(parts) \in Nat, NEW start, NEW end, NEW options,
         Laid(ops, parts, start, end, options), NEW w \in DOMAIN ops,
         ops[w].op \in {"create_midi_item", "create_region"}
  PROVE  ops[w].start = start /\ ops[w].end = end
<1>1. Slot(ops, w, parts, start, end, options)
  BY Slots
<1>2. /\ IsFolder(ops[w]) => FALSE
      /\ IsSend(ops[w]) => FALSE
      /\ \A i \in 1..Len(parts) : IsTrack(ops[w], i) => FALSE
      /\ \A i \in 1..Len(parts) : IsInsert(ops[w], i, parts[i], start, end) => FALSE
  BY DEF IsFolder, IsSend, IsTrack, IsInsert
<1>3. /\ IsRegion(ops[w], start, end) => ops[w].start = start /\ ops[w].end = end
      /\ \A i \in 1..Len(parts) :
           IsItem(ops[w], i, start, end) => ops[w].start = start /\ ops[w].end = end
  BY DEF IsRegion, IsItem
<1> QED
  BY <1>1, <1>2, <1>3, Zenon DEF Slot

\* Only an insertion has notes, those of its part as they are planned.
LEMMA InsertedNotes ==
  ASSUME NEW ops, NEW parts, Len(parts) \in Nat, NEW start, NEW end, NEW options,
         Laid(ops, parts, start, end, options), NEW w \in DOMAIN ops
  PROVE  \/ ops[w].op # "insert_notes" /\ ops[w].notes = <<>>
         \/ \E i \in 1..Len(parts) :
              w = 3 * i + 1 /\ IsInsert(ops[w], i, parts[i], start, end)
<1>1. Slot(ops, w, parts, start, end, options)
  BY Slots
<1>2. CASE IsFolder(ops[w]) \/ IsRegion(ops[w], start, end) \/ IsSend(ops[w])
  BY <1>2 DEF IsFolder, IsRegion, IsSend
<1>3. ASSUME NEW i \in 1..Len(parts), IsTrack(ops[w], i) \/ IsItem(ops[w], i, start, end)
      PROVE  ops[w].op # "insert_notes" /\ ops[w].notes = <<>>
  BY <1>3 DEF IsTrack, IsItem
<1> QED
  BY <1>1, <1>2, <1>3, Zenon DEF Slot

-----------------------------------------------------------------------------
(* What a plan makes, and what it announces.                               *)

\* An insertion has every note of its part.
LEMMA InsertsAll ==
  ASSUME NEW S, NEW part \in Seq(S), NEW o, NEW i, NEW start, NEW end,
         IsInsert(o, i, part, start, end)
  PROVE  /\ Len(o.notes) = Len(part) /\ DOMAIN o.notes = 1..Len(part) /\ Len(part) \in Nat
         /\ o.ref = <<"i", i - 1>>
         /\ \A k \in 1..Len(part) : o.notes[k] = Plan!PlannedNote(part[k], start, end)
<1>1. DOMAIN part = 1..Len(part) /\ Len(part) \in Nat
  OBVIOUS
<1>2. o.notes = [k \in 1..Len(part) |-> Plan!PlannedNote(part[k], start, end)]
  BY <1>1 DEF IsInsert
<1>3. o.ref = <<"i", i - 1>>
  BY DEF IsInsert
<1> QED
  BY <1>1, <1>2, <1>3

\* The notes written to what an operation makes are those of its part.
LEMMA NotesCounted ==
  ASSUME NEW S, NEW parts \in Seq(Seq(S)), NEW ops, NEW start, NEW end, NEW options,
         Laid(ops, parts, start, end, options), NEW w \in DOMAIN ops, ops[w].op # "insert_notes"
  PROVE  LET sum == Plan!Total([j \in DOMAIN ops |->
                                  IF ops[j].ref = ops[w].id THEN Len(ops[j].notes) ELSE 0])
         IN /\ ops[w].op # "create_midi_item" => sum = 0
            /\ \A i \in 1..Len(parts) : w = 3 * i => sum = Len(parts[i])
<1> DEFINE n == Len(parts)
           f == [j \in DOMAIN ops |-> IF ops[j].ref = ops[w].id THEN Len(ops[j].notes) ELSE 0]
<1>1. n \in Nat /\ \A i \in 1..n : parts[i] \in Seq(S) /\ Len(parts[i]) \in Nat
  OBVIOUS
<1>2. DOMAIN ops = 1..Len(ops) /\ Len(ops) \in Nat /\ Len(ops) >= 3 * n + 1
  BY <1>1 DEF Laid, One
<1>3. ASSUME NEW j \in DOMAIN ops
      PROVE  /\ f[j] \in Int
             /\ f[j] # 0 => \E i \in 1..n : /\ j = 3 * i + 1 /\ ops[w].id = <<"i", i - 1>>
                                            /\ f[j] = Len(parts[i])
  <2>1. CASE ops[j].op # "insert_notes" /\ ops[j].notes = <<>>
    <3>1. Len(ops[j].notes) = 0
      BY <2>1
    <3> QED
      BY <3>1
  <2>2. ASSUME NEW i \in 1..n, j = 3 * i + 1, IsInsert(ops[j], i, parts[i], start, end)
        PROVE  /\ f[j] \in Int
               /\ f[j] # 0 => /\ j = 3 * i + 1 /\ ops[w].id = <<"i", i - 1>>
                              /\ f[j] = Len(parts[i])
    <3>1. Len(ops[j].notes) = Len(parts[i]) /\ ops[j].ref = <<"i", i - 1>>
      BY <2>2, <1>1, InsertsAll
    <3> QED
      BY <1>1, <2>2, <3>1
  <2> HIDE DEF f
  <2>3. \/ ops[j].op # "insert_notes" /\ ops[j].notes = <<>>
        \/ \E i \in 1..Len(parts) :
             j = 3 * i + 1 /\ IsInsert(ops[j], i, parts[i], start, end)
    <3>1. Len(parts) \in Nat
      BY <1>1
    <3> QED
      BY <3>1, InsertedNotes
  <2> QED
    BY <2>1, <2>2, <2>3
<1>4. f \in Seq(Int) /\ DOMAIN f = DOMAIN ops
  <2>1. f \in [1..Len(ops) -> Int]
    BY <1>2, <1>3
  <2> QED
    BY <1>2, <2>1
<1>5. Slot(ops, w, parts, start, end, options)
  BY <1>1, Slots
<1>6. ASSUME ops[w].op # "create_midi_item"
      PROVE  Plan!Total(f) = 0
  <2>1. \A i \in 1..n : ops[w].id # <<"i", i - 1>>
    <3>1. CASE IsFolder(ops[w])
      BY <3>1 DEF IsFolder
    <3>2. CASE \E i \in 1..n : IsTrack(ops[w], i)
      BY <3>2 DEF IsTrack
    <3>3. CASE IsRegion(ops[w], start, end)
      BY <3>3 DEF IsRegion
    <3>4. CASE IsSend(ops[w])
      BY <3>4 DEF IsSend
    <3>5. /\ \A i \in 1..n : IsItem(ops[w], i, start, end) => FALSE
          /\ \A i \in 1..n : IsInsert(ops[w], i, parts[i], start, end) => FALSE
      BY <1>6 DEF IsItem, IsInsert
    <3>6. IsFolder(ops[w]) \/ (\E i \in 1..n : IsTrack(ops[w], i))
          \/ IsRegion(ops[w], start, end) \/ IsSend(ops[w])
      BY <1>5, <3>5, Zenon DEF Slot
    <3> QED
      BY <3>1, <3>2, <3>3, <3>4, <3>6
  <2>2. \A j \in DOMAIN f : f[j] = 0
    <3> HIDE DEF f
    <3> QED
      BY <1>3, <1>4, <2>1
  <2> HIDE DEF f
  <2> QED
    BY <1>4, <2>2, TotalOfNone
<1>7. ASSUME NEW i \in 1..n, w = 3 * i
      PROVE  Plan!Total(f) = Len(parts[i])
  <2>1. ops[w].id = <<"i", i - 1>>
    BY <1>7 DEF Laid, IsItem
  <2>2. PICK p \in Int : p = 3 * i + 1 /\ p \in DOMAIN ops
    BY <1>1, <1>2
  <2>3. f[p] = Len(parts[i])
    <3>1. IsInsert(ops[p], i, parts[i], start, end)
      BY <2>2 DEF Laid
    <3>2. ops[p].ref = ops[w].id /\ Len(ops[p].notes) = Len(parts[i])
      BY <1>1, <2>1, <3>1, InsertsAll
    <3> QED
      BY <2>2, <3>2
  <2>4. ASSUME NEW j \in DOMAIN f, j # p
        PROVE  f[j] = 0
    <3>1. SUFFICES ASSUME f[j] # 0 PROVE FALSE
      OBVIOUS
    <3> HIDE DEF f
    <3>2. PICK x \in 1..n : j = 3 * x + 1 /\ ops[w].id = <<"i", x - 1>>
      BY <1>3, <1>4, <3>1
    <3>3. x - 1 = i - 1
      BY <2>1, <3>2
    <3>4. x = i
      BY <3>3
    <3> QED
      BY <2>2, <2>4, <3>2, <3>4
  <2> HIDE DEF f
  <2>5. p \in DOMAIN f
    BY <1>4, <2>2
  <2>6. Plan!Total(f) = f[p]
    BY <1>4, <2>4, <2>5, TotalOfOne
  <2> QED
    BY <2>3, <2>6
<1> HIDE DEF f
<1>8. /\ ops[w].op # "create_midi_item" => Plan!Total(f) = 0
      /\ \A i \in 1..Len(parts) : w = 3 * i => Plan!Total(f) = Len(parts[i])
  BY <1>6, <1>7
<1> QED
  BY <1>8 DEF f

\* What an operation that makes something makes.
Made(ops, w) ==
  [id |-> ops[w].id, kind |-> Plan!SymbolKind(ops[w].op),
   count |-> IF ops[w].op # "create_midi_item" THEN -1
             ELSE Plan!Total([j \in DOMAIN ops |-> IF ops[j].ref = ops[w].id
                                                   THEN Len(ops[j].notes) ELSE 0])]

\* What each operation makes, with the notes written to it.
LEMMA MadeIs ==
  ASSUME NEW S, NEW parts \in Seq(Seq(S)), NEW ops, NEW start, NEW end, NEW options,
         Laid(ops, parts, start, end, options), NEW w \in DOMAIN ops, ops[w].op # "insert_notes"
  PROVE  /\ IsFolder(ops[w]) => Made(ops, w) = Output(<<"f", 0>>, "folder_track", -1)
         /\ \A i \in 1..Len(parts) :
              IsTrack(ops[w], i) => Made(ops, w) = Output(<<"t", i - 1>>, "track", -1)
         /\ \A i \in 1..Len(parts) :
              w = 3 * i /\ IsItem(ops[w], i, start, end) =>
                Made(ops, w) = Output(<<"i", i - 1>>, "midi_item", Len(parts[i]))
         /\ IsRegion(ops[w], start, end) => Made(ops, w) = Output(<<"r", 0>>, "region", -1)
         /\ IsSend(ops[w]) => Made(ops, w) = Output(<<"s", 0>>, "send", -1)
<1>1. IsFolder(ops[w]) => Made(ops, w) = Output(<<"f", 0>>, "folder_track", -1)
  BY DEF IsFolder, Made, Output, Plan!SymbolKind
<1>2. ASSUME NEW i \in 1..Len(parts), IsTrack(ops[w], i)
      PROVE  Made(ops, w) = Output(<<"t", i - 1>>, "track", -1)
  BY <1>2 DEF IsTrack, Made, Output, Plan!SymbolKind
<1>3. ASSUME NEW i \in 1..Len(parts), w = 3 * i, IsItem(ops[w], i, start, end)
      PROVE  Made(ops, w) = Output(<<"i", i - 1>>, "midi_item", Len(parts[i]))
  <2>1. PICK c : c = Plan!Total([j \in DOMAIN ops |-> IF ops[j].ref = ops[w].id
                                                      THEN Len(ops[j].notes) ELSE 0])
    OBVIOUS
  <2>2. c = Len(parts[i])
    BY <1>3, <2>1, NotesCounted
  <2>3. ops[w].op = "create_midi_item" /\ ops[w].id = <<"i", i - 1>>
        /\ Plan!SymbolKind(ops[w].op) = "midi_item"
    BY <1>3 DEF IsItem, Plan!SymbolKind
  <2> QED
    BY <2>1, <2>2, <2>3, Zenon DEF Made, Output
<1>4. IsRegion(ops[w], start, end) => Made(ops, w) = Output(<<"r", 0>>, "region", -1)
  BY DEF IsRegion, Made, Output, Plan!SymbolKind
<1>5. IsSend(ops[w]) => Made(ops, w) = Output(<<"s", 0>>, "send", -1)
  BY DEF IsSend, Made, Output, Plan!SymbolKind
<1> QED
  BY <1>1, <1>2, <1>3, <1>4, <1>5, Zenon

\* Every output is one of those.
LEMMA AnnouncedPlaces ==
  ASSUME NEW n \in Nat, NEW options,
         NEW w \in 1..(2 * n + 1 + One("region", options) + One("route", options))
  PROVE  \/ w = 1
         \/ \E i \in 1..n : w = 2 * i \/ w = 2 * i + 1
         \/ "region" \in options /\ w = 2 * n + 2
         \/ "route" \in options /\ w = 2 * n + 2 + One("region", options)
<1>1. CASE w > 1 /\ w <= 2 * n + 1
  <2> DEFINE i == w \div 2
  <2>1. i \in Int /\ 2 * i <= w /\ w < 2 * i + 2
    OBVIOUS
  <2> HIDE DEF i
  <2>2. i \in 1..n /\ (w = 2 * i \/ w = 2 * i + 1)
    BY <1>1, <2>1
  <2> QED
    BY <2>2
<1>2. CASE w > 2 * n + 1
  BY <1>2 DEF One
<1> QED
  BY <1>1, <1>2
\* Every output is made by an operation and what every operation makes is an output.
LEMMA AnnouncedIsMade ==
  ASSUME NEW S, NEW parts \in Seq(Seq(S)), parts # <<>>,
         NEW ops, NEW expected, NEW start, NEW end, NEW options,
         Laid(ops, parts, start, end, options), Announced(expected, parts, options)
  PROVE  LET D == {w \in DOMAIN ops : ops[w].op # "insert_notes"}
         IN /\ \A k \in DOMAIN expected : \E w \in D : expected[k] = Made(ops, w)
            /\ \A w \in D : \E k \in DOMAIN expected : expected[k] = Made(ops, w)
<1> DEFINE n == Len(parts)
           a == One("region", options)
           b == One("route", options)
           D == {w \in DOMAIN ops : ops[w].op # "insert_notes"}
<1>1. n \in Nat \ {0} /\ a \in {0, 1} /\ b \in {0, 1}
      /\ ("region" \in options => a = 1) /\ ("route" \in options => b = 1)
  BY DEF One
<1>2. DOMAIN ops = 1..Len(ops) /\ Len(ops) = 3 * n + 1 + a + b
  BY DEF Laid
<1>3. DOMAIN expected = 1..Len(expected) /\ Len(expected) = 2 * n + 1 + a + b
  BY DEF Announced
<1> HIDE DEF a, b
<1>4. /\ 1 \in D /\ Made(ops, 1) = Output(<<"f", 0>>, "folder_track", -1)
      /\ 1 \in DOMAIN expected /\ expected[1] = Output(<<"f", 0>>, "folder_track", -1)
  <2>1. 1 \in DOMAIN ops /\ 1 \in DOMAIN expected
    BY <1>1, <1>2, <1>3
  <2>2. IsFolder(ops[1]) /\ expected[1] = Output(<<"f", 0>>, "folder_track", -1)
    BY DEF Laid, Announced
  <2>3. ops[1].op # "insert_notes"
    BY <2>2 DEF IsFolder
  <2> QED
    BY <2>1, <2>2, <2>3, MadeIs
<1>5. ASSUME NEW i \in 1..n
      PROVE  /\ 3 * i - 1 \in D /\ 2 * i \in DOMAIN expected
             /\ expected[2 * i] = Made(ops, 3 * i - 1)
  <2>1. 3 * i - 1 \in DOMAIN ops /\ 2 * i \in DOMAIN expected
    BY <1>1, <1>2, <1>3
  <2>2. IsTrack(ops[3 * i - 1], i) /\ expected[2 * i] = Output(<<"t", i - 1>>, "track", -1)
    BY DEF Laid, Announced
  <2>3. ops[3 * i - 1].op # "insert_notes"
    BY <2>2 DEF IsTrack
  <2>4. Made(ops, 3 * i - 1) = Output(<<"t", i - 1>>, "track", -1)
    BY <2>1, <2>2, <2>3, MadeIs
  <2> QED
    BY <2>1, <2>2, <2>3, <2>4
<1>6. ASSUME NEW i \in 1..n
      PROVE  /\ 3 * i \in D /\ 2 * i + 1 \in DOMAIN expected
             /\ expected[2 * i + 1] = Made(ops, 3 * i)
  <2>1. 3 * i \in DOMAIN ops /\ 2 * i + 1 \in DOMAIN expected
    BY <1>1, <1>2, <1>3
  <2>2. /\ IsItem(ops[3 * i], i, start, end)
        /\ expected[2 * i + 1] = Output(<<"i", i - 1>>, "midi_item", Len(parts[i]))
    BY DEF Laid, Announced
  <2>3. ops[3 * i].op # "insert_notes"
    BY <2>2 DEF IsItem
  <2>4. Made(ops, 3 * i) = Output(<<"i", i - 1>>, "midi_item", Len(parts[i]))
    BY <2>1, <2>2, <2>3, MadeIs
  <2> QED
    BY <2>1, <2>2, <2>3, <2>4
<1>7. ASSUME "region" \in options
      PROVE  /\ 3 * n + 2 \in D /\ 2 * n + 2 \in DOMAIN expected
             /\ expected[2 * n + 2] = Made(ops, 3 * n + 2)
  <2>1. 3 * n + 2 \in DOMAIN ops /\ 2 * n + 2 \in DOMAIN expected
    BY <1>1, <1>2, <1>3, <1>7
  <2>2. /\ IsRegion(ops[3 * n + 2], start, end)
        /\ expected[2 * n + 2] = Output(<<"r", 0>>, "region", -1)
    BY <1>7 DEF Laid, Announced
  <2>3. ops[3 * n + 2].op # "insert_notes"
    BY <2>2 DEF IsRegion
  <2>4. Made(ops, 3 * n + 2) = Output(<<"r", 0>>, "region", -1)
    BY <2>1, <2>2, <2>3, MadeIs
  <2> QED
    BY <2>1, <2>2, <2>3, <2>4
<1>8. ASSUME "route" \in options
      PROVE  /\ 3 * n + 2 + a \in D /\ 2 * n + 2 + a \in DOMAIN expected
             /\ expected[2 * n + 2 + a] = Made(ops, 3 * n + 2 + a)
  <2>1. 3 * n + 2 + a \in DOMAIN ops /\ 2 * n + 2 + a \in DOMAIN expected
    BY <1>1, <1>2, <1>3, <1>8
  <2>2. /\ IsSend(ops[3 * n + 2 + a])
        /\ expected[2 * n + 2 + a] = Output(<<"s", 0>>, "send", -1)
    BY <1>8 DEF Laid, Announced, a
  <2>3. ops[3 * n + 2 + a].op # "insert_notes"
    BY <2>2 DEF IsSend
  <2>4. Made(ops, 3 * n + 2 + a) = Output(<<"s", 0>>, "send", -1)
    BY <2>1, <2>2, <2>3, MadeIs
  <2> QED
    BY <2>1, <2>2, <2>3, <2>4
<1>9. ASSUME NEW k \in DOMAIN expected
      PROVE  \E w \in D : expected[k] = Made(ops, w)
  <2>1. \/ k = 1
        \/ \E i \in 1..n : k = 2 * i \/ k = 2 * i + 1
        \/ "region" \in options /\ k = 2 * n + 2
        \/ "route" \in options /\ k = 2 * n + 2 + a
    <3>1. k \in 1..(2 * n + 1 + One("region", options) + One("route", options))
      BY <1>3 DEF a, b
    <3>2. n \in Nat
      BY <1>1
    <3> HIDE DEF n
    <3> QED
      BY <3>1, <3>2, AnnouncedPlaces, Zenon DEF a
  <2> HIDE DEF D
  <2> QED
    BY <1>4, <1>5, <1>6, <1>7, <1>8, <2>1, Zenon
<1>10. ASSUME NEW w \in D
       PROVE  \E k \in DOMAIN expected : expected[k] = Made(ops, w)
  <2>1. Slot(ops, w, parts, start, end, options)
    BY Slots
  <2>2. \A i \in 1..n : IsInsert(ops[w], i, parts[i], start, end) => FALSE
    BY DEF IsInsert
  <2>3. \/ w = 1
        \/ \E i \in 1..n : w = 3 * i - 1 \/ w = 3 * i
        \/ "region" \in options /\ w = 3 * n + 2
        \/ "route" \in options /\ w = 3 * n + 2 + a
    BY <2>1, <2>2, Zenon DEF Slot, a
  <2> HIDE DEF D
  <2> QED
    BY <1>4, <1>5, <1>6, <1>7, <1>8, <2>3, Zenon
<1> QED
  BY <1>9, <1>10

-----------------------------------------------------------------------------
(* What build_plan returns is sound, and the bridge takes it.              *)

\* A position that is not before, or not behind, one on the grid stays so.
LEMMA SnapsWithin ==
  ASSUME Grid \in Nat \ {0}, NEW q \in Int, NEW m \in Int, m % Grid = 0
  PROVE  /\ q >= m => Plan!Snapped(q) >= m
         /\ q <= m => Plan!Snapped(q) <= m
<1>1. PICK c \in Int : c = m \div Grid
  OBVIOUS
<1>2. m = Grid * c
  <2>1. m % Grid = m - Grid * (m \div Grid)
    OBVIOUS
  <2>2. m - Grid * c = 0 /\ Grid * c \in Int
    BY <1>1, <2>1
  <2> QED
    BY <2>2
<1>3. PICK k \in Int : Plan!Snapped(q) = Grid * k
  BY SnapsBy
<1>4. PICK z \in Int : z = Plan!Snapped(q) /\ z = Grid * k
                       /\ 2 * (z - q) <= Grid /\ 2 * (q - z) <= Grid
  BY <1>3, SnapsBy
<1>5. \A g \in Nat \ {0} : \A a, b \in Int :
        /\ g * a > g * b => g * a - g * b >= g
        /\ g * b > g * a => g * b - g * a >= g
  OBVIOUS
<1>6. z > m => z - m >= Grid
  BY <1>2, <1>4, <1>5
<1>7. m > z => m - z >= Grid
  BY <1>2, <1>4, <1>5
<1>8. q >= m => z >= m
  BY <1>4, <1>7
<1>9. q <= m => z <= m
  BY <1>4, <1>6
<1> QED
  BY <1>4, <1>8, <1>9

\* A note of the span, as it is planned, begins and ends no further than half a
\* step of the grid from where it is.
LEMMA StaysNear ==
  ASSUME Plan!PlanConstants, NEW n \in LastingNote,
         NEW from \in Int, NEW to \in Int, NEW start \in Int, NEW end \in Int,
         from <= n.onset, Plan!NoteEnd(n) <= to, end - start >= Grid,
         2 * (start - from) <= Grid, 2 * (to - end) <= Grid
  PROVE  LET w == Plan!PlannedNote(n, start, end) IN
         /\ 2 * (w.start - n.onset) <= Grid /\ 2 * (n.onset - w.start) <= Grid
         /\ 2 * (w.end - (n.onset + n.length)) <= Grid
         /\ 2 * ((n.onset + n.length) - w.end) <= Grid
<1>1. Grid \in Nat \ {0}
  BY DEF Plan!PlanConstants
<1>2. PICK x, y \in Int : x = n.onset /\ y = Plan!NoteEnd(n) /\ y = n.onset + n.length /\ y - x >= Grid
  BY <1>1 DEF LastingNote, Plan!NoteEnd
<1>3. PICK a \in Int : a = Plan!Higher(n.onset, start) /\ a >= x /\ (a = x \/ a = start)
                       /\ a >= start
  BY <1>2 DEF Plan!Higher
<1>4. PICK b \in Int : b = Plan!Lower(Plan!NoteEnd(n), end) /\ b <= y /\ (b = y \/ b = end)
                       /\ b <= end
  BY <1>2 DEF Plan!Lower
<1>5. 2 * (a - x) <= Grid /\ 2 * (x - a) <= Grid /\ 2 * (b - y) <= Grid /\ 2 * (y - b) <= Grid
  BY <1>1, <1>2, <1>3, <1>4
<1>6. b > a
  <2>1. CASE a = x /\ b = y
    BY <1>1, <1>2, <2>1
  <2>2. CASE a = start /\ b = end
    BY <1>1, <2>2
  <2>3. CASE (a = x /\ b = end) \/ (a = start /\ b = y)
    BY <1>1, <1>2, <1>3, <1>4, <1>5, <2>3
  <2> QED
    BY <1>3, <1>4, <2>1, <2>2, <2>3
<1>7. Plan!PlannedNote(n, start, end) = Plan!Written(n, a, b)
  BY <1>3, <1>4, <1>6 DEF Plan!PlannedNote
<1>8. Plan!Written(n, a, b).start = a /\ Plan!Written(n, a, b).end = b
  BY DEF Plan!Written
<1> QED
  BY <1>2, <1>5, <1>7, <1>8

\* What build_plan has checked of the span and the notes when it builds.
Sound(parts, start, end) ==
  /\ parts \in Seq(Seq(LastingNote)) /\ parts # <<>>
  /\ start \in Int /\ end \in Int /\ end - start >= Grid
  /\ QnMin <= start /\ end <= QnMax
  /\ Len(parts) <= MaxTracksPerStage - 1
  /\ \A i \in DOMAIN parts : Len(parts[i]) <= MaxNotesPerItem
  /\ \A i \in DOMAIN parts : \A k \in DOMAIN parts[i] : parts[i][k].pitch \in 0..127

\* The notes of an insertion are sound, in the item they are inserted in.
LEMMA NotesSound ==
  ASSUME Plan!PlanConstants, NEW parts, NEW start, NEW end, Sound(parts, start, end),
         NEW ops, NEW options, Laid(ops, parts, start, end, options),
         NEW w \in DOMAIN ops, NEW n \in Plan!ToSet(ops[w].notes)
  PROVE  LET at == CHOOSE i \in {v \in DOMAIN ops : ops[v].op # "insert_notes"} :
                     ops[i].id = ops[w].ref
         IN /\ Plan!InQnRange(n.start) /\ Plan!InQnRange(n.end) /\ n.end > n.start
            /\ n.start >= ops[at].start /\ n.end <= ops[at].end
            /\ n.pitch \in 0..127 /\ n.velocity \in 1..127
<1> DEFINE D == {v \in DOMAIN ops : ops[v].op # "insert_notes"}
           at == CHOOSE i \in D : ops[i].id = ops[w].ref
<1>1. parts \in Seq(Seq(LastingNote)) /\ Len(parts) \in Nat
      /\ \A i \in 1..Len(parts) : i \in DOMAIN parts /\ parts[i] \in Seq(LastingNote)
  BY DEF Sound
<1>2. PICK k \in DOMAIN ops[w].notes : n = ops[w].notes[k]
  BY DEF Plan!ToSet
<1>3. ops[w].notes # <<>>
  BY <1>2
<1>4. PICK i \in 1..Len(parts) : w = 3 * i + 1 /\ IsInsert(ops[w], i, parts[i], start, end)
  BY <1>1, <1>3, InsertedNotes
<1>5. /\ k \in 1..Len(parts[i]) /\ n = Plan!PlannedNote(parts[i][k], start, end)
      /\ ops[w].ref = <<"i", i - 1>> /\ parts[i] \in Seq(LastingNote)
  <2>1. parts[i] \in Seq(LastingNote)
    BY <1>1
  <2> QED
    BY <1>2, <1>4, <2>1, InsertsAll
<1>6. parts[i][k] \in LastingNote /\ parts[i][k].pitch \in 0..127
  <2>1. k \in DOMAIN parts[i] /\ i \in DOMAIN parts
    BY <1>1, <1>5
  <2>2. parts[i][k].pitch \in 0..127
    BY <2>1 DEF Sound
  <2>3. \A p \in Seq(LastingNote) : \A j \in 1..Len(p) : p[j] \in LastingNote
    OBVIOUS
  <2>4. parts[i][k] \in LastingNote
    BY <1>5, <2>3
  <2> QED
    BY <2>2, <2>4
<1>7. parts[i][k] \in [onset : Int, length : Int, pitch : Int, velocity : Int]
  BY <1>6 DEF LastingNote
<1>8. start \in Int /\ end \in Int /\ end - start >= Grid /\ QnMin <= start /\ end <= QnMax
  BY DEF Sound
<1>9. /\ start <= n.start /\ n.start < n.end /\ n.end <= end
      /\ n.pitch = parts[i][k].pitch /\ n.velocity \in 1..127
  BY <1>5, <1>7, <1>8, WrittenInside
<1>10. n.start \in Int /\ n.end \in Int
  <2>1. PICK m : m = parts[i][k]
    OBVIOUS
  <2>2. m.onset \in Int /\ m.length \in Int /\ Grid \in Int
    BY <1>7, <2>1 DEF Plan!PlanConstants
  <2>3. \A x, y \in Int : Plan!Lower(x, y) \in Int /\ Plan!Higher(x, y) \in Int
    BY DEF Plan!Lower, Plan!Higher
  <2>4. \A x, y : Plan!Written(m, x, y).start = x /\ Plan!Written(m, x, y).end = y
    BY DEF Plan!Written
  <2>5. PICK a, b \in Int : a = Plan!Higher(m.onset, start) /\ b = Plan!Lower(Plan!NoteEnd(m), end)
    <3>1. Plan!NoteEnd(m) \in Int
      BY <2>2 DEF Plan!NoteEnd
    <3> QED
      BY <1>8, <2>2, <2>3, <3>1, Zenon
  <2>6. PICK c \in Int : c = Plan!Higher(Plan!Lower(a, end - Grid), start)
    <3>1. end - Grid \in Int
      BY <1>8, <2>2
    <3> QED
      BY <1>8, <2>3, <2>5, <3>1
  <2>7. n = IF b > a THEN Plan!Written(m, a, b) ELSE Plan!Written(m, c, c + Grid)
    BY <1>5, <2>1, <2>5, <2>6 DEF Plan!PlannedNote
  <2>8. c + Grid \in Int
    BY <2>2, <2>6
  <2>9. CASE b > a
    BY <2>4, <2>5, <2>7, <2>9
  <2>10. CASE ~(b > a)
    BY <2>4, <2>6, <2>7, <2>8, <2>10
  <2> QED
    BY <2>9, <2>10
<1>11. PICK t \in Int : /\ t = 3 * i /\ t \in D /\ ops[t].id = ops[w].ref
                        /\ ops[t].start = start /\ ops[t].end = end
  <2>1. PICK t \in Int : t = 3 * i /\ t \in DOMAIN ops
    BY <1>1 DEF Laid, One
  <2>2. IsItem(ops[t], i, start, end)
    BY <2>1 DEF Laid
  <2> QED
    BY <1>5, <2>1, <2>2 DEF IsItem
<1>12. \A v \in D : ops[v].id = ops[w].ref => v = t
  <2>1. \A v, u \in D : ops[v].id = ops[u].id => v = u
    BY <1>1, NamedOnce
  <2> QED
    BY <1>11, <2>1
<1>13. at = t
  <2> HIDE DEF D
  <2> QED
    BY <1>11, <1>12
<1>14. ops[at].start = start /\ ops[at].end = end
  BY <1>11, <1>13
<1>15. QnMin \in Int /\ QnMax \in Int
  BY DEF Plan!PlanConstants
<1> HIDE DEF at
<1>16. /\ Plan!InQnRange(n.start) /\ Plan!InQnRange(n.end) /\ n.end > n.start
       /\ n.start >= ops[at].start /\ n.end <= ops[at].end
       /\ n.pitch \in 0..127 /\ n.velocity \in 1..127
  BY <1>6, <1>8, <1>9, <1>10, <1>14, <1>15 DEF Plan!InQnRange
<1> QED
  BY <1>16 DEF at

\* The operations and the outputs of the parts, over a span that is the span of
\* the notes put on the grid.
Built(plan, parts, options, start, end, from, to) ==
  /\ Sound(parts, start, end)
  /\ plan.ops = Plan!Operations(parts, start, end, options)
  /\ plan.expected = Plan!Expected(parts, options)
  /\ Plan!Preflight(plan.ops, plan.expected)
  /\ 2 * (start - from) <= Grid /\ 2 * (to - end) <= Grid
  /\ \A n \in Plan!NotesOf(parts) : from <= n.onset /\ Plan!NoteEnd(n) <= to

LEMMA BuiltPlan ==
  ASSUME Plan!PlanConstants, QnMin % Grid = 0, QnMax % Grid = 0,
         NEW candidate \in Seq(Seq(LastingNote)),
         NEW item, item.start \in Int, item.end \in Int, NEW options,
         NEW plan \in Plan!BuildPlan(candidate, item, options)
  PROVE  \E start, end, from, to \in Int :
           Built(plan, Plan!Heard(candidate), options, start, end, from, to)
<1>1. PICK parts : parts = Plan!Heard(candidate)
  OBVIOUS
<1>2. parts \in Seq(Seq(LastingNote)) /\ ToSet(parts) = ToSet(candidate) \ {<<>>}
  <2>1. PICK S : S = Seq(LastingNote)
    OBVIOUS
  <2>2. candidate \in Seq(S)
    BY <2>1
  <2> QED
    BY <1>1, <2>1, <2>2, HeardAre
<1>3. PICK from : from = Plan!SpanStart(item, parts)
  OBVIOUS
<1>4. PICK last : last = Plan!SpanEnd(item, parts)
  OBVIOUS
<1>5. PICK to : to = IF last <= from THEN from + Quarter ELSE last
  OBVIOUS
<1>6. PICK ops : ops = Plan!Operations(parts, Plan!Snapped(from), Plan!Snapped(to), options)
  OBVIOUS
<1>7. PICK expected : expected = Plan!Expected(parts, options)
  OBVIOUS
<1>8. /\ parts # <<>>
      /\ Len(parts) <= MaxTracksPerStage - 1
      /\ from >= QnMin /\ to <= QnMax
      /\ \A i \in DOMAIN parts : Len(parts[i]) <= MaxNotesPerItem
      /\ \A n \in Plan!NotesOf(parts) : n.pitch \in 0..127
      /\ Plan!Preflight(ops, expected)
      /\ plan = [ops |-> ops, expected |-> expected]
  BY <1>1, <1>3, <1>4, <1>5, <1>6, <1>7, Zenon DEF Plan!BuildPlan
<1>9. plan.ops = ops /\ plan.expected = expected
  BY <1>8
<1>10. Grid \in Nat \ {0} /\ Grid \in Nat /\ QnMin \in Int /\ QnMax \in Int
  BY DEF Plan!PlanConstants
<1>11. /\ from \in Int /\ last \in Int
       /\ \A n \in Plan!NotesOf(parts) : from <= n.onset /\ Plan!NoteEnd(n) <= last
  BY <1>2, <1>3, <1>4, <1>10, SpanHolds
<1>12. DOMAIN parts = 1..Len(parts) /\ Len(parts) \in Nat \ {0}
       /\ \A i \in DOMAIN parts : parts[i] \in Seq(LastingNote)
  BY <1>2, <1>8
<1>13. \A i \in DOMAIN parts : \A k \in DOMAIN parts[i] : parts[i][k] \in Plan!NotesOf(parts)
  BY DEF Plan!NotesOf, Plan!ToSet
<1>14. last - from >= Grid
  <2>1. 1 \in DOMAIN parts /\ parts[1] \in ToSet(parts)
    <3>1. 1 \in DOMAIN parts
      BY <1>12
    <3>2. \A i \in DOMAIN parts : parts[i] \in ToSet(parts)
      BY Zenon DEF ToSet
    <3> QED
      BY <3>1, <3>2
  <2>2. PICK p : p = parts[1]
    OBVIOUS
  <2>3. p # <<>> /\ p \in Seq(LastingNote)
    BY <1>2, <1>12, <2>1, <2>2
  <2>4. 1 \in DOMAIN p /\ p[1] \in LastingNote
    BY <2>3
  <2>5. p[1] \in Plan!NotesOf(parts)
    BY <1>13, <2>1, <2>2, <2>4
  <2>6. from <= p[1].onset /\ p[1].onset + p[1].length <= last
    BY <1>11, <2>5 DEF Plan!NoteEnd
  <2>7. p[1].onset \in Int /\ p[1].length \in Int /\ p[1].length >= Grid
    BY <2>4 DEF LastingNote
  <2> QED
    BY <1>10, <1>11, <2>6, <2>7
<1>15. to = last /\ to \in Int
  BY <1>5, <1>10, <1>11, <1>14
<1>16. PICK start \in Int : start = Plan!Snapped(from) /\ 2 * (start - from) <= Grid /\ QnMin <= start
  BY <1>8, <1>10, <1>11, SnapsBy, SnapsWithin
<1>17. PICK end \in Int : end = Plan!Snapped(to) /\ 2 * (to - end) <= Grid /\ end <= QnMax
  BY <1>8, <1>10, <1>15, SnapsBy, SnapsWithin
<1>18. end - start >= Grid
  BY <1>11, <1>14, <1>15, <1>16, <1>17, StepsStayApart
<1>19. Sound(parts, start, end)
  BY <1>2, <1>8, <1>13, <1>16, <1>17, <1>18 DEF Sound
<1>20. ops = Plan!Operations(parts, start, end, options)
  BY <1>6, <1>16, <1>17
<1>21. \A n \in Plan!NotesOf(parts) : from <= n.onset /\ Plan!NoteEnd(n) <= to
  BY <1>11, <1>15
<1>22. Plan!Preflight(plan.ops, plan.expected) /\ plan.expected = Plan!Expected(parts, options)
       /\ plan.ops = Plan!Operations(parts, start, end, options)
  BY <1>7, <1>8, <1>9, <1>20
<1> QED
  BY <1>1, <1>11, <1>15, <1>16, <1>17, <1>19, <1>21, <1>22 DEF Built

\* The bridge takes a plan that lies so, over a span that was checked.
LEMMA TakenByBridge ==
  ASSUME Plan!PlanConstants, MaxTracksPerStage <= MaxItemsPerStage + 1,
         NEW parts, NEW start, NEW end, Sound(parts, start, end), NEW options, NEW plan,
         Laid(plan.ops, parts, start, end, options),
         Announced(plan.expected, parts, options),
         Plan!Preflight(plan.ops, plan.expected)
  PROVE  Plan!BridgeAccepts(plan)
<1> DEFINE ops == plan.ops
           declares == {i \in DOMAIN ops : ops[i].op # "insert_notes"}
           refers == {i \in DOMAIN ops : ops[i].ref # Plan!NoId}
           at(id) == CHOOSE i \in declares : ops[i].id = id
           count(kinds) == Cardinality({i \in DOMAIN ops : ops[i].op \in kinds})
           notesFor(id) == Plan!Total([i \in DOMAIN ops |->
                                          IF ops[i].ref = id THEN Len(ops[i].notes) ELSE 0])
<1>1. parts \in Seq(Seq(LastingNote)) /\ Len(parts) \in Nat \ {0} /\ Len(parts) \in Nat
      /\ DOMAIN parts = 1..Len(parts) /\ \A i \in 1..Len(parts) : parts[i] \in Seq(LastingNote)
  BY DEF Sound
<1>2. /\ MaxTracksPerStage \in Nat /\ MaxItemsPerStage \in Nat /\ MaxNotesPerItem \in Nat
      /\ QnMin \in Int /\ QnMax \in Int /\ Grid \in Nat \ {0}
  BY DEF Plan!PlanConstants
<1>3. start \in Int /\ end \in Int /\ end - start >= Grid /\ QnMin <= start /\ end <= QnMax
      /\ Len(parts) <= MaxTracksPerStage - 1
  BY DEF Sound
<1>4. Len(ops) \in 1..MaxOperations
  <2>1. Len(ops) \in Nat /\ Len(ops) >= 1
    BY <1>1, OpsFinite
  <2>2. Len(ops) <= MaxOperations /\ MaxOperations \in Nat
    BY DEF Plan!Preflight, Plan!PlanConstants
  <2> QED
    BY <2>1, <2>2
<1>5. count({"create_folder_track", "create_track"}) <= MaxTracksPerStage
  <2>1. count({"create_folder_track", "create_track"}) <= Len(parts) + 1
    BY <1>1, TracksCounted
  <2>2. IsFiniteSet({i \in DOMAIN ops : ops[i].op \in {"create_folder_track", "create_track"}})
    <3>1. IsFiniteSet(DOMAIN ops)
      <4>1. DOMAIN ops = 1..Len(ops) /\ Len(ops) \in Int
        BY <1>1, OpsFinite
      <4> QED
        BY <4>1, FS_Interval
    <3> QED
      BY <3>1, FS_Subset
  <2>3. count({"create_folder_track", "create_track"}) \in Nat
    BY <2>2, FS_CardinalityType
  <2> HIDE DEF count
  <2> QED
    BY <1>1, <1>2, <1>3, <2>1, <2>3
<1>6. count({"create_midi_item"}) <= MaxItemsPerStage
  <2>1. count({"create_midi_item"}) <= Len(parts)
    BY <1>1, ItemsCounted
  <2>2. IsFiniteSet({i \in DOMAIN ops : ops[i].op \in {"create_midi_item"}})
    <3>1. IsFiniteSet(DOMAIN ops)
      <4>1. DOMAIN ops = 1..Len(ops) /\ Len(ops) \in Int
        BY <1>1, OpsFinite
      <4> QED
        BY <4>1, FS_Interval
    <3> QED
      BY <3>1, FS_Subset
  <2>3. count({"create_midi_item"}) \in Nat
    BY <2>2, FS_CardinalityType
  <2> HIDE DEF count
  <2> QED
    BY <1>1, <1>2, <1>3, <2>1, <2>3
<1>7. \A i, j \in declares : ops[i].id = ops[j].id => i = j
  BY <1>1, NamedOnce
<1>8. \A i \in refers :
        \E j \in declares : /\ j < i /\ ops[j].id = ops[i].ref
                            /\ Plan!SymbolKind(ops[j].op) \in Plan!WantedKinds(ops[i].op)
  BY <1>1, UsesDeclared
<1>9. ASSUME NEW i \in DOMAIN ops, ops[i].op \in {"create_midi_item", "create_region"}
      PROVE  Plan!InQnRange(ops[i].start) /\ Plan!InQnRange(ops[i].end)
             /\ ops[i].end > ops[i].start
  <2>1. ops[i].start = start /\ ops[i].end = end
    BY <1>1, <1>9, SpansAre
  <2> HIDE DEF ops
  <2> QED
    BY <1>2, <1>3, <2>1 DEF Plan!InQnRange
<1>10. \A i \in DOMAIN ops : \A n \in Plan!ToSet(ops[i].notes) :
         LET it == ops[at(ops[i].ref)] IN
         /\ Plan!InQnRange(n.start) /\ Plan!InQnRange(n.end) /\ n.end > n.start
         /\ n.start >= it.start /\ n.end <= it.end
         /\ n.pitch \in 0..127 /\ n.velocity \in 1..127
  BY NotesSound, Zenon
<1>11. ASSUME NEW i \in declares
       PROVE  notesFor(ops[i].id) <= MaxNotesPerItem
  <2>1. PICK sum : sum = notesFor(ops[i].id)
    OBVIOUS
  <2>2. /\ ops[i].op # "create_midi_item" => sum = 0
        /\ \A x \in 1..Len(parts) : i = 3 * x => sum = Len(parts[x])
    <3>1. ops[i].op # "insert_notes" /\ i \in DOMAIN ops
      OBVIOUS
    <3>2. LET total == Plan!Total([j \in DOMAIN ops |->
                                     IF ops[j].ref = ops[i].id THEN Len(ops[j].notes) ELSE 0])
          IN /\ ops[i].op # "create_midi_item" => total = 0
             /\ \A x \in 1..Len(parts) : i = 3 * x => total = Len(parts[x])
      <4> HIDE DEF declares
      <4> QED
        BY <1>1, <3>1, NotesCounted
    <3> QED
      BY <2>1, <3>2, Zenon
  <2>3. CASE ops[i].op # "create_midi_item"
    BY <1>2, <2>1, <2>2, <2>3
  <2>4. CASE ops[i].op = "create_midi_item"
    <3>1. Slot(ops, i, parts, start, end, options)
      BY <1>1, Slots
    <3>2. /\ IsFolder(ops[i]) => FALSE
          /\ IsRegion(ops[i], start, end) => FALSE
          /\ IsSend(ops[i]) => FALSE
          /\ \A x \in 1..Len(parts) : IsTrack(ops[i], x) => FALSE
          /\ \A x \in 1..Len(parts) : IsInsert(ops[i], x, parts[x], start, end) => FALSE
      BY <2>4 DEF IsFolder, IsRegion, IsSend, IsTrack, IsInsert
    <3>3. PICK x \in 1..Len(parts) : i = 3 * x
      BY <3>1, <3>2, Zenon DEF Slot
    <3>4. Len(parts[x]) <= MaxNotesPerItem
      BY <1>1 DEF Sound
    <3> QED
      BY <2>1, <2>2, <3>3, <3>4
  <2> QED
    BY <2>3, <2>4
<1>12. /\ Plan!Total([i \in DOMAIN ops |-> Len(ops[i].notes)]) <= MaxGeneratedNotes
       /\ Len(plan.expected) <= MaxExpectedOutputs
  BY DEF Plan!Preflight
<1>13. ASSUME NEW k \in DOMAIN plan.expected
       PROVE  \E i \in declares : /\ ops[i].id = plan.expected[k].id
                                  /\ Plan!SymbolKind(ops[i].op) = plan.expected[k].kind
  <2>1. parts # <<>>
    BY DEF Sound
  <2>2. PICK i \in declares : plan.expected[k] = Made(ops, i)
    <3>1. \A x \in DOMAIN plan.expected : \E i \in declares : plan.expected[x] = Made(ops, i)
      BY <1>1, <2>1, AnnouncedIsMade
    <3> HIDE DEF declares
    <3> QED
      BY <3>1
  <2>3. Made(ops, i).id = ops[i].id /\ Made(ops, i).kind = Plan!SymbolKind(ops[i].op)
    BY DEF Made
  <2> QED
    BY <2>2, <2>3, Zenon
<1>14. /\ Len(ops) \in 1..MaxOperations
       /\ count({"create_folder_track", "create_track"}) <= MaxTracksPerStage
       /\ count({"create_midi_item"}) <= MaxItemsPerStage
       /\ \A i, j \in declares : ops[i].id = ops[j].id => i = j
       /\ \A i \in refers :
            \E j \in declares : /\ j < i /\ ops[j].id = ops[i].ref
                                /\ Plan!SymbolKind(ops[j].op) \in Plan!WantedKinds(ops[i].op)
       /\ \A i \in DOMAIN ops : ops[i].op \in {"create_midi_item", "create_region"} =>
            /\ Plan!InQnRange(ops[i].start) /\ Plan!InQnRange(ops[i].end)
            /\ ops[i].end > ops[i].start
       /\ \A i \in DOMAIN ops : \A n \in Plan!ToSet(ops[i].notes) :
            LET it == ops[at(ops[i].ref)] IN
            /\ Plan!InQnRange(n.start) /\ Plan!InQnRange(n.end) /\ n.end > n.start
            /\ n.start >= it.start /\ n.end <= it.end
            /\ n.pitch \in 0..127 /\ n.velocity \in 1..127
       /\ \A i \in declares : notesFor(ops[i].id) <= MaxNotesPerItem
       /\ Plan!Total([i \in DOMAIN ops |-> Len(ops[i].notes)]) <= MaxGeneratedNotes
       /\ Len(plan.expected) <= MaxExpectedOutputs
       /\ \A k \in DOMAIN plan.expected :
            \E i \in declares : /\ ops[i].id = plan.expected[k].id
                                /\ Plan!SymbolKind(ops[i].op) = plan.expected[k].kind
  <2> HIDE DEF count, notesFor, declares, refers, at
  <2> QED
    BY <1>4, <1>5, <1>6, <1>7, <1>8, <1>9, <1>10, <1>11, <1>12, <1>13, Zenon
<1>15. \A s : Plan!Cardinality(s) = Cardinality(s)
  BY Zenon DEF Plan!Cardinality, Cardinality
<1> QED
  BY <1>14, <1>15, Zenon DEF Plan!BridgeAccepts

-----------------------------------------------------------------------------
(* The questions about plans.                                              *)

\* What staging makes of a plan is what the plan announces.
LEMMA CreatedIsAnnounced ==
  ASSUME NEW S, NEW parts \in Seq(Seq(S)), parts # <<>>,
         NEW plan, NEW start, NEW end, NEW options,
         Laid(plan.ops, parts, start, end, options),
         Announced(plan.expected, parts, options)
  PROVE  ToSet(plan.expected) = Plan!Created(plan)
<1> DEFINE D == {w \in DOMAIN plan.ops : plan.ops[w].op # "insert_notes"}
<1>1. Plan!Created(plan) = {Made(plan.ops, w) : w \in D}
  BY DEF Plan!Created, Made
<1>2. /\ \A k \in DOMAIN plan.expected : \E w \in D : plan.expected[k] = Made(plan.ops, w)
      /\ \A w \in D : \E k \in DOMAIN plan.expected : plan.expected[k] = Made(plan.ops, w)
  BY AnnouncedIsMade
<1>3. ToSet(plan.expected) = {plan.expected[k] : k \in DOMAIN plan.expected}
  BY DEF ToSet
<1> HIDE DEF D
<1>4. {plan.expected[k] : k \in DOMAIN plan.expected} = {Made(plan.ops, w) : w \in D}
  BY <1>2
<1> QED
  BY <1>1, <1>3, <1>4

\* Every part is written once and nothing else is, near where it is.
WrittenNear(ops, parts) ==
  LET near(a, b) == 2 * (a - b) <= Grid /\ 2 * (b - a) <= Grid
      writes(i) == {w \in DOMAIN ops : /\ ops[w].op = "insert_notes"
                                       /\ ops[w].ref = <<"i", i - 1>>}
  IN /\ \A w \in DOMAIN ops : ops[w].op = "insert_notes" =>
          \E i \in DOMAIN parts : w \in writes(i)
     /\ \A i \in DOMAIN parts : \E w \in DOMAIN ops :
          /\ writes(i) = {w}
          /\ Len(ops[w].notes) = Len(parts[i])
          /\ \A k \in DOMAIN parts[i] :
               /\ near(ops[w].notes[k].start, parts[i][k].onset)
               /\ near(ops[w].notes[k].end, parts[i][k].onset + parts[i][k].length)

\* The notes of a plan are near where the candidate has them.
LEMMA PlacedNear ==
  ASSUME Plan!PlanConstants, NEW parts, NEW start, NEW end, Sound(parts, start, end),
         NEW from \in Int, NEW to \in Int, 2 * (start - from) <= Grid, 2 * (to - end) <= Grid,
         \A n \in Plan!NotesOf(parts) : from <= n.onset /\ Plan!NoteEnd(n) <= to,
         NEW ops, NEW options, Laid(ops, parts, start, end, options)
  PROVE  WrittenNear(ops, parts)
<1> DEFINE n == Len(parts)
           near(a, b) == 2 * (a - b) <= Grid /\ 2 * (b - a) <= Grid
           writes(i) == {w \in DOMAIN ops : /\ ops[w].op = "insert_notes"
                                            /\ ops[w].ref = <<"i", i - 1>>}
<1>1. n \in Nat /\ DOMAIN parts = 1..n /\ \A i \in 1..n : parts[i] \in Seq(LastingNote)
  BY DEF Sound
<1>2. DOMAIN ops = 1..Len(ops) /\ Len(ops) \in Nat /\ Len(ops) >= 3 * n + 1
  BY <1>1 DEF Laid, One
<1>3. ASSUME NEW w \in DOMAIN ops, ops[w].op = "insert_notes"
      PROVE  \E i \in 1..n : w = 3 * i + 1 /\ ops[w].ref = <<"i", i - 1>>
  <2>1. PICK i \in 1..n : w = 3 * i + 1 /\ IsInsert(ops[w], i, parts[i], start, end)
    BY <1>1, <1>3, InsertedNotes
  <2> QED
    BY <2>1 DEF IsInsert
<1>4. ASSUME NEW i \in 1..n
      PROVE  \E w \in DOMAIN ops :
               /\ writes(i) = {w}
               /\ Len(ops[w].notes) = Len(parts[i])
               /\ \A k \in DOMAIN parts[i] :
                    /\ near(ops[w].notes[k].start, parts[i][k].onset)
                    /\ near(ops[w].notes[k].end, parts[i][k].onset + parts[i][k].length)
  <2>1. PICK w \in Int : w = 3 * i + 1 /\ w \in DOMAIN ops
    BY <1>1, <1>2
  <2>2. IsInsert(ops[w], i, parts[i], start, end)
    BY <2>1 DEF Laid
  <2>3. /\ Len(ops[w].notes) = Len(parts[i]) /\ ops[w].ref = <<"i", i - 1>>
        /\ \A k \in 1..Len(parts[i]) :
             ops[w].notes[k] = Plan!PlannedNote(parts[i][k], start, end)
    BY <1>1, <2>2, InsertsAll
  <2>4. w \in writes(i)
    BY <2>1, <2>2, <2>3 DEF IsInsert
  <2>5. ASSUME NEW v \in writes(i) PROVE v = w
    <3>1. PICK x \in 1..n : v = 3 * x + 1 /\ ops[v].ref = <<"i", x - 1>>
      BY <1>3
    <3>2. ops[v].ref = <<"i", i - 1>>
      OBVIOUS
    <3>3. x - 1 = i - 1
      BY <3>1, <3>2
    <3>4. x = i
      BY <3>3
    <3> QED
      BY <2>1, <3>1, <3>4
  <2>6. ASSUME NEW k \in DOMAIN parts[i]
        PROVE  /\ near(ops[w].notes[k].start, parts[i][k].onset)
               /\ near(ops[w].notes[k].end, parts[i][k].onset + parts[i][k].length)
    <3>1. PICK p : p = parts[i][k]
      OBVIOUS
    <3>2. p \in LastingNote /\ k \in 1..Len(parts[i])
      <4>1. parts[i] \in Seq(LastingNote)
        BY <1>1
      <4>2. \A s \in Seq(LastingNote) : \A j \in DOMAIN s : s[j] \in LastingNote /\ j \in 1..Len(s)
        OBVIOUS
      <4> QED
        BY <3>1, <4>1, <4>2
    <3>3. p \in Plan!NotesOf(parts)
      BY <1>1, <3>1 DEF Plan!NotesOf, Plan!ToSet
    <3>4. from <= p.onset /\ Plan!NoteEnd(p) <= to
      BY <3>3
    <3>5. start \in Int /\ end \in Int /\ end - start >= Grid
      BY DEF Sound
    <3>6. LET t == Plan!PlannedNote(p, start, end) IN
          /\ 2 * (t.start - p.onset) <= Grid /\ 2 * (p.onset - t.start) <= Grid
          /\ 2 * (t.end - (p.onset + p.length)) <= Grid
          /\ 2 * ((p.onset + p.length) - t.end) <= Grid
      BY <3>2, <3>4, <3>5, StaysNear
    <3>7. ops[w].notes[k] = Plan!PlannedNote(p, start, end)
      BY <2>3, <3>1, <3>2
    <3> QED
      BY <3>1, <3>6, <3>7, Zenon
  <2>7. writes(i) = {w}
    <3> HIDE DEF writes
    <3> QED
      BY <2>4, <2>5
  <2> HIDE DEF writes, near
  <2> QED
    BY <2>1, <2>3, <2>6, <2>7
<1>5. ASSUME NEW w \in DOMAIN ops, ops[w].op = "insert_notes"
      PROVE  \E i \in DOMAIN parts : w \in writes(i)
  BY <1>1, <1>3, <1>5
<1> HIDE DEF near, writes
<1>6. /\ \A w \in DOMAIN ops : ops[w].op = "insert_notes" => \E i \in DOMAIN parts : w \in writes(i)
      /\ \A i \in DOMAIN parts : \E w \in DOMAIN ops :
           /\ writes(i) = {w}
           /\ Len(ops[w].notes) = Len(parts[i])
           /\ \A k \in DOMAIN parts[i] :
                /\ near(ops[w].notes[k].start, parts[i][k].onset)
                /\ near(ops[w].notes[k].end, parts[i][k].onset + parts[i][k].length)
  BY <1>1, <1>4, <1>5
<1> QED
  BY <1>6, Zenon DEF near, writes, WrittenNear

\* What build_plan returns for a question is honest.
LEMMA BuiltIsHonest ==
  ASSUME NEW q \in Stagings, NEW plan \in Plan!BuildPlan(q.parts, q.item, q.options)
  PROVE  /\ Plan!BridgeAccepts(plan)
         /\ ToSet(plan.expected) = Plan!Created(plan)
         /\ WrittenNear(plan.ops, Plan!Heard(q.parts))
<1>1. /\ Plan!PlanConstants /\ QnMin % Grid = 0 /\ QnMax % Grid = 0
      /\ MaxTracksPerStage <= MaxItemsPerStage + 1
  BY PlanInputs, LimitsFit
<1>2. q.parts \in Seq(Seq(LastingNote)) /\ q.item.start \in Int /\ q.item.end \in Int
  BY StagingInputs
<1> DEFINE parts == Plan!Heard(q.parts)
<1>4. PICK start, end, from, to \in Int :
        /\ Sound(parts, start, end)
        /\ plan.ops = Plan!Operations(parts, start, end, q.options)
        /\ plan.expected = Plan!Expected(parts, q.options)
        /\ Plan!Preflight(plan.ops, plan.expected)
        /\ 2 * (start - from) <= Grid /\ 2 * (to - end) <= Grid
        /\ \A n \in Plan!NotesOf(parts) : from <= n.onset /\ Plan!NoteEnd(n) <= to
  <2>1. \E start, end, from, to \in Int :
          Built(plan, parts, q.options, start, end, from, to)
    BY <1>1, <1>2, BuiltPlan
  <2> HIDE DEF parts
  <2> QED
    BY <2>1, Zenon DEF Built
<1> HIDE DEF parts
<1>5. parts \in Seq(Seq(LastingNote)) /\ parts # <<>>
  BY <1>4 DEF Sound
<1>6. Laid(plan.ops, parts, start, end, q.options)
  <2>1. PICK S : S = Seq(LastingNote)
    OBVIOUS
  <2>2. parts \in Seq(S)
    BY <1>5, <2>1
  <2> QED
    BY <1>4, <1>5, <2>2, OperationsLaid
<1>7. Announced(plan.expected, parts, q.options)
  <2>1. PICK S : S = Seq(LastingNote)
    OBVIOUS
  <2>2. parts \in Seq(S)
    BY <1>5, <2>1
  <2> QED
    BY <1>4, <1>5, <2>2, ExpectedLaid
<1>8. Plan!BridgeAccepts(plan)
  BY <1>1, <1>4, <1>6, <1>7, TakenByBridge
<1>9. ToSet(plan.expected) = Plan!Created(plan)
  BY <1>5, <1>6, <1>7, CreatedIsAnnounced
<1>10. WrittenNear(plan.ops, parts)
  BY <1>1, <1>4, <1>6, PlacedNear
<1> QED
  BY <1>8, <1>9, <1>10 DEF parts

\* For every candidate, item and options whose notes last a step of the grid or
\* more: what build_plan returns validate_plan of the bridge takes, it announces
\* what staging it makes, and it writes every part once, each note no further than
\* half a step from where the candidate has it (staging.rs, transactions.lua).
THEOREM PlansAreHonest == PlanSpec => []PlanHonest
<1> DEFINE IInv == /\ kind = "staging" /\ question \in Stagings
                   /\ answered => answer = Plan!BuildPlan(question.parts, question.item,
                                                          question.options)
<1>1. Asked("staging", Stagings) => IInv
  BY DEF Asked
<1>2. IInv /\ [BuildPlan]_vars => IInv'
  BY DEF BuildPlan, Asking, Settled, vars
<1>3. IInv => PlanHonest
  <2> SUFFICES ASSUME IInv, answered PROVE PlanHonest
    BY DEF PlanHonest, PlanAccepted, ExpectedIsCreated, NotesPlacedAsWritten, Answered
  <2>1. \A plan \in answer : /\ Plan!BridgeAccepts(plan)
                             /\ ToSet(plan.expected) = Plan!Created(plan)
                             /\ WrittenNear(plan.ops, Plan!Heard(question.parts))
    BY BuiltIsHonest
  <2>2. PlanAccepted /\ ExpectedIsCreated
    BY <2>1 DEF PlanAccepted, ExpectedIsCreated
  <2>3. NotesPlacedAsWritten
    BY <2>1, Zenon DEF NotesPlacedAsWritten, WrittenNear
  <2> QED
    BY <2>2, <2>3 DEF PlanHonest
<1> QED
  BY <1>1, <1>2, <1>3, PTL DEF PlanSpec
===========================================================================
