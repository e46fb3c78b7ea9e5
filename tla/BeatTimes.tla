------------------------------- MODULE BeatTimes -------------------------------
(***************************************************************************)
(* Positions and lengths as the code has them: rational numbers of quarter *)
(* notes in lowest terms (BeatTime, time.rs), each part in a machine word. *)
(* Sums and products are formed in a word twice as wide; what does not fit *)
(* is cut off at the bound or put on the grid.  The words are small here,  *)
(* and a product that does not fit in the wide one wraps around, as it     *)
(* does in the release build.  Every other module counts positions in a    *)
(* small fraction of a quarter note, which this one justifies.             *)
(***************************************************************************)
EXTENDS Integers, Sequences, FiniteSets

CONSTANTS LargestInt,   \* i64::MAX
          WidestInt,    \* i128::MAX
          GridDen       \* GRID_DEN

BeatWords ==
  /\ LargestInt \in Nat \ {0} /\ WidestInt \in Nat /\ GridDen \in Nat \ {0}
  /\ LargestInt >= GridDen
  /\ WidestInt >= 2 * LargestInt * LargestInt

MaxQuarters == LargestInt \div GridDen

LOCAL Size(n) == IF n < 0 THEN -n ELSE n

\* gcd_i128, of numbers that are not both zero.
Gcd(a, b) ==
  CHOOSE d \in 1..(Size(a) + Size(b)) :
    /\ a % d = 0 /\ b % d = 0
    /\ \A e \in (d + 1)..(Size(a) + Size(b)) : a % e # 0 \/ b % e # 0

\* Mutant of FloorDiv: it rounds towards zero.
FloorDiv_Truncated(a, b) ==
  IF b = 0 THEN 0
  ELSE IF (a < 0) = (b < 0) THEN Size(a) \div Size(b) ELSE -(Size(a) \div Size(b))

FloorDiv(a, b) ==
  IF b = 0 THEN 0 ELSE IF b > 0 THEN a \div b ELSE (0 - a) \div (0 - b)

\* What the wide word keeps of n.
Wide(n) == ((n + WidestInt + 1) % (2 * (WidestInt + 1))) - (WidestInt + 1)

Zero == [num |-> 0, den |-> 1]
Latest == [num |-> MaxQuarters, den |-> 1]
Earliest == [num |-> -MaxQuarters, den |-> 1]

Lowest(n, d) == [num |-> n \div Gcd(n, d), den |-> d \div Gcd(n, d)]

\* from_f64_grid of the number n over d: the nearest point of the grid, a tie
\* away from zero, within the bounds.
OnGrid(n, d) ==
  LET size == Size(n)
      steps == (2 * size * GridDen + d) \div (2 * d)
      kept == IF size > MaxQuarters * d THEN MaxQuarters * GridDen ELSE steps
  IN IF kept = 0 THEN Zero ELSE Lowest(IF n < 0 THEN -kept ELSE kept, GridDen)

\* Mutant of Normal: too large a number is cut off by the word.
Normal_Cut(n, d) ==
  IF n = 0 \/ d = 0 THEN Zero
  ELSE LET t == IF d < 0 THEN Lowest(-n, -d) ELSE Lowest(n, d)
           word(k) == ((k + LargestInt + 1) % (2 * (LargestInt + 1))) - (LargestInt + 1)
       IN IF Size(t.num) <= LargestInt /\ t.den <= LargestInt THEN t
          ELSE [num |-> word(t.num), den |-> t.den]

\* Mutant of Normal: the sign stays with the denominator.
Normal_Signed(n, d) ==
  IF n = 0 \/ d = 0 THEN Zero
  ELSE LET t == IF d < 0 THEN [num |-> n, den |-> -d] ELSE Lowest(n, d)
       IN IF t.num > MaxQuarters * t.den THEN Latest
          ELSE IF t.num < -(MaxQuarters * t.den) THEN Earliest
          ELSE IF Size(t.num) <= LargestInt /\ t.den <= LargestInt THEN t
          ELSE OnGrid(t.num, t.den)

\* from_i128: lowest terms and a positive denominator; then the bound, whose
\* product may itself be too wide; then the narrow word, or the grid.
Normal(n, d) ==
  IF n = 0 \/ d = 0 THEN Zero
  ELSE LET t == IF d < 0 THEN Lowest(-n, -d) ELSE Lowest(n, d)
       IN IF t.num > Wide(MaxQuarters * t.den) THEN Latest
          ELSE IF t.num < Wide(-(MaxQuarters * t.den)) THEN Earliest
          ELSE IF Size(t.num) <= LargestInt /\ t.den <= LargestInt THEN t
          ELSE OnGrid(t.num, t.den)

\* try_new: the empty set for a denominator of zero.
TryNew(n, d) == IF d = 0 THEN {} ELSE {Normal(n, d)}

Add(a, b) == Normal(a.num * b.den + b.num * a.den, a.den * b.den)
Sub(a, b) == Normal(a.num * b.den - b.num * a.den, a.den * b.den)
Neg(a) == Normal(-a.num, a.den)
Times(a, k) == Normal(a.num * k, a.den)
Scale(a, n, d) == IF d = 0 THEN a ELSE Normal(a.num * n, a.den * d)
AbsOf(a) == IF a.num < 0 THEN Neg(a) ELSE a

\* cmp, min and max.
AtMost(a, b) == a.num * b.den <= b.num * a.den
Earlier(a, b) == IF AtMost(a, b) THEN a ELSE b
Later(a, b) == IF AtMost(b, a) THEN a ELSE b

\* div_floor, rem_euclid and divides_evenly_by.
DivFloor(a, m) == IF m.num = 0 THEN 0 ELSE FloorDiv(a.num * m.den, a.den * m.num)
RemEuclid(a, m) ==
  IF m.num = 0 THEN a
  ELSE Normal(a.num * m.den - DivFloor(a, m) * m.num * a.den, a.den * m.den)
DividesEvenly(a, m) == IF m.num = 0 THEN a.num = 0 ELSE RemEuclid(a, m).num = 0
=============================================================================
