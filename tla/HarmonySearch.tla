----------------------------- MODULE HarmonySearch -----------------------------
(***************************************************************************)
(* The path search of harmony-engine (search.rs) and the choice of the     *)
(* paths to show (diversity.rs): a beam over the slots of the harmonic     *)
(* grid, run once under each of the three biases, the passes merged, and a *)
(* few of the merged paths picked to differ from one another.              *)
(*                                                                         *)
(* A problem has, at each slot and option, the score of the option         *)
(* (local), its seed-drawn jitter and how it sounds (two options may sound *)
(* the same); move[a][b] is the score of going from option a to option b.  *)
(* A score is a vector of components; the profile weighs them by weights,  *)
(* the pass of bias b by weights times slant[b], and bonus[b][s][o] is     *)
(* what b adds for the strategy of an option.  Scores are integers, so     *)
(* that the comparisons the code makes within an epsilon are exact; the    *)
(* options of a slot are numbered in the order of their chord texts; what  *)
(* the rules add to a whole path is left out.                              *)
(***************************************************************************)
EXTENDS Integers, Sequences, FiniteSets, SequencesExt

LOCAL Lower(a, b) == IF a <= b THEN a ELSE b
LOCAL Best(S) == CHOOSE x \in S : \A y \in S : x >= y
LOCAL Least(S) == CHOOSE x \in S : \A y \in S : x <= y
LOCAL Take(s, n) == SubSeq(s, 1, Lower(n, Len(s)))

\* Of several that agree on a key, the first.
FirstOfEach(s, Key(_)) ==
  LET firsts == SelectSeq([i \in DOMAIN s |-> i],
                          LAMBDA i : \A j \in 1..(i - 1) : Key(s[j]) # Key(s[i]))
  IN [i \in DOMAIN firsts |-> s[firsts[i]]]

Slots(p) == DOMAIN p.local
Options(p, s) == 1..Lower(p.cap, Len(p.local[s]))
Shape(p, picks) == [s \in DOMAIN picks |-> p.sound[s][picks[s]]]

-----------------------------------------------------------------------------
(* One pass of the beam.                                                   *)

Earlier(f, g) ==
  \E i \in DOMAIN f : f[i] < g[i] /\ \A j \in 1..(i - 1) : f[j] = g[j]

Sum(f) == FoldFunction(+, 0, f)
Times(u, v) == [i \in DOMAIN u |-> u[i] * v[i]]
Plus(u, v) == [i \in DOMAIN u |-> u[i] + v[i]]

\* The biased weights are normalised and the bonuses averaged over the slots:
\* a total is in units of one over the slots and the sum of the weights.
Total(p, b, sums, bias, slots) ==
  LET weights == Times(p.weights, p.slant[b])
  IN slots * Sum(Times(sums, weights)) + bias * Best({1, Sum(weights)})

\* sort_partials: by score, then by the seed, then by the text.
Before(x, y) ==
  \/ x.total > y.total
  \/ x.total = y.total /\ x.jitter > y.jitter
  \/ x.total = y.total /\ x.jitter = y.jitter /\ Earlier(x.picks, y.picks)

First(p, b, o) ==
  [picks |-> <<o>>, sums |-> p.local[1][o], bias |-> p.bonus[b][1][o],
   total |-> Total(p, b, p.local[1][o], p.bonus[b][1][o], 1), jitter |-> p.jitter[1][o]]

\* A partial with option o of the next slot; the jitter of the newest option
\* weighs as much as all before it.
Extended(p, b, x, o) ==
  LET s == Len(x.picks) + 1
      sums == Plus(x.sums, Plus(p.local[s][o], p.move[Last(x.picks)][o]))
      bias == x.bias + p.bonus[b][s][o]
  IN [picks  |-> Append(x.picks, o), sums |-> sums, bias |-> bias,
      total  |-> Total(p, b, sums, bias, s),
      jitter |-> x.jitter + 2 ^ (s - 2) * p.jitter[s][o]]

\* One slot: every option after every partial, as long as transitions are
\* left, then the best of what came out.
Widen(p, b, state, s) ==
  LET pairs == FlattenSeq([o \in Options(p, s) |->
                 [i \in DOMAIN state.beam |-> Extended(p, b, state.beam[i], o)]])
      reached == IF s = 1 THEN [o \in Options(p, 1) |-> First(p, b, o)]
                 ELSE Take(pairs, state.left)
  IN [beam |-> Take(SortSeq(reached, Before), p.width),
      left |-> IF s = 1 THEN state.left ELSE state.left - Len(reached)]

\* Mutant of Beam: only the best partial of a slot is kept.
Beam_Greedy(p, b) ==
  FoldLeft(LAMBDA state, s : Widen([p EXCEPT !.width = 1], b, state, s),
           [beam |-> <<>>, left |-> p.most], [s \in Slots(p) |-> s]).beam

\* Mutant of Beam: every pass over a slot draws on a budget of its own.
Beam_FreshBudget(p, b) ==
  FoldLeft(LAMBDA state, s : Widen(p, b, [state EXCEPT !.left = p.most], s),
           [beam |-> <<>>, left |-> p.most], [s \in Slots(p) |-> s]).beam

\* beam_search up to the realisation: empty when no path could be completed.
Beam(p, b) ==
  FoldLeft(LAMBDA state, s : Widen(p, b, state, s),
           [beam |-> <<>>, left |-> p.most], [s \in Slots(p) |-> s]).beam

\* Of the paths that sound the same the first, and at most want of them; the
\* score a path is given is the profile's, not that of the bias it was found by.
Realised(p, b, want) ==
  LET Paths(beam) == [i \in DOMAIN beam |->
                        [strategy |-> b, picks |-> beam[i].picks,
                         score |-> Sum(Times(beam[i].sums, p.weights))]]
  IN Take(FirstOfEach(Paths(Beam(p, b)), LAMBDA x : Shape(p, x.picks)), want)

\* The places of the ids functional, modal_common_tone and chromatic_bass_led
\* among themselves, as texts.
TextRank == <<2, 3, 1>>

\* sort_paths: by score, then by the texts of the strategy and of the chords.
Ahead(x, y) ==
  \/ x.score > y.score
  \/ x.score = y.score /\ TextRank[x.strategy] < TextRank[y.strategy]
  \/ x.score = y.score /\ x.strategy = y.strategy /\ Earlier(x.picks, y.picks)

\* Mutant of Merged: sorted by the order of the passes alone.
Merged_Unsorted(p, found) ==
  Take(FirstOfEach(FlattenSeq(found), LAMBDA x : Shape(p, x.picks)), p.want)

Merged(p, found) ==
  Take(SortSeq(FirstOfEach(FlattenSeq(found), LAMBDA x : Shape(p, x.picks)), Ahead), p.want)

\* search_in: <<>> for every error; one pass that fails fails the search.
Search(p) ==
  LET biases == Len(p.bonus)
      each == (p.want + biases - 1) \div biases
      All(found) == IF \E b \in 1..biases : found[b] = <<>> THEN <<>> ELSE Merged(p, found)
  IN All([b \in 1..biases |-> Realised(p, b, each)])

-----------------------------------------------------------------------------
(* diversify: the best path of every strategy first, then one by one the   *)
(* path whose score pays best for its likeness to those chosen.  A path    *)
(* has a strategy, a total and a jitter; like[i][j] is 0..2 halves; the    *)
(* appetite is 0, 1 or 2 halves.                                           *)

\* Mutant of Representatives: the best path stands for all strategies.
Representatives_One(paths) ==
  SortSeq(SetToSeq({CHOOSE i \in DOMAIN paths :
                      \A j \in DOMAIN paths : paths[i].total >= paths[j].total}), <)

Representatives(paths) ==
  LET better(i, j) == \/ paths[i].total > paths[j].total
                      \/ paths[i].total = paths[j].total /\ paths[i].jitter < paths[j].jitter
      best(s) == CHOOSE i \in DOMAIN paths :
                   /\ paths[i].strategy = s
                   /\ \A j \in DOMAIN paths \ {i} : paths[j].strategy = s =>
                        better(i, j) \/ (~better(j, i) /\ i > j)
  IN SortSeq(SetToSeq({best(paths[i].strategy) : i \in DOMAIN paths}),
             LAMBDA i, j : \/ paths[i].total > paths[j].total
                           \/ paths[i].total = paths[j].total /\ i < j)

\* (score - lambda * likeness), times 8 and the spread of the scores.
Value(paths, like, appetite, chosen, i) ==
  LET totals == {paths[j].total : j \in DOMAIN paths}
      spread == Best(totals) - Least(totals)
      alike == Best({0} \cup {like[c][i] : c \in ToSet(chosen)})
  IN 16 * (paths[i].total - Least(totals)) - (2 + 3 * appetite) * spread * alike

Diversified(paths, like, appetite, want) ==
  LET wanted == Lower(want, Len(paths))
      firsts == Take(Representatives(paths), wanted)
      value(chosen, i) == Value(paths, like, appetite, chosen, i)
      next(chosen) ==
        CHOOSE i \in DOMAIN paths \ ToSet(chosen) :
          \A j \in DOMAIN paths \ (ToSet(chosen) \cup {i}) :
            \/ value(chosen, i) > value(chosen, j)
            \/ /\ value(chosen, i) = value(chosen, j)
               /\ \/ paths[i].jitter > paths[j].jitter
                  \/ paths[i].jitter = paths[j].jitter /\ i < j
      grown[n \in Len(firsts)..wanted] ==
        IF n = Len(firsts) THEN firsts
        ELSE Append(grown[n - 1], next(grown[n - 1]))
  IN grown[wanted]
=============================================================================
