------------------------------- MODULE Patterns -------------------------------
(***************************************************************************)
(* The regular expressions of qjson (regex.rs): the pattern parser, and    *)
(* the backtracking matcher.  A pattern and a subject are sequences of     *)
(* characters, a character is a one-letter string, and positions in a      *)
(* subject count from zero as they do in the code.                         *)
(*                                                                         *)
(* The matcher hands each position it reaches to a continuation, which     *)
(* says whether to go on.  Here it is the sequence of those positions, in  *)
(* the order in which they are tried.  The budget of steps and the depth   *)
(* of the stack are left out; unicode classes are the ASCII ones.          *)
(***************************************************************************)
EXTENDS Integers, Sequences, FiniteSets, SequencesExt

CONSTANT MaxGroupDepth   \* MAX_GROUP_DEPTH

GroupDepth == MaxGroupDepth \in Nat

\* The characters that ranges reach, in their order; of those that may be
\* escaped, the marks of the syntax and two of the control characters.
Order == <<" ", "-", "0", "1", "2", "9", "A", "Z", "_", "a", "b", "c", "z">>
Digits == {"0", "1", "2", "3", "4", "5", "6", "7", "8", "9"}
WordChars == {Order[i] : i \in 3..Len(Order)} \cup Digits
Spaces == {" ", "\n", "\t"}
Shorthands == {"d", "D", "w", "W", "s", "S"}
Named == [n |-> "\n", t |-> "\t"]
Escapable == {".", "\\", "-", "/", "+", "*", "?", "(", ")", "[", "]", "{", "}", "|", "^", "$"}
Unbounded == -1

Rank(c) == CHOOSE i \in 0..Len(Order) : IF i = 0 THEN c \notin {Order[k] : k \in DOMAIN Order}
                                        ELSE Order[i] = c
Value(d) == CHOOSE v \in 0..9 : ToString(v) = d

-----------------------------------------------------------------------------
(* Parsing.  What a step of the parser returns: a tree and where it stopped *)

Done(tree, at) == [ok |-> TRUE, tree |-> tree, at |-> at]
Failed == [ok |-> FALSE]
Then(r, F(_, _)) == IF r.ok THEN F(r.tree, r.at) ELSE Failed

Peek(p, at, cs) == at <= Len(p) /\ p[at] \in cs

Char(c) == [is |-> "char", c |-> c]
Class(neg, items) == [is |-> "class", neg |-> neg, items |-> items]
Shorthand(c) == [is |-> "shorthand", c |-> c]
Between(lo, hi) == [is |-> "range", lo |-> lo, hi |-> hi]

EscapeChar(c, at) ==
  IF c \in DOMAIN Named THEN Done(Named[c], at)
  ELSE IF c \in Escapable THEN Done(c, at) ELSE Failed

Escape(p, at) ==
  IF at + 1 > Len(p) THEN Failed
  ELSE IF p[at + 1] \in Shorthands
       THEN Done(Class(FALSE, <<Shorthand(p[at + 1])>>), at + 2)
       ELSE Then(EscapeChar(p[at + 1], at + 2), LAMBDA c, next : Done(Char(c), next))

\* One character of a class, written as itself or escaped.
ClassChar(p, at) ==
  IF at > Len(p) THEN Failed
  ELSE IF p[at] # "\\" THEN Done(p[at], at + 1)
  ELSE IF at + 1 > Len(p) THEN Failed ELSE EscapeChar(p[at + 1], at + 2)

RECURSIVE ClassItems(_, _, _)
ClassItems(p, at, items) ==
  IF at > Len(p) THEN Failed
  ELSE IF p[at] = "]" /\ items # <<>> THEN Done(items, at + 1)
  ELSE IF p[at] = "\\" /\ Peek(p, at + 1, Shorthands)
       THEN ClassItems(p, at + 2, Append(items, Shorthand(p[at + 1])))
  ELSE Then(ClassChar(p, at), LAMBDA lo, next :
         IF Peek(p, next, {"-"}) /\ next < Len(p) /\ p[next + 1] # "]"
         THEN Then(ClassChar(p, next + 1), LAMBDA hi, after :
                IF Rank(hi) < Rank(lo) THEN Failed
                ELSE ClassItems(p, after, Append(items, Between(lo, hi))))
         ELSE ClassItems(p, next, Append(items, Between(lo, lo))))

ParseClass(p, at) ==
  LET neg == Peek(p, at + 1, {"^"})
  IN Then(ClassItems(p, IF neg THEN at + 2 ELSE at + 1, <<>>), LAMBDA items, next :
       Done(Class(neg, items), next))

\* The number written from a position on, and where its digits end.
Number(p, at) ==
  LET end == CHOOSE e \in at..(Len(p) + 1) :
               ~Peek(p, e, Digits) /\ \A i \in at..(e - 1) : Peek(p, i, Digits)
      value[i \in (at - 1)..(end - 1)] ==
        IF i < at THEN 0 ELSE (10 * value[i - 1]) + Value(p[i])
  IN [some |-> end > at, n |-> value[end - 1], at |-> end]

\* {m}, {m,} or {m,n}; anything else after a brace is no quantifier.
Braces(p, at) ==
  LET Of(low, high) ==
        IF ~low.some THEN Failed
        ELSE IF Peek(p, low.at, {"}"})
             THEN Done([min |-> low.n, max |-> low.n], low.at + 1)
        ELSE IF Peek(p, low.at, {","}) /\ Peek(p, high.at, {"}"})
             THEN Done([min |-> low.n, max |-> IF high.some THEN high.n ELSE Unbounded], high.at + 1)
        ELSE Failed
      From(low) == Of(low, Number(p, low.at + 1))
  IN From(Number(p, at + 1))

Bounds(p, at) ==
  IF Peek(p, at, {"*"}) THEN Done([min |-> 0, max |-> Unbounded], at + 1)
  ELSE IF Peek(p, at, {"+"}) THEN Done([min |-> 1, max |-> Unbounded], at + 1)
  ELSE IF Peek(p, at, {"?"}) THEN Done([min |-> 0, max |-> 1], at + 1)
  ELSE IF Peek(p, at, {"{"}) THEN Braces(p, at) ELSE Failed

Quantified(p, atom, at) ==
  LET Times(b, lazy) ==
        IF ~b.ok THEN Done(atom, at)
        ELSE IF b.tree.max # Unbounded /\ b.tree.max < b.tree.min THEN Failed
        ELSE IF atom.is \in {"start", "end"} THEN Failed
        ELSE Done([is |-> "repeat", node |-> atom, min |-> b.tree.min, max |-> b.tree.max,
                   greedy |-> ~lazy],
                  IF lazy THEN b.at + 1 ELSE b.at)
      By(b) == Times(b, Peek(p, b.at, {"?"}))
  IN By(Bounds(p, at))

RECURSIVE ParseAlt(_, _, _), ParseAlt_Two(_, _, _), Branch(_, _, _), Atom(_, _, _)

\* Mutant of ParseAlt: one bar, and no more.
ParseAlt_Two(p, at, depth) ==
  Then(Branch(p, at, depth), LAMBDA first, next :
    IF Peek(p, next, {"|"})
    THEN Then(Branch(p, next + 1, depth), LAMBDA second, after : Done(<<first, second>>, after))
    ELSE Done(<<first>>, next))

ParseAlt(p, at, depth) ==
  Then(Branch(p, at, depth), LAMBDA first, next :
    IF Peek(p, next, {"|"})
    THEN Then(ParseAlt(p, next + 1, depth), LAMBDA rest, after : Done(<<first>> \o rest, after))
    ELSE Done(<<first>>, next))

Branch(p, at, depth) ==
  IF at > Len(p) \/ Peek(p, at, {"|", ")"}) THEN Done(<<>>, at)
  ELSE Then(Atom(p, at, depth), LAMBDA atom, next :
         Then(Quantified(p, atom, next), LAMBDA node, after :
           Then(Branch(p, after, depth), LAMBDA rest, end : Done(<<node>> \o rest, end))))

Atom(p, at, depth) ==
  LET c == p[at]
      inside == IF Peek(p, at + 1, {"?"}) /\ Peek(p, at + 2, {":"}) THEN at + 3 ELSE at + 1
  IN CASE c = "^" -> Done([is |-> "start"], at + 1)
       [] c = "$" -> Done([is |-> "end"], at + 1)
       [] c = "." -> Done([is |-> "any"], at + 1)
       [] c = "(" -> IF depth >= MaxGroupDepth THEN Failed
                     ELSE Then(ParseAlt(p, inside, depth + 1), LAMBDA alt, next :
                            IF Peek(p, next, {")"})
                            THEN Done([is |-> "alt", branches |-> alt], next + 1) ELSE Failed)
       [] c = "[" -> ParseClass(p, at)
       [] c = "\\" -> Escape(p, at)
       [] c \in {")", "*", "+", "?"} -> Failed
       [] OTHER -> Done(Char(c), at + 1)

\* Regex::new: the branches of the pattern, all of it read.
Compile(p) ==
  Then(ParseAlt(p, 1, 0), LAMBDA root, next :
    IF next = Len(p) + 1 THEN Done(root, next) ELSE Failed)

-----------------------------------------------------------------------------
(* Matching                                                                *)

ItemMatches(item, c) ==
  IF item.is = "range" THEN c = item.lo \/ Rank(c) \in (Rank(item.lo)..Rank(item.hi)) \ {0}
  ELSE CASE item.c = "d" -> c \in Digits     [] item.c = "D" -> c \notin Digits
         [] item.c = "w" -> c \in WordChars  [] item.c = "W" -> c \notin WordChars
         [] item.c = "s" -> c \in Spaces     [] item.c = "S" -> c \notin Spaces

WidthOne(node) == node.is \in {"char", "any", "class"}

MatchOne(node, s, pos) ==
  /\ pos < Len(s)
  /\ LET c == s[pos + 1]
     IN CASE node.is = "char" -> c = node.c
          [] node.is = "any" -> c # "\n"
          [] node.is = "class" ->
               (\E i \in DOMAIN node.items : ItemMatches(node.items[i], c)) # node.neg

\* How many characters a run of at most cap of them takes.
Run(node, s, pos, cap) ==
  CHOOSE k \in 0..(Len(s) - pos) :
    /\ \A i \in 0..(k - 1) : MatchOne(node, s, pos + i)
    /\ k <= cap
    /\ k = cap \/ ~MatchOne(node, s, pos + k)

\* Where the repetitions of a single character may end: the longest first, or
\* the shortest.
RunEnds(n, s, pos) ==
  LET Upto(run) == [k \in 1..(run - n.min + 1) |-> pos + n.min + k - 1]
      Sided(ends) == IF n.greedy THEN Reverse(ends) ELSE ends
  IN Sided(Upto(Run(n.node, s, pos, IF n.max = Unbounded THEN Len(s) ELSE n.max)))

RECURSIVE AltEnds(_, _, _), SeqEnds(_, _, _), Ends(_, _, _),
          RepeatEnds(_, _, _, _), RepeatEnds_OneMore(_, _, _, _)

AltEnds(branches, s, pos) ==
  FlattenSeq([b \in DOMAIN branches |-> SeqEnds(branches[b], s, pos)])

SeqEnds(seq, s, pos) ==
  IF seq = <<>> THEN <<pos>>
  ELSE LET Onward(first) == FlattenSeq([i \in DOMAIN first |-> SeqEnds(Tail(seq), s, first[i])])
       IN Onward(Ends(Head(seq), s, pos) \o <<>>)

Ends(node, s, pos) ==
  CASE WidthOne(node) -> IF MatchOne(node, s, pos) THEN <<pos + 1>> ELSE <<>>
    [] node.is = "start" -> IF pos = 0 THEN <<pos>> ELSE <<>>
    [] node.is = "end" -> IF pos = Len(s) THEN <<pos>> ELSE <<>>
    [] node.is = "alt" -> AltEnds(node.branches, s, pos)
    [] node.is = "repeat" -> IF WidthOne(node.node) THEN RunEnds(node, s, pos)
                             ELSE RepeatEnds(node, s, pos, 0)

\* Mutant of RepeatEnds: one repetition more than the most.
RepeatEnds_OneMore(n, s, pos, count) ==
  LET here == IF count >= n.min THEN <<pos>> ELSE <<>>
      Onward(body) == FlattenSeq([i \in DOMAIN body |->
                        IF body[i] = pos THEN <<pos>> ELSE RepeatEnds_OneMore(n, s, body[i], count + 1)])
      Sided(again) == IF n.greedy THEN again \o here ELSE here \o again
  IN Sided(Onward(IF n.max # Unbounded /\ count > n.max THEN <<>> ELSE Ends(n.node, s, pos) \o <<>>))

\* A body that matched nothing is not repeated: what follows is tried at once.
RepeatEnds(n, s, pos, count) ==
  LET here == IF count >= n.min THEN <<pos>> ELSE <<>>
      Onward(body) == FlattenSeq([i \in DOMAIN body |->
                        IF body[i] = pos THEN <<pos>> ELSE RepeatEnds(n, s, body[i], count + 1)])
      Sided(again) == IF n.greedy THEN again \o here ELSE here \o again
  IN Sided(Onward(IF n.max # Unbounded /\ count >= n.max THEN <<>> ELSE Ends(n.node, s, pos) \o <<>>))

\* Mutant of Anchored: one such branch is enough.
Anchored_Some(root) ==
  \E b \in DOMAIN root : root[b] # <<>> /\ root[b][1].is = "start"

\* anchored_start: every branch begins at the start of the subject.
Anchored(root) ==
  \A b \in DOMAIN root : root[b] # <<>> /\ root[b][1].is = "start"

NotFound == <<>>

FirstEnd(ends) ==
  LET starts == {p \in DOMAIN ends : ends[p] # <<>>}
  IN IF starts = {} THEN NotFound ELSE <<Min(starts), ends[Min(starts)][1]>>

\* find: from the first position at which there is a match, its first end.
Find(root, s) ==
  FirstEnd([p \in 0..(IF Anchored(root) THEN 0 ELSE Len(s)) |-> AltEnds(root, s, p)])

FullMatch(root, s) == Len(s) \in ToSet(AltEnds(root, s, 0))

\* is_match of one pattern: does it compile, and is there a match.
Matches(p, s) == \E re \in {Compile(p)} : re.ok /\ Find(re.tree, s) # NotFound

-----------------------------------------------------------------------------
(* What a pattern means: the set of the positions a match may end at.      *)

RECURSIVE MeantAlt(_, _, _), MeantSeq(_, _, _), Meant(_, _, _), MeantTimes(_, _, _, _)

MeantAlt(branches, s, pos) == UNION {MeantSeq(branches[b], s, pos) : b \in DOMAIN branches}
MeantSeq(seq, s, pos) ==
  IF seq = <<>> THEN {pos}
  ELSE UNION {MeantSeq(Tail(seq), s, e) : e \in Meant(Head(seq), s, pos)}

\* After exactly k repetitions.
MeantTimes(node, s, pos, k) ==
  IF k = 0 THEN {pos} ELSE UNION {Meant(node, s, e) : e \in MeantTimes(node, s, pos, k - 1)}

Meant(node, s, pos) ==
  CASE node.is = "start" -> {pos} \cap {0}
    [] node.is = "end" -> {pos} \cap {Len(s)}
    [] node.is = "alt" -> MeantAlt(node.branches, s, pos)
    [] node.is = "repeat" ->
         UNION {MeantTimes(node.node, s, pos, k) :
                  k \in node.min..(IF node.max = Unbounded THEN node.min + Len(s) ELSE node.max)}
    [] OTHER -> IF MatchOne(node, s, pos) THEN {pos + 1} ELSE {}

\* Whether something that is repeated asks where it is.
RECURSIVE Anchors(_), RepeatsAnchor(_)
Anchors(node) ==
  \/ node.is \in {"start", "end"}
  \/ node.is = "alt" /\ \E b \in DOMAIN node.branches : \E i \in DOMAIN node.branches[b] :
                          Anchors(node.branches[b][i])
  \/ node.is = "repeat" /\ Anchors(node.node)
RepeatsAnchor(node) ==
  \/ node.is = "alt" /\ \E b \in DOMAIN node.branches : \E i \in DOMAIN node.branches[b] :
                          RepeatsAnchor(node.branches[b][i])
  \/ node.is = "repeat" /\ (Anchors(node.node) \/ RepeatsAnchor(node.node))

\* The same pattern with every quantifier of the other kind.
RECURSIVE Turned(_)
Turned(node) ==
  CASE node.is = "alt" -> [node EXCEPT !.branches =
                             [b \in DOMAIN @ |-> [i \in DOMAIN @[b] |-> Turned(@[b][i])]]]
    [] node.is = "repeat" -> [node EXCEPT !.greedy = ~@, !.node = Turned(@)]
    [] OTHER -> node

\* A pattern without escapes, classes and braces, written out again.
RECURSIVE WrittenAlt(_), Written(_)
WrittenAlt(branches) ==
  FlattenSeq([b \in DOMAIN branches |->
    (IF b = 1 THEN <<>> ELSE <<"|">>)
      \o FlattenSeq([i \in DOMAIN branches[b] |-> Written(branches[b][i])])])
Written(node) ==
  CASE node.is = "char" -> <<node.c>>
    [] node.is = "start" -> <<"^">>
    [] node.is = "end" -> <<"$">>
    [] node.is = "any" -> <<".">>
    [] node.is = "alt" -> <<"(">> \o WrittenAlt(node.branches) \o <<")">>
    [] node.is = "repeat" -> Written(node.node)
         \o (IF node.max = 1 THEN <<"?">> ELSE IF node.min = 1 THEN <<"+">> ELSE <<"*">>)
         \o (IF node.greedy THEN <<>> ELSE <<"?">>)

\* What such a pattern has at a place, by its neighbour alone.
Role(p) ==
  LET role[i \in DOMAIN p] ==
        IF p[i] \notin {"*", "+", "?"} THEN IF p[i] \in {"(", "|", "^", "$"} THEN "other" ELSE "atom"
        ELSE IF i = 1 THEN "stray"
        ELSE IF role[i - 1] = "atom" THEN "quantifier"
        ELSE IF role[i - 1] = "quantifier" /\ p[i] = "?" THEN "lazy" ELSE "stray"
  IN role

Nesting(p, i) ==
  Cardinality({k \in 1..i : p[k] = "("}) - Cardinality({k \in 1..i : p[k] = ")"})

WellFormed(p) ==
  /\ \A i \in DOMAIN p : Nesting(p, i) \in 0..MaxGroupDepth /\ Role(p)[i] # "stray"
  /\ Nesting(p, Len(p)) = 0
=============================================================================
