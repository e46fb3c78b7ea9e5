------------------------------- MODULE JsonText -------------------------------
(***************************************************************************)
(* The JSON of qjson as text (json.rs): the parser, and the compact, the   *)
(* indented and the canonical writer.  A text is a sequence of tokens: the *)
(* six marks, white space, and scalars, which are values by themselves     *)
(* (how a number or a string is written is left out).  A key is a number,  *)
(* so that keys have an order; a value is a record with its type.          *)
(***************************************************************************)
EXTENDS Integers, Sequences, FiniteSets, SequencesExt

CONSTANT MaxParseDepth   \* MAX_PARSE_DEPTH

ParseDepth == MaxParseDepth \in Nat \ {0}

Null == [t |-> "null"]
Bool(b) == [t |-> "bool", b |-> b]
Whole(n) == [t |-> "int", n |-> n]
Half(n) == [t |-> "float", n |-> n]   \* n halves
Str(k) == [t |-> "str", s |-> k]
Arr(items) == [t |-> "arr", items |-> items]
Obj(entries) == [t |-> "obj", entries |-> entries]   \* of <<key, value>>

Mark(m) == [t |-> "mark", m |-> m]
Space == [t |-> "space"]
Scalars == {"null", "bool", "int", "float", "str"}

-----------------------------------------------------------------------------
(* JsonMap                                                                 *)

\* Mutant of Insert: as a plain push.
Insert_Push(entries, key, value) == Append(entries, <<key, value>>)

\* A key that is there keeps its place.
Insert(entries, key, value) ==
  IF \E i \in DOMAIN entries : entries[i][1] = key
  THEN [i \in DOMAIN entries |-> IF entries[i][1] = key THEN <<key, value>> ELSE entries[i]]
  ELSE Append(entries, <<key, value>>)

\* PartialEq: whatever the order of the keys.
RECURSIVE Equal(_, _)
Equal(v, w) ==
  /\ v.t = w.t
  /\ CASE v.t = "arr" -> /\ Len(v.items) = Len(w.items)
                         /\ \A i \in DOMAIN v.items : Equal(v.items[i], w.items[i])
       [] v.t = "obj" -> /\ Len(v.entries) = Len(w.entries)
                         /\ \A i \in DOMAIN v.entries : \E k \in DOMAIN w.entries :
                              /\ v.entries[i][1] = w.entries[k][1]
                              /\ Equal(v.entries[i][2], w.entries[k][2])
       [] OTHER -> v = w

-----------------------------------------------------------------------------
(* Writing                                                                 *)

Joined(parts, between) ==
  FlattenSeq([i \in DOMAIN parts |-> (IF i = 1 THEN <<>> ELSE between) \o parts[i]])

\* Mutant of KeyOrder: never sorted.
KeyOrder_AsIs(entries, canonical) == entries

KeyOrder(entries, canonical) ==
  IF canonical THEN SortSeq(entries, LAMBDA e, f : e[1] < f[1]) ELSE entries

RECURSIVE WriteCompact(_, _), WritePretty(_, _)
WriteCompact(v, canonical) ==
  LET member(e) == <<Str(e[1]), Mark(":")>> \o WriteCompact(e[2], canonical)
      entries == KeyOrder(v.entries, canonical)
  IN CASE v.t = "arr" ->
            <<Mark("[")>>
              \o Joined([i \in DOMAIN v.items |-> WriteCompact(v.items[i], canonical)], <<Mark(",")>>)
              \o <<Mark("]")>>
       [] v.t = "obj" ->
            <<Mark("{")>> \o Joined([i \in DOMAIN entries |-> member(entries[i])], <<Mark(",")>>)
              \o <<Mark("}")>>
       [] OTHER -> <<v>>

\* A new line, and as many indents as the level says.
Line(level) == [i \in 1..(level + 1) |-> Space]

WritePretty(v, level) ==
  LET inside == Line(level + 1)
      member(e) == inside \o <<Str(e[1]), Mark(":"), Space>> \o WritePretty(e[2], level + 1)
  IN IF v.t = "arr" /\ v.items # <<>>
     THEN <<Mark("[")>>
            \o Joined([i \in DOMAIN v.items |-> inside \o WritePretty(v.items[i], level + 1)],
                      <<Mark(",")>>)
            \o Line(level) \o <<Mark("]")>>
     ELSE IF v.t = "obj" /\ v.entries # <<>>
     THEN <<Mark("{")>>
            \o Joined([i \in DOMAIN v.entries |-> member(v.entries[i])], <<Mark(",")>>)
            \o Line(level) \o <<Mark("}")>>
     ELSE WriteCompact(v, FALSE)

-----------------------------------------------------------------------------
(* Parsing.  Where a value begins, how deep that is and the path to it; an *)
(* error names its kind and the path where it was met.                     *)

Read(value, at) == [ok |-> TRUE, value |-> value, at |-> at]
Fault(kind, path, at) == [ok |-> FALSE, kind |-> kind, path |-> path, at |-> at]

RECURSIVE SkipWs(_, _)
SkipWs(text, at) == IF at <= Len(text) /\ text[at] = Space THEN SkipWs(text, at + 1) ELSE at

At(text, at, m) == at <= Len(text) /\ text[at] = Mark(m)

RECURSIVE ParseValue(_, _, _, _), Members(_, _, _, _, _), Items(_, _, _, _, _),
          ParseValue_Deeper(_, _, _, _)

\* Mutant of ParseValue: one level too many.
ParseValue_Deeper(text, at, depth, path) ==
  LET next == SkipWs(text, at + 1)
  IN IF at > Len(text) THEN Fault("syntax", path, at)
     ELSE IF text[at].t \in Scalars THEN Read(text[at], at + 1)
     ELSE IF ~(At(text, at, "{") \/ At(text, at, "[")) THEN Fault("syntax", path, at)
     ELSE IF depth > MaxParseDepth THEN Fault("depth_limit", path, at)
     ELSE IF At(text, at, "{")
          THEN IF At(text, next, "}") THEN Read(Obj(<<>>), next + 1)
               ELSE Members(text, next, depth + 1, path, <<>>)
          ELSE IF At(text, next, "]") THEN Read(Arr(<<>>), next + 1)
               ELSE Items(text, next, depth + 1, path, <<>>)

ParseValue(text, at, depth, path) ==
  LET next == SkipWs(text, at + 1)
  IN IF at > Len(text) THEN Fault("syntax", path, at)
     ELSE IF text[at].t \in Scalars THEN Read(text[at], at + 1)
     ELSE IF ~(At(text, at, "{") \/ At(text, at, "[")) THEN Fault("syntax", path, at)
     ELSE IF depth >= MaxParseDepth THEN Fault("depth_limit", path, at)
     ELSE IF At(text, at, "{")
          THEN IF At(text, next, "}") THEN Read(Obj(<<>>), next + 1)
               ELSE Members(text, next, depth + 1, path, <<>>)
          ELSE IF At(text, next, "]") THEN Read(Arr(<<>>), next + 1)
               ELSE Items(text, next, depth + 1, path, <<>>)

\* parse_object, from a key on; depth is that of the members.
Members(text, from, depth, path, entries) ==
  LET On(more, end) ==
        IF At(text, end, ",") THEN Members(text, end + 1, depth, path, more)
        ELSE IF At(text, end, "}") THEN Read(Obj(more), end + 1)
        ELSE Fault("syntax", path, end)
      With(key, value) ==
        IF ~value.ok THEN value
        ELSE On(Insert(entries, key, value.value), SkipWs(text, value.at))
      Member(at, colon) ==
        IF at > Len(text) \/ text[at].t # "str" THEN Fault("syntax", path, at)
        ELSE IF ~At(text, colon, ":") THEN Fault("syntax", path, colon)
        ELSE With(text[at].s,
                  ParseValue(text, SkipWs(text, colon + 1), depth, Append(path, text[at].s)))
      From(at) == Member(at, SkipWs(text, at + 1))
  IN From(SkipWs(text, from))

\* parse_array, from an item on.  A segment of a path is a key, or an index
\* with the sign that sets it apart.
Items(text, from, depth, path, items) ==
  LET On(more, end) ==
        IF At(text, end, ",") THEN Items(text, end + 1, depth, path, more)
        ELSE IF At(text, end, "]") THEN Read(Arr(more), end + 1)
        ELSE Fault("syntax", path, end)
      With(value) == IF ~value.ok THEN value
                     ELSE On(Append(items, value.value), SkipWs(text, value.at))
  IN With(ParseValue(text, SkipWs(text, from), depth, Append(path, -(Len(items) + 1))))

Parse(text) ==
  LET Entire(value) ==
        IF ~value.ok THEN value
        ELSE IF SkipWs(text, value.at) # Len(text) + 1
             THEN Fault("trailing", <<>>, SkipWs(text, value.at)) ELSE value
  IN Entire(ParseValue(text, SkipWs(text, 1), 0, <<>>))

-----------------------------------------------------------------------------
(* What the text has to do with the value                                  *)

RECURSIVE Depth(_), Sorted(_)
Depth(v) ==
  LET deepest(S) == CHOOSE d \in {0} \cup S : \A e \in S : e <= d
  IN CASE v.t = "arr" -> 1 + deepest({Depth(v.items[i]) : i \in DOMAIN v.items})
       [] v.t = "obj" -> 1 + deepest({Depth(v.entries[i][2]) : i \in DOMAIN v.entries})
       [] OTHER -> 0

\* No key twice in an object; or more, the keys of each in their order.
RECURSIVE KeysHold(_, _)
KeysHold(v, rising) ==
  CASE v.t = "arr" -> \A i \in DOMAIN v.items : KeysHold(v.items[i], rising)
    [] v.t = "obj" -> \A i \in DOMAIN v.entries :
                        /\ KeysHold(v.entries[i][2], rising)
                        /\ \A k \in 1..(i - 1) :
                             IF rising THEN v.entries[k][1] < v.entries[i][1]
                             ELSE v.entries[k][1] # v.entries[i][1]
    [] OTHER -> TRUE

KeysOnce(v) == KeysHold(v, FALSE)
KeysRise(v) == KeysHold(v, TRUE)

\* How many brackets are open before a place of the text.
Open(text, at) ==
  LET marks(M) == Cardinality({i \in 1..(at - 1) : \E m \in M : text[i] = Mark(m)})
  IN marks({"[", "{"}) - marks({"]", "}"})

\* sort_keys_recursive.
Sorted(v) ==
  CASE v.t = "arr" -> Arr([i \in DOMAIN v.items |-> Sorted(v.items[i])])
    [] v.t = "obj" ->
         Obj(KeyOrder([i \in DOMAIN v.entries |-> <<v.entries[i][1], Sorted(v.entries[i][2])>>], TRUE))
    [] OTHER -> v
=============================================================================
