------------------------------ MODULE JsonSchema ------------------------------
(***************************************************************************)
(* JSON Schema as qjson checks it (schema.rs).  A schema is a record of    *)
(* the keywords that are there, each under its own name; a document has    *)
(* the root and the named definitions.  Strings and keys are sequences of  *)
(* characters; numbers are counted in halves, which floats hold exactly.   *)
(* Annotations and the wording of the messages are left out.               *)
(***************************************************************************)
EXTENDS JsonText, Patterns

CONSTANT MaxRefDepth   \* MAX_REF_DEPTH

RefDepth == MaxRefDepth \in Nat

Types == {"null", "boolean", "object", "array", "number", "string", "integer"}
RootRef == "#"

Has(node, keyword) == keyword \in DOMAIN node
Unit(keyword) == keyword \in {"minItems", "maxItems", "minLength", "maxLength",
                              "minProperties", "maxProperties"}

-----------------------------------------------------------------------------
(* Compiling                                                               *)

\* The subschemas under one keyword.
Subschemas(node, keyword) ==
  CASE keyword \in {"additionalProperties", "propertyNames", "items", "not"} -> <<node[keyword]>>
    [] keyword \in {"allOf", "anyOf", "oneOf", "prefixItems"} -> node[keyword]
    [] keyword \in {"properties", "patternProperties"} ->
         [i \in DOMAIN node[keyword] |-> node[keyword][i][2]]
    [] OTHER -> <<>>

WellShaped(node, keyword, names) ==
  CASE keyword = "ref" -> node.ref \in names \cup {RootRef}
    [] keyword = "type" -> node.type # {} /\ node.type \subseteq Types
    [] keyword \in {"enum", "allOf", "anyOf", "oneOf"} -> node[keyword] # <<>>
    [] Unit(keyword) -> node[keyword] >= 0
    [] keyword = "multipleOf" -> node.multipleOf > 0
    [] keyword = "pattern" -> Compile(node.pattern).ok
    [] keyword = "patternProperties" ->
         \A i \in DOMAIN node[keyword] : Compile(node[keyword][i][1]).ok
    [] OTHER -> TRUE

RECURSIVE NodeCompiles(_, _)
NodeCompiles(node, names) ==
  \A keyword \in DOMAIN node :
    /\ WellShaped(node, keyword, names)
    /\ \A i \in DOMAIN Subschemas(node, keyword) :
         NodeCompiles(Subschemas(node, keyword)[i], names)

Compiles(doc) ==
  /\ NodeCompiles(doc.root, DOMAIN doc.defs)
  /\ \A name \in DOMAIN doc.defs : NodeCompiles(doc.defs[name], DOMAIN doc.defs)

-----------------------------------------------------------------------------
(* What a value is                                                         *)

IsNumber(v) == v.t \in {"int", "float"}
Halves(v) == IF v.t = "int" THEN 2 * v.n ELSE v.n

OfType(type, v) ==
  CASE type = "null" -> v.t = "null"
    [] type = "boolean" -> v.t = "bool"
    [] type = "object" -> v.t = "obj"
    [] type = "array" -> v.t = "arr"
    [] type = "string" -> v.t = "str"
    [] type = "number" -> IsNumber(v)
    [] type = "integer" -> IsNumber(v) /\ Halves(v) % 2 = 0

\* Mutant of EscapePointer: a slash first, and its tilde once more.
EscapePointer_Twice(key) ==
  FlattenSeq([i \in DOMAIN key |-> CASE key[i] = "~" -> <<"~", "0">>
                                     [] key[i] = "/" -> <<"~", "0", "1">>
                                     [] OTHER -> <<key[i]>>])

\* escape_pointer.
EscapePointer(key) ==
  FlattenSeq([i \in DOMAIN key |-> CASE key[i] = "~" -> <<"~", "0">>
                                     [] key[i] = "/" -> <<"~", "1">>
                                     [] OTHER -> <<key[i]>>])

Child(path, segment) == path \o <<"/">> \o segment
Index(i) == <<ToString(i - 1)>>

-----------------------------------------------------------------------------
(* Checking: the violations, in the order in which they are found          *)

Wrong(path, keyword) == [path |-> path, keyword |-> keyword]
Unless(holds, path, keyword) == IF holds THEN <<>> ELSE <<Wrong(path, keyword)>>
Limit(node, keyword, path, Within(_)) ==
  IF Has(node, keyword) THEN Unless(Within(node[keyword]), path, keyword) ELSE <<>>

CheckScalar(node, v, path) ==
  (IF Has(node, "type")
   THEN Unless(\E type \in node.type : OfType(type, v), path, "type") ELSE <<>>)
    \o Limit(node, "enum", path, LAMBDA values : \E i \in DOMAIN values : Equal(values[i], v))
    \o Limit(node, "const", path, LAMBDA value : Equal(value, v))

CheckNumber(node, v, path) ==
  IF ~IsNumber(v) THEN <<>>
  ELSE Limit(node, "minimum", path, LAMBDA m : Halves(v) >= m)
         \o Limit(node, "maximum", path, LAMBDA m : Halves(v) <= m)
         \o Limit(node, "exclusiveMinimum", path, LAMBDA m : Halves(v) > m)
         \o Limit(node, "exclusiveMaximum", path, LAMBDA m : Halves(v) < m)
         \o Limit(node, "multipleOf", path, LAMBDA m : Halves(v) % m = 0)

CheckString(node, v, path) ==
  IF v.t # "str" THEN <<>>
  ELSE Limit(node, "minLength", path, LAMBDA m : Len(v.s) >= m)
         \o Limit(node, "maxLength", path, LAMBDA m : Len(v.s) <= m)
         \o Limit(node, "pattern", path, LAMBDA p : Matches(p, v.s))

RECURSIVE Check(_, _, _, _, _)

Accepted(doc, node, v, path, depth) == Check(doc, node, v, path, depth) = <<>>

\* Mutant of CheckItems: items is for every item, those with a prefix too.
CheckItems_All(doc, node, v, path, depth) ==
  FlattenSeq([i \in DOMAIN v.items |->
    LET child == Child(path, Index(i))
        prefix == IF Has(node, "prefixItems") THEN node.prefixItems ELSE <<>>
    IN (IF i \in DOMAIN prefix THEN Check(doc, prefix[i], v.items[i], child, depth) ELSE <<>>)
       \o (IF Has(node, "items") THEN Check(doc, node.items, v.items[i], child, depth) ELSE <<>>)])

CheckItems(doc, node, v, path, depth) ==
  FlattenSeq([i \in DOMAIN v.items |->
    LET child == Child(path, Index(i))
        prefix == IF Has(node, "prefixItems") THEN node.prefixItems ELSE <<>>
    IN IF i \in DOMAIN prefix THEN Check(doc, prefix[i], v.items[i], child, depth)
       ELSE IF Has(node, "items") THEN Check(doc, node.items, v.items[i], child, depth)
       ELSE <<>>])

CheckArray(doc, node, v, path, depth) ==
  LET repeated(i) == \E k \in 1..(i - 1) : Equal(v.items[k], v.items[i])
  IN IF v.t # "arr" THEN <<>>
     ELSE Limit(node, "minItems", path, LAMBDA m : Len(v.items) >= m)
            \o Limit(node, "maxItems", path, LAMBDA m : Len(v.items) <= m)
            \o (IF Has(node, "uniqueItems") /\ node.uniqueItems
                THEN FlattenSeq([i \in DOMAIN v.items |->
                       Unless(~repeated(i), Child(path, Index(i)), "uniqueItems")])
                ELSE <<>>)
            \o CheckItems(doc, node, v, path, depth)

\* One member: by its name, by every pattern its name matches, and by
\* additionalProperties when neither says anything of it.
CheckMember(doc, node, key, member, path, depth) ==
  LET child == Child(path, EscapePointer(key))
      listed(keyword) == IF Has(node, keyword) THEN node[keyword] ELSE <<>>
      By(stated) ==
        FlattenSeq([i \in DOMAIN stated |-> Check(doc, stated[i][2], member, child, depth)])
          \o (IF stated # <<>> \/ ~Has(node, "additionalProperties") THEN <<>>
              ELSE IF Has(node.additionalProperties, "boolean")
                   THEN Unless(node.additionalProperties.boolean, child, "additionalProperties")
                   ELSE Check(doc, node.additionalProperties, member, child, depth))
  IN Limit(node, "propertyNames", child, LAMBDA names : Accepted(doc, names, Str(key), child, depth))
       \o By(SelectSeq(listed("properties"), LAMBDA p : p[1] = key)
              \o SelectSeq(listed("patternProperties"), LAMBDA p : Matches(p[1], key)))

CheckObject(doc, node, v, path, depth) ==
  LET keys == {v.entries[i][1] : i \in DOMAIN v.entries}
  IN IF v.t # "obj" THEN <<>>
     ELSE Limit(node, "minProperties", path, LAMBDA m : Len(v.entries) >= m)
            \o Limit(node, "maxProperties", path, LAMBDA m : Len(v.entries) <= m)
            \o (IF Has(node, "required")
                THEN FlattenSeq([i \in DOMAIN node.required |->
                       Unless(node.required[i] \in keys, path, "required")])
                ELSE <<>>)
            \o FlattenSeq([i \in DOMAIN v.entries |->
                 CheckMember(doc, node, v.entries[i][1], v.entries[i][2], path, depth)])

\* Mutant of CheckApplicators: one or more will do for oneOf.
CheckApplicators_Some(doc, node, v, path, depth) ==
  LET hits(subs) == Cardinality({i \in DOMAIN subs : Accepted(doc, subs[i], v, path, depth)})
  IN (IF Has(node, "allOf")
      THEN FlattenSeq([i \in DOMAIN node.allOf |-> Check(doc, node.allOf[i], v, path, depth)])
      ELSE <<>>)
       \o Limit(node, "anyOf", path, LAMBDA subs : hits(subs) > 0)
       \o Limit(node, "oneOf", path, LAMBDA subs : hits(subs) > 0)
       \o Limit(node, "not", path, LAMBDA sub : ~Accepted(doc, sub, v, path, depth))

CheckApplicators(doc, node, v, path, depth) ==
  LET hits(subs) == Cardinality({i \in DOMAIN subs : Accepted(doc, subs[i], v, path, depth)})
  IN (IF Has(node, "allOf")
      THEN FlattenSeq([i \in DOMAIN node.allOf |-> Check(doc, node.allOf[i], v, path, depth)])
      ELSE <<>>)
       \o Limit(node, "anyOf", path, LAMBDA subs : hits(subs) > 0)
       \o Limit(node, "oneOf", path, LAMBDA subs : hits(subs) = 1)
       \o Limit(node, "not", path, LAMBDA sub : ~Accepted(doc, sub, v, path, depth))

Target(doc, ref) == IF ref = RootRef THEN doc.root ELSE doc.defs[ref]

CheckKeywords(doc, node, v, path, depth) ==
  CheckScalar(node, v, path) \o CheckNumber(node, v, path) \o CheckString(node, v, path)
    \o CheckArray(doc, node, v, path, depth) \o CheckObject(doc, node, v, path, depth)
    \o CheckApplicators(doc, node, v, path, depth)

\* Mutant of Check: a reference hides the keywords beside it.
Check_RefAlone(doc, node, v, path, depth) ==
  IF depth > MaxRefDepth THEN <<Wrong(path, "$ref")>>
  ELSE IF Has(node, "boolean") THEN Unless(node.boolean, path, "false")
  ELSE IF Has(node, "ref") THEN Check(doc, Target(doc, node.ref), v, path, depth + 1)
  ELSE CheckKeywords(doc, node, v, path, depth)

Check(doc, node, v, path, depth) ==
  IF depth > MaxRefDepth THEN <<Wrong(path, "$ref")>>
  ELSE IF Has(node, "boolean") THEN Unless(node.boolean, path, "false")
  ELSE (IF ~Has(node, "ref") THEN <<>>
        ELSE IF node.ref # RootRef /\ node.ref \notin DOMAIN doc.defs THEN <<Wrong(path, "$ref")>>
        ELSE Check(doc, Target(doc, node.ref), v, path, depth + 1))
       \o CheckKeywords(doc, node, v, path, depth)

Validate(doc, v) == Check(doc, doc.root, v, <<>>, 0)

-----------------------------------------------------------------------------
(* What a schema means: yes, no, or lost, when the answer lies beyond as   *)
(* many references as are followed.                                        *)

Truth(b) == IF b THEN "yes" ELSE "no"
Every(S) == IF "no" \in S THEN "no" ELSE IF "lost" \in S THEN "lost" ELSE "yes"
Opposite(a) == CASE a = "yes" -> "no" [] a = "no" -> "yes" [] OTHER -> "lost"
Some(S) == Opposite(Every({Opposite(a) : a \in S}))
One(answers) ==
  LET yes == Cardinality({i \in DOMAIN answers : answers[i] = "yes"})
      lost == \E i \in DOMAIN answers : answers[i] = "lost"
  IN IF yes > 1 THEN "no" ELSE IF lost THEN "lost" ELSE Truth(yes = 1)

\* What one keyword says of a value; Of is what a schema says of a value that
\* many references on.
SaysBy(Of(_, _, _), doc, node, keyword, v, fuel) ==
  LET x == node[keyword]
      sub(i) == Of(x[i], v, fuel)
      prefixes == IF Has(node, "prefixItems") THEN DOMAIN node.prefixItems ELSE {}
      keys == IF v.t = "obj" THEN {v.entries[i][1] : i \in DOMAIN v.entries} ELSE {}
      member(key) == (CHOOSE e \in {v.entries[i] : i \in DOMAIN v.entries} : e[1] = key)[2]
      named == IF Has(node, "properties") THEN {node.properties[i][1] : i \in DOMAIN node.properties}
               ELSE {}
      alike == IF Has(node, "patternProperties")
               THEN {k \in keys : \E i \in DOMAIN node.patternProperties :
                                    Matches(node.patternProperties[i][1], k)}
               ELSE {}
  IN CASE keyword = "boolean" -> Truth(x)
       [] keyword = "ref" -> IF fuel = 0 THEN "lost" ELSE Of(Target(doc, x), v, fuel - 1)
       [] keyword = "type" -> Truth(\E type \in x : OfType(type, v))
       [] keyword = "enum" -> Truth(\E i \in DOMAIN x : Equal(v, x[i]))
       [] keyword = "const" -> Truth(Equal(v, x))
       [] keyword = "allOf" -> Every({sub(i) : i \in DOMAIN x})
       [] keyword = "anyOf" -> Some({sub(i) : i \in DOMAIN x})
       [] keyword = "oneOf" -> One([i \in DOMAIN x |-> sub(i)])
       [] keyword = "not" -> Opposite(Of(x, v, fuel))
       [] IsNumber(v) /\ keyword = "minimum" -> Truth(x <= Halves(v))
       [] IsNumber(v) /\ keyword = "maximum" -> Truth(Halves(v) <= x)
       [] IsNumber(v) /\ keyword = "exclusiveMinimum" -> Truth(x < Halves(v))
       [] IsNumber(v) /\ keyword = "exclusiveMaximum" -> Truth(Halves(v) < x)
       [] IsNumber(v) /\ keyword = "multipleOf" -> Truth(\E k \in -20..20 : k * x = Halves(v))
       [] v.t = "str" /\ keyword = "minLength" -> Truth(x <= Len(v.s))
       [] v.t = "str" /\ keyword = "maxLength" -> Truth(Len(v.s) <= x)
       [] v.t = "str" /\ keyword = "pattern" -> Truth(Matches(x, v.s))
       [] v.t = "arr" /\ keyword = "minItems" -> Truth(x <= Len(v.items))
       [] v.t = "arr" /\ keyword = "maxItems" -> Truth(Len(v.items) <= x)
       [] v.t = "arr" /\ keyword = "uniqueItems" ->
            Truth(x => \A i, k \in DOMAIN v.items : i # k => ~Equal(v.items[i], v.items[k]))
       [] v.t = "arr" /\ keyword = "prefixItems" ->
            Every({Of(x[i], v.items[i], fuel) : i \in DOMAIN x \cap DOMAIN v.items})
       [] v.t = "arr" /\ keyword = "items" ->
            Every({Of(x, v.items[i], fuel) : i \in DOMAIN v.items \ prefixes})
       [] v.t = "obj" /\ keyword = "minProperties" -> Truth(x <= Cardinality(keys))
       [] v.t = "obj" /\ keyword = "maxProperties" -> Truth(Cardinality(keys) <= x)
       [] v.t = "obj" /\ keyword = "required" -> Truth({x[i] : i \in DOMAIN x} \subseteq keys)
       [] v.t = "obj" /\ keyword = "propertyNames" -> Every({Of(x, Str(k), fuel) : k \in keys})
       [] v.t = "obj" /\ keyword = "properties" ->
            Every({Of(x[i][2], member(x[i][1]), fuel) : i \in {j \in DOMAIN x : x[j][1] \in keys}})
       [] v.t = "obj" /\ keyword = "patternProperties" ->
            Every(UNION {{Of(x[i][2], member(k), fuel) : k \in {l \in keys : Matches(x[i][1], l)}}
                         : i \in DOMAIN x})
       [] v.t = "obj" /\ keyword = "additionalProperties" ->
            Every({Of(x, member(k), fuel) : k \in keys \ (named \cup alike)})
       [] OTHER -> "yes"

RECURSIVE Means(_, _, _, _)
Means(doc, node, v, fuel) ==
  Every({SaysBy(LAMBDA n, w, left : Means(doc, n, w, left), doc, node, keyword, v, fuel) :
           keyword \in DOMAIN node})

Says(doc, node, keyword, v, fuel) ==
  SaysBy(LAMBDA n, w, left : Means(doc, n, w, left), doc, node, keyword, v, fuel)

\* The keywords that are refused at the value they stand beside.
Assertions ==
  {"type", "enum", "const", "minimum", "maximum", "exclusiveMinimum", "exclusiveMaximum",
   "multipleOf", "minLength", "maxLength", "pattern", "minItems", "maxItems", "minProperties",
   "maxProperties", "required", "anyOf", "oneOf", "not"}

\* Whether a schema anywhere turns a refusal into an acceptance.
RECURSIVE Negates(_)
Negates(node) ==
  \/ DOMAIN node \cap {"not", "oneOf"} # {}
  \/ \E keyword \in DOMAIN node : \E i \in DOMAIN Subschemas(node, keyword) :
       Negates(Subschemas(node, keyword)[i])

\* The value a pointer leads to, as the set of it, or none.
Unescape(segment) ==
  FlattenSeq([i \in DOMAIN segment |->
    CASE segment[i] = "~" -> <<>>
      [] i > 1 /\ segment[i - 1] = "~" -> IF segment[i] = "0" THEN <<"~">>
                                          ELSE IF segment[i] = "1" THEN <<"/">> ELSE <<"?">>
      [] OTHER -> <<segment[i]>>])

RECURSIVE PointedAt(_, _)
PointedAt(v, path) ==
  LET end == CHOOSE e \in 2..(Len(path) + 1) :
               /\ e = Len(path) + 1 \/ path[e] = "/"
               /\ \A i \in 2..(e - 1) : path[i] # "/"
      segment == SubSeq(path, 2, end - 1)
      rest == SubSeq(path, end, Len(path))
  IN IF path = <<>> THEN {v}
     ELSE CASE v.t = "arr" ->
                 UNION {PointedAt(v.items[i], rest) : i \in {k \in DOMAIN v.items : Index(k) = segment}}
            [] v.t = "obj" ->
                 UNION {PointedAt(v.entries[i][2], rest) :
                          i \in {k \in DOMAIN v.entries : v.entries[k][1] = Unescape(segment)}}
            [] OTHER -> {}
=============================================================================
