----------------------------- MODULE MCKnowledge -----------------------------
(* The questions about knowledge bundles: a small one that loads, every two  *)
(* ways to damage it, and queries of one with more to find.                  *)
EXTENDS Algorithms, TLC

MCPathOrder == <<"arrangement_patterns.json", "cadences.json", "chord_qualities.json", "chord_symbols.json",
                 "functions.json", "instrument_profiles.json", "intervals.json", "manifest.json",
                 "modes.json", "profiles/a.json", "profiles/b.json", "profiles/c.json", "progressions.json", "readme.md",
                 "rules/m.json", "rules/n.json", "scales.json", "sources.json", "voicings.json", "zz.json">>
MCJsonFiles == {MCPathOrder[i] : i \in DOMAIN MCPathOrder} \ {"readme.md"}
MCIdOrder == <<"blues", "cad", "dom_prog", "dominant", "ghost", "jazz", "low", "maj", "major", "minor", "prog", "src", "src_b",
               "v_a", "v_b", "x", "zz">>
MCProfileIds == <<"blues", "jazz">>
MCMinimums == << <<"sources", 1>>, <<"progression_schemas", 2>>, <<"scales", 2>> >>
MCPartOf == {<<"domin", "dominant">>, <<"do", "dominant">>, <<"maj", "major">>, <<"jor", "major">>}

Id(name) == ("id" :> name)
Cites(record) == record @@ ("cites" :> <<"src">>)
Empty == ("text" :> ("id" :> <<"x">>))
Entry(name) == Id(name) @@ Cites(Empty)
BaseRule(name, domain) ==
  Entry(name) @@ [prefix |-> domain, domain |-> domain, kind |-> "theory_default", event |-> "e",
                  styles |-> <<"blues">>, component |-> "c1", conditions |-> <<"melody_is_chord_tone">>,
                  exceptions |-> <<>>, tests |-> <<"t">>, percent |-> 50, version |-> 1,
                  trigger_degrees |-> << <<"b", "7">> >>]
BaseProfile(name, parent) ==
  Id(name) @@ Empty @@ [parent |-> parent, weights |-> <<"c1", "c2">>, overrides |-> <<"v_a">>, vocabulary |-> <<"maj">>]
Rotation == <<0, 2, 3, 7, 9>>
Minor == Entry("minor") @@ [mode_of |-> <<"major">>, index |-> 1, semitones |-> <<0, 1, 5, 7, 10>>, degrees |-> <<>>]
Major == Entry("major") @@ [semitones |-> Rotation, common_chords |-> <<"maj">>, degrees |-> << <<"1">>, <<"b", "3">> >>]
Symbol(name, tokens, precedence) ==
  Id(name) @@ Empty @@ [quality_id |-> <<"maj">>, tokens |-> tokens, precedence |-> precedence]
Progression(name) ==
  Entry(name) @@ [styles |-> <<"jazz">>, applicable_scales |-> <<"major">>, melody_compatibility |-> <<"maj", "any">>]

Holding(path, record) == path :> Theory!Items(<<record>>)
BaseManifest ==
  [content_sha256 |-> Theory!Pending, counts |-> [rules |-> 2, progression_schemas |-> 2, scales |-> 2],
   rules_by_domain |-> [m |-> 1, n |-> 1],
   files |-> SelectSeq(MCPathOrder, LAMBDA p : p \notin {"manifest.json", "readme.md", "profiles/c.json", "zz.json"})]
Sound ==
  Holding("arrangement_patterns.json", Entry("v_a") @@ [styles |-> <<"blues">>])
  @@ Holding("cadences.json", Progression("cad")) @@ Holding("progressions.json", Progression("prog"))
  @@ Holding("chord_qualities.json", Entry("maj") @@ [typical_scales |-> <<"major">>, degrees |-> << <<"5">> >>])
  @@ ("chord_symbols.json" :> Theory!Items(<<Symbol("low", <<"M", "maj">>, 1), Symbol("maj", <<"^">>, 2)>>))
  @@ Holding("functions.json", Entry("dominant") @@ [triad_quality |-> <<"maj">>, seventh_quality |-> <<"none">>])
  @@ Holding("instrument_profiles.json", Entry("low")) @@ Holding("intervals.json", Entry("low"))
  @@ Holding("modes.json", Entry("minor") @@ [scale_id |-> <<"minor">>, typical_tonic_chord |-> <<"maj">>])
  @@ Holding("profiles/a.json", BaseProfile("jazz", <<"blues">>)) @@ Holding("profiles/b.json", BaseProfile("blues", <<>>))
  @@ Holding("rules/m.json", BaseRule("v_a", "m")) @@ Holding("rules/n.json", BaseRule("v_b", "n"))
  @@ ("scales.json" :> Theory!Items(<<Major, Minor>>))
  @@ Holding("sources.json", Id("src") @@ Empty)
  @@ Holding("voicings.json", Entry("v_a") @@ [styles |-> <<"blues">>])
  @@ ("manifest.json" :> Theory!Manifest(BaseManifest)) @@ ("readme.md" :> Theory!Garbage)

(* Damages: a file as a whole, one field of a file's first record, or the   *)
(* manifest's.                                                               *)
Given(path, doc) == <<"file", path, doc>>
Lost(path) == <<"lost", path>>
Set(path, field, value) == <<"set", path, field, value>>
Told(field, value) == <<"told", field, value>>
Renamed(from, to) == <<"renamed", from, to>>
Hurt(files, d) ==
  CASE d[1] = "file" -> d[2] :> d[3] @@ files
    [] d[1] = "lost" -> [p \in DOMAIN files \ {d[2]} |-> files[p]]
    [] d[1] = "set" -> IF d[2] \notin DOMAIN files \/ files[d[2]][1] # "items" \/ Len(files[d[2]][2]) = 0 THEN files
                       ELSE [files EXCEPT ![d[2]][2][1] = (d[3] :> d[4]) @@ @]
    [] d[1] = "told" -> IF files["manifest.json"][1] # "manifest" THEN files
                        ELSE [files EXCEPT !["manifest.json"][2] = (d[2] :> d[3]) @@ @]
    [] d[1] = "renamed" -> IF d[2] \notin DOMAIN files THEN files
                           ELSE (d[3] :> files[d[2]]) @@ [p \in DOMAIN files \ {d[2]} |-> files[p]]

Unreadable == {Given("zz.json", Theory!Garbage), Given("rules/n.json", Theory!Bare), Lost("modes.json"), Lost("manifest.json"),
               Set("sources.json", "unreadable", "KB_SHAPE"), Set("rules/m.json", "unreadable", "KB_UNKNOWN_ENUM"),
               Given("manifest.json", Theory!Misshapen(<< <<"name", "files">>, <<"name", "content_sha256">>, <<"name", "notes">> >>)),
               Given("manifest.json", Theory!Misshapen(<< <<"name", "files">>, <<"name", "content_sha256">> >>)),
               Given("manifest.json", Theory!Bare)}
Rewritten == {Set("rules/m.json", "slips", <<"profiles">>), Set("rules/m.json", "prefix", "n"), Set("rules/m.json", "cites", <<>>),
              Set("rules/m.json", "cites", <<"ghost">>), Set("rules/m.json", "kind", "implementation_heuristic"),
              Set("rules/m.json", "styles", <<"blues", "ghost">>), Set("rules/m.json", "component", "c3"),
              Set("rules/m.json", "conditions", <<"no_such">>), Set("rules/m.json", "exceptions", <<"no_such">>),
              Set("rules/m.json", "tests", <<>>), Set("rules/m.json", "percent", 101), Set("rules/m.json", "version", 0),
              Set("rules/m.json", "trigger_degrees", << <<"b", "b", "b", "7">> >>), Set("rules/m.json", "text", "id" :> <<"y">>),
              Set("rules/n.json", "id", "v_a"),
              Set("profiles/a.json", "parent", <<"ghost">>), Set("profiles/b.json", "parent", <<"jazz">>),
              Set("profiles/b.json", "weights", <<"c1">>), Set("profiles/b.json", "weights", <<"c1", "c2", "c3">>),
              Set("profiles/b.json", "overrides", <<"ghost">>), Set("profiles/b.json", "vocabulary", <<"ghost">>),
              Set("profiles/b.json", "id", "zz"), Set("profiles/a.json", "id", "blues"),
              Set("scales.json", "parent", <<"ghost">>), Set("scales.json", "semitones", <<0, 2, 4, 7, 9>>),
              Set("scales.json", "semitones", <<0>>), Set("scales.json", "common_chords", <<"none">>),
              Set("scales.json", "degrees", << <<"#">> >>), Set("chord_qualities.json", "typical_scales", <<"ghost">>),
              Set("chord_symbols.json", "quality_id", <<"any">>), Set("chord_symbols.json", "tokens", <<"^">>),
              Set("chord_symbols.json", "tokens", <<"M", "M">>), Set("chord_symbols.json", "precedence", 2),
              Set("functions.json", "triad_quality", <<"ghost">>), Set("modes.json", "contrast_with", <<"ghost">>),
              Set("voicings.json", "styles", <<"ghost">>), Set("cadences.json", "melody_compatibility", <<"ghost">>),
              Set("cadences.json", "cites", <<"ghost">>), Set("progressions.json", "id", "cad"), Lost("rules/n.json"),
              Given("sources.json", Theory!Items(<<>>)), Given("profiles/c.json", Theory!Items(<<BaseProfile("x", <<"jazz">>)>>)),
              Given("zz.json", Theory!Bare), Renamed("profiles/b.json", "profiles/c.json"), Lost("readme.md")}
Retold == {Told("content_sha256", <<"sha256", <<>>>>), Told("counts", [rules |-> 3]), Told("counts", [cats |-> 0]),
           Told("rules_by_domain", [m |-> 1, n |-> 2]), Told("rules_by_domain", [k |-> 0]), Told("files", <<"zz.json">>)}

(* Two slips apart: in two files, and neither of an id others name.          *)
Slip(d) == d[1] = "told" \/ (d[1] = "set" /\ d[3] \notin {"id", "parent", "unreadable"})
Apart(d, e) == Slip(d) /\ Slip(e) /\ d[2] # e[2]

MCBundles ==
  {[good |-> Sound, one |-> Hurt(Sound, d), other |-> Hurt(Sound, e), both |-> Hurt(Hurt(Sound, d), e), pending |-> pending, apart |-> Apart(d, e)]
     : d \in Rewritten, e \in Rewritten \cup Retold \cup Unreadable, pending \in {TRUE}}
  \cup {[good |-> Sound, one |-> Hurt(Sound, d), other |-> Sound, both |-> Hurt(Sound, d), pending |-> FALSE, apart |-> FALSE]
          : d \in Rewritten \cup Retold \cup Unreadable}

(* A bundle with more to find: the same words in ids, names, summaries and   *)
(* notes of records of several kinds, one id in two collections.             *)
Worded(record, texts) == ("text" :> texts) @@ record
Library ==
  Theory!Parsed(Theory!Docs(
    ("rules/m.json" :> Theory!Items(<<Worded(BaseRule("v_a", "m"),
        [id |-> <<"v", "_", "a">>, summary |-> <<"dominant", " ", "chord">>, rationale |-> <<"major">>,
         conditions |-> <<"maj">>])>>))
    @@ ("rules/n.json" :> Theory!Items(<<Worded([BaseRule("v_b", "n") EXCEPT !.styles = <<"jazz">>, !.cites = <<"src", "src_b">>],
        [id |-> <<"v", "_", "b">>, summary |-> <<"chord">>, rationale |-> <<"chord", " ", "v", "_", "a">>])>>))
    @@ ("sources.json" :> Theory!Items(<<Worded(Id("src"), [id |-> <<"src">>, title |-> <<"dominant">>, publisher |-> <<"a">>]),
        Worded(Id("src_b"), [id |-> <<"src", "_", "b">>, notes |-> <<"major">>])>>))
    @@ ("voicings.json" :> Theory!Items(<<Worded(Entry("v_a") @@ [styles |-> <<"blues">>],
        [id |-> <<"v", "_", "a">>, name |-> <<"major", " ", "v">>, family |-> <<"chord">>]),
        Worded(Entry("dominant") @@ [styles |-> <<"jazz">>], [id |-> <<"dominant">>, name |-> <<"chord">>])>>))
    @@ ("chord_qualities.json" :> Theory!Items(<<Worded(Entry("dominant"), [id |-> <<"dominant">>, name |-> <<"dominant">>]),
        Worded(Entry("dom_prog"), [id |-> <<"dominant", "_", "v">>, name |-> <<"dominant", " ", "v">>, family |-> <<"dominant">>,
                                   typical_function |-> <<"dominant">>, notes |-> <<"dominant">>])>>))
    @@ ("scales.json" :> Theory!Items(<<Worded(Major, [id |-> <<"major">>, name |-> <<"major">>, family |-> <<"maj">>])>>))
    @@ Sound))

AllFilters == {[domains |-> <<>>, kinds |-> <<>>, profile |-> {}, sources |-> {}],
               [domains |-> <<"m", "unknown">>, kinds |-> <<>>, profile |-> {}, sources |-> {}],
               [domains |-> <<"unknown">>, kinds |-> <<>>, profile |-> {}, sources |-> {}],
               [domains |-> <<>>, kinds |-> <<"theory_default">>, profile |-> {"jazz"}, sources |-> {}],
               [domains |-> <<>>, kinds |-> <<>>, profile |-> {"blues"}, sources |-> {"src_b"}],
               [domains |-> <<>>, kinds |-> <<>>, profile |-> {"nobody"}, sources |-> {}],
               [domains |-> <<>>, kinds |-> <<>>, profile |-> {}, sources |-> {"src"}]}
Sought == {<<>>, <<"_">>, <<"dominant">>, <<"domin">>, <<"do">>, <<"major">>, <<"jor">>, <<"v", "_", "a">>,
           <<"dominant", " ", "v">>, <<"chord", " ", "chord">>, <<"voicing">>, <<"src", "_", "b">>, <<"zz">>,
           <<"chord", " ", "major", " ", "dominant">>}
MCQueries ==
  {[kb |-> kb, tool |-> tool, asked |-> f @@ [text |-> text, max_results |-> most]]
     : kb \in {Library}, tool \in BOOLEAN, f \in AllFilters, text \in Sought, most \in {{0}, {1}, {3}, {-1}, {200}}}
  \cup {[kb |-> kb, tool |-> TRUE, asked |-> f @@ [text |-> text, max_results |-> {}]]
          : kb \in {Library}, f \in AllFilters, text \in Sought}
=============================================================================
