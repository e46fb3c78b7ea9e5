------------------------------ MODULE Knowledge ------------------------------
(***************************************************************************)
(* The knowledge bundle of theory-kb as a whole: parsing a tree of files    *)
(* (load.rs), every rejection of a bundle that does not fit together        *)
(* (validate.rs), the stamp of its manifest (xtask/src/knowledge.rs) and    *)
(* the search of its records (query.rs).                                    *)
(*                                                                         *)
(* files is a function from paths to documents: Garbage, Bare (no items),   *)
(* a sequence of records or the manifest.  A record has an id, the ids it   *)
(* names (field by field, a field that is absent is empty) and, for the     *)
(* search, its texts: sequences of words and separators in lower case.      *)
(* What reading one record does is Records; a record that cannot be read    *)
(* has the code of its error.  An error is its code, where it is -        *)
(* file and id - and what is wrong there.                                   *)
(***************************************************************************)
EXTENDS TheoryRules, TLC

CONSTANTS PathOrder,        \* every path a bundle may have, in byte order
          JsonFiles,        \* those that end in .json
          RuleFiles,        \* those under rules/
          ProfileFiles,     \* those under profiles/
          IdOrder,          \* every id, in byte order
          ProfileIds,       \* the fixed profiles
          Components,       \* the score components
          Minimums,         \* pairs: the least count of a collection
          Domains,          \* the rule domains
          PartOf,           \* pairs of words, the first a proper part of the second
          Stems,            \* the words of at least four letters
          DefaultResults    \* hits when none are asked for

KnowledgeInputs == /\ JsonFiles \subseteq {PathOrder[i] : i \in DOMAIN PathOrder}
                   /\ RuleFiles \union ProfileFiles \subseteq JsonFiles
                   /\ RuleFiles \intersect ProfileFiles = {}
                   /\ DefaultResults \in Nat \ {0}

ManifestFile == "manifest.json"

Garbage == <<"garbage">>
Bare == <<"bare">>
Items(records) == <<"items", records>>
Manifest(m) == <<"manifest", m>>

Whole(path) == <<path, "">>
One(code, at, what) == << <<code, at, <<what>>>> >>
Fault(wrong, code, at, what) == IF wrong THEN One(code, at, what) ELSE <<>>
Of(record, field) == IF field \in DOMAIN record THEN record[field] ELSE <<>>
Ids(records) == {records[i].id : i \in DOMAIN records}
Sorted(paths) == SelectSeq(PathOrder, LAMBDA p : p \in paths)

-----------------------------------------------------------------------------
(* Parsing: the first error in the order load.rs meets them.               *)

\* The collections of one file each, in the order they are read, after the
\* two that are folders; check_duplicate_ids goes through them so.
Single == <<"scales.json", "chord_qualities.json", "chord_symbols.json", "functions.json",
            "voicings.json", "progressions.json", "cadences.json", "arrangement_patterns.json",
            "instrument_profiles.json", "modes.json", "intervals.json">>
Collections == <<"sources.json", "rules/", "profiles/">> \o Single

\* items: the file with its array, each entry of which can be read.
ItemFaults(docs, path) ==
  IF path \notin DOMAIN docs THEN One("KB_MISSING_FILE", Whole(path), "")
  ELSE IF docs[path][1] # "items" THEN One("KB_SHAPE", Whole(path), "items")
  ELSE LET unread == SelectSeq(docs[path][2], LAMBDA r : "unreadable" \in DOMAIN r)
       IN [i \in DOMAIN unread |-> <<unread[i].unreadable, <<path, unread[i].id>>, <<>>>>]

ManifestFaults(docs) ==
  IF ManifestFile \notin DOMAIN docs THEN One("KB_MISSING_FILE", Whole(ManifestFile), "")
  ELSE Fault(docs[ManifestFile][1] # "manifest", "KB_SHAPE", Whole(ManifestFile), "")

Docs(files) == [p \in DOMAIN files \intersect JsonFiles |-> files[p]]

\* parse, as far as it can fail.
ParseFaults(docs) ==
  LET broken == Sorted({p \in DOMAIN docs : docs[p] = Garbage})
      files == Sorted(ProfileFiles \intersect DOMAIN docs)
                 \o Sorted(RuleFiles \intersect DOMAIN docs) \o <<"sources.json">> \o Single
  IN IF broken # <<>> THEN One("KB_PARSE", Whole(broken[1]), "")
     ELSE ManifestFaults(docs)
            \o FlattenSeq([i \in DOMAIN files |-> ItemFaults(docs, files[i])])

InFolder(docs, folder) ==
  LET paths == Sorted(folder \intersect DOMAIN docs)
  IN FlattenSeq([i \in DOMAIN paths |-> docs[paths[i]][2]])

ById(records) ==
  FlattenSeq([i \in DOMAIN IdOrder |-> SelectSeq(records, LAMBDA r : r.id = IdOrder[i])])

\* content_hash: every canonical document but the manifest, without the paths.
ContentHash(docs) ==
  LET paths == Sorted(DOMAIN docs \ {ManifestFile})
  IN <<"sha256", [i \in DOMAIN paths |-> docs[paths[i]]]>>

\* The bundle parse builds of documents without faults.
Parsed(docs) ==
  [docs |-> docs,
   manifest |-> docs[ManifestFile][2],
   hash |-> ContentHash(docs),
   of |-> [c \in {Collections[i] : i \in DOMAIN Collections} |->
             CASE c = "rules/" -> InFolder(docs, RuleFiles)
               [] c = "profiles/" -> ById(InFolder(docs, ProfileFiles))
               [] OTHER -> docs[c][2]]]

\* counts, under the names the manifest uses.
Counted ==
  [sources |-> {"sources.json"}, scales |-> {"scales.json"}, rules |-> {"rules/"},
   chord_qualities |-> {"chord_qualities.json"}, profiles |-> {"profiles/"},
   voicing_templates |-> {"voicings.json"}, modes |-> {"modes.json"},
   progression_schemas |-> {"progressions.json", "cadences.json"},
   arrangement_patterns |-> {"arrangement_patterns.json"}, intervals |-> {"intervals.json"},
   chord_symbols |-> {"chord_symbols.json"}, functions |-> {"functions.json"},
   progressions |-> {"progressions.json"}, cadences |-> {"cadences.json"},
   instrument_profiles |-> {"instrument_profiles.json"}]
Count(kb, name) ==
  FoldSet(LAMBDA c, n : n + Len(kb.of[c]), 0, Counted[name])

\* rule_counts_by_domain: the domains that have rules.
RulesIn(kb, domain) == Len(SelectSeq(kb.of["rules/"], LAMBDA r : r.domain = domain))
DomainsUsed(kb) == {d \in Domains : RulesIn(kb, d) > 0}

-----------------------------------------------------------------------------
(* Validation: the faults of each pass, all of them, in order.             *)

OverAll(kb, collection, Faults(_)) ==
  FlattenSeq([i \in DOMAIN kb.of[collection] |-> Faults(kb.of[collection][i])])

Unknown(code, at, values, known) ==
  LET strange == SelectSeq(values, LAMBDA v : v \notin known)
  IN [i \in DOMAIN strange |-> <<code, at, <<strange[i]>>>>]

\* check_schemas: what each governed document's schema finds is given.
SchemaFaults(kb) ==
  LET paths == Sorted(({"sources.json"} \union RuleFiles \union ProfileFiles) \intersect DOMAIN kb.docs)
      slips(path) == FlattenSeq([i \in DOMAIN kb.docs[path][2] |->
                                   Unknown("KB_SCHEMA", Whole(path), Of(kb.docs[path][2][i], "slips"), {})])
  IN FlattenSeq([i \in DOMAIN paths |-> slips(paths[i])])

DuplicateFaults(kb) ==
  LET again(records) == SelectSeq([i \in DOMAIN records |-> <<i, records[i].id>>],
                                  LAMBDA p : \E j \in 1..(p[1] - 1) : records[j].id = p[2])
      faults(c, twice) == [i \in DOMAIN twice |-> <<"KB_DUPLICATE_ID", Whole(c), <<twice[i][2]>>>>]
  IN FlattenSeq([i \in DOMAIN Collections |-> faults(Collections[i], again(kb.of[Collections[i]]))])

\* is_valid_degree: a scan of at most two accidentals, then digits to the end.
Accidentals == {"b", "#"}
Digits == {"0", "1", "2", "3", "4", "5", "6", "7", "8", "9"}
IsValidDegree_OneAccidental(degree) ==
  \E n \in 0..1 : /\ n < Len(degree)
                  /\ \A i \in 1..n : degree[i] \in Accidentals
                  /\ \A i \in (n + 1)..Len(degree) : degree[i] \in Digits
IsValidDegree(degree) ==
  LET others == {i \in DOMAIN degree : degree[i] \notin Accidentals}
  IN /\ others # {}
     /\ \E first \in others : /\ \A i \in others : first <= i
                              /\ first <= 3
                              /\ \A i \in first..Len(degree) : degree[i] \in Digits

DegreeFaults(at, degrees) ==
  LET bad == SelectSeq(degrees, LAMBDA d : ~IsValidDegree(d))
  IN [i \in DOMAIN bad |-> <<"KB_INVALID_DEGREE", at, bad[i]>>]

RuleFaults(kb, r) ==
  LET at == <<"rules/", r.id>>
      heuristic == r.kind = "implementation_heuristic"
  IN Fault(r.prefix # r.domain, "KB_INCONSISTENT", at, "prefix")
     \o Fault(heuristic /\ r.cites # <<>>, "KB_INCONSISTENT", at, "cited")
     \o Fault(~heuristic /\ r.cites = <<>>, "KB_INCONSISTENT", at, "uncited")
     \o Unknown("KB_UNRESOLVED_REF", at, r.cites, Ids(kb.of["sources.json"]))
     \o Unknown("KB_UNRESOLVED_REF", at, r.styles, Ids(kb.of["profiles/"]))
     \o Unknown("KB_UNRESOLVED_REF", at, <<r.component>>, Components)
     \o Unknown("KB_UNKNOWN_PREDICATE", at, r.conditions \o r.exceptions, Vocabulary)
     \o Fault(r.tests = <<>>, "KB_MISSING_TEST_IDS", at, "")
     \o Fault(r.percent \notin 0..100, "KB_INCONSISTENT", at, "confidence")
     \o Fault(r.version = 0, "KB_INCONSISTENT", at, "version")
     \o DegreeFaults(at, Of(r, "trigger_degrees"))

FirstOf(records, id) == records[CHOOSE i \in DOMAIN records : /\ records[i].id = id
                                                                 /\ \A j \in 1..(i - 1) : records[j].id # id]
Parents(profiles) ==
  [id \in {p \in Ids(profiles) : FirstOf(profiles, p).parent # <<>>} |-> FirstOf(profiles, id).parent[1]]

\* ancestry's error: a cycle when every name on the way up is a profile.
ChainFault(profiles, id) ==
  LET known == Ids(profiles)
      above[n \in 0..Len(profiles)] ==
        IF n = 0 THEN {id}
        ELSE above[n - 1] \union {Parents(profiles)[p] : p \in above[n - 1] \intersect DOMAIN Parents(profiles)}
  IN IF above[Len(profiles)] \subseteq known THEN "KB_PROFILE_CYCLE" ELSE "KB_MISSING_PARENT"

ProfileFaults(kb, p) ==
  LET at == <<"profiles/", p.id>>
      profiles == kb.of["profiles/"]
      declared == {p.weights[i] : i \in DOMAIN p.weights}
  IN Unknown("KB_UNKNOWN_ENUM", at, <<p.id>>, {ProfileIds[i] : i \in DOMAIN ProfileIds})
     \o Fault(Ancestry(Ids(profiles), Parents(profiles), p.id) = <<>>, ChainFault(profiles, p.id), at, "parent")
     \o Unknown("KB_INVALID_WEIGHTS", at, p.weights, Components)
     \o Fault(~(Components \subseteq declared), "KB_INVALID_WEIGHTS", at, "missing")
     \o Unknown("KB_UNRESOLVED_REF", at, Of(p, "overrides"), Ids(kb.of["rules/"]))
     \o Unknown("KB_UNRESOLVED_REF", at, Of(p, "vocabulary"), Ids(kb.of["chord_qualities.json"]))

MissingProfiles(kb) ==
  Unknown("KB_MISSING_FILE", Whole("profiles/"), ProfileIds, Ids(kb.of["profiles/"]))

\* What each collection's records name besides their sources and profiles:
\* field, the collection it must be in, and the words that stand for none or any.
Sentinels == {"none", "any"}
NamesOf ==
  [c \in {"scales.json", "chord_qualities.json", "chord_symbols.json", "functions.json",
          "modes.json", "progressions.json", "cadences.json"} |->
     CASE c = "scales.json" -> << <<"parent", "scales.json", {}>>, <<"mode_of", "scales.json", {}>>,
                                  <<"common_chords", "chord_qualities.json", {}>> >>
       [] c = "chord_qualities.json" -> << <<"typical_scales", "scales.json", {}>> >>
       [] c = "chord_symbols.json" -> << <<"quality_id", "chord_qualities.json", {}>> >>
       [] c = "functions.json" -> << <<"triad_quality", "chord_qualities.json", Sentinels>>,
                                     <<"seventh_quality", "chord_qualities.json", Sentinels>> >>
       [] c = "modes.json" -> << <<"scale_id", "scales.json", {}>>,
                                 <<"typical_tonic_chord", "chord_qualities.json", {}>>,
                                 <<"contrast_with", "scales.json", {}>> >>
       [] OTHER -> << <<"applicable_scales", "scales.json", {}>>,
                      <<"melody_compatibility", "chord_qualities.json", Sentinels>> >>]
Naming == <<"scales.json", "chord_qualities.json", "chord_symbols.json", "functions.json",
            "modes.json", "progressions.json", "cadences.json">>
\* Mutant of Citing: the sources of the schemas are forgotten.
Citing_NoSchemas == <<"scales.json", "chord_qualities.json", "functions.json", "modes.json", "voicings.json",
                      "arrangement_patterns.json", "instrument_profiles.json", "intervals.json">>
Citing == <<"scales.json", "chord_qualities.json", "functions.json", "modes.json", "voicings.json",
            "arrangement_patterns.json", "instrument_profiles.json", "intervals.json",
            "progressions.json", "cadences.json">>
Styled == <<"voicings.json", "arrangement_patterns.json", "progressions.json", "cadences.json">>

ReferenceFaults(kb) ==
  LET names(c, r) == FlattenSeq([k \in DOMAIN NamesOf[c] |->
                       Unknown("KB_UNRESOLVED_REF", <<c, r.id>>, Of(r, NamesOf[c][k][1]),
                               Ids(kb.of[NamesOf[c][k][2]]) \union NamesOf[c][k][3])])
      cites(c, r) == Unknown("KB_UNRESOLVED_REF", <<c, r.id>>, Of(r, "cites"), Ids(kb.of["sources.json"]))
      styles(c, r) == Unknown("KB_UNRESOLVED_REF", <<c, r.id>>, Of(r, "styles"), Ids(kb.of["profiles/"]))
  IN FlattenSeq([i \in DOMAIN Naming |-> OverAll(kb, Naming[i], LAMBDA r : names(Naming[i], r))])
     \o FlattenSeq([i \in DOMAIN Citing |-> OverAll(kb, Citing[i], LAMBDA r : cites(Citing[i], r))])
     \o FlattenSeq([i \in DOMAIN Styled |-> OverAll(kb, Styled[i], LAMBDA r : styles(Styled[i], r))])

\* check_degrees: the fields that hold degrees are those of a record's degrees.
WithDegrees == <<"scales.json", "chord_qualities.json", "chord_symbols.json", "voicings.json",
                 "progressions.json", "cadences.json", "functions.json">>
AllDegreeFaults(kb) ==
  FlattenSeq([i \in DOMAIN WithDegrees |->
    OverAll(kb, WithDegrees[i], LAMBDA r : DegreeFaults(<<WithDegrees[i], r.id>>, Of(r, "degrees")))])

Rotated(semitones, index) ==
  [i \in DOMAIN semitones |->
     (semitones[((index + i - 1) % Len(semitones)) + 1] - semitones[index + 1]) % 12]

\* check_scale_modes: a parent that is not there has been reported already.
ModeFaults(kb, scale) ==
  LET parent == Of(scale, "mode_of")
      at == <<"scales.json", scale.id>>
      semitones == FirstOf(kb.of["scales.json"], parent[1]).semitones
  IN IF parent = <<>> \/ parent[1] \notin Ids(kb.of["scales.json"]) THEN <<>>
     ELSE IF scale.index >= Len(semitones) THEN One("KB_INCONSISTENT", at, "index")
     ELSE Fault(Rotated(semitones, scale.index) # scale.semitones, "KB_INCONSISTENT", at, "rotation")

SymbolFaults(kb) ==
  LET symbols == kb.of["chord_symbols.json"]
      before(i) == UNION {{symbols[j].tokens[k] : k \in DOMAIN symbols[j].tokens} : j \in 1..(i - 1)}
      claimed(i) == SelectSeq([k \in DOMAIN symbols[i].tokens |-> <<k, symbols[i].tokens[k]>>],
                      LAMBDA t : t[2] \in before(i) \/ \E k \in 1..(t[1] - 1) : symbols[i].tokens[k] = t[2])
      faults(i) == [k \in DOMAIN claimed(i) |->
                      <<"KB_DUPLICATE_ID", <<"chord_symbols.json", symbols[i].id>>, <<claimed(i)[k][2]>>>>]
                   \o Fault(\E j \in 1..(i - 1) : symbols[j].precedence = symbols[i].precedence,
                            "KB_DUPLICATE_ID", <<"chord_symbols.json", symbols[i].id>>, "precedence")
  IN FlattenSeq([i \in DOMAIN symbols |-> faults(i)])

Pending == <<"pending">>
HashFaults(kb, allowPending) ==
  IF kb.manifest.content_sha256 = Pending
  THEN Fault(~allowPending, "KB_UNSTAMPED_MANIFEST", Whole(ManifestFile), "")
  ELSE Fault(kb.manifest.content_sha256 # kb.hash, "KB_HASH_MISMATCH", Whole(ManifestFile), "")

\* Mutant of FileFaults: the list of files is not looked at.
FileFaults_Unlisted(kb) == <<>>
FileFaults(kb) ==
  Fault(Sorted(DOMAIN kb.docs \ {ManifestFile}) # kb.manifest.files,
        "KB_INCONSISTENT", Whole(ManifestFile), "files")

\* check_manifest: only what the manifest declares is compared.
CountFaults(kb) ==
  LET counts == kb.manifest.counts
      byDomain == kb.manifest.rules_by_domain
      wrong == {k \in DOMAIN counts : k \notin DOMAIN Counted \/ counts[k] # Count(kb, k)}
      wrongDomain == {d \in DOMAIN byDomain : d \notin DomainsUsed(kb) \/ byDomain[d] # RulesIn(kb, d)}
  IN Fault(wrong # {}, "KB_COUNT_MISMATCH", Whole(ManifestFile), "counts")
     \o Fault(wrongDomain # {}, "KB_COUNT_MISMATCH", Whole(ManifestFile), "rules_by_domain")
     \o Fault(DomainsUsed(kb) # Domains, "KB_INCONSISTENT", Whole("rules/"), "domains")

MinimumFaults(kb) ==
  LET short == SelectSeq(Minimums, LAMBDA m : Count(kb, m[1]) < m[2])
  IN [i \in DOMAIN short |-> <<"KB_COUNT_MISMATCH", Whole(ManifestFile), <<short[i][1]>>>>]

\* validate_report.
Report(kb, allowPending) ==
  SchemaFaults(kb) \o DuplicateFaults(kb)
    \o OverAll(kb, "rules/", LAMBDA r : RuleFaults(kb, r))
    \o MissingProfiles(kb) \o OverAll(kb, "profiles/", LAMBDA p : ProfileFaults(kb, p))
    \o ReferenceFaults(kb) \o AllDegreeFaults(kb)
    \o OverAll(kb, "scales.json", LAMBDA s : ModeFaults(kb, s))
    \o SymbolFaults(kb)
    \o HashFaults(kb, allowPending) \o CountFaults(kb) \o FileFaults(kb) \o MinimumFaults(kb)

\* from_files: what is wrong, parsing first; the first of them is the error.
Faults(files, allowPending) ==
  LET docs == Docs(files)
      parsing == ParseFaults(docs)
  IN IF parsing # <<>> THEN <<parsing[1]>> ELSE Report(Parsed(docs), allowPending)
Loads(files, allowPending) == Faults(files, allowPending) = <<>>

-----------------------------------------------------------------------------
(* The stamp.  A manifest whose content_sha256 is no string is Misshapen:   *)
(* its members are listed in the order of the text.                         *)

Misshapen(members) == <<"misshapen", members>>

\* replace_hash_value: the text between the first two quotes behind the key's
\* colon, which are those of the next member's name when the value has none.
ReplaceHash(manifest, hash) ==
  CASE manifest[1] = "manifest" -> {Manifest([manifest[2] EXCEPT !.content_sha256 = hash])}
    [] manifest[1] = "misshapen" ->
         LET at == {i \in DOMAIN manifest[2] : manifest[2][i] = <<"name", "content_sha256">>} IN
         IF at = {} THEN {}
         ELSE LET next == 1 + CHOOSE i \in at : \A j \in at : i <= j
              IN IF next \notin DOMAIN manifest[2] THEN {}
                 ELSE {Misshapen([manifest[2] EXCEPT ![next] = <<"hash", hash>>])}
    [] OTHER -> {}

CurrentHash(manifest) == IF manifest[1] = "manifest" THEN manifest[2].content_sha256 ELSE <<"">>

\* stamp_manifest: whether it reports no problem, and the files it leaves.
StampManifest(files, checkOnly) ==
  LET docs == Docs(files)
      hash == ContentHash(docs)
      replaced == ReplaceHash(docs[ManifestFile], hash)
  IN CASE Garbage \in {docs[p] : p \in DOMAIN docs} \/ ManifestFile \notin DOMAIN docs -> <<FALSE, files>>
       [] OTHER -> IF CurrentHash(docs[ManifestFile]) = hash THEN <<TRUE, files>>
                   ELSE IF checkOnly \/ replaced = {} THEN <<FALSE, files>>
                   ELSE <<TRUE, [files EXCEPT ![ManifestFile] = CHOOSE m \in replaced : TRUE]>>

-----------------------------------------------------------------------------
(* What a loaded bundle answers.                                           *)

\* rules_for_event: those of the event that the profile applies and has not
\* switched off; chain and disabled are those of the resolved profile.
RulesForEvent(kb, event, chain, disabled) ==
  SelectSeq(kb.of["rules/"],
            LAMBDA r : /\ r.event = event
                       /\ \E i \in DOMAIN r.styles : Contains(chain, r.styles[i])
                       /\ r.id \notin disabled)

\* Profile id resolved against kb, as far as the rules go.
ChainOf(kb, id) == Ancestry(Ids(kb.of["profiles/"]), Parents(kb.of["profiles/"]), id)

\* test_ids and predicates_used, as sets.
TestIds(kb) == UNION {Range(r.tests) : r \in Range(kb.of["rules/"])}
PredicatesUsed(kb) == UNION {Range(r.conditions \o r.exceptions) : r \in Range(kb.of["rules/"])}

\* catalog_json: the counts, and for each collection the ids in order.
Listed == <<"profiles/", "scales.json", "chord_qualities.json", "voicings.json", "progressions.json",
            "cadences.json", "arrangement_patterns.json", "instrument_profiles.json", "modes.json",
            "intervals.json", "sources.json">>
Catalog(kb) ==
  [content_sha256 |-> kb.hash, manifest_sha256 |-> kb.manifest.content_sha256,
   counts |-> [name \in DOMAIN Counted |-> Count(kb, name)],
   rules_by_domain |-> [d \in DomainsUsed(kb) |-> RulesIn(kb, d)],
   collections |-> [c \in Range(Listed) |-> [i \in DOMAIN kb.of[c] |-> kb.of[c][i].id]]]

-----------------------------------------------------------------------------
(* Search.  A text is a sequence of words and separators; scores are in     *)
(* quarters.                                                                *)

Separators == {" ", "_", ".", "-", ":"}

Word(w) == <<"word", w>>
Field(f) == <<"field", f>>

\* documents: how a collection's records are shown, in the order of the search.
View(kind, collection, title, summary, body, tags) ==
  [kind |-> kind, collection |-> collection, title |-> title, summary |-> summary, body |-> body, tags |-> tags]
Plainly(f) == <<Field(f)>>
Schema(kind, collection, tags) ==
  View(kind, collection, Plainly("name"), Plainly("degrees"),
       <<Field("voice_leading_notes"), Field("bass_implications")>>, tags)
HarmonyViews ==
  <<View("rule", "rules/", Plainly("summary"), Plainly("summary"), Plainly("rationale"),
         <<Field("domain"), Field("kind"), Field("event"), Field("score_component"), Field("conditions")>>),
    View("source", "sources.json", Plainly("title"), <<Field("publisher"), Word("-"), Field("source_type")>>,
         Plainly("notes"), Plainly("relevant_sections")),
    View("scale", "scales.json", Plainly("name"),
         <<Field("family"), Word("collection"), Field("degree_spelling")>>,
         Plainly("characteristic_degrees"), <<Field("aliases"), Field("family")>>),
    View("chord_quality", "chord_qualities.json", Plainly("name"),
         <<Field("family"), Word("chord"), Field("degrees")>>, Plainly("notes"),
         <<Field("family"), Field("symbol_examples"), Field("typical_function")>>),
    View("voicing_template", "voicings.json", Plainly("name"),
         <<Field("family"), Word("voicing"), Word("in"), Field("voice_count"), Word("voices")>>,
         Plainly("notes"), <<Field("family"), Field("degree_layout")>>),
    Schema("progression", "progressions.json", <<Field("tags"), Field("function_path")>>),
    Schema("cadence", "cadences.json", <<Field("cadence_kind"), Field("tags")>>)>>
OtherViews ==
  <<View("arrangement_pattern", "arrangement_patterns.json", Plainly("name"),
         <<Field("role"), Word("part"), Field("register"), Word("register")>>, Plainly("notes"),
         <<Field("role"), Field("rhythmic_activity"), Field("loop_behavior")>>),
    View("instrument_profile", "instrument_profiles.json", Plainly("name"),
         <<Word("midi"), Field("range"), Word("polyphony"), Field("polyphony")>>, Plainly("notes"),
         Plainly("typical_roles")),
    View("function", "functions.json", <<Field("roman"), Field("key_context")>>,
         <<Field("function_class"), Word("function"), Field("category"), Word("category")>>,
         Plainly("notes"), <<Field("function_class"), Field("typical_resolutions")>>),
    View("mode", "modes.json", Plainly("scale_id"), Plainly("character"),
         <<Field("typical_cadential_gesture"), Field("notes")>>,
         <<Field("mode_family"), Field("characteristic_degree")>>),
    View("interval", "intervals.json", Plainly("name"),
         <<Field("short_name"), Word("-"), Field("semitones"), Word("semitones")>>,
         Plainly("typical_treatment"), <<Field("quality"), Field("consonance_class")>>),
    View("profile", "profiles/", Plainly("name"), Plainly("summary"), Plainly("notes"), <<>>),
    View("chord_symbol", "chord_symbols.json", Plainly("written"),
         <<Field("token_kind"), Word("token"), Word("rendering"), Word("as"), Field("canonical_ascii")>>,
         Plainly("notes"), <<Field("ascii_variants"), Field("unicode_variants"), Field("quality_id")>>)>>
Views == HarmonyViews \o OtherViews

\* The kinds in byte order, by which the last ties are broken.
KindOrder == <<"arrangement_pattern", "cadence", "chord_quality", "chord_symbol", "function",
               "instrument_profile", "interval", "mode", "profile", "progression", "rule", "scale",
               "source", "voicing_template">>

Shown(record, parts) ==
  FlattenSeq([i \in DOMAIN parts |->
    (IF i = 1 THEN <<>> ELSE <<" ">>)
      \o (IF parts[i][1] = "word" THEN <<parts[i][2]>> ELSE Of(record.text, parts[i][2]))])

\* The sources behind a record and the profiles it is active in, none for all.
SourcesOf(view, record) ==
  IF view.kind = "source" THEN {record.id} ELSE Range(Of(record, "cites"))
StylesOf(view, record) ==
  IF view.kind = "profile" THEN {record.id}
  ELSE IF view.collection \in Range(Styled) \union {"rules/"} THEN Range(Of(record, "styles")) ELSE {}

RuleKinds == {"hard_integrity", "mathematical_invariant", "strong_theory_principle", "theory_default",
              "style_sensitive_preference", "arrangement_heuristic", "loop_integrity",
              "implementation_heuristic"}

\* SearchQuery::from_json: names it does not know are left out, and a number
\* of results that is no number of results is the default's zero.
FromJson(asked) ==
  [text |-> asked.text,
   domains |-> Range(asked.domains) \intersect Domains,
   kinds |-> Range(asked.kinds) \intersect RuleKinds,
   profile |-> asked.profile, sources |-> asked.sources,
   max_results |-> IF asked.max_results < 0 THEN 0 ELSE asked.max_results]

\* passes_filters; profile is a set of at most one.
Passes(view, record, q) ==
  /\ q.domains # {} => view.kind = "rule" /\ record.domain \in q.domains
  /\ q.kinds # {} => view.kind = "rule" /\ record.kind \in q.kinds
  /\ q.profile # {} => StylesOf(view, record) = {} \/ q.profile \subseteq StylesOf(view, record)
  /\ q.sources # {} => SourcesOf(view, record) \intersect q.sources # {}

Tokens(text) == SelectSeq(text, LAMBDA w : w \notin Separators)

\* field_score: part of a word counts half, if it has four letters.
FieldScore(field, tokens, weight) ==
  LET found(t) == IF t \in Range(field) THEN weight
                  ELSE IF t \in Stems /\ \E w \in Range(field) : <<t, w>> \in PartOf THEN weight \div 2
                  ELSE 0
  IN FoldFunction(LAMBDA t, sum : sum + found(t), 0, tokens)

\* contains_ci; a phrase of several words is looked for at the ends of words.
Holds(field, phrase) ==
  \/ Len(phrase) = 1 /\ \E w \in Range(field) : w = phrase[1] \/ <<phrase[1], w>> \in PartOf
  \/ \E k \in 0..(Len(field) - Len(phrase)) : phrase # <<>> /\ SubSeq(field, k + 1, k + Len(phrase)) = phrase

ExactId == 400
Phrase == 40
PhraseScore(id, fields, phrase) ==
  IF phrase = <<>> THEN 0
  ELSE IF id = phrase THEN ExactId
  ELSE IF \E f \in fields \union {id} : Holds(f, phrase) THEN Phrase ELSE 0

Score(view, record, text) ==
  LET id == record.text.id
      title == Shown(record, view.title)
      summary == Shown(record, view.summary)
      body == Shown(record, view.body)
      tokens == Tokens(text)
  IN FieldScore(id, tokens, 12) + FieldScore(title, tokens, 8) + FieldScore(summary, tokens, 8)
       + FieldScore(body, tokens, 4) + FieldScore(Shown(record, view.tags), tokens, 6)
       + PhraseScore(id, {title, summary, body}, text)

PositionIn(sequence, value) == CHOOSE i \in DOMAIN sequence : sequence[i] = value

\* Mutant of Before: equals are left in the order of the collections.
Before_ByScoreOnly(h, g) == h.score > g.score
Before(h, g) ==
  LET byId(x) == PositionIn(IdOrder, x.id)
      byKind(x) == PositionIn(KindOrder, x.kind)
  IN \/ h.score > g.score
     \/ h.score = g.score /\ byId(h) < byId(g)
     \/ h.score = g.score /\ h.id = g.id /\ byKind(h) < byKind(g)

\* Mutant of Limit: asking for nothing gets nothing.
Limit_Literal(asked) == asked
Limit(asked) == IF asked = 0 THEN DefaultResults ELSE asked

\* search.
Search(kb, q) ==
  LET hits(view) ==
        LET records == SelectSeq(kb.of[view.collection], LAMBDA r : Passes(view, r, q))
            scored == [i \in DOMAIN records |->
                         [kind |-> view.kind, id |-> records[i].id,
                          score |-> Score(view, records[i], q.text),
                          sources |-> SourcesOf(view, records[i])]]
        IN SelectSeq(scored, LAMBDA h : h.score > 0 \/ Tokens(q.text) = <<>>)
      found == FlattenSeq([i \in DOMAIN Views |-> hits(Views[i])])
      sorted == SortSeq(found, Before)
  IN SubSeq(sorted, 1, IF Limit(q.max_results) < Len(sorted) THEN Limit(q.max_results) ELSE Len(sorted))

\* theory.search, the tool: between one and a hundred hits, ten unless asked,
\* and the sources and the profiles among them.
ToolDefault == 10
ToolMost == 100
ToolQuery(asked) ==
  [asked EXCEPT !.max_results = IF @ = {} THEN ToolDefault
                                ELSE CHOOSE n \in 1..ToolMost : \E m \in @ :
                                       n = IF m < 1 THEN 1 ELSE IF m > ToolMost THEN ToolMost ELSE m]
TheorySearch(hits) ==
  [source_ids |-> UNION {h.sources : h \in Range(hits)},
   profiles |-> {h.id : h \in {g \in Range(hits) : g.kind = "profile"}}]

\* The query behind a question: of the tool, or of the library as it is.
QueryOf(q) ==
  FromJson(IF q.tool THEN ToolQuery(q.asked) ELSE [q.asked EXCEPT !.max_results = CHOOSE n \in @ : TRUE])

-----------------------------------------------------------------------------
(* What has to hold.  A question about bundles has four of them: one whole, *)
(* two each damaged in its own way (one, other) and one damaged in both;    *)
(* the answer is what the loader and the stamp make of the last.  The damages *)
(* are apart if they are in different files and rename nothing.             *)

BundleAnswer(q) == [faults |-> Faults(q.both, q.pending),
                    stamp |-> StampManifest(q.both, FALSE),
                    check |-> StampManifest(q.both, TRUE)]

All(faults) == {faults[i] : i \in DOMAIN faults}

\* A broken bundle can be fixed in one pass: of two slips in different files,
\* neither of which renames what others name, the validator reports all that
\* it reports of each alone (validate.rs:91).
OnePass(q, a) ==
  q.apart => All(Faults(q.one, q.pending)) \union All(Faults(q.other, q.pending)) \subseteq All(a.faults)

\* A bundle loads whole or not at all: in one that loads, every profile
\* resolves, a profile hears of all rules its parent hears of, only known
\* predicates are used, every source is there, every id means one record, a mode's parent is there,
\* and the manifest's counts are the catalogue's (validate.rs:3).
LoadsWhole(q, a) ==
  a.faults = <<>> =>
    \E kb \in {Parsed(Docs(q.both))} :
      /\ \A p \in Range(kb.of["profiles/"]) :
           /\ ChainOf(kb, p.id) # <<>>
           /\ p.parent # <<>> => \A e \in {r.event : r \in Range(kb.of["rules/"])} :
                Range(RulesForEvent(kb, e, ChainOf(kb, p.parent[1]), {}))
                  \subseteq Range(RulesForEvent(kb, e, ChainOf(kb, p.id), {}))
      /\ PredicatesUsed(kb) \subseteq Vocabulary
      /\ TestIds(kb) # {}
      /\ \A c \in Range(Collections) :
           /\ Cardinality(Ids(kb.of[c])) = Len(kb.of[c])
           /\ \A r \in Range(kb.of[c]) : Range(Of(r, "cites")) \subseteq Ids(kb.of["sources.json"])
      /\ \A s \in Range(kb.of["scales.json"]) :
           Of(s, "mode_of") # <<>> => \E t \in Range(kb.of["scales.json"]) :
             t.id = s.mode_of[1] /\ Len(t.semitones) = Len(s.semitones)
      /\ \A name \in DOMAIN kb.manifest.counts : Catalog(kb).counts[name] = kb.manifest.counts[name]
      /\ q.pending \/ Catalog(kb).content_sha256 = Catalog(kb).manifest_sha256

\* A stamp mends the hash and nothing else, stamping again changes nothing,
\* and the check that only looks passes exactly when an external loader would
\* have no quarrel with the hash (knowledge.rs:136).
OfHash(faults) == {f \in faults : f[1] \in {"KB_UNSTAMPED_MANIFEST", "KB_HASH_MISMATCH"}}
StampMends(q, a) ==
  ParseFaults(Docs(q.both)) = <<>> =>
    \E before \in {All(Faults(q.both, FALSE))}, after \in {All(Faults(a.stamp[2], FALSE))} :
      /\ a.stamp[1]
      /\ after = before \ OfHash(before)
      /\ StampManifest(a.stamp[2], FALSE) = a.stamp
      /\ a.check[2] = q.both
      /\ a.check[1] <=> OfHash(before) = {}

\* Nothing of a stamped bundle changes unnoticed: of all that carry its
\* manifest, only those with its documents load (load.rs:80).
TamperSeen(q) ==
  \E stamped \in {StampManifest(q.good, FALSE)[2]} :
    \A b \in {q.one, q.other, q.both} :
      \E forged \in {[p \in DOMAIN b \union {ManifestFile} |->
                        IF p = ManifestFile THEN stamped[p] ELSE b[p]]} :
        Loads(forged, FALSE) => Docs(forged) = Docs(stamped)

\* is_valid_degree is the pattern it stands for, ^[b#]{0,2}\d+$ (validate.rs:609).
DegreePattern(degree) ==
  \E n \in 0..2 : /\ n < Len(degree)
                  /\ \A i \in 1..n : degree[i] \in Accidentals
                  /\ \A i \in (n + 1)..Len(degree) : degree[i] \in Digits
DegreesScanned(degrees) == \A d \in degrees : IsValidDegree(d) <=> DegreePattern(d)

\* The same query always gets the same list: the hits are in strict order and
\* at most as many as asked for; and a filter leaves out hits and moves none:
\* what is found under it is what is found without it, filtered (query.rs:3).
Everything == 1000
Unfiltered(query) == [query EXCEPT !.domains = {}, !.kinds = {}, !.profile = {}, !.sources = {},
                                   !.max_results = Everything]
PassingHits(kb, query, hits) ==
  SelectSeq(hits, LAMBDA h : \E v \in Range(Views) :
    /\ v.kind = h.kind
    /\ \E r \in Range(kb.of[v.collection]) : r.id = h.id /\ Passes(v, r, query))
SearchSteady(kb, query, hits) ==
  \E passing \in {PassingHits(kb, query, Search(kb, Unfiltered(query)))} :
    /\ \A i, j \in DOMAIN hits : i < j => Before(hits[i], hits[j])
    /\ Len(hits) <= Limit(query.max_results)
    /\ hits = SubSeq(passing, 1, Len(hits))
    /\ Len(hits) < Len(passing) => hits # <<>> /\ Len(hits) = Limit(query.max_results)

\* A query that is a record's id gets such a record first, whatever else
\* holds its words; and what the tool says stands behind its hits is a source
\* or a profile of the bundle (query.rs:133, validate.rs:481).
Named(kb, query) ==
  UNION {{<<v.kind, r.id>> : r \in {x \in Range(kb.of[v.collection]) :
                                      x.text.id = query.text /\ Passes(v, x, query)}} : v \in Range(Views)}
ExactFirst(kb, query, hits) ==
  /\ Named(kb, query) # {} => hits # <<>> /\ <<hits[1].kind, hits[1].id>> \in Named(kb, query)
  /\ TheorySearch(hits).source_ids \subseteq Ids(kb.of["sources.json"])
  /\ TheorySearch(hits).profiles \subseteq Ids(kb.of["profiles/"])
=============================================================================
