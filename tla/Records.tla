------------------------------ MODULE Records ------------------------------
(***************************************************************************)
(* The JSON forms of the server's records: the knowledge base's catalogue   *)
(* (theory-kb/src/model.rs) and the music domain's own types.  Each         *)
(* from_json/to_json pair is a table: its fields in the order from_json     *)
(* reads them, how each is read and what stands for it when it is absent.   *)
(* Read gives the record in the form to_json writes it.                     *)
(*                                                                          *)
(* A JSON value is a tagged tuple; an object is a function of its keys (the *)
(* order of keys is left out, no reader depends on it).  Fractions are      *)
(* counted in halves.                                                       *)
(***************************************************************************)
EXTENDS Integers, Sequences, TLC

CONSTANTS Widest,        \* stands for u32::MAX; i32 is the signed word as wide
          PitchNames,    \* the pitch texts SpelledPitch::parse reads
          ClassNames     \* the pitch-class texts, e.g. of a tonic

RecordInputs ==
  /\ Widest \in Nat /\ Widest > 65535 /\ Widest % 2 = 1
  /\ PitchNames # {} /\ ClassNames # {}

Null == <<"null">>
Str(text) == <<"str", text>>
Arr(values) == <<"arr", values>>
Obj(members) == <<"obj", members>>
Num(n) == <<"int", n>>
Halves(n) == <<"float", n>>
Nothing == [k \in {} |-> Null]

IsObj(json) == json[1] = "obj"
Has(json, key) == IsObj(json) /\ key \in DOMAIN json[2]

---------------------------------------------------------------------------
(* How a value is read. *)

Text == <<"str">>
Flag == <<"bool">>
Number == <<"number">>
Weight == <<"weight">>
Count == <<"int", 0, 2147483647, "refuse">>
Multiplier == <<"multiplier">>
InBeats == <<"beat">>
BeatText == <<"beat text">>
Whatever == <<"whatever">>
Whole == <<"int", 0, 0, "exact">>
Clamped(low, high) == <<"int", low, high, "clamp">>
Within(low, high) == <<"int", low, high, "refuse">>
Signed == <<"int", -((Widest + 1) \div 2), Widest \div 2, "wrap">>
NoteId == Clamped(0, Widest)
VoiceId == Clamped(0, 65535)
Natural == Clamped(0, 2147483647)
Unsigned == <<"int", 0, Widest, "floor">>
OneOf(texts) == <<"member", texts>>
ListOf(kind) == <<"list", kind>>
SomeOf(kind) == <<"some", kind>>
PickOf(kind) == <<"pick", kind>>
Pair == <<"pair">>
MapOf(kind) == <<"map", kind>>
Rec(type) == <<"rec", type>>
Either(key, types) == <<"either", key, types>>

Required(key, as) == [key |-> key, need |-> "required", as |-> as, default |-> Null,
                      bare |-> FALSE]
Optional(key, as, default) == [Required(key, as) EXCEPT !.need = "optional", !.default = default]
Lax(key, as, default) == [Optional(key, as, default) EXCEPT !.need = "lax"]
Bare(key, as, default) == [Optional(key, as, default) EXCEPT !.bare = TRUE]
Forgiving(key, as, default) == [Optional(key, as, default) EXCEPT !.need = "forgiving"]

(* A type: its fields, whether unknown members survive a round trip, and    *)
(* the members to_json derives from the others.                             *)
Type(fields) == [fields |-> fields, keeps |-> FALSE, derived |-> {}, solid |-> FALSE]
Kept(fields) == [Type(fields) EXCEPT !.keeps = TRUE]

Keys(type) == {type.fields[i].key : i \in DOMAIN type.fields}

(* A key listed twice is looked at twice, and the second look counts. *)
Place(type, key) ==
  CHOOSE i \in DOMAIN type.fields :
    /\ type.fields[i].key = key
    /\ \A j \in DOMAIN type.fields : type.fields[j].key = key => j <= i

DefaultOf(type) == Obj([k \in Keys(type) |-> type.fields[Place(type, k)].default])
Strings(keys) == [i \in DOMAIN keys |-> Required(keys[i], Text)]
Labels(keys) == [i \in DOMAIN keys |-> Optional(keys[i], Text, Str(""))]
Names(keys) == [i \in DOMAIN keys |-> Optional(keys[i], Text, Null)]
TextLists(keys) == [i \in DOMAIN keys |-> Required(keys[i], ListOf(Text))]
Picks(keys) == [i \in DOMAIN keys |-> Lax(keys[i], PickOf(Text), Arr(<<>>))]
Aside(key) == Lax(key, Text, Str(""))
Cited == Optional("source_refs", ListOf(Text), Arr(<<>>))

---------------------------------------------------------------------------
(* Reading: the value as it will be written, or the members at which it     *)
(* stopped (the knowledge base's errors name them, the music domain's only  *)
(* the last of them and not always).                                       *)

Ok(value) == [ok |-> TRUE, value |-> value, at |-> <<>>]
Bad(path) == [ok |-> FALSE, value |-> Null, at |-> path]

\* Mutant: the path to what went wrong is lost on the way up.
Under_Bare(key, got) == got

Under(key, got) == IF got.ok THEN got ELSE Bad(<<key>> \o got.at)

(* The whole, or the first of its parts that went wrong. *)
Collected(gots, whole) ==
  IF \A i \in DOMAIN gots : gots[i].ok THEN Ok(whole)
  ELSE gots[CHOOSE i \in DOMAIN gots : ~gots[i].ok /\ \A j \in 1..(i - 1) : gots[j].ok]

WholeOf(json) ==
  CASE json[1] = "int" -> {json[2]}
    [] json[1] = "float" /\ json[2] % 2 = 0 -> {json[2] \div 2}
    [] OTHER -> {}

HalvesOf(json) ==
  CASE json[1] = "int" -> {2 * json[2]}
    [] json[1] = "float" -> {json[2]}
    [] OTHER -> {}

The(values) == CHOOSE v \in values : TRUE
Only(values, read) == IF values = {} THEN Bad(<<>>) ELSE Ok(read)

(* Positions, by their spellings in halves; they are written in lowest terms. *)
BeatNames == ("0" :> 0) @@ ("1/2" :> 1) @@ ("2/4" :> 1) @@ ("1" :> 2) @@ ("4" :> 8)
HalvesIn(json, numbers) ==
  IF json[1] = "str" THEN {BeatNames[t] : t \in {json[2]} \cap DOMAIN BeatNames}
  ELSE IF numbers THEN HalvesOf(json) ELSE {}

\* Mutant: positions are written as numbers.
BeatName_Number(halves) == Halves(halves)

BeatName(halves) == Str(CHOOSE t \in DOMAIN BeatNames \ {"2/4"} : BeatNames[t] = halves)

\* Mutant: a number that is clamped is cast.
ReadInt_Cast(as, n) ==
  CASE as[4] = "exact" -> Ok(Num(n))
    [] as[4] = "refuse" -> IF as[2] <= n /\ n <= as[3] THEN Ok(Num(n)) ELSE Bad(<<>>)
    [] OTHER -> Ok(Num(((n - as[2]) % (as[3] - as[2] + 1)) + as[2]))

ReadInt(as, n) ==
  CASE as[4] = "exact" -> Ok(Num(n))
    [] as[4] = "clamp" -> Ok(Num(IF n < as[2] THEN as[2] ELSE IF n > as[3] THEN as[3] ELSE n))
    [] as[4] = "refuse" -> IF as[2] <= n /\ n <= as[3] THEN Ok(Num(n)) ELSE Bad(<<>>)
    [] as[4] = "floor" -> Ok(Num(IF n < 0 THEN 0 ELSE n % (Widest + 1)))
    [] as[4] = "wrap" -> Ok(Num(((n - as[2]) % (Widest + 1)) + as[2]))

ReadScalar(as, json) ==
  CASE as[1] \in {"str", "bool"} -> IF json[1] = as[1] THEN Ok(json) ELSE Bad(<<>>)
    [] as[1] = "member" ->
         IF json[1] = "str" /\ json[2] \in as[2] THEN Ok(json) ELSE Bad(<<>>)
    [] as[1] = "multiplier" /\ json = Str("disabled") -> Ok(json)
    [] as[1] = "number" -> Only(HalvesOf(json), Halves(The(HalvesOf(json))))
    [] as[1] \in {"weight", "multiplier"} ->
         Only({n \in HalvesOf(json) : n >= 0}, Halves(The(HalvesOf(json))))
    [] as[1] = "int" -> IF WholeOf(json) = {} THEN Bad(<<>>) ELSE ReadInt(as, The(WholeOf(json)))
    [] as[1] = "beat" -> Only(HalvesIn(json, TRUE), BeatName(The(HalvesIn(json, TRUE))))
    [] as[1] = "beat text" -> Only(HalvesIn(json, FALSE), BeatName(The(HalvesIn(json, FALSE))))
    [] as[1] = "pair" -> Ok(Arr(<<json[2][1], ReadInt(Natural, The(WholeOf(json[2][2]))).value>>))
    [] as[1] = "whatever" -> Ok(json)

(* What a lax field must be to be looked at. *)
Takes(as, json) ==
  CASE as[1] \in {"str", "member"} -> json[1] = "str"
    [] as[1] \in {"list", "pick"} -> json[1] = "arr"
    [] as[1] = "some" -> json[1] = "arr" /\ json[2] # <<>>
    [] as[1] \in {"map", "rec"} -> IsObj(json)
    [] as[1] = "pair" -> /\ json[1] = "arr" /\ Len(json[2]) = 2
                         /\ json[2][1][1] = "str" /\ WholeOf(json[2][2]) # {}
    [] OTHER -> ReadScalar(as, json).ok

\* Mutant: a member that is null is not absent.
Absent_Null(field, json) ==
  CASE field.need = "lax" -> ~Has(json, field.key) \/ ~Takes(field.as, json[2][field.key])
    [] field.need = "required" -> FALSE
    [] OTHER -> IsObj(json) /\ ~Has(json, field.key)

(* Whether a field is there to be read. *)
Absent(field, json) ==
  CASE field.need = "lax" -> ~Has(json, field.key) \/ ~Takes(field.as, json[2][field.key])
    [] field.need = "optional" ->
         IsObj(json) /\ (~Has(json, field.key) \/ json[2][field.key] = Null)
    [] field.need = "forgiving" -> ~Has(json, field.key)
    [] field.need = "required" -> FALSE

Refused(field, json) == ~Has(json, field.key) /\ ~Absent(field, json)

Received(field, got) ==
  IF field.need = "forgiving" /\ ~got.ok THEN Ok(field.default) ELSE Under(field.key, got)

(* Defaults taken from another field: the pitch a note sounds, the name a   *)
(* scale goes by, the one event of a map that has none.                     *)
MidiOf(pitch) == IF pitch = Str("C4") THEN Num(60) ELSE Num(63)
Filled(value, of) ==
  CASE value = <<"sounding">> -> MidiOf(of["pitch"])
    [] value = <<"its id">> -> of["id"]
    [] value = <<"its tempo">> ->
         Arr(<<Obj([qn |-> Str("0"), bpm |-> of["tempo_bpm"], linear |-> <<"bool", FALSE>>])>>)
    [] value = <<"its meter">> ->
         Arr(<<Obj([qn |-> Str("0"), sig |-> of["time_signature"], measure |-> Num(0)])>>)
    [] OTHER -> value

(* A note of a fixture without an id goes by its place in the list. *)
Placed(value, place) ==
  IF Has(value, "id") /\ value[2]["id"] = <<"place">>
  THEN Obj([value[2] EXCEPT !["id"] = Num(place - 1)]) ELSE value

\* Mutant: a handle is written even when it names nothing.
Shown_All(type, json, of) ==
  Keys(type) \cup type.derived
    \cup (IF type.keeps /\ IsObj(json) THEN DOMAIN json[2] \ Keys(type) ELSE {})

\* Mutant: what the reader does not know is dropped.
Shown_Known(type, json, of) ==
  {k \in Keys(type) : ~(type.fields[Place(type, k)].bare /\ of[k] = type.fields[Place(type, k)].default)}
    \cup type.derived

(* The record, as to_json writes it: the fields, except a bare one that is  *)
(* empty, the members derived from them, and for a type that keeps the      *)
(* original object whatever else that had.                                  *)
Shown(type, json, of) ==
  {k \in Keys(type) : ~(type.fields[Place(type, k)].bare /\ of[k] = type.fields[Place(type, k)].default)}
    \cup type.derived
    \cup (IF type.keeps /\ IsObj(json) THEN DOMAIN json[2] \ Keys(type) ELSE {})

Written(type, json, of) ==
  Obj([k \in Shown(type, json, of) |->
         CASE k \in Keys(type) -> Filled(of[k], of)
           [] k \in type.derived -> Str("shown")
           [] OTHER -> json[2][k]])

RECURSIVE Read(_, _)

ReadMembers(gots) ==
  IF \A k \in DOMAIN gots : gots[k].ok THEN Ok(Obj([k \in DOMAIN gots |-> gots[k].value]))
  ELSE gots[CHOOSE k \in DOMAIN gots : ~gots[k].ok]

ReadItems(gots) == Collected(gots, Arr([i \in DOMAIN gots |-> Placed(gots[i].value, i)]))

\* Mutant: an entry that is skipped leaves a hole.
PickItems_Holed(gots) == Ok(Arr([i \in DOMAIN gots |-> gots[i].value]))

PickItems(gots) ==
  LET taken == SelectSeq(gots, LAMBDA got : got.ok)
  IN Ok(Arr([i \in DOMAIN taken |-> taken[i].value]))

ReadRecord(type, json, gots) ==
  Collected(gots, Written(type, json, [k \in Keys(type) |-> gots[Place(type, k)].value]))

Read(as, json) ==
  CASE as[1] \in {"list", "some"} ->
         IF json[1] # "arr" THEN Bad(<<>>)
         ELSE ReadItems([i \in DOMAIN json[2] |-> Under("[]", Read(as[2], json[2][i]))] \o <<>>)
    [] as[1] = "pick" -> PickItems([i \in DOMAIN json[2] |-> Read(as[2], json[2][i])] \o <<>>)
    [] as[1] = "map" ->
         IF ~IsObj(json) THEN Bad(<<>>)
         ELSE ReadMembers([k \in DOMAIN json[2] |-> Under(k, Read(as[2], json[2][k]))])
    [] as[1] = "either" ->
         IF Has(json, as[2]) /\ json[2][as[2]] \in {Str(t) : t \in DOMAIN as[3]}
         THEN Read(Rec(as[3][json[2][as[2]][2]]), json)
         ELSE Bad(<<as[2]>>)
    [] as[1] = "rec" ->
         IF as[2].solid /\ ~IsObj(json) THEN Bad(<<>>)
         ELSE ReadRecord(as[2], json,
                [i \in DOMAIN as[2].fields |->
                   CASE Absent(as[2].fields[i], json) -> Ok(as[2].fields[i].default)
                     [] Refused(as[2].fields[i], json) -> Bad(<<as[2].fields[i].key>>)
                     [] OTHER -> Received(as[2].fields[i],
                                   Read(as[2].fields[i].as, json[2][as[2].fields[i].key]))] \o <<>>)
    [] OTHER -> ReadScalar(as, json)

---------------------------------------------------------------------------
(* The closed vocabularies. *)

RuleDomains == {"melody", "harmony", "extensions", "voice_leading", "counterpoint",
                "arrangement", "looping"}
RuleKinds == {"hard_integrity", "mathematical_invariant", "strong_theory_principle",
              "theory_default", "style_sensitive_preference", "arrangement_heuristic",
              "loop_integrity", "implementation_heuristic"}
RuleEvents == {"symbol_parsed", "note_emitted", "melody_note", "melody_phrase", "nct_hypothesis",
               "harmonic_grid", "chord_selected", "chord_pair", "progression_path",
               "voicing_built", "voice_pair_motion", "part_generated", "arrangement_plan",
               "loop_boundary"}
Severities == {"info", "minor", "moderate", "major"}
RuleStatuses == {"applied", "bypassed", "not_applicable", "violated"}
CandidateKinds == {"harmonization", "reharmonization", "voicing", "arrangement"}
MotiveTransforms == {"exact", "transposed", "sequence", "inverted", "retrograde", "augmented",
                     "diminished", "varied"}
CadenceKinds == {"perfect_authentic", "imperfect_authentic", "half", "plagal", "deceptive",
                 "phrygian", "modal", "none"}
ArrangementRoles == {"lead", "counterlead", "bass", "harmonic_bed", "pad", "comping", "pulse",
                     "ostinato", "riff", "percussion", "impact", "transition", "texture",
                     "ambience", "ornament", "ear_candy"}
LoopIntents == {"closed_tonic", "open_dominant", "modal_drone", "seamless_color",
                "transition_ready", "one_shot_ending"}
MotionKinds == {"static", "step", "leap"}
NoteRoles == {"melody", "counter", "bass", "harmony", "pedal", "ornament", "percussion", "unknown"}
NctKinds == {"chord_tone", "passing", "neighbor", "suspension", "retardation", "anticipation",
             "appoggiatura", "escape_tone", "pedal_tone", "chromatic_approach", "enclosure",
             "decorative"}
TriadQualities == {"major", "minor", "diminished", "augmented", "sus2", "sus4", "power", "omitted"}
SeventhQualities == {"none", "major", "minor", "diminished", "augmented_major"}
HarmonicFunctions == {"tonic", "predominant", "dominant", "applied", "chromatic", "modal",
                      "pedal", "passing", "neighbor", "unclassified"}
VoicingFamilies == {"close", "open", "drop2", "drop3", "shell", "rootless", "spread", "quartal",
                    "quintal", "cluster", "power", "upper_structure", "pedal"}
Metres == {"4/4", "3/4"}
Degrees == {"9", "#11"}
SymbolTexts == {"Cmaj7"}

---------------------------------------------------------------------------
(* The knowledge base's records. *)

RelevantSection == Type(<<Required("locator", Text), Required("topics", ListOf(Text))>>)

SourceRecord ==
  Type(Strings(<<"id">>) \o <<Required("relevant_sections", ListOf(Rec(RelevantSection))),
         Required("title", Text), Required("authors", ListOf(Text))>>
       \o Strings(<<"publisher", "url", "license", "accessed_at", "source_type", "usage", "notes">>))

SourceRef == Type(Strings(<<"source_id", "locator">>))

RuleEffect ==
  Type(<<Required("severity", Text), Required("score_delta", Number),
         Required("severity", OneOf(Severities)), Required("score_component", Text)>>)

RuleTrigger == [Kept(<<Required("event", OneOf(RuleEvents))>>) EXCEPT !.solid = TRUE]

TheoryRule ==
  Type(<<Required("id", Text), Required("domain", OneOf(RuleDomains)),
         Required("kind", OneOf(RuleKinds)), Required("source_refs", ListOf(Rec(SourceRef))),
         Required("version", Whole), Required("summary", Text),
         Required("trigger", Rec(RuleTrigger)), Required("conditions", ListOf(Text)),
         Required("effect", Rec(RuleEffect))>>
       \o TextLists(<<"profiles", "exceptions">>)
       \o <<Required("confidence", Number), Required("rationale", Text),
            Required("test_ids", ListOf(Text)), Required("version", Within(0, Widest))>>)

StyleProfile ==
  Kept(<<Required("id", Text), Required("score_weights", MapOf(Weight)),
         Required("rule_overrides", MapOf(Multiplier)), Required("name", Text),
         Optional("parent", Text, Null), Required("summary", Text), Aside("notes")>>)

MidiRange == Type(<<Required("low_midi", Signed), Required("high_midi", Signed)>>)
SpacingLimit == Type(<<Required("below_midi", Signed), Required("min_semitones", Signed)>>)
SpacingTable(key) == Lax(key, ListOf(Rec(SpacingLimit)), Arr(<<>>))

ChordQuality ==
  Kept(Strings(<<"id", "name", "triad", "seventh">>)
       \o TextLists(<<"degrees", "extensions", "alterations", "added", "omissible_degrees">>)
       \o <<Required("implies_seventh", Flag), Required("alt_dominant", Flag)>>
       \o Strings(<<"family", "typical_function">>)
       \o <<Required("typical_scales", ListOf(Text)),
            Optional("symbol_examples", ListOf(Text), Arr(<<>>)), Aside("notes"), Cited>>)

ChordSymbolAlias ==
  Kept(Strings(<<"id", "token_kind", "written">>)
       \o TextLists(<<"ascii_variants", "unicode_variants">>)
       \o <<Optional("quality_id", Text, Null)>>
       \o TextLists(<<"degrees_added", "degrees_altered", "degrees_omitted">>)
       \o <<Required("replaces_third", Flag), Required("implies_seventh", Flag),
            Required("precedence", Whole)>>
       \o Strings(<<"canonical_ascii", "canonical_unicode">>) \o <<Aside("notes")>>)

FunctionEntry ==
  Kept(Strings(<<"id", "key_context", "roman">>) \o <<Optional("scale_degree", Text, Null)>>
       \o Strings(<<"triad_quality", "seventh_quality", "function_class">>)
       \o <<Required("typical_resolutions", ListOf(Text)), Required("category", Text),
            Optional("typical_bass_degree", Text, Null),
            Required("tendency_tones", ListOf(Text)), Aside("notes"), Cited>>)

VoicingTemplate ==
  Kept(Strings(<<"id", "name", "family">>) \o <<Required("voice_count", Whole)>>
       \o TextLists(<<"degree_layout", "required_degrees", "optional_degrees",
                      "omissible_degrees">>)
       \o <<Required("register_hint", Rec(MidiRange)),
            SpacingTable("min_spacing_semitones_by_register"),
            Required("style_profiles", ListOf(Text)), Aside("notes"), Cited>>)

MelodyCompatibility ==
  Type(Strings(<<"roman", "quality">>)
       \o TextLists(<<"chord_tones", "color_tones", "avoid_degrees">>)
       \o <<Required("slot", Whole)>>)

ProgressionSchema ==
  Kept(<<Required("id", Text),
         Required("melody_compatibility", ListOf(Rec(MelodyCompatibility))),
         Required("name", Text)>>
       \o TextLists(<<"degrees", "function_path", "applicable_scales", "style_profiles">>)
       \o <<Aside("bass_implications"), Aside("voice_leading_notes"),
            Aside("expected_destination"), Required("explanation_template", Text),
            Optional("tags", ListOf(Text), Arr(<<>>)), Aside("notes"), Cited>>)

CadenceSchema ==
  Kept(ProgressionSchema.fields
       \o <<Required("cadence_kind", Text), Required("closure_strength", Number)>>)

RhythmPattern ==
  Type(<<Required("onsets", ListOf(BeatText)), Required("velocity_curve", ListOf(Whole)),
         Required("bar_length_qn", BeatText), Required("grid_qn", BeatText),
         Required("sustain", Text)>>)

ArrangementPattern ==
  Kept(Strings(<<"id", "name", "role", "register">>)
       \o <<Required("range", Rec(MidiRange)), Required("density", Number)>>
       \o Strings(<<"rhythmic_activity", "harmonic_responsibility", "priority">>)
       \o <<Required("allowed_doubling", ListOf(Text)), Required("polyphony", Whole),
            Required("articulation_tendency", ListOf(Text)),
            Required("note_length_tendency", Text),
            Required("section_participation", ListOf(Text)),
            Required("energy_contribution", Number), Required("loop_behavior", Text),
            Required("rhythm", Rec(RhythmPattern)), Required("style_profiles", ListOf(Text)),
            Aside("notes"), Cited>>)

InstrumentProfile ==
  Kept(Strings(<<"id", "name">>)
       \o <<Required("range", Rec(MidiRange)), Required("comfortable_range", Rec(MidiRange)),
            Required("polyphony", Whole), SpacingTable("low_interval_limits")>>
       \o TextLists(<<"typical_roles", "articulations">>)
       \o <<Required("density_preference", Number), Aside("notes"), Cited>>)

ModeRecord ==
  Kept(Strings(<<"id", "scale_id", "mode_family">>) \o <<Required("brightness_rank", Whole)>>
       \o Strings(<<"characteristic_degree", "typical_tonic_chord",
                  "typical_cadential_gesture", "character">>)
       \o <<Required("contrast_with", ListOf(Text)), Cited, Aside("notes")>>)

IntervalRecord ==
  Kept(Strings(<<"id", "short_name", "name">>)
       \o <<Required("semitones", Whole), Required("diatonic_number", Whole)>>
       \o Strings(<<"quality", "consonance_class", "inversion">>)
       \o <<Required("is_compound", Flag), Required("typical_treatment", Text), Cited>>)

Manifest ==
  Kept(<<Required("counts", MapOf(Count)),
         Forgiving("rules_by_domain", MapOf(Count), Obj(Nothing))>>
       \o Strings(<<"knowledge_version", "schema_version", "generated_at", "content_sha256">>)
       \o <<Required("files", ListOf(Text)), Aside("notes")>>)

---------------------------------------------------------------------------
(* The music domain's types. *)

Pitch == OneOf(PitchNames)
Class == OneOf(ClassNames)
Off == <<"bool", FALSE>>
Span(first, last) == <<Required(first, InBeats), Required(last, InBeats)>>
Switch(key) == Optional(key, Flag, Off)
Level(key) == Optional(key, Number, Halves(0))
Id == Optional("id", NoteId, Num(0))
Ids(key) == Lax(key, PickOf(NoteId), Arr(<<>>))
Each(key, type) == Lax(key, ListOf(Rec(type)), Arr(<<>>))
Channel == Optional("channel", Clamped(0, 15), Num(0))
Velocity == Optional("velocity", Clamped(0, 127), Num(96))

TempoEvent == Type(<<Required("qn", InBeats), Required("bpm", Number), Switch("linear")>>)
MeterEvent ==
  Type(<<Required("sig", OneOf(Metres)), Required("qn", InBeats), Optional("measure", Whole, Num(0))>>)
TimeMap ==
  Type(<<Required("tempos", ListOf(Rec(TempoEvent))), Required("meters", ListOf(Rec(MeterEvent)))>>)
CommonTime ==
  Obj([tempos |-> Arr(<<Obj([qn |-> Str("0"), bpm |-> Halves(240), linear |-> Off])>>),
       meters |-> Arr(<<Obj([qn |-> Str("0"), sig |-> Str("4/4"), measure |-> Num(0)])>>)])

ScaleDef ==
  Type(<<Required("id", Text), Required("semitones", ListOf(Signed)), Lax("mode_of", Pair, Null),
         Optional("name", Text, <<"its id">>)>>
       \o Picks(<<"aliases", "degree_spelling", "characteristic_degrees">>)
       \o Names(<<"parent">>) \o Picks(<<"common_chords", "tension_degrees">>)
       \o Labels(<<"family">>) \o Picks(<<"source_refs">>))

Phrase ==
  Type(<<Lax("cadence", OneOf(CadenceKinds), Null), Id>> \o Span("start", "end")
       \o <<Ids("notes"), Switch("is_pickup"), Level("confidence")>>)

MotiveOccurrence ==
  Type(<<Required("transform", OneOf(MotiveTransforms)), Required("start", InBeats), Ids("notes"),
         Optional("transposition", Signed, Num(0))>>)

Motive ==
  Type(<<Each("occurrences", MotiveOccurrence), Lax("rhythm_profile", ListOf(InBeats), Arr(<<>>)),
         Lax("interval_profile", PickOf(Signed), Arr(<<>>)), Id, Level("salience")>>)

KeyRegion ==
  Type(Span("start", "end") \o <<Required("tonic", Class), Required("scale_id", Text),
         Level("confidence")>> \o Picks(<<"evidence">>) \o <<Switch("is_tonicization")>>)

HarmonicRegion ==
  Type(<<Required("function", OneOf(HarmonicFunctions))>> \o Span("start", "end")
       \o Labels(<<"label">>))

Section ==
  Type(<<Required("id", Text)>> \o Span("start", "end") \o Labels(<<"role">>) \o <<Level("energy")>>)

VoiceLeadingConnection ==
  Type(<<Required("motion", OneOf(MotionKinds)), Required("from", Pitch), Required("to", Pitch),
         Optional("voice", VoiceId, Num(0)), Optional("semitones", Signed, Num(0))>>)

ScoreVector ==
  Type(<<Level("total"), Lax("components", MapOf(Number), Obj(Nothing))>>)

RuleApplication ==
  Type(<<Required("status", OneOf(RuleStatuses)), Required("rule_id", Text), Level("score_delta")>>
       \o Picks(<<"matched_conditions", "matched_exceptions", "source_ids">>)
       \o Labels(<<"explanation">>))

Warning ==
  Type(<<Required("severity", OneOf(Severities)), Required("code", Text)>> \o Labels(<<"message">>))

DecisionTrace ==
  Type(<<Each("rule_applications", RuleApplication), Each("warnings", Warning),
         Lax("score", Rec(ScoreVector), DefaultOf(ScoreVector))>>
       \o Labels(<<"candidate_id", "analysis_id", "snapshot_id", "knowledge_version", "profile_id">>)
       \o <<Optional("seed", Natural, Num(0))>> \o Picks(<<"assumptions">>)
       \o <<Level("confidence")>> \o Picks(<<"source_ids">>) \o Labels(<<"explanation">>)
       \o Picks(<<"rejected_alternatives">>))

NctHypothesis ==
  Type(<<Required("kind", OneOf(NctKinds)), Level("confidence")>> \o Labels(<<"rationale">>))

NoteRecord ==
  Type(<<Required("pitch", Pitch), Optional("role", OneOf(NoteRoles), Str("unknown")),
         Each("nct", NctHypothesis), Optional("midi", Signed, <<"sounding">>), Id, Level("cents")>>
       \o Span("onset", "duration")
       \o <<Velocity, Channel, Switch("muted"), Switch("selected"),
            Optional("voice", VoiceId, Num(65535))>> \o Names(<<"articulation">>)
       \o <<Level("salience"), Optional("confidence", Number, Halves(2)),
            Optional("source_ppq", Number, Null)>> \o Names(<<"source_take">>))

NoteOrigin == Type(Names(<<"take_guid", "item_guid", "track_guid">>))

NoteSet ==
  Type(<<Required("notes", ListOf(Rec(NoteRecord))), Lax("time_map", Rec(TimeMap), CommonTime),
         Lax("origin", Rec(NoteOrigin), DefaultOf(NoteOrigin))>>)

Part ==
  Type(<<Required("role", OneOf(ArrangementRoles)), Required("notes", ListOf(Rec(NoteRecord)))>>
       \o Labels(<<"name">>) \o Names(<<"instrument_profile">>) \o <<Channel, Switch("polyphonic")>>)

LoopReport ==
  Type(<<Lax("intent", OneOf(LoopIntents), Null), Each("findings", Warning)>>
       \o Span("loop_start", "loop_end") \o <<Switch("compatible"), Level("score")>>
       \o Labels(<<"harmonic_wrap", "bass_wrap", "voice_leading_wrap">>)
       \o <<Ids("hanging_notes"), Ids("crossing_notes")>> \o Span("pickup_qn", "tail_qn")
       \o Picks(<<"repairs">>) \o <<Level("confidence")>>)

DegreeList(key) == Lax(key, ListOf(OneOf(Degrees)), Arr(<<>>))

ChordSpec ==
  [Type(<<Required("root", Class), Required("triad", OneOf(TriadQualities)),
          Required("seventh", OneOf(SeventhQualities)), Lax("bass", Class, Null),
          Lax("omissions", PickOf(Clamped(0, 255)), Arr(<<>>)), DegreeList("extensions"),
          DegreeList("added"), DegreeList("alterations"), Switch("alt_dominant")>>)
     EXCEPT !.derived = {"symbol"}]

VoicingRecord ==
  Type(<<Required("pitches", ListOf(Pitch)), Required("family", OneOf(VoicingFamilies)),
         Lax("voices", PickOf(VoiceId), Arr(<<>>))>>)

LocalTonic == Type(<<Required("tonic", Class), Required("scale_id", Text)>>)

ChordEvent ==
  [Type(<<Lax("function", OneOf(HarmonicFunctions), Null), Lax("local_tonic", Rec(LocalTonic), Null),
          Lax("voicing", Rec(VoicingRecord), Null), Id, Required("spec", Rec(ChordSpec))>>
        \o Span("onset", "duration")
        \o <<Optional("inversion", Clamped(0, 255), Num(0))>> \o Names(<<"roman">>)
        \o <<Optional("confidence", Number, Halves(2)),
             Optional("inference_source", Text, Str("parsed_symbol"))>>
        \o Names(<<"original_symbol">>))
     EXCEPT !.derived = {"symbol"}]

Candidate ==
  Type(<<Required("kind", OneOf(CandidateKinds)), Each("chords", ChordEvent), Each("parts", Part),
         Lax("loop_report", Rec(LoopReport), Null),
         Lax("trace", Rec(DecisionTrace), DefaultOf(DecisionTrace)), Required("id", Text)>>
       \o Labels(<<"label", "strategy", "created_at", "expires_at">>))

---------------------------------------------------------------------------
(* Edit plans. *)

PlannedNote ==
  Type(Span("start_qn", "end_qn") \o <<Required("pitch", Signed), Velocity, Channel, Switch("muted")>>
       \o Labels(<<"spelling">>))

Tagged == Lax("tags", MapOf(Text), Obj(Nothing))
Op(name) == Required("op", OneOf({name}))
Handle == Bare("temp_id", Text, Str(""))

Operations ==
  [create_folder_track |->
     Type(<<Op("create_folder_track"), Required("temp_id", Text)>> \o Labels(<<"name">>) \o <<Tagged>>),
   create_track |->
     Type(<<Op("create_track"), Required("temp_id", Text)>> \o Names(<<"parent">>)
          \o Labels(<<"name">>) \o <<Tagged>>),
   create_midi_item |->
     Type(<<Op("create_midi_item")>> \o Strings(<<"temp_id", "track">>) \o Span("start_qn", "end_qn")
          \o <<Tagged, Switch("muted")>>),
   insert_notes |->
     Type(<<Op("insert_notes"), Required("notes", ListOf(Rec(PlannedNote))), Required("item", Text)>>),
   set_track_mute |->
     Type(<<Op("set_track_mute"), Required("track", Text), Required("muted", Flag)>>),
   create_region |->
     Type(<<Op("create_region"), Handle>> \o Labels(<<"name">>) \o Span("start_qn", "end_qn")),
   create_midi_send |->
     Type(<<Op("create_midi_send"), Handle>> \o Strings(<<"from_track", "to_track_guid">>))]

Holds(kind, as) == Type(<<Required("kind", OneOf({kind})), Required("value", as)>>)

Preconditions ==
  [project_uuid |-> Holds("project_uuid", Text),
   state_change_count |-> Holds("state_change_count", Whole),
   item_guid_exists |-> Holds("item_guid_exists", Text),
   take_guid_exists |-> Holds("take_guid_exists", Text),
   midi_hash |-> Holds("midi_hash", Text),
   tempo_map_hash |-> Holds("tempo_map_hash", Text),
   item_bounds |-> Type(<<Required("kind", OneOf({"item_bounds"})), Required("start_qn", Number),
                          Required("end_qn", Number)>>)]

ExpectedOutput ==
  Type(Strings(<<"temp_id", "kind">>) \o <<Optional("note_count", Natural, Null)>>)

EditPlan ==
  Type(<<Required("operations", ListOf(Either("op", Operations))),
         Lax("preconditions", ListOf(Either("kind", Preconditions)), Arr(<<>>)),
         Each("expected_outputs", ExpectedOutput), Required("plan_id", Text)>>
       \o Labels(<<"candidate_id", "transaction_id", "base_snapshot_id", "base_snapshot_hash",
                   "project_uuid", "knowledge_version", "undo_label">>))

---------------------------------------------------------------------------
(* The test corpus. *)

FixtureLoop == Type(<<Lax("intent", OneOf(LoopIntents), Null)>> \o Span("start_qn", "end_qn"))
KeyHint == Type(<<Required("tonic", Class), Optional("scale_id", Text, Str("major"))>>)
FixtureChord == Type(<<Required("symbol", OneOf(SymbolTexts))>> \o Span("onset", "duration"))

(* A fixture's note takes nothing an analysis would have put into it. *)
Unread(key, default) == Forgiving(key, OneOf({}), default)
FixtureNote ==
  Type(<<Required("pitch", Pitch), Optional("role", OneOf(NoteRoles), Str("unknown")),
         Optional("id", Unsigned, <<"place">>)>> \o Span("onset", "duration")
       \o <<Velocity, Channel, Switch("muted"), Switch("selected"),
            Optional("voice", VoiceId, Num(0))>> \o Names(<<"articulation">>)
       \o <<Unread("midi", <<"sounding">>), Unread("cents", Halves(0)),
            Unread("salience", Halves(0)), Unread("nct", Arr(<<>>)), Unread("confidence", Halves(2)),
            Unread("source_ppq", Null), Unread("source_take", Null)>>)

Fixture ==
  Type(<<Required("id", Text), Optional("time_signature", OneOf(Metres), Str("4/4")),
         Optional("tempo_bpm", Number, Halves(240)),
         Lax("tempo_map", SomeOf(Rec(TempoEvent)), <<"its tempo">>),
         Lax("meter_map", SomeOf(Rec(MeterEvent)), <<"its meter">>),
         Lax("loop", Rec(FixtureLoop), Null), Lax("key_hint", Rec(KeyHint), Null),
         Each("notes", FixtureNote), Each("chords", FixtureChord),
         Optional("fixture_version", Text, Str("1.0.0"))>>
       \o Labels(<<"title", "description">>) \o <<Lax("expected", Whatever, Null)>>)

(* What makes a fixture usable. *)
HalvesAt(record, key) == BeatNames[record[2][key][2]]
FixtureSound(fixture) ==
  /\ fixture["id"] # Str("")
  /\ \A i \in DOMAIN fixture["notes"][2] : HalvesAt(fixture["notes"][2][i], "duration") > 0
  /\ \A i \in DOMAIN fixture["notes"][2] : fixture["notes"][2][i][2]["velocity"] # Num(0)
  /\ \A i \in DOMAIN fixture["chords"][2] : HalvesAt(fixture["chords"][2][i], "duration") > 0
  /\ \A i \in DOMAIN fixture["tempo_map"][2] : fixture["tempo_map"][2][i][2]["bpm"][2] > 0
  /\ fixture["loop"] # Null => HalvesAt(fixture["loop"], "start_qn") < HalvesAt(fixture["loop"], "end_qn")
  /\ fixture["notes"][2] # <<>> \/ fixture["chords"][2] # <<>>

---------------------------------------------------------------------------
Types ==
  [RelevantSection |-> RelevantSection, SourceRecord |-> SourceRecord, SourceRef |-> SourceRef,
   RuleEffect |-> RuleEffect, RuleTrigger |-> RuleTrigger, TheoryRule |-> TheoryRule,
   StyleProfile |-> StyleProfile, MidiRange |-> MidiRange, SpacingLimit |-> SpacingLimit,
   ChordQuality |-> ChordQuality, ChordSymbolAlias |-> ChordSymbolAlias,
   FunctionEntry |-> FunctionEntry, VoicingTemplate |-> VoicingTemplate,
   MelodyCompatibility |-> MelodyCompatibility, ProgressionSchema |-> ProgressionSchema,
   CadenceSchema |-> CadenceSchema, RhythmPattern |-> RhythmPattern,
   ArrangementPattern |-> ArrangementPattern, InstrumentProfile |-> InstrumentProfile,
   ModeRecord |-> ModeRecord, IntervalRecord |-> IntervalRecord, Manifest |-> Manifest,
   TempoEvent |-> TempoEvent, MeterEvent |-> MeterEvent, TimeMap |-> TimeMap,
   ScaleDef |-> ScaleDef, Phrase |-> Phrase, MotiveOccurrence |-> MotiveOccurrence,
   Motive |-> Motive, KeyRegion |-> KeyRegion, HarmonicRegion |-> HarmonicRegion,
   Section |-> Section, VoiceLeadingConnection |-> VoiceLeadingConnection,
   ScoreVector |-> ScoreVector, RuleApplication |-> RuleApplication, Warning |-> Warning,
   DecisionTrace |-> DecisionTrace, NctHypothesis |-> NctHypothesis, Note |-> NoteRecord,
   NoteOrigin |-> NoteOrigin, NoteSet |-> NoteSet, Part |-> Part, LoopReport |-> LoopReport,
   ChordSpec |-> ChordSpec, Voicing |-> VoicingRecord, ChordEvent |-> ChordEvent,
   Candidate |-> Candidate, PlannedNote |-> PlannedNote, ExpectedOutput |-> ExpectedOutput,
   EditPlan |-> EditPlan, FixtureLoop |-> FixtureLoop, KeyHint |-> KeyHint,
   FixtureChord |-> FixtureChord, Fixture |-> Fixture]
    @@ Operations @@ Preconditions

(* A document of the named type, read. *)
Usable(name, got) ==
  IF name = "Fixture" /\ got.ok /\ ~FixtureSound(got.value[2]) THEN Bad(<<>>) ELSE got
FromJson(name, json) == Usable(name, Read(Rec(Types[name]), json))
=============================================================================
