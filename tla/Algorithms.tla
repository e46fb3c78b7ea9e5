------------------------------ MODULE Algorithms ------------------------------
(***************************************************************************)
(* The pure algorithms of the engines, each asked every question of a      *)
(* small set and its answer held against what it promises.  A behaviour is *)
(* one question: Init picks it, the one action of its kind answers it.     *)
(*                                                                         *)
(* The sets of questions are constants, given their values in the module   *)
(* that checks this one.                                                   *)
(***************************************************************************)
EXTENDS PlanQuestions

CONSTANTS Predicates, Rulings, Outcomes, Lineages,      \* theory-kb
          Bundles, Queries,
          Durations, Calendars, Spellings, Scales, Chords, Symbols,  \* music-domain
          Extractions, Melodies, Figures,                   \* music-analysis
          Searches, Choosings, Progressions,            \* harmony-engine
          Parts, Breaths, Thinnings, Accompaniments,    \* arrangement-engine
          Arrangements, Sectionings, Separations,
          Seams, Wraps, Audits,                         \* loop-engine
          Regexes, Texts, Schemas,                      \* qjson
          Documents,                                    \* the records' JSON forms
          Messages,                                     \* what crosses the IPC directory
          DefaultBar, Beat, Tick, MaxVoices, MaxGroupDepth, MaxParseDepth, MaxRefDepth,
          MaxTemplates, MaxRealisations, MaxHypotheses,
          Widest, PitchNames, ClassNames,
          PathOrder, JsonFiles, RuleFiles, ProfileFiles, IdOrder, ProfileIds, Components, Minimums,
          Domains, PartOf, Stems, DefaultResults,
          LargestInt, WidestInt, GridDen,
          SafeIds, MaxRequestBytes, MaxResultBytes, MaxCommandsPerTick

Theory == INSTANCE Knowledge
Beats == INSTANCE BeatTimes
Time == INSTANCE MusicTime
Domain == INSTANCE Symbols
Line == INSTANCE MelodyLine
Form == INSTANCE NonChordTones
Harmony == INSTANCE HarmonySearch
Chorale == INSTANCE Voicing
Notes == INSTANCE NoteRules
Accomp == INSTANCE Accompaniment WITH Beat <- Tick, DefaultBar <- 4 * Tick
Full == INSTANCE Arranger WITH Beat <- Tick, DefaultBar <- 4 * Tick
Loop == INSTANCE LoopAudit
Codec == INSTANCE JsonSchema
Forms == INSTANCE Records
Wire == INSTANCE WireForms

ASSUME BundleInputs == Theory!KnowledgeInputs
ASSUME BeatInputs == Beats!BeatWords
ASSUME TimeInputs == Time!DefaultBarLength
ASSUME LineInputs == Line!LineConstants
ASSUME FormInputs == Form!BeatLength /\ Form!HypothesisLimit
ASSUME VoiceInputs == Chorale!VoicingBounds
ASSUME CodecInputs == Codec!GroupDepth /\ Codec!ParseDepth /\ Codec!RefDepth
ASSUME FormsInputs == Forms!RecordInputs
ASSUME LettersInputs == Wire!WireInputs

Init ==
  \/ Asked("predicate", Predicates) \/ Asked("ruling", Rulings)
  \/ Asked("outcome", Outcomes)     \/ Asked("lineage", Lineages)
  \/ Asked("bundle", Bundles)       \/ Asked("query", Queries)
  \/ Asked("duration", Durations)
  \/ Asked("calendar", Calendars)   \/ Asked("staging", Stagings)
  \/ Asked("interval", Spellings)  \/ Asked("scale", Scales)
  \/ Asked("chord", Chords)        \/ Asked("symbol", Symbols)
  \/ Asked("extraction", Extractions)
  \/ Asked("melody", Melodies)      \/ Asked("figure", Figures)
  \/ Asked("search", Searches)      \/ Asked("choice", Choosings)
  \/ Asked("voicing", Progressions)
  \/ Asked("part", Parts)           \/ Asked("breath", Breaths)
  \/ Asked("thinning", Thinnings)   \/ Asked("seam", Seams)
  \/ Asked("accompaniment", Accompaniments)
  \/ Asked("arrangement", Arrangements)
  \/ Asked("sectioning", Sectionings) \/ Asked("separation", Separations)
  \/ Asked("wrap", Wraps)           \/ Asked("audit", Audits)
  \/ Asked("regex", Regexes)        \/ Asked("text", Texts)
  \/ Asked("schema", Schemas)       \/ Asked("record", Documents)
  \/ Asked("plan", {q \in Messages : q.what = "plan"})
  \/ Asked("exchange", {q \in Messages : q.what = "exchange"})
  \/ Asked("result", {q \in Messages : q.what = "result"})
  \/ Asked("snapshot", {q \in Messages : q.what = "snapshot"})

EvaluatePredicate ==
  /\ Asking("predicate")
  /\ answer' = Theory!Evaluate(question.predicate, question.context)
  /\ Settled

\* The verdict on what is known, and the one once more is.
EvaluateRule ==
  /\ Asking("ruling")
  /\ answer' = [first |-> Theory!Status(question.rule, question.context, question.profile),
                later |-> Theory!Status(question.rule, question.more, question.profile)]
  /\ Settled

EvaluateRules ==
  /\ Asking("outcome")
  /\ answer' = Theory!Outcome(question.rules, question.context, question.profile)
  /\ Settled

ResolveProfile ==
  /\ Asking("lineage")
  /\ LET chain == Theory!Ancestry(question.known, question.parent, question.id)
     IN answer' = [chain |-> chain, overrides |-> Theory!Merged(chain, question.own)]
  /\ Settled

CheckBundle ==
  /\ Asking("bundle")
  /\ answer' = Theory!BundleAnswer(question)
  /\ Settled

SearchBundle ==
  /\ Asking("query")
  /\ \E query \in {Theory!QueryOf(question)} :
       answer' = [query |-> query, hits |-> Theory!Search(question.kb, query)]
  /\ Settled

\* Two numbers of quarter notes, as far as they are numbers.
ReckonTime ==
  /\ Asking("duration")
  /\ answer' = {[a |-> a, b |-> b, sum |-> Beats!Add(a, b), difference |-> Beats!Sub(a, b),
                 back |-> Beats!Sub(Beats!Add(a, b), b), apart |-> Beats!Sub(Beats!Later(a, b), Beats!Earlier(a, b)),
                 opposite |-> Beats!Add(a, Beats!Neg(b)),
                 scaled |-> Beats!Scale(Beats!Scale(a, 3, 2), 2, 3),
                 times |-> Beats!DivFloor(a, b), rest |-> Beats!RemEuclid(a, b)]
                  : a \in Beats!TryNew(question.a[1], question.a[2]),
                    b \in Beats!TryNew(question.b[1], question.b[2])}
  /\ Settled

LayOutBars ==
  /\ Asking("calendar")
  /\ \E map \in {Time!TimeMap(question.events)} :
       answer' = [map |-> map,
                  bars |-> Time!BarGrid(map, question.start, question.end),
                  beats |-> Time!BeatGrid(map, question.start, question.end, question.beat)]
  /\ Settled

\* From the one pitch to the other, and back.
MeasureInterval ==
  /\ Asking("interval")
  /\ answer' = [there |-> Domain!Between(question.from, question.to),
                back |-> Domain!Between(question.to, question.from)]
  /\ Settled

SpellScale ==
  /\ Asking("scale")
  /\ answer' = [degrees |-> Domain!SpelledDegrees(question.def, question.tonic),
                spelled |-> [m \in 48..72 |-> Domain!Spell(question.def, question.tonic, m)]]
  /\ Settled

\* The chord, and the chord an interval higher.
ReadChord ==
  /\ Asking("chord")
  /\ answer' = [degrees |-> Domain!Degrees(question.spec),
                moved |-> Domain!TransposeChord(question.spec, question.by)]
  /\ Settled

ReadSymbol ==
  /\ Asking("symbol")
  /\ answer' = Domain!Parse(question.text)
  /\ Settled

ExtractMelody ==
  /\ Asking("extraction")
  /\ answer' = Line!Extract(question.notes, question.mode, question.channel)
  /\ Settled

\* The stages of the analysis in their order, each on what those before it say.
AnalyzeMelody ==
  /\ Asking("melody")
  /\ \E notes \in {question.notes}, map \in {Form!TimeMap(question.events)} :
     \E form \in {Form!Phrases(notes, map)}, motives \in {Form!Motives(notes)} :
     \E cadences \in {Form!ToldOut([k \in DOMAIN form.phrases |->
                        Form!Cadence(notes, form.phrases[k].from, form.phrases[k].to, map,
                                     question.tonic, question.leading)])} :
     \E weight \in {Form!ToldOut([i \in DOMAIN notes |->
                      Form!Salience(notes, i, form, motives, cadences, map)])} :
       answer' = [map |-> map, form |-> form, motives |-> motives, cadences |-> cadences,
                  weight |-> weight,
                  slots |-> [m \in question.modes |->
                    Form!Slots(notes, map, form, weight, m, question.min, question.max)]]
  /\ Settled

\* The readings of each note of a tune, of the tune a fifth higher and of its
\* mirror image, each over the harmony that goes with it.
Harmonised(q, picture) ==
  [notes |-> [i \in DOMAIN q.notes |-> [q.notes[i] EXCEPT !.midi = picture[@]]],
   harmony |-> [k \in DOMAIN q.harmony |->
                  [q.harmony[k] EXCEPT !.tones = {picture[t] % 12 : t \in q.harmony[k].tones}]],
   scale |-> {picture[t] % 12 : t \in q.scale}]
Readings(tune, map, rulings) ==
  [i \in DOMAIN tune.notes |->
     Form!Classified(tune.notes, i, tune.harmony, tune.scale, map, rulings)] \o <<>>
ClassifyTones ==
  /\ Asking("figure")
  /\ \E map \in {Form!TimeMap(question.events)} :
       answer' = [map |-> map, readings |->
         [way \in {"asis", "higher", "mirrored"} |->
            Readings(Harmonised(question, [m \in 0..120 |->
                       CASE way = "asis" -> m [] way = "higher" -> m + 7 [] way = "mirrored" -> 120 - m]),
                     map, question.rulings)]]
  /\ Settled

SearchPaths ==
  /\ Asking("search")
  /\ answer' = Harmony!Search(question)
  /\ Settled

Diversify ==
  /\ Asking("choice")
  /\ answer' = Harmony!Diversified(question.paths, question.like, question.appetite,
                                   question.want)
  /\ Settled

\* The chords in voices, and the audit of them, forwards and backwards; and of
\* how they would score if their parallels were wanted.
VoiceProgression ==
  /\ Asking("voicing")
  /\ \E done \in {Chorale!VoiceProgression(question)} :
     \E pitches \in {[k \in DOMAIN done.chosen |-> done.chosen[k].pitches] \o <<>>} :
       LET penalty == Chorale!ParallelPenalty(question.treatment)
       IN answer' = [layers |-> done.layers, chosen |-> done.chosen,
                   audit |-> Chorale!Audit(pitches, question.chords, penalty, FALSE),
                   back |-> Chorale!Audit(Reverse(pitches), Reverse(question.chords), penalty, FALSE),
                   planed |-> Chorale!Audit(pitches, question.chords, penalty, TRUE)]
  /\ Settled

\* The part as the arrangement engine writes it, and as the harmony engine does.
EnforcePart ==
  /\ Asking("part")
  /\ answer' = [arranged |-> Notes!Enforced(question.notes, question.instrument,
                                            question.span, question.polyphony),
                harmonised |-> Notes!EnforcedInvariants(question.notes, question.span,
                                                        question.polyphony > 1)]
  /\ Settled

EnsureRest ==
  /\ Asking("breath")
  /\ answer' = Notes!EnsureRest(question.notes, question.windows, question.minimum)
  /\ Settled

ThinAgainst ==
  /\ Asking("thinning")
  /\ answer' = Notes!ThinAgainst(question.notes, question.busy, question.floor)
  /\ Settled

\* The part, and what it is made of: where the pattern sounds, is moved and
\* thinned to, at this density and at a higher one, and its notes before they
\* are tied.
WriteAccompaniment ==
  /\ Asking("accompaniment")
  /\ \E map \in {Accomp!TimeMap(question.events)} :
       LET q == question
           raw == Accomp!Authored(q.pattern, q.chords, map, q.opts)
       IN answer' = [map |-> map, raw |-> raw, moved |-> Accomp!Displaced(raw, q.pattern, q.opts),
                     onsets |-> Accomp!PlanOnsets(q.pattern, q.chords, map, q.opts),
                     denser |-> Accomp!PlanOnsets(q.pattern, q.chords, map,
                                                  [q.opts EXCEPT !.density = q.more]),
                     window |-> Accomp!NormalWindow(q.opts.window, q.inst),
                     struck |-> Accomp!Struck(q.pattern, q.chords, map, q.inst, q.opts),
                     notes |-> Accomp!Realized(q.pattern, q.chords, map, q.inst, q.opts)]
  /\ Settled

Arrange ==
  /\ Asking("arrangement")
  /\ answer' = Full!Arrange(question)
  /\ Settled

\* The sections as their energies alone would have them, and as they are.
PlanSections ==
  /\ Asking("sectioning")
  /\ \E map \in {Full!TimeMap(question.events)} :
       answer' = [map |-> map,
                  plans |-> Full!PlanSections(question.sections, question.span, map, question.curve,
                                              question.layers, question.density)]
  /\ Settled

\* Windows pushed apart, and each of them then shifted.
Separate ==
  /\ Asking("separation")
  /\ \E apart \in {Full!Separate(question.windows, question.bounds, question.spread)} :
       answer' = [apart |-> apart,
                  shifted |-> [i \in DOMAIN apart |->
                                 Full!ShiftWindow(apart[i], question.bounds[i], question.shift)]]
  /\ Settled

ApplyPolicy ==
  /\ Asking("seam")
  /\ answer' = Loop!Applied(question.notes, question.span, question.policy)
  /\ Settled

ConnectVoices ==
  /\ Asking("wrap")
  /\ answer' = [pairs |-> Loop!Connect(question.from, question.to),
                stepwise |-> Loop!Stepwise(question.from, question.to),
                classes |-> Loop!ConnectClasses(question.from, question.to)]
  /\ Settled

AuditLoop ==
  /\ Asking("audit")
  /\ answer' = Loop!Audit(question.notes, question.chords, question.span, question.frame,
                          question.intent, question.points)
  /\ Settled

\* What the pattern is, and where it is found in each subject.
RunPattern ==
  /\ Asking("regex")
  /\ \E re \in {Codec!Compile(question.pattern)} :
       answer' = [re |-> re,
                  found |-> [s \in question.subjects |->
                               IF re.ok THEN Codec!Find(re.tree, s) ELSE Codec!NotFound],
                  full |-> [s \in question.subjects |-> re.ok /\ Codec!FullMatch(re.tree, s)]]
  /\ Settled

\* A text read, and what was read written in the three ways.
ReadText ==
  /\ Asking("text")
  /\ \E read \in {Codec!Parse(question)} :
       answer' = [read |-> read,
                   written |-> IF ~read.ok THEN <<>>
                               ELSE [compact |-> Codec!WriteCompact(read.value, FALSE),
                                     pretty |-> Codec!WritePretty(read.value, 0),
                                     canonical |-> Codec!WriteCompact(read.value, TRUE)]]
  /\ Settled

ValidateValue ==
  /\ Asking("schema")
  /\ \E compiled \in {Codec!Compiles(question.doc)} :
       answer' = [compiled |-> compiled,
                   found |-> IF compiled
                             THEN [v \in question.values |-> Codec!Validate(question.doc, v)] ELSE <<>>]
  /\ Settled

\* A document read; what was read, written and read again; and a document
\* without the member in question.
ReadRecord ==
  /\ Asking("record")
  /\ \E read \in {Forms!FromJson(question.type, question.doc)} :
       answer' = [read |-> read,
                  again |-> Forms!FromJson(question.type, read.value),
                  without |-> Forms!FromJson(question.type, question.rest)]
  /\ Settled

\* A plan put on the wire, and a wire plan read back.
SendPlan ==
  /\ Asking("plan")
  /\ \E plan \in {Forms!FromJson("EditPlan", question.doc)} :
       answer' = [plan |-> plan,
                  wire |-> Wire!PlanToWire(plan.value),
                  back |-> Wire!PlanFromWire(question.wire)]
  /\ Settled

\* The files of a directory through one tick of the bridge, the same files once
\* more, and what the client makes of each result.
ExchangeFiles ==
  /\ Asking("exchange")
  /\ \E built \in {Wire!Build(question.ask)} :
     \E pumped \in {Wire!Pump(question.bridge, question.files, 0)} :
       answer' = [built |-> built, bridge |-> pumped.bridge, left |-> pumped.left,
                  again |-> Wire!Pump(pumped.bridge, question.files, 0).bridge,
                  outcomes |-> [stem \in DOMAIN pumped.bridge.results |->
                                  Wire!Outcome(Wire!Parse(pumped.bridge.results[stem]))]]
  /\ Settled

ReadResult ==
  /\ Asking("result")
  /\ answer' = Wire!Outcome(Wire!Parse(question.doc))
  /\ Settled

\* A snapshot as it arrives, checked against the hashes taken of it when it was
\* sent, and the block that pins it.
VerifySnapshot ==
  /\ Asking("snapshot")
  /\ \E read \in {Forms!Read(Forms!Rec(Wire!Snapshot), question.doc)} :
       answer' = IF read.ok
                 THEN [read |-> read,
                       verdict |-> Wire!Verify(read.value[2], question.origin[2]),
                       pinned |-> Wire!ReadExpected(Wire!Sent(Wire!ExpectedOf(read.value[2])[2]))]
                 ELSE [read |-> read, verdict |-> [ok |-> FALSE, checked |-> {}], pinned |-> Forms!Null]
  /\ Settled

Next ==
  \/ EvaluatePredicate \/ EvaluateRule \/ EvaluateRules \/ ResolveProfile
  \/ CheckBundle \/ SearchBundle
  \/ ReckonTime \/ LayOutBars \/ MeasureInterval \/ SpellScale \/ ReadChord \/ ReadSymbol
  \/ ExtractMelody \/ AnalyzeMelody \/ ClassifyTones \/ BuildPlan \/ SearchPaths \/ Diversify
  \/ VoiceProgression
  \/ EnforcePart \/ EnsureRest \/ ThinAgainst \/ WriteAccompaniment
  \/ Arrange \/ PlanSections \/ Separate \/ ApplyPolicy
  \/ ConnectVoices \/ AuditLoop
  \/ RunPattern \/ ReadText \/ ValidateValue \/ ReadRecord
  \/ SendPlan \/ ExchangeFiles \/ ReadResult \/ VerifySnapshot

Spec == Init /\ [][Next]_vars

-----------------------------------------------------------------------------
(* theory-kb *)

Missing(f) == {k \in DOMAIN f : f[k] = {}}

\* The contexts that carry all that c carries, and every fact it lacks; a
\* threshold that is not supplied has its default.
Completions(c) ==
  {[c EXCEPT !.bool = b @@ c.bool, !.num = n @@ c.num, !.str = s @@ c.str, !.list = l @@ c.list]
     : b \in [{"planing_context"} \ DOMAIN c.bool -> {"T", "F"}],
       n \in [Missing(c.num) \ {"threshold"} -> {{-9}, {40}, {60}, {130}}],
       s \in [Missing(c.str) -> {{"quartal"}, {"other"}}],
       l \in [Missing(c.list) -> {{{1, 3, 7}}, {{1, 4, 5}}, {{1, 5}}}]}

\* What a predicate says of the facts at hand it says however the missing
\* ones turn out: three-valued logic answers only what is settled.
PredicateSound ==
  Answered("predicate") /\ answer # "U" =>
    \A full \in Completions(question.context) :
      Theory!Evaluate(question.predicate, full) = answer

\* What cannot be so at once, and what is so exactly when another is not,
\* however the facts lie: two readings of one fact never both hold.
Rivals == {{"motion_is_parallel", "motion_is_similar", "motion_is_contrary", "motion_is_oblique"},
           {"function_is_tonic", "function_is_predominant", "function_is_dominant"},
           {"root_motion_is_descending_fifth", "root_motion_is_stepwise", "root_motion_is_third_related"},
           {"role_is_bass", "role_is_lead", "role_is_pad_or_sustained"},
           {"harmonic_rhythm_is_fast", "harmonic_rhythm_is_slow"},
           {"melody_is_extension", "melody_is_altered_tone"},
           {"melody_is_repeated_pitch", "melody_leap_exceeds_fifth"},
           {"final_chord_is_dominant_function", "final_chord_is_tonic_function"}}
Opposites == {<<"third_is_suspended", "third_is_not_suspended">>,
              <<"intentional_cluster", "cluster_intent_is_false">>,
              <<"dissonance_is_on_strong_beat", "note_is_on_weak_beat">>}
NothingBoth ==
  Answered("predicate") =>
    /\ answer = "T" =>
         \A group \in Rivals : question.predicate \in group =>
           \A q \in group \ {question.predicate} : Theory!Evaluate(q, question.context) # "T"
    /\ \A pair \in Opposites :
         /\ question.predicate = pair[1] => Theory!Evaluate(pair[2], question.context) = Theory!Not(answer)
         /\ question.predicate = pair[2] => Theory!Evaluate(pair[1], question.context) = Theory!Not(answer)

\* More facts never turn a rule that was set aside by an exception into one
\* that applies, never silence one that applied except by an exception, and
\* never make one apply whose condition was known to fail.
VerdictsSettle ==
  Answered("ruling") =>
    /\ answer.first = "bypassed" => answer.later = "bypassed"
    /\ answer.first \in {"violated", "applied"} => answer.later \in {answer.first, "bypassed"}
    /\ (\E p \in question.rule.conditions : Theory!Evaluate(p, question.context) = "F")
         => answer.later \in {"not_applicable", "bypassed"}

\* A profile that gives a hard rule no weight still has the candidate
\* rejected by it; only disabling the rule lifts the rejection.
WeightsNeverExcuse ==
  Answered("outcome") =>
    LET weightless == [question.profile EXCEPT
                         !.overrides = [r \in DOMAIN @ |->
                                          IF @[r] = "disabled" THEN "disabled" ELSE "zero"]]
    IN /\ answer.hard = Theory!Outcome(question.rules, question.context, weightless).hard
       /\ \A i \in DOMAIN answer.hard :
            answer.hard[i] \in DOMAIN question.profile.overrides =>
              question.profile.overrides[answer.hard[i]] # "disabled"

\* The profiles above id, id included; a name nobody defines is among them.
Above(q) ==
  LET up[n \in 0..Cardinality(q.known)] ==
        IF n = 0 THEN {q.id}
        ELSE up[n - 1] \cup {q.parent[p] : p \in up[n - 1] \cap DOMAIN q.parent}
  IN up[Cardinality(q.known)]

\* A profile resolves exactly when its parents are all defined and the last
\* of them has none, and then to each of them once, nearest first.
AncestryRight ==
  Answered("lineage") =>
    /\ answer.chain # <<>> <=> /\ Above(question) \subseteq question.known
                               /\ \E p \in Above(question) : p \notin DOMAIN question.parent
    /\ answer.chain # <<>> =>
         /\ ToSet(answer.chain) = Above(question) /\ IsInjective(answer.chain)
         /\ answer.chain[1] = question.id
         /\ \A i \in 1..(Len(answer.chain) - 1) :
              answer.chain[i + 1] = question.parent[answer.chain[i]]

\* Of the profiles that override a rule the one nearest the profile asked
\* for decides.
NearestWins ==
  Answered("lineage") =>
    LET chain == answer.chain
        naming(r) == {i \in DOMAIN chain : r \in DOMAIN question.own[chain[i]]}
    IN /\ DOMAIN answer.overrides = UNION {DOMAIN question.own[p] : p \in ToSet(chain)}
       /\ \A r \in DOMAIN answer.overrides : \E i \in naming(r) :
            /\ \A j \in naming(r) : i <= j
            /\ answer.overrides[r] = question.own[chain[i]][r]

\* A bundle is reported on in one pass, loads whole or not at all, is stamped
\* to the letter and not changed unnoticed.
BundlesFit ==
  Answered("bundle") =>
    /\ Theory!OnePass(question, answer) /\ Theory!LoadsWhole(question, answer)
    /\ Theory!StampMends(question, answer) /\ Theory!TamperSeen(question)

\* Degrees of up to four characters.
DegreeTexts == UNION {[1..n -> {"b", "#", "0", "7", "x"}] : n \in 0..4}
DegreesRead == Answered("lineage") => Theory!DegreesScanned(DegreeTexts)

\* A search is the same every time, and finds what it is given the name of.
SearchesAgree ==
  Answered("query") =>
    /\ Theory!SearchSteady(question.kb, answer.query, answer.hits)
    /\ Theory!ExactFirst(question.kb, answer.query, answer.hits)

\* theory-kb: a verdict rests on what is known, survives what
\* becomes known and is not bought off with weights; a profile that does not
\* resolve is refused, and of one that does the nearest word counts; a bundle
\* loads whole or not at all, and its search finds the same every time.
TheorySound ==
  PredicateSound /\ NothingBoth /\ VerdictsSettle /\ WeightsNeverExcuse /\ AncestryRight /\ NearestWins
  /\ BundlesFit /\ DegreesRead /\ SearchesAgree

-----------------------------------------------------------------------------
(* music-domain *)

\* Numerators and denominators a time can have, none in common.
Exact(t) == t.num \in -LargestInt..LargestInt /\ t.den \in 1..LargestInt
\* The wide word holds what the bound is compared with.
NoOverflow(a, b) == Beats!MaxQuarters * a.den * b.den <= WidestInt

\* A time is read as the number it was written as, in lowest terms and up to
\* the bound; only the smallest integer, which has no negative, goes on the grid.
TimesRead ==
  Answered("duration") =>
    \A r \in answer : \A x \in {<<r.a, question.a>>, <<r.b, question.b>>} :
      LET t == x[1]  n == IF x[2][2] < 0 THEN -x[2][1] ELSE x[2][1]
          d == IF x[2][2] < 0 THEN -x[2][2] ELSE x[2][2]
      IN /\ Exact(t) /\ \A e \in 2..t.den : t.num % e # 0 \/ t.den % e # 0
         /\ \/ t.num * d = n * t.den
            \/ x[2][1] = -(LargestInt + 1) /\ GridDen % t.den = 0
            \/ t = Beats!Latest /\ n > Beats!MaxQuarters * d
            \/ t = Beats!Earliest /\ n < -(Beats!MaxQuarters * d)

\* The order of two times is that of their difference; times that are neither
\* before nor after each other are one; and a sum of two that begin after
\* nothing never begins before: it stops at the bound (time.rs:60).
TimesOrdered ==
  Answered("duration") =>
    \A r \in answer :
      /\ r.a = r.b <=> Beats!AtMost(r.a, r.b) /\ Beats!AtMost(r.b, r.a)
      /\ r.opposite = r.difference
      /\ NoOverflow(r.a, r.b) =>
           /\ Beats!AtMost(r.a, r.b) => r.difference.num <= 0
           /\ ~Beats!AtMost(r.a, r.b) => r.difference.num >= 0
           /\ r.apart = Beats!AbsOf(r.difference)
           /\ r.a.num >= 0 /\ r.b.num >= 0 => r.sum.num >= 0 /\ Beats!AtMost(r.sum, Beats!Latest)

\* What is added is taken away again, and what is scaled is scaled back, as
\* long as it stays within the bound and the words.
SumsComeBack ==
  Answered("duration") =>
    \A r \in answer :
      /\ r.a.den <= LargestInt \div 2 /\ r.a.num \in -(LargestInt \div 3)..(LargestInt \div 3)
           /\ Beats!Times(r.a, 3) \notin {Beats!Latest, Beats!Earliest} => r.scaled = r.a
      /\ \E den \in {r.a.den * r.b.den}, num \in {r.a.num * r.b.den + r.b.num * r.a.den} :
           den <= LargestInt /\ num \in -LargestInt..LargestInt
             /\ num <= Beats!MaxQuarters * den /\ num >= -(Beats!MaxQuarters * den) => r.back = r.a

\* A time is so many lengths and a rest shorter than one, also before zero, if
\* the length is one.
RestsShorter ==
  Answered("duration") =>
    \A r \in answer :
      r.b.num > 0 /\ r.a.den * r.b.den <= LargestInt /\ r.b.num * r.a.den <= LargestInt =>
        /\ r.rest.num >= 0 /\ ~Beats!AtMost(r.b, r.rest)
        /\ r.a.num * r.b.den * r.rest.den
             = (r.times * r.b.num * r.rest.den + r.rest.num * r.b.den) * r.a.den
        /\ r.rest = Beats!Zero <=> Beats!DividesEvenly(r.a, r.b)

Positions == -6..30

\* Every position lies in the bar it is said to be in, however the metre
\* changes, and a metre event begins a bar.
BarsTile ==
  Answered("calendar") =>
    LET start(b) == Time!BarStart(answer.map, b)
        bar(q) == Time!BarOf(answer.map, q)
    IN /\ Time!IsMap(answer.map)
       /\ \A q \in Positions : start(bar(q)) <= q /\ q < start(bar(q) + 1)
       /\ \A e \in ToSet(question.events) : start(bar(e.at)) = e.at

\* The grid of bars has the bar lines of the range and nothing else.
BarLinesComplete ==
  Answered("calendar") =>
    answer.bars = {q \in question.start..(question.end - 1) :
                     Time!PositionInBar(answer.map, q) = 0}

\* Beats are counted from the bar line before them, across every change of
\* metre: a position is a beat exactly when it is some beats into its bar.
BeatsFromBarLines ==
  Answered("calendar") =>
    answer.beats = {q \in question.start..(question.end - 1) :
                      Time!PositionInBar(answer.map, q) % question.beat = 0}

\* The interval found between two pitches leads from the one to the other,
\* the other way round it is the same interval, it can be written down, and
\* with its inversion it makes an octave.
IntervalsCompose ==
  Answered("interval") =>
    LET there == answer.there
        i == there.interval
        inverted == Domain!Inverted(Domain!Simple(i))
    IN /\ Domain!Apply(there, question.from) = question.to
       /\ question.from # question.to => answer.back = Domain!Reversed(there)
       /\ Domain!NewInterval(Domain!CompoundNumber(i), i.quality) = {i}
       /\ Domain!Semitones(Domain!Simple(i)) + Domain!Semitones(inverted) = 12
       /\ Domain!Simple(Domain!Inverted(inverted)) = Domain!Simple(i)

\* A pitch can be respelled on a letter exactly when a double accidental is
\* enough, and sounds the same; the usual interval of a distance has it.
RespellingSounds ==
  Answered("interval") =>
    LET p == question.from
        up == Domain!Midi(question.to) - Domain!Midi(p)
    IN /\ \A letter \in Domain!Letters :
            Domain!Respelled(p, letter)
              = {q \in [letter : {letter}, acc : -2..2, octave : 1..7] :
                   Domain!Midi(q) = Domain!Midi(p)}
       /\ Domain!Semitones(Domain!FromSemitones(up)) \in {up, -up}

\* Whatever the scale, what is spelled sounds as it should, a scale tone is
\* spelled as the scale spells it, seven tones have seven letters, and a scale
\* on another tonic is spelled alike.
ScalesSpelled ==
  Answered("scale") =>
    LET def == question.def
        tonic == question.tonic
        pcs == Domain!PitchClasses(def, tonic)
        inC == Domain!SpelledDegrees(def, Domain!Class(0, 0))
    IN /\ \A i \in DOMAIN pcs :
            /\ Domain!PcOf(answer.degrees[i]) = pcs[i]
            /\ answer.degrees[i].letter = (tonic.letter + inC[i].letter) % 7
       /\ Len(pcs) = 7 => Cardinality({d.letter : d \in ToSet(answer.degrees)}) = 7
       /\ \A m \in DOMAIN answer.spelled :
            /\ Domain!Midi(answer.spelled[m]) = m
            /\ m % 12 \in ToSet(pcs) =>
                 Domain!ClassOf(answer.spelled[m])
                   = answer.degrees[Domain!NearestDegree(def, tonic, m)]
       /\ \A i \in DOMAIN pcs, octave \in 3..5 :
            Domain!Midi(Domain!DegreePitch(def, tonic, i, octave))
              = Domain!Midi(Domain!Pitch(tonic.letter, tonic.acc, octave)) + def.semitones[i]

\* From a tone of the scale any number of degrees and back is no move, and
\* as many degrees as there are make an octave.
DegreesReturn ==
  Answered("scale") =>
    LET step(p, n) == Domain!TransposeDiatonic(p, n, question.def, question.tonic)
        tones == {answer.spelled[m] : m \in
                    {m \in DOMAIN answer.spelled :
                       m % 12 \in ToSet(Domain!PitchClasses(question.def, question.tonic))}}
    IN \A p \in tones :
         /\ \A n \in {-8, -3, -1, 0, 1, 4, 9} : step(step(p, n), -n) = p
         /\ step(p, Len(question.def.semitones)) = [p EXCEPT !.octave = @ + 1]

\* A chord's degrees sound the semitones they are said to be above the root,
\* and the chord an interval higher has every tone an interval higher.
ChordsMove ==
  Answered("chord") =>
    LET spec == question.spec
        up == Domain!Semitones(question.by)
        root == Domain!PcOf(spec.root)
    IN /\ \A d \in answer.degrees :
            Domain!PcOf(Domain!Spelled(spec, d)) = (root + Domain!SemitonesFromRoot(d)) % 12
       /\ \A d \in answer.degrees :
            LET c == Domain!Spelled(spec, d)
                higher == Domain!Transpose(Domain!Pitch(c.letter, c.acc, 4), question.by)
            IN Domain!Spelled(answer.moved, d) = Domain!ClassOf(higher)
       /\ Domain!BassPc(answer.moved) = (Domain!BassPc(spec) + up) % 12

\* The guide tones are tones of the chord, every sound of it has a degree,
\* and a tension that is altered does not sound unaltered too.
ChordTonesAgree ==
  Answered("chord") =>
    LET spec == question.spec
    IN /\ Domain!GuideTones(spec) \subseteq answer.degrees
       /\ \A pc \in 0..11 : Domain!DegreeOfPc(spec, pc) # {}
                             <=> pc \in Domain!ChordPitchClasses(spec)
       /\ \A d \in spec.alterations, e \in answer.degrees \ (spec.added \cup spec.alterations) :
            d[1] \in {9, 11, 13} => e[1] # d[1]

\* The families a chord is sorted into by different functions are compatible.
FamiliesAgree ==
  Answered("chord") =>
    LET spec == question.spec
    IN /\ Domain!FamilyId(spec) = "dominant" => Domain!IsDominantFamily(spec)
       /\ Domain!IsMajorFamily(spec) => Domain!FamilyId(spec) = "major"
       /\ ~(Domain!IsMajorFamily(spec) /\ Domain!IsDominantFamily(spec))

\* A chord is read back from the symbol it is written with, and tensions mean
\* the same wherever they stand (symbol.rs:52).
SymbolsRead ==
  Answered("symbol") =>
    \A spec \in answer :
      /\ Domain!ReadBack(spec)
      /\ \A t \in question.tensions : Domain!TensionsAgree(spec, question.text, t[1], t[2])

\* Pitches and intervals are read back from their names (interval.rs:301).
NamesRead == Answered("interval") => Domain!NamesReadBack(question.from, answer.there.interval)

\* music-domain: bars, bar lines and beats, computed apart, are of one
\* calendar; spelling and sound agree through intervals, scales and chords;
\* what is written is read back.
DomainSound ==
  /\ TimesRead /\ TimesOrdered /\ SumsComeBack /\ RestsShorter
  /\ BarsTile /\ BarLinesComplete /\ BeatsFromBarLines
  /\ IntervalsCompose /\ RespellingSounds /\ ScalesSpelled /\ DegreesReturn
  /\ ChordsMove /\ ChordTonesAgree /\ FamiliesAgree
  /\ SymbolsRead /\ NamesRead

-----------------------------------------------------------------------------
(* music-analysis *)

Extracted == Answered("extraction") /\ answer.error = "none"
Audible(notes) == SelectSeq(notes, LAMBDA n : ~n.muted)
SoundingTime(notes) == FoldLeft(LAMBDA t, n : t + n.length, 0, notes)

\* Every note is of the melody or of the accompaniment, and of the melody only
\* if it is heard; where only some notes are selected, "auto" takes of those.
MelodyApart ==
  Extracted =>
    LET chosen == Line!Ids(answer.melody)
        selected == {n.id : n \in {n \in ToSet(Audible(question.notes)) : n.selected}}
    IN /\ chosen \cup Line!Ids(answer.accompaniment) = Line!Ids(question.notes)
       /\ chosen \cap Line!Ids(answer.accompaniment) = {}
       /\ \A n \in ToSet(answer.melody) : ~n.muted
       /\ question.mode = "auto" /\ selected # {} => chosen \subseteq selected

\* A melody that is not one line is never passed off as one: what is not a
\* skyline and carries no warning has no two notes that sound together.
AmbiguityTold ==
  Extracted =>
    /\ answer.confidence = "separated" <=> "AMBIGUOUS_MELODY" \in answer.warnings
    /\ \/ "AMBIGUOUS_MELODY" \in answer.warnings
       \/ answer.mode \in {"highest_voice", "lowest_voice"}
       \/ \A m, n \in ToSet(answer.melody) : m = n \/ ~Line!Overlap(m, n)

\* The voices share out the audible notes, and none of them overlaps itself
\* while another might have been opened; the most prominent of them sounds
\* longest.
VoicesApart ==
  Extracted =>
    LET notes == Audible(question.notes)
        voice(i) == Line!Subset(notes, ToSet(answer.lines[i]))
    IN /\ answer.voices <= MaxVoices
       /\ UNION {ToSet(answer.lines[i]) : i \in 1..answer.voices} = Line!Ids(notes)
       /\ FoldLeft(LAMBDA k, l : k + Len(l), 0, answer.lines) = Len(notes)
       /\ answer.voices < MaxVoices =>
            \A i \in 1..answer.voices : \A m, n \in ToSet(voice(i)) : m = n \/ ~Line!Overlap(m, n)
       /\ question.mode = "monophonic_voice" =>
            \A i \in 1..answer.voices : SoundingTime(voice(i)) <= SoundingTime(answer.melody)

\* What a phrase is: the phrases tile the melody; the notes before its first
\* bar line lead up to it and make a phrase of their own, and none else does;
\* a phrase shorter than a bar opens the melody or follows its pickup; one of
\* more than four bars is a single note or ends in a runt that was gathered.
PhrasesTile ==
  Answered("melody") =>
    LET notes == question.notes
        ps == answer.form.phrases
        bar == Form!MeterAt(answer.map, notes[1].onset).bar
        length(a, b) == notes[b].onset + notes[b].length - notes[a].onset
        opening == Form!NextBarLine(answer.map, notes[1].onset)
    IN /\ ps[1].from = 1 /\ Last(ps).to = Len(notes)
       /\ \A k \in 1..(Len(ps) - 1) : ps[k].to + 1 = ps[k + 1].from
       /\ \A k \in DOMAIN ps :
            /\ ps[k].from <= ps[k].to
            /\ ps[k].pickup => k = 1 /\ Len(ps) > 1
                               /\ \A i \in DOMAIN notes : i <= ps[k].to <=> notes[i].onset < opening
            /\ k > 1 /\ length(ps[k].from, ps[k].to) < bar => k = 2 /\ ps[1].pickup
            /\ length(ps[k].from, ps[k].to) > 4 * bar =>
                 \/ ps[k].from = ps[k].to
                 \/ \E i \in (ps[k].from + 1)..ps[k].to : length(i, ps[k].to) < bar

\* Every subphrase lies inside one phrase, and those of a phrase tile it.
SubphrasesNest ==
  Answered("melody") =>
    LET inside(p) == SelectSeq(answer.form.subphrases, LAMBDA s : s[1] >= p.from /\ s[2] <= p.to)
    IN /\ FoldLeft(LAMBDA n, p : n + Len(inside(p)), 0, answer.form.phrases)
            = Len(answer.form.subphrases)
       /\ \A p \in ToSet(answer.form.phrases) :
            LET own == inside(p)
            IN own # <<>> => /\ own[1][1] = p.from /\ Last(own)[2] = p.to /\ Len(own) > 1
                             /\ \A i \in 1..(Len(own) - 1) : own[i][2] + 1 = own[i + 1][1]

\* The notes of an occurrence.
Covered(m, o) == o.at..(o.at + m.length - 1)

\* A motive comes back at least once; no note is of two occurrences, of one
\* motive or of two; and each is what it is said to be.
MotivesRestated ==
  Answered("melody") =>
    LET notes == question.notes
        midi(m, o, k) == notes[o.at + k].midi - notes[o.at].midi
        lengths(m, o) == [k \in 1..m.length |-> notes[o.at + k - 1].length]
    IN /\ \A m \in ToSet(answer.motives) :
            /\ Len(m.occurrences) >= 2
            /\ \A o \in ToSet(m.occurrences) :
                 LET first == m.occurrences[1]
                     same == \A k \in 0..(m.length - 1) : midi(m, o, k) = midi(m, first, k)
                     far(k) == midi(m, o, k) - midi(m, o, k - 1)
                               - (midi(m, first, k) - midi(m, first, k - 1))
                 IN CASE o.transform \in {"exact", "transposed", "sequence"} ->
                           same /\ lengths(m, o) = lengths(m, first)
                           /\ (o.shift = 0 <=> o.transform = "exact")
                      [] o.transform \in {"augmented", "diminished"} ->
                           same /\ lengths(m, o) # lengths(m, first)
                      [] o.transform = "inverted" ->
                           \A k \in 0..(m.length - 1) : midi(m, o, k) = -midi(m, first, k)
                      [] o.transform = "retrograde" ->
                           \A k \in 0..(m.length - 1) :
                             notes[o.at + k].midi - notes[first.at + m.length - 1 - k].midi
                               = notes[o.at].midi - notes[first.at + m.length - 1].midi
                      [] o.transform = "varied" ->
                           \A k \in 1..(m.length - 1) : far(k) \in -2..2
       /\ \A m, n \in ToSet(answer.motives) :
            \A i \in DOMAIN m.occurrences, j \in DOMAIN n.occurrences :
              \/ m = n /\ i = j
              \/ Covered(m, m.occurrences[i]) \cap Covered(n, n.occurrences[j]) = {}

\* A sequence moves by one step at every occurrence.
SequencesStep ==
  Answered("melody") =>
    \A m \in ToSet(answer.motives) :
      (\E o \in ToSet(m.occurrences) : o.transform = "sequence") =>
        /\ Len(m.occurrences) > 2
        /\ \A i \in 2..Len(m.occurrences) :
             m.occurrences[i].shift = (i - 1) * m.occurrences[2].shift

\* No idea is missed: of the notes in no motive no run of three comes back.
MotivesComplete ==
  Answered("melody") =>
    LET used == UNION {UNION {Covered(m, o) : o \in ToSet(m.occurrences)} : m \in ToSet(answer.motives)}
        free == {i \in 1..(Len(question.notes) - 2) : i..(i + 2) \cap used = {}}
    IN \A i, j \in free : j >= i + 3 => Form!Transform(question.notes, i, j, 3) = "none"

\* No dominant function is read into a collection without a leading tone, nor
\* a full close into a line that does not rise to the tonic by a semitone.
CadencesEarned ==
  Answered("melody") =>
    \A k \in DOMAIN answer.cadences :
      LET p == answer.form.phrases[k]
          home == (question.notes[p.to].midi - question.tonic) % 12 = 0
      IN /\ home /\ ~question.leading => answer.cadences[k] \in {"modal", "phrygian"}
         /\ answer.cadences[k] = "perfect_authentic" =>
              /\ home /\ p.to > p.from
              /\ question.notes[p.to - 1].midi = question.notes[p.to].midi - 1

\* The slots tile the melody and share out its notes; a phrase that is not the
\* pickup starts a slot unless slots were merged, and each ends in one that
\* is cadential.
SlotsTile ==
  Answered("melody") =>
    \A mode \in question.modes :
      LET slots == answer.slots[mode]
          notes == question.notes
          starts == {s.start : s \in ToSet(slots)}
      IN /\ slots # <<>> /\ slots[1].start = notes[1].onset
         /\ \A n \in ToSet(notes) : n.onset + n.length <= Last(slots).end
         /\ \A i \in DOMAIN slots : slots[i].start < slots[i].end
         /\ \A i \in 1..(Len(slots) - 1) : slots[i].end = slots[i + 1].start
         /\ \A j \in DOMAIN notes : Cardinality({i \in DOMAIN slots : j \in slots[i].notes}) = 1
         /\ mode.kind # "auto" =>
              \A p \in ToSet(answer.form.phrases) : p.pickup \/ notes[p.from].onset \in starts

\* In "auto" no slot is longer than the profile allows, and one shorter than it
\* allows is at an end of the melody or at the start of a phrase.
SlotsWithinLimits ==
  Answered("melody") =>
    \A mode \in {mode \in question.modes : mode.kind = "auto"} :
      LET slots == answer.slots[mode]
          breath == {question.notes[p.from].onset : p \in ToSet(answer.form.phrases)}
      IN \A i \in DOMAIN slots :
           LET length == slots[i].end - slots[i].start
           IN /\ length <= question.max
              /\ length < question.min => \/ i \in {1, Len(slots)}
                                          \/ {slots[i].start, slots[i].end} \cap breath # {}

\* Every note gets a reading and not too many, each kind once and the surest
\* first; it is read as a chord tone exactly when its pitch is in the chord.
ReadingsRanked ==
  Answered("figure") =>
    \A i \in DOMAIN question.notes :
      \E told \in {answer.readings["asis"][i]} :
        /\ Len(told) \in 1..Max({1, MaxHypotheses})
        /\ \A j, k \in DOMAIN told :
             j < k => told[j].kind # told[k].kind /\ told[j].confidence >= told[k].confidence
        /\ (\E k \in DOMAIN told : told[k].kind = "chord_tone")
             <=> Form!IsChordTone(question.notes[i], question.harmony)

KindsOf(way, i) == {answer.readings[way][i][k].kind : k \in DOMAIN answer.readings[way][i]}

\* The figures of motion exclude one another, unless a second reading is owed:
\* and then a dissonance is never left with one that claims to be sure.
FiguresApart ==
  Answered("figure") =>
    \A i \in DOMAIN question.notes :
      IF question.rulings["ambiguous"].status # "applied"
      THEN Cardinality(KindsOf("asis", i) \cap {"passing", "neighbor", "suspension", "retardation",
                                              "appoggiatura", "escape_tone"}) <= 1
      ELSE KindsOf("asis", i) \in {{k} : k \in {"passing", "neighbor", "suspension", "retardation",
                                             "appoggiatura", "escape_tone"}} => MaxHypotheses < 2

\* What a tone is depends on the intervals alone: a tune is read alike at every
\* pitch, and turned upside down its suspensions are retardations.
ReadingsMove ==
  Answered("figure") =>
    /\ answer.readings["higher"] = answer.readings["asis"]
    /\ question.rulings["ambiguous"].status # "applied" =>
         \A i \in DOMAIN question.notes :
           Len(answer.readings["asis"][i]) < MaxHypotheses =>
             KindsOf("mirrored", i) =
               {CASE k = "suspension" -> "retardation" [] k = "retardation" -> "suspension"
                  [] OTHER -> k : k \in KindsOf("asis", i)}

\* extract, analyze_phrases, analyze_salience and build_grid: a melody comes
\* out of a take with its doubts, its phrases and motives are there in the
\* notes, and the slots for its chords tile it.
AnalysisSound ==
  /\ MelodyApart /\ AmbiguityTold /\ VoicesApart
  /\ PhrasesTile /\ SubphrasesNest
  /\ MotivesRestated /\ SequencesStep /\ MotivesComplete /\ CadencesEarned
  /\ SlotsTile /\ SlotsWithinLimits
  /\ ReadingsRanked /\ FiguresApart /\ ReadingsMove

-----------------------------------------------------------------------------
(* What crosses the IPC directory *)

\* A plan survives the wire, in every shape of its tags and preconditions the
\* reader takes; a tag of no such shape is refused, never dropped.
WireCarriesPlan ==
  Answered("plan") /\ answer.plan.ok =>
    IF question.sound THEN answer.back = answer.plan ELSE ~answer.back.ok

\* What the client sends the bridge can read: no position is a text, no tag or
\* precondition is in the domain's own form, no handle is empty, and every tag
\* the client lets through the bridge lets through.
WirePlanTaken ==
  Answered("plan") /\ answer.plan.ok /\ Wire!CheckTagKeys(answer.plan.value) =>
    Wire!WireTaken(answer.wire)

\* A request as the client builds it, in its own file, in time and with the
\* right token, is carried out with the payload and the expectations it had.
HonestCarried ==
  Answered("exchange") /\ answer.built.ok /\ question.honest =>
    \E i \in DOMAIN answer.bridge.calls : \E call \in {answer.bridge.calls[i]} :
      /\ call.id = question.ask.id /\ call.command = question.ask.command
      /\ question.ask.payload # Wire!Null => call.payload = question.ask.payload
      /\ question.ask.expected # Wire!Null => Wire!ReadExpected(call.expected) = question.ask.expected

\* Nothing is carried out that lies in another's file, has another token or
\* came too late; and nothing twice, however often its file comes back.
CarriedOnce ==
  Answered("exchange") =>
    /\ \A i \in DOMAIN answer.again.calls : \E call \in {answer.again.calls[i]} :
         /\ call.id \notin question.bridge.seen
         /\ call.id \in {answer.again.calls[j].id : j \in 1..(i - 1)} => FALSE
         /\ \E k \in DOMAIN question.files :
              /\ question.files[k].stem = call.id
              /\ Wire!TextOf(question.files[k].body, "instance_token") = {question.bridge.token}
              /\ \A t \in Wire!TextOf(question.files[k].body, "expires_at") :
                   question.bridge.now <= Wire!Times[t] + 5
    /\ answer.again.calls # answer.bridge.calls => answer.left # <<>>

\* Every file of a tick is answered, put aside or still being worked on, no
\* more than a tick may take; and every answer is one the client can read, as
\* large as it may be, with the code and the details the bridge gave.
AnswersComeHome ==
  Answered("exchange") =>
    /\ Len(question.files) - Len(answer.left)
         = answer.bridge.claimed + Len(answer.bridge.quarantined)
    /\ Len(question.files) - Len(answer.left) <= MaxCommandsPerTick
    /\ answer.bridge.claimed = answer.bridge.processed + answer.bridge.failed
         + (IF question.bridge.responder = "silent"
            THEN Cardinality(answer.bridge.seen \ question.bridge.seen) ELSE 0)
    /\ DOMAIN answer.outcomes \subseteq SafeIds
    /\ \A stem \in DOMAIN answer.outcomes : \E outcome \in {answer.outcomes[stem]} :
         /\ outcome.error.code # "INTERNAL_BRIDGE_ERROR"
         /\ outcome.ok => answer.bridge.resultSize <= MaxResultBytes
         /\ ~outcome.ok => Wire!IsObj(outcome.error.details)
         /\ outcome.error.code = "NO_ACTIVE_PROJECT" =>
              outcome.error.details = Wire!Obj("value" :> Wire!Str("closed"))

\* A result is taken for a success only if it says so and carries no error; a
\* failure that is well formed keeps its code, and its details are an object.
ResultsToldApart ==
  Answered("result") =>
    /\ answer.ok => /\ Wire!Member(question.doc, "ok") = <<"bool", TRUE>>
                    /\ Wire!Member(question.doc, "error") = Wire!Null
    /\ ~answer.ok => Wire!IsObj(answer.error.details) /\ answer.error.code # ""
    /\ question.failure # "" => ~answer.ok /\ answer.error.code = question.failure

\* A snapshot as it was sent passes; and whatever one change to it the hashes
\* cover is told: who and where it is, its notes, its tempo map, and the take
\* when all of it was sent.
TamperingTold ==
  Answered("snapshot") /\ answer.read.ok =>
    \E s \in {answer.read.value[2]} : \E sent \in {question.origin[2]} :
      /\ s = sent => answer.verdict.ok
      /\ answer.pinned = Wire!ExpectedOf(s)
      /\ answer.verdict.ok /\ "snapshot_hash" \in answer.verdict.checked =>
           /\ \A k \in {"project_uuid", "track_guid", "item_guid", "take_guid", "item_position_qn",
                        "item_length_qn", "note_count", "is_loop_source"} :
                s[k] = sent[k] \/ {s[k], sent[k]} = {Wire!Null, Wire!Str("")}
           /\ sent["note_list_hash"] # Wire!Null =>
                Wire!Rows(s["notes"][2], {"start_qn", "end_qn", "pitch", "velocity", "channel", "muted", "selected"})
                  = Wire!Rows(sent["notes"][2], {"start_qn", "end_qn", "pitch", "velocity", "channel", "muted", "selected"})
           /\ sent["tempo_map_hash"] # Wire!Null /\ s["tempo_markers"][2] # <<>> =>
                Wire!Rows(s["tempo_markers"][2], {"qn", "bpm", "timesig_num", "timesig_den", "linear"})
                  = Wire!Rows(sent["tempo_markers"][2], {"qn", "bpm", "timesig_num", "timesig_den", "linear"})
           /\ sent["midi_hash"] # Wire!Null /\ s["source_note_count"] = s["note_count"] =>
                Wire!Rows(s["notes"][2], {"start_ppq", "end_ppq"}) = Wire!Rows(sent["notes"][2], {"start_ppq", "end_ppq"})

\* What crosses the IPC directory means on the far side what it meant here.
WireHonest ==
  /\ WireCarriesPlan /\ WirePlanTaken /\ HonestCarried /\ CarriedOnce /\ AnswersComeHome
  /\ ResultsToldApart /\ TamperingTold

-----------------------------------------------------------------------------
(* harmony-engine *)

Paths(p) ==
  {f \in [Harmony!Slots(p) -> 1..p.cap] :
     \A s \in Harmony!Slots(p) : f[s] \in Harmony!Options(p, s)}

\* What a path is worth to the profile: the weighed components of its options
\* and of the steps between them.
Score(p, f) ==
  LET worth(vector) == MapThenSumSet(LAMBDA i : vector[i] * p.weights[i], DOMAIN vector)
  IN MapThenSumSet(LAMBDA s : worth(p.local[s][f[s]])
                              + (IF s = 1 THEN 0 ELSE worth(p.move[f[s - 1]][f[s]])),
                   Harmony!Slots(p))

\* The transitions expanded before the last slot is reached.
Reaching(p) ==
  LET lower(a, b) == IF a <= b THEN a ELSE b
      count(s) == Cardinality(Harmony!Options(p, s))
      beam[s \in Harmony!Slots(p)] ==
        lower(p.width, (IF s = 1 THEN 1 ELSE beam[s - 1]) * count(s))
  IN FoldLeft(LAMBDA sum, s : sum + beam[s - 1] * count(s), 0,
              [i \in 1..(Len(p.local) - 2) |-> i + 1])

\* The search comes back empty only when its budget is spent before the
\* last slot: the beam itself never strands it.
FailsOnlyWhenSpent ==
  Answered("search") =>
    (answer = <<>> <=> Len(question.local) > 1 /\ question.most <= Reaching(question))

\* A beam and a budget wide enough for every path lose none: the path
\* listed first is as good as any, whatever the biases prefer.  (Of two
\* options that sound the same the search keeps the one met first.)
WideBeamFindsBest ==
  Answered("search") /\ question.width >= Cardinality(Paths(question))
                     /\ question.most >= 100
                     /\ question.want >= 3 * Cardinality(Paths(question))
    /\ (\A s \in DOMAIN question.sound : IsInjective(question.sound[s])) =>
    \A f \in Paths(question) : Score(question, f) <= answer[1].score

\* The paths are complete, no two sound the same, the better come first, and
\* there are no more than were asked for.
PathsRanked ==
  Answered("search") =>
    /\ Len(answer) <= question.want
    /\ \A i \in DOMAIN answer :
         /\ answer[i].picks \in Paths(question)
         /\ answer[i].score = Score(question, answer[i].picks)
    /\ \A i, j \in DOMAIN answer : i < j =>
         /\ Harmony!Shape(question, answer[i].picks) # Harmony!Shape(question, answer[j].picks)
         /\ answer[i].score >= answer[j].score

\* As many different paths as can be had, a best one first, and one of each
\* strategy while there is room: likeness never crowds a strategy out.
ChoiceSpreads ==
  Answered("choice") =>
    LET paths == question.paths
        all == {paths[i].strategy : i \in DOMAIN paths}
        shown == {paths[i].strategy : i \in ToSet(answer)}
    IN /\ IsInjective(answer) /\ ToSet(answer) \subseteq DOMAIN paths
       /\ Len(answer) = IF question.want <= Len(paths) THEN question.want ELSE Len(paths)
       /\ answer # <<>> => \A i \in DOMAIN paths : paths[i].total <= paths[answer[1]].total
       /\ Cardinality(shown) = IF question.want <= Cardinality(all)
                               THEN question.want ELSE Cardinality(all)

\* voice_progression keeps the order of the voices, on the keyboard, and the
\* audit finds no crossing in them; where there is an octave of room, every
\* voice is in the window and below the melody that sounds over its chord.
VoicesApartAndBelow ==
  Answered("voicing") =>
    /\ answer.audit.crossings = 0
    /\ \A k \in DOMAIN answer.chosen :
         LET midis == answer.chosen[k].midis
             chord == question.chords[k]
             window == Chorale!Window(question.vp, question.instrument)
             over == {n.midi : n \in {n \in question.melody :
                       n.onset + n.length > chord.onset /\ n.onset < chord.end}}
         IN /\ midis # <<>> /\ \A i \in DOMAIN midis : midis[i] \in 0..127
            /\ \A i, j \in DOMAIN midis : i < j => midis[i] < midis[j]
            /\ (\A m \in over : question.vp.top => m - window.low > 12)
                 => /\ \A i \in DOMAIN midis : midis[i] \in window.low..window.high
                    /\ \A m \in over : question.vp.top => Last(midis) < m

\* In every candidate every voice is a tone of its chord as the chord spells
\* it; unless nothing fitted, the template's needs are met, the altered ones to the letter, and
\* the bass is the one the chord declares.
VoicesSayTheChord ==
  Answered("voicing") =>
    \A k \in DOMAIN answer.layers : \A taken \in answer.layers[k] :
      LET spec == question.chords[k].spec
          tones == Chorale!Degrees(spec)
          sounding == {Chorale!ClassOf(taken.pitches[i]) : i \in DOMAIN taken.pitches}
          inBass == {d \in tones : Cardinality({e \in tones : Chorale!Below(e, d)})
                                    = question.chords[k].inversion}
      IN /\ tones # {} => sounding \subseteq {Chorale!Spelled(spec, d) : d \in tones}
         /\ \A t \in question.templates : t.id = taken.template =>
              /\ \A d \in t.required : \E e \in tones :
                   /\ e[1] % 7 = d[1] % 7 /\ (d[2] # 0 => e = d)
                   /\ Chorale!Spelled(spec, e) \in sounding
              /\ t.family \in {"rootless", "upper_structure"} \/
                   \A pc \in IF spec.bass # {} THEN {Chorale!BassPc(spec)}
                             ELSE {Chorale!PcOf(Chorale!Spelled(spec, d)) : d \in inBass} :
                     taken.midis[1] % 12 = pc

\* What a walk through the candidates costs.
Effort(q, walk) ==
  FoldFunction(+, 0, [k \in DOMAIN walk |->
    walk[k].cost + (IF k = 1 THEN 0
                    ELSE Chorale!MotionCost(walk[k - 1].midis, walk[k].midis, q.vp,
                                           Chorale!ParallelPenalty(q.treatment)))])

\* The dynamic program: no other walk through the candidates is cheaper.
LeastEffort ==
  Answered("voicing") =>
    LET all == UNION {answer.layers[k] : k \in DOMAIN answer.layers}
        walks == {w \in [DOMAIN answer.layers -> all] : \A k \in DOMAIN w : w[k] \in answer.layers[k]}
    IN \A w \in walks : Effort(question, answer.chosen) <= Effort(question, w)

\* The search for voicings and the audit of them count the same parallels, of
\* any two candidates that may follow each other; and what was parallel
\* forwards is parallel backwards.
ParallelsAgree ==
  Answered("voicing") =>
    /\ \A k \in 2..Len(answer.layers) : \A c \in answer.layers[k - 1], d \in answer.layers[k] :
         Cardinality(Chorale!ParallelPerfects(c.midis, d.midis))
           = Cardinality({p \in Chorale!Parallels(c.pitches, d.pitches, 0) : ~p.hidden})
    /\ answer.audit.true = answer.back.true /\ answer.audit.motion = answer.back.motion

\* Where the audit leaves nothing hanging between two candidates, the note a
\* leading tone leads to sounds next, unless its voice drops out.
TendenciesLead ==
  Answered("voicing") =>
    \A k \in 1..(Len(answer.layers) - 1) :
      LET spec == question.chords[k].spec
          leads == (Chorale!PcOf(spec.root) + 4) % 12
      IN Chorale!IsDominantFamily(spec) =>
           \A c \in answer.layers[k], d \in answer.layers[k + 1] :
             Chorale!Unresolved(spec, c.pitches, d.pitches) = {} =>
               \A i \in DOMAIN c.midis : c.midis[i] % 12 = leads /\ i <= Len(d.midis) =>
                 \E j \in DOMAIN d.midis : d.midis[j] = c.midis[i] + 1

\* Only what does not move at all and has nothing told against it scores in
\* full; wanted parallels cost nothing.
ScoreEarned ==
  Answered("voicing") =>
    LET audit == answer.audit
        told == audit.true * Chorale!ParallelPenalty(question.treatment)
    IN /\ audit.score <= 4000
       /\ audit.score = 4000 => audit.motion = 0 /\ audit.overlaps = 0 /\ told = 0
       /\ answer.planed.score = audit.score + 100 * told

\* search_paths, diversify and voice_progression: neither the beam nor the
\* budget nor the merge nor the choice loses or misplaces a path that should be
\* shown, and its chords are voiced in order, under the melody, as they say,
\* with the least effort.
HarmonySound ==
  /\ FailsOnlyWhenSpent /\ WideBeamFindsBest /\ PathsRanked /\ ChoiceSpreads
  /\ VoicesApartAndBelow /\ VoicesSayTheChord /\ LeastEffort /\ ParallelsAgree
  /\ TendenciesLead /\ ScoreEarned

-----------------------------------------------------------------------------
(* arrangement-engine, and what harmony-engine does alike *)

Sounding(notes, q) ==
  {i \in DOMAIN notes : notes[i].onset <= q /\ q < notes[i].onset + notes[i].length}

Ceiling(q) ==
  IF q.polyphony <= 1 THEN 1
  ELSE IF q.polyphony <= q.instrument.polyphony THEN q.polyphony ELSE q.instrument.polyphony

\* What is written can be played: every note sounds, inside the span and the
\* range, and at no time do more sound than the part or its player has.
PartPlayable ==
  Answered("part") =>
    LET span == question.span
    IN /\ \A notes \in {answer.arranged, answer.harmonised} : \A i \in DOMAIN notes :
            /\ notes[i].length > 0 /\ notes[i].midi \in 0..127
            /\ notes[i].onset >= span.start
            /\ notes[i].onset + notes[i].length <= span.end
       /\ \A i \in DOMAIN answer.arranged :
            answer.arranged[i].midi \in question.instrument.low..question.instrument.high
       /\ \A q \in span.start..(span.end - 1) :
            Cardinality(Sounding(answer.arranged, q)) <= Ceiling(question)

\* A note that begins inside the span is dropped only where as many notes
\* sound as may.
DropsOnlyAtCeiling ==
  Answered("part") =>
    \A n \in ToSet(question.notes) :
      LET begins == n.onset \in question.span.start..(question.span.end - 1)
          kept == \E i \in DOMAIN answer.arranged :
                    /\ answer.arranged[i].onset = n.onset
                    /\ (answer.arranged[i].midi - n.midi) % 12 = 0
      IN begins /\ n.midi \in question.instrument.low..question.instrument.high /\ ~kept =>
           Cardinality(Sounding(answer.arranged, n.onset)) = Ceiling(question)

\* An instrument with an octave to play in never has a note's spelling
\* disagree with its pitch.
SpellingFollows ==
  Answered("part") /\ question.instrument.high - question.instrument.low >= 11 =>
    \A i \in DOMAIN answer.arranged : answer.arranged[i].spelled = answer.arranged[i].midi

\* The two engines make the same single line of the same notes, each with an
\* algorithm of its own.
MonophonyAgrees ==
  Answered("part") /\ question.polyphony <= 1
    /\ (\A n \in ToSet(question.notes) :
          n.midi \in question.instrument.low..question.instrument.high) =>
    answer.arranged = answer.harmonised

\* The time of a window in which nothing sounds.
Unheard(notes, w) ==
  Cardinality({q \in w.start..(w.end - 1) : \A n \in ToSet(notes) : q < n.onset \/ q >= n.onset + n.length})

SingleLine(notes) ==
  \A q \in -6..30 : Cardinality(Sounding(notes, q)) <= 1

\* A single line breathes for as long as was asked in every window whose last
\* note is longer than the breath (the precondition is ours: density.rs:140
\* promises it of every window).
LineBreathes ==
  Answered("breath") /\ SingleLine(question.notes) =>
    \A w \in ToSet(question.windows) :
      LET begin == {n \in ToSet(question.notes) : n.onset \in w.start..(w.end - 1)}
          lasts == {n \in begin : \A m \in begin : m.onset <= n.onset}
      IN (\E n \in lasts : Min({n.onset + n.length, w.end}) - n.onset > question.minimum)
           => Unheard(answer, w) >= question.minimum

\* Thinning takes attacks whole, only those another part has, the latest
\* first, and leaves the floor.
ThinningKeepsFloor ==
  Answered("thinning") =>
    LET before == {n.onset : n \in ToSet(question.notes)}
        after == {n.onset : n \in ToSet(answer)}
        floor == IF question.floor >= 1 THEN question.floor ELSE 1
    IN /\ Cardinality(after) >= floor \/ after = before
       /\ answer = SelectSeq(question.notes, LAMBDA n : n.onset \in after)
       /\ before \ after \subseteq question.busy
       /\ \A gone \in before \ after, left \in after \cap question.busy : left < gone

HeldAt(notes, t) == {i \in DOMAIN notes : notes[i].onset <= t /\ t < notes[i].onset + notes[i].length}
Turns(notes) == {n.onset : n \in ToSet(notes)} \cup {n.onset + n.length : n \in ToSet(notes)}

\* plan_onsets: a denser part keeps every onset of a sparser one; and as long as
\* nothing is in its way a part that carries harmony keeps all its chord changes.
DenserKeepsMore ==
  Answered("accompaniment") =>
    LET changes == {c.onset : c \in ToSet(question.chords)}
    IN /\ answer.onsets \subseteq answer.denser /\ answer.denser \subseteq answer.moved
       /\ question.opts.avoid = {} /\ question.pattern.responsibility # "none" =>
            {q \in answer.raw \cap changes : Accomp!IsActive(question.opts, q)} \subseteq answer.onsets

\* displace_from_contested: a part that is not sustained has at most half its
\* attacks where a more important one has its own, or nothing it could be moved by
\* would change that; wherever it is moved it stays in its span.
StepsAside ==
  Answered("accompaniment") =>
    LET from == question.opts.span[1]
        to == question.opts.span[2]
        Clashing(onsets) == 2 * Cardinality(onsets \cap question.opts.avoid) > Cardinality(onsets)
        By(d) == {q + question.pattern.grid \div d : q \in answer.raw} \cap from..(to - 1)
    IN /\ answer.moved \subseteq from..(to - 1)
       /\ ~Accomp!IsSustained(question.pattern) /\ Clashing(answer.moved) =>
            \A d \in {2, 3, 4, 8} : By(d) = {} \/ Clashing(By(d))

\* place_single, place_stack: each note sounds what its spelling says and is of
\* its class; it lies in a window that has an octave; and voices struck together
\* are as far apart as the instrument asks.
PlacedAsSpelled ==
  Answered("accompaniment") =>
    LET low == answer.window[1]
        high == answer.window[2]
    IN /\ question.inst.low <= low /\ low <= high /\ high <= question.inst.high
       /\ high - low >= 12 \/ question.inst.high - question.inst.low < 12
       /\ \A n \in ToSet(answer.notes) :
            /\ n.spelled = n.midi /\ n.midi % 12 = n.pc /\ n.midi \in 0..127
            /\ high - low >= 11 => n.midi \in low..high
       /\ \A i, j \in DOMAIN answer.struck :
            LET m == answer.struck[i]
                n == answer.struck[j]
            IN n.onset = m.onset /\ n.voice = m.voice + 1 =>
                 n.midi >= m.midi + Accomp!MinSpacingAt(question.inst, m.midi)

\* note_length: no more sounds at once than the part has voices; and where a note
\* is held for the harmony, what sounds is a tone of the chord that stands.
SoundsTheHarmony ==
  Answered("accompaniment") =>
    \A t \in Turns(answer.notes) \cup {c.onset : c \in ToSet(question.chords)} :
      LET held == HeldAt(answer.notes, t)
          chord == Accomp!ChordAt(question.chords, t)
          tones == ToSet(Accomp!ChordMaterial(chord, question.pattern.responsibility))
      IN /\ Cardinality(held) <= question.opts.polyphony
         /\ question.pattern.sustain # "grid" /\ t \in chord.onset..(chord.onset + chord.length - 1) =>
              \A i \in held : \E tone \in tones : Accomp!ClassPc(tone) = answer.notes[i].pc

\* tie_common_tones, renumber: tying changes nothing of what sounds when and
\* leaves nothing to tie; the notes are numbered in their order.
TiesAreInaudible ==
  Answered("accompaniment") =>
    LET Pitch(notes, t) == {notes[i].midi : i \in HeldAt(notes, t)}
    IN /\ \A t \in Turns(answer.struck) : Pitch(answer.notes, t) = Pitch(answer.struck, t)
       /\ Accomp!IsSustained(question.pattern) =>
            \A m, n \in ToSet(answer.notes) : m.midi = n.midi => m.onset + m.length # n.onset
       /\ \A i \in DOMAIN answer.notes :
            /\ answer.notes[i].id = question.opts.base + i - 1
            /\ i > 1 => ~Accomp!Precedes(answer.notes[i], answer.notes[i - 1])

\* The tune, kept as it is.
Preserved(b) == b.role = "lead" /\ question.preserve /\ Full!PreservedLead(question.tune, Full!Span(question)) # <<>>
\* A part with a place of its own in the form.
Placed(b) == b.role \in {"transition", "impact"} \/ b.pattern.activity = "phrase_gaps"
Strikes(b, from, to) == \E n \in ToSet(b.notes) : n.onset \in from..(to - 1)

\* realize_all: no more parts strike in a section than its energy affords; and of
\* those that enter with the loop none is silent there for one that matters less.
BudgetKept ==
  Answered("arrangement") =>
    \A a \in answer : \A plan \in ToSet(a.plans) :
      LET striking == {b \in ToSet(a.builds) : ~Preserved(b) /\ Strikes(b, plan.start, plan.end)}
      IN /\ Cardinality(striking) <= plan.budget
         /\ \A b \in ToSet(a.builds) :
              /\ plan.id \in b.withheld /\ ~Placed(b) /\ a.loop.silence = {}
              /\ b.priority = 0 \/ b.role \in Full!Recurring
              => \A other \in striking : other.priority <= b.priority

\* arrange: what is kept masks no more than the parts where the catalogue has them,
\* and if the separation is given up those are what is kept.
SeparationHelps ==
  Answered("arrangement") =>
    \A a \in answer :
      /\ Full!Masking(Full!PartNotes(a.builds)) <= Full!Masking(a.first)
      /\ a.reverted => Full!PartNotes(a.builds) = a.first

\* plan_loop, active_windows: the silence is inside the loop, and in it nothing
\* strikes but the tune, the foreground and what has a place of its own.
SilenceKept ==
  Answered("arrangement") =>
    \A a \in answer : \A s \in a.loop.silence :
      /\ a.span[1] < s[1] /\ s[2] < a.span[2]
      /\ \A b \in ToSet(a.builds) : Strikes(b, s[1], s[2]) => b.priority = 0 \/ Placed(b) \/ Preserved(b)

\* Every part of an arrangement can be played: in the range of its instrument,
\* inside the loop, and with no more at once than the pattern has voices and the
\* instrument can sound.
PartsPlay ==
  Answered("arrangement") =>
    \A a \in answer : \A b \in ToSet(a.builds) :
      /\ \A n \in ToSet(b.notes) : /\ n.midi \in b.inst.low..b.inst.high
                                   /\ a.span[1] <= n.onset /\ n.length > 0
                                   /\ n.onset + n.length <= a.span[2]
      /\ \A t \in Turns(b.notes) :
           Cardinality(HeldAt(b.notes, t)) <= IF Preserved(b) THEN b.inst.polyphony
                                              ELSE Min({b.inst.polyphony, b.pattern.polyphony})

\* enforce_contrast: a section differs from the one before it in something other
\* than its volume, if there is room for it: that one is not yet shifted the way
\* the energy goes, or not at the limit of density, length or layers that lies
\* there (the precondition is ours: sections.rs:166 promises it of all).  Where
\* there is room in the density, in the lengths or in the layers of a section that
\* falls, it differs in just that.
SectionsDiffer ==
  Answered("sectioning") =>
    \A k \in 1..(Len(answer.plans) - 1) :
      LET a == answer.plans[k]
          b == answer.plans[k + 1]
          falls == b.energy < a.energy
          DensityLeft(by) == IF falls THEN a.density >= by ELSE a.density <= 1000000 - by
          LengthLeft(by) == IF falls THEN a.lengths <= 10000 - by ELSE a.lengths >= 1500 + by
          Differ(x, y, by) == x - y >= by \/ y - x >= by
          shiftable == IF falls THEN a.shift >= 0 ELSE a.shift <= 0
          layered == falls /\ a.budget > 1
      IN /\ shiftable \/ DensityLeft(10000) \/ LengthLeft(100) \/ layered => ~Full!SameButVolume(a, b)
         /\ DensityLeft(50000) => Differ(a.density, b.density, 50000)
         /\ LengthLeft(1000) => Differ(a.lengths, b.lengths, 1000)
         /\ layered => a.budget # b.budget

\* implied_sections, layer_budget: what nobody asked for tiles the loop in blocks
\* of four bars, and every section has a layer and no more than there are.
SectionsTile ==
  Answered("sectioning") =>
    LET plans == answer.plans
    IN /\ \A k \in DOMAIN plans : plans[k].budget \in 1..question.layers
       /\ question.sections = <<>> =>
            /\ plans[1].start = question.span[1] /\ Last(plans).end = question.span[2]
            /\ \A k \in DOMAIN plans : plans[k].start < plans[k].end
            /\ \A k \in 1..(Len(plans) - 1) :
                 plans[k].end = plans[k + 1].start
                 /\ plans[k].end - plans[k].start = 4 * Full!MeterAt(answer.map, question.span[1]).bar

\* separate, shift_window: a window stays within its bounds, is not moved at all
\* without a spread, and overlaps the one below by no more than the spread
\* tolerates, unless it cannot go further up; a section's shift keeps it there too.
WindowsApart ==
  Answered("separation") =>
    LET Centre(w) == (w[1] + w[2]) \div 2
        Narrow(i) == Full!Narrowed(question.windows[i], question.bounds[i], question.spread)
        Inside(w, bound) == bound[1] <= w[1] /\ w[1] <= w[2] /\ w[2] <= bound[2]
        ws == answer.apart
    IN /\ question.spread = 0 => ws = question.windows
       /\ \A i \in DOMAIN ws :
            /\ Inside(ws[i], question.bounds[i]) /\ Inside(answer.shifted[i], question.bounds[i])
            /\ question.shift # 0 /\ question.bounds[i][2] - question.bounds[i][1] >= 12 =>
                 answer.shifted[i][2] - answer.shifted[i][1] >= 12
       /\ Len(ws) = 2 /\ question.spread > 0 =>
            \A low, up \in DOMAIN ws :
              LET home == Centre(Narrow(up))
                  smaller == 1 + Min({Narrow(i)[2] - Narrow(i)[1] : i \in DOMAIN ws})
              IN Centre(Narrow(low)) < home =>
                   \/ 100 * Full!SharedSemitones(ws[low], ws[up]) <= (100 - question.spread) * smaller + 50
                   \/ ws[up][2] = question.bounds[up][2]
                   \/ ws[up][1] >= home + 12 \/ Centre(ws[up]) >= home + 12

\* enforce, enforce_invariants, density.rs: a part can be played, loses only
\* what it must, is spelled as it sounds and is the same line in both engines;
\* rests are made and attacks thinned as far as asked and no further.  patterns.rs:
\* a pattern is thinned, moved, placed, held and tied as it should be.
ArrangementSound ==
  /\ PartPlayable /\ DropsOnlyAtCeiling /\ SpellingFollows /\ MonophonyAgrees
  /\ LineBreathes /\ ThinningKeepsFloor
  /\ DenserKeepsMore /\ StepsAside /\ PlacedAsSpelled /\ SoundsTheHarmony /\ TiesAreInaudible
  /\ BudgetKept /\ SeparationHelps /\ SilenceKept /\ PartsPlay
  /\ SectionsDiffer /\ SectionsTile /\ WindowsApart

-----------------------------------------------------------------------------
(* loop-engine *)

\* Material that reaches no further than one repeat before the loop and
\* begins before its end.
OneRepeat(notes, span) ==
  \A n \in ToSet(notes) : n.sounds =>
    span.start - Loop!Length(span) <= n.onset /\ n.onset < span.end

\* After a seam is split or truncated the material is as long as the loop;
\* after it is carried what hung is marked; none of the three leaves a note
\* hanging.
SeamSealed ==
  Answered("seam") /\ question.policy # "rearticulate" =>
    LET span == question.span
    IN /\ Loop!HangingNotes(answer, span) = {}
       /\ question.policy = "truncate"
          \/ (question.policy = "split" /\ OneRepeat(question.notes, span)
              /\ \A n \in ToSet(question.notes) : n.mark # "carry") =>
            /\ Loop!OccupiedLength(answer, span) = Loop!Length(span)
            /\ Loop!PickupLength(answer, span) = 0 /\ Loop!TailLength(answer, span) = 0
       /\ question.policy = "carry" =>
            Loop!CarriedNotes(answer, span) = Loop!HangingNotes(question.notes, span)
                                              \cup Loop!CarriedNotes(question.notes, span)

\* Where in the loop a pitch is heard, when the loop repeats.
Heard(notes, span) ==
  UNION {{<<n.midi, Loop!Wrapped(span, q)>> : q \in n.onset..(Loop!End(n) - 1)}
           : n \in {n \in ToSet(notes) : n.sounds}}

\* A listener of the repeating loop hears the same after it is split: what
\* hangs over is wrapped to the head and what leads in to the tail.
SplitKeepsPhases ==
  Answered("seam") /\ question.policy = "split" =>
    Heard(answer, question.span) = Heard(question.notes, question.span)

\* Added notes never take the id of another.
IdsStayUnique ==
  Answered("seam") =>
    \A i, j \in DOMAIN answer : answer[i].id = answer[j].id => i = j

\* A seam that has been decided stays decided: the policy applied again
\* changes nothing.
SeamSettles ==
  Answered("seam") /\ question.policy # "rearticulate"
    /\ (question.policy = "split" => OneRepeat(question.notes, question.span)) =>
    Loop!Applied(answer, question.span, question.policy) = answer

\* All ways for the voices to go without crossing.
Leadings(from, to) ==
  {f \in [DOMAIN from -> DOMAIN to] : \A i, j \in DOMAIN from : i <= j => f[i] <= f[j]}

\* The connection found at the seam is one of these and none is cheaper, and
\* a stepwise one is reported exactly when there is one.
ConnectionCheapest ==
  Answered("wrap") =>
    LET from == question.from
        to == question.to
        pairs(f) == [i \in DOMAIN from |-> <<from[i], to[f[i]]>>]
    IN /\ to # <<>> => \E f \in Leadings(from, to) : answer.pairs = pairs(f)
       /\ \A f \in Leadings(from, to) :
            Loop!Travel(answer.pairs) <= Loop!Travel(pairs(f))
       /\ answer.stepwise <=> /\ from # <<>>
                              /\ \E f \in Leadings(from, to) : Loop!Leap(pairs(f)) <= 2

\* Pitch classes move as little as any octave of the target allows.
ClassesNearest ==
  Answered("wrap") /\ question.to # <<>> =>
    \A i \in DOMAIN question.from :
      LET pair == answer.classes[i]
      IN /\ \E t \in ToSet(question.to) : (pair[2] - t) % 12 = 0
         /\ \A t \in ToSet(question.to), octave \in -8..8 :
              Loop!Leap(<<pair>>) <= Loop!Leap(<< <<pair[1], t + 12 * octave>> >>)

\* The measurements at the seam, each made in its own way, fit together.
ObservationCoherent ==
  Answered("audit") =>
    LET o == answer.seen
    IN /\ o.retained => o.common # {}
       /\ o.bass = {0} => o.retained
       /\ o.leap <= 2 /\ <<>> \notin {o.end, o.start} => o.stepwise
       /\ o.continues => o.pedal /\ answer.integrity.crossing

\* What a loop is refused for is reported, and what is reported as a stuck
\* note or a wrong length refuses it, whatever the loop is for.
RefusalExplained ==
  Answered("audit") =>
    LET faults == answer.findings \cap {"HANGING_NOTE", "PICKUP_PRESENT", "LENGTH_MISMATCH",
                                        "INTENT_MISMATCH"}
    IN /\ ~answer.compatible /\ answer.score >= 600000 => faults # {}
       /\ answer.compatible => faults \subseteq {"PICKUP_PRESENT"}

\* The cadence that serves a closed loop best never serves a drone.
CadenceByIntent ==
  Answered("audit") =>
    LET cadence == [answer.seen EXCEPT !.final = {"dominant"}, !.first = {"tonic"}]
        fit == Loop!Fit(question.intent, cadence, answer.integrity, question.frame.stability)
    IN /\ question.intent = "closed_tonic" => fit >= answer.fit
       /\ question.intent = "modal_drone" => fit <= answer.fit

\* A repair proposed for the boundary, carried out, answers its finding and
\* brings none of the others; material reaches no further than one repeat.
\* (Duplicating a pickup keeps it where it is, and the finding with it.)
RepairsWork ==
  Answered("audit") =>
    \A r \in {r \in Loop!Repairs(answer.findings) : r.policy # "rearticulate"} :
      r.policy = "truncate" \/ OneRepeat(question.notes, question.span) =>
        \A repaired \in {Loop!Applied(question.notes, question.span, r.policy)} :
          Loop!Repairs(Loop!Audit(repaired, question.chords, question.span, question.frame,
                                  question.intent, question.points).findings) \subseteq
             {s \in Loop!Repairs(answer.findings) : s.finding # r.finding}

\* apply_boundary_policy and audit: the seam is closed, nothing heard is lost,
\* and a second pass finds nothing to do; the voices cross it as cheaply as
\* they can, what is wrong with it is reported, and the repairs repair it.
LoopSound ==
  /\ SeamSealed /\ SplitKeepsPhases /\ IdsStayUnique /\ SeamSettles
  /\ ConnectionCheapest /\ ClassesNearest /\ ObservationCoherent
  /\ RefusalExplained /\ CadenceByIntent /\ RepairsWork

-----------------------------------------------------------------------------
(* The JSON codecs                                                         *)

\* parse_alt: of the patterns without escapes, classes and braces it compiles
\* just the well-formed, and nothing of such a pattern is lost or moved.
PatternsRead ==
  Answered("regex") =>
    LET p == question.pattern
    IN (\A i \in DOMAIN p : p[i] \notin {"\\", "[", "{", ":"}) =>
         /\ answer.re.ok <=> Codec!WellFormed(p)
         /\ answer.re.ok => Codec!WrittenAlt(answer.re.tree) = p

\* find and is_full_match against the set of the ends a pattern means: a match
\* is a real one, the leftmost, and none is missed by the shortcut for
\* anchored patterns, by a run's counting or by giving up on an empty round,
\* unless what repeats asks where it is.
MatchesMeant ==
  Answered("regex") /\ answer.re.ok =>
    LET tree == answer.re.tree
        complete == ~\E b \in DOMAIN tree : \E i \in DOMAIN tree[b] : Codec!RepeatsAnchor(tree[b][i])
    IN \A s \in question.subjects :
         LET meant == [p \in 0..Len(s) |-> Codec!MeantAlt(tree, s, p)]
             found == answer.found[s]
         IN /\ answer.full[s] => Len(s) \in meant[0]
            /\ complete => (answer.full[s] <=> Len(s) \in meant[0])
            /\ found # <<>> => found[2] \in meant[found[1]]
            /\ complete => \A p \in 0..Len(s) :
                 meant[p] # {} => found # <<>> /\ found[1] <= p

\* Whether a quantifier is lazy decides which match is found, and neither
\* whether nor where it begins.
LazinessPrefers ==
  Answered("regex") /\ answer.re.ok =>
    LET tree == answer.re.tree
        turned == [b \in DOMAIN tree |-> [i \in DOMAIN tree[b] |-> Codec!Turned(tree[b][i])]]
    IN \A s \in question.subjects :
         LET other == Codec!Find(turned, s)
         IN /\ Codec!FullMatch(turned, s) <=> answer.full[s]
            /\ (other = <<>>) <=> (answer.found[s] = <<>>)
            /\ other # <<>> => other[1] = answer.found[s][1]

\* parse: what is read is no deeper than the limit and has every key once; a
\* text refused for its depth has that many brackets open; and the path of a
\* fault goes as deep as the brackets do, or stops at the bracket itself.
TextsBounded ==
  Answered("text") =>
    IF answer.read.ok
    THEN /\ Codec!Depth(answer.read.value) <= MaxParseDepth
         /\ Codec!KeysOnce(answer.read.value)
    ELSE LET open == Codec!Open(question, answer.read.at)
         IN /\ answer.read.kind = "depth_limit" <=> open = MaxParseDepth /\
                 answer.read.at <= Len(question) /\ question[answer.read.at] \in
                   {Codec!Mark("["), Codec!Mark("{")} /\ Len(answer.read.path) = open
            /\ answer.read.kind = "trailing" => open = 0
            /\ answer.read.kind # "trailing" => Len(answer.read.path) \in {open - 1, open}

\* parse after to_string, to_string_pretty and to_canonical_string: the value
\* comes back, in its order or with the keys in theirs; sorting first changes
\* no canonical text.
TextsComeBack ==
  Answered("text") /\ answer.read.ok =>
    LET v == answer.read.value
        sorted == Codec!Sorted(v)
    IN /\ Codec!Parse(answer.written.compact).value = v
       /\ Codec!Parse(answer.written.pretty).value = v
       /\ Codec!Parse(answer.written.canonical).value = sorted
       /\ Codec!KeysRise(sorted) /\ Codec!Equal(v, sorted) /\ Codec!Equal(sorted, v)
       /\ Codec!WriteCompact(sorted, FALSE) = answer.written.canonical

\* check against what the keywords mean: no violation is found in a value that
\* conforms and one is in every value that does not; and what lies beyond the
\* limit of references is refused, unless a negation turns that around.
VerdictsMeant ==
  Answered("schema") /\ answer.compiled =>
    \A v \in question.values :
      LET negates == \E node \in {question.doc.root}
                                  \cup {question.doc.defs[d] : d \in DOMAIN question.doc.defs} :
                       Codec!Negates(node)
      IN \A verdict \in {Codec!Means(question.doc, question.doc.root, v, MaxRefDepth)} :
           IF verdict = "lost" THEN ~negates => answer.found[v] # <<>>
           ELSE (answer.found[v] = <<>>) <=> (verdict = "yes")

\* validate returns every violation found: each keyword of the root that speaks
\* of the value itself and is not met is told, under its name.
ViolationsTold ==
  Answered("schema") /\ answer.compiled =>
    \A v \in question.values :
      \A keyword \in DOMAIN question.doc.root \cap Codec!Assertions :
        Codec!Says(question.doc, question.doc.root, keyword, v, MaxRefDepth) = "no" =>
          \E i \in DOMAIN answer.found[v] :
            answer.found[v][i] = Codec!Wrong(<<>>, keyword)

\* instance_path: following it in the value leads to one place.
PointersLead ==
  Answered("schema") /\ answer.compiled =>
    \A v \in question.values : \A i \in DOMAIN answer.found[v] :
      Cardinality(Codec!PointedAt(v, answer.found[v][i].path)) = 1

-----------------------------------------------------------------------------
(* The records' JSON forms *)

Reads(key) == answer.read.ok /\ key \in DOMAIN answer.read.value[2]

\* What a record writes it reads, and reads as what it was: nothing is lost,
\* defaulted or rounded twice.
RecordsComeBack == Answered("record") /\ answer.read.ok => answer.again = answer.read

\* Whatever is done to one member, the others are read as they were; a
\* complete document is read as it is, and members nobody knows survive in the
\* records that keep them.
OthersUnhurt ==
  Answered("record") => \E type \in {Forms!Types[question.type]} :
    /\ question.how \in {"none", "extra"} => answer.read.ok
    /\ answer.read.ok =>
         \A k \in (DOMAIN question.doc[2] \cap Forms!Keys(type)) \ {question.key} :
           Reads(k) /\ answer.read.value[2][k] = question.doc[2][k]
    /\ question.how = "extra" =>
         (question.key \in DOMAIN answer.read.value[2] <=> type.keeps)

\* A member that is not what it should be stops the reading there and nowhere
\* else, or makes no difference to there being none; and null is nowhere taken
\* for a value: it is refused exactly where there has to be one.
WrongMembersBlamed ==
  Answered("record") /\ question.how \in {"drop", "null", "wrong", "entry"} =>
    /\ answer.read.ok => answer.read = answer.without
    /\ ~answer.read.ok => answer.read.at # <<>> /\ answer.read.at[1] = question.key
    /\ question.how = "null" => answer.read.ok = answer.without.ok

\* A number beyond its bounds is refused or read as the nearest bound; only
\* the signed words, which are cast, take it for another number.
NumbersBounded ==
  Answered("record") /\ question.how \in {"beyond", "below"} => \E type \in {Forms!Types[question.type]} :
    \E as \in {type.fields[Forms!Place(type, question.key)].as} :
       \/ ~answer.read.ok /\ answer.read.at = <<question.key>>
       \/ /\ Reads(question.key)
          /\ answer.read.value[2][question.key] =
               Forms!Num(IF as[4] = "wrap"
                         THEN IF question.how = "beyond" THEN as[2] ELSE as[3]
                         ELSE IF question.how = "beyond" THEN as[3] ELSE as[2])

\* An edit that makes no new track is never written with a handle that names
\* nothing: the bridge takes any temp_id it is given for one to be resolved.
HandlesNameSomething ==
  Answered("record") /\ question.type \in {"create_region", "create_midi_send"} =>
    ~(Reads("temp_id") /\ answer.read.value[2]["temp_id"] = Forms!Str(""))

\* The JSON forms: what is written is read, and what is wrong is told apart.
RecordsSound ==
  RecordsComeBack /\ OthersUnhurt /\ WrongMembersBlamed /\ NumbersBounded /\ HandlesNameSomething

\* qjson: patterns match what they mean, texts and values come back from each
\* other, and a schema refuses what it must and says where; the records and
\* what crosses the IPC directory are read as what was written.
CodecsSound ==
  /\ PatternsRead /\ MatchesMeant /\ LazinessPrefers
  /\ TextsBounded /\ TextsComeBack
  /\ VerdictsMeant /\ ViolationsTold /\ PointersLead
  /\ RecordsSound /\ WireHonest
=============================================================================
