----------------------------- MODULE TheoryRules -----------------------------
(***************************************************************************)
(* The rule engine of theory-kb: predicates over a context of facts in     *)
(* three-valued logic, the verdict of one rule, the outcome of all of them *)
(* (rules.rs), and the resolution of a style profile against its parents   *)
(* (profile.rs).                                                           *)
(*                                                                         *)
(* A fact the caller did not supply is the empty set, one it supplied the  *)
(* set of its value.  Scores are integers.                                  *)
(***************************************************************************)
EXTENDS Integers, Sequences, FiniteSets, SequencesExt

-----------------------------------------------------------------------------
(* Three-valued logic: "U" means that the context does not carry the fact. *)

Tri == {"T", "F", "U"}

Known(b) == IF b THEN "T" ELSE "F"
Not(t) == CASE t = "T" -> "F" [] t = "F" -> "T" [] OTHER -> "U"
And(s, t) == CASE "F" \in {s, t} -> "F" [] {s, t} = {"T"} -> "T" [] OTHER -> "U"

\* Mutant of Or: what is not known to hold is taken not to hold.
Or_Closed(s, t) == IF "T" \in {s, t} THEN "T" ELSE "F"
Or(s, t) == CASE "T" \in {s, t} -> "T" [] {s, t} = {"F"} -> "F" [] OTHER -> "U"
OrElse(s, t) == IF s = "U" THEN t ELSE s

-----------------------------------------------------------------------------
(* Predicates.  A context has the predicates asserted outright (bool), and *)
(* the numbers (num), strings (str) and lists of degrees (list) others are *)
(* derived from.  A degree is its number, negative when it is flat, and a  *)
(* hundred more when it is sharp; a ratio is in hundredths.                *)

FactOf(facts, k) == IF k \in DOMAIN facts THEN facts[k] ELSE {}

Asserted(c, p) == IF p \in DOMAIN c.bool THEN c.bool[p] ELSE "U"

\* What a number, two numbers or a string are compared by.
Less(k, bound) == <<"less", k, bound>>
AtMost(k, bound) == <<"at_most", k, bound>>
More(k, bound) == <<"more", k, bound>>
AtLeast(k, bound) == <<"at_least", k, bound>>
Equal(k, bound) == <<"equal", k, bound>>
Wider(k, bound) == <<"wider", k, bound>>           \* up or down
Among(k, classes) == <<"among", k, classes>>       \* pitch classes
Pair(j, rel, k) == <<"pair", j, rel, k>>
Text(k, wanted) == <<"text", k, wanted>>

Compared(rel, x, y) ==
  CASE rel = "less" -> x < y [] rel = "at_most" -> x <= y [] rel = "more" -> x > y
    [] rel = "at_least" -> x >= y [] rel = "equal" -> x = y [] rel = "differs" -> x # y
    [] rel = "wider" -> x > y \/ -x > y [] rel = "among" -> (x % 12) \in y

(* num_cmp, num_pair, str_eq and str_in: not known without the facts. *)
Tested(test, c) ==
  CASE test[1] = "text" ->
         IF FactOf(c.str, test[2]) = {} THEN "U"
         ELSE Known(FactOf(c.str, test[2]) \subseteq test[3])
    [] test[1] = "pair" ->
         IF {} \in {FactOf(c.num, test[2]), FactOf(c.num, test[4])} THEN "U"
         ELSE Known(\E x \in FactOf(c.num, test[2]), y \in FactOf(c.num, test[4]) :
                      Compared(test[3], x, y))
    [] OTHER ->
         IF FactOf(c.num, test[2]) = {} THEN "U"
         ELSE Known(\E x \in FactOf(c.num, test[2]) : Compared(test[1], x, test[3]))

(* Chord content. *)
Number(degree) == IF degree < 0 THEN -degree ELSE degree % 100
IsAltered(degree) == degree < 0 \/ degree > 100

HasDegree(c, n) ==
  IF FactOf(c.list, "sounding") = {} THEN "U"
  ELSE Known(\E ds \in FactOf(c.list, "sounding") : \E d \in ds : Number(d) = n)

ThirdIsSuspended(c) ==
  OrElse(Asserted(c, "third_is_suspended"),
         And(Not(HasDegree(c, 3)), Or(HasDegree(c, 4), HasDegree(c, 2))))

ContentNames == {"third_is_omitted", "fifth_is_omitted", "root_is_omitted", "seventh_is_present",
                 "third_is_suspended", "third_is_not_suspended", "chord_has_altered_tones",
                 "guide_tones_present"}
Content(p, c) ==
  CASE p = "third_is_omitted" -> Not(HasDegree(c, 3))
    [] p = "fifth_is_omitted" -> Not(HasDegree(c, 5))
    [] p = "root_is_omitted" -> Not(HasDegree(c, 1))
    [] p = "seventh_is_present" -> HasDegree(c, 7)
    [] p = "third_is_suspended" -> ThirdIsSuspended(c)
    [] p = "third_is_not_suspended" -> Not(ThirdIsSuspended(c))
    [] p = "chord_has_altered_tones" ->
         IF FactOf(c.list, "sounding") = {} THEN "U"
         ELSE Known(\E ds \in FactOf(c.list, "sounding") : \E d \in ds : IsAltered(d))
    [] p = "guide_tones_present" ->
         And(Or(HasDegree(c, 3), HasDegree(c, 4)), HasDegree(c, 7))
ChordTests == ("chord_is_rootless_voicing" :> Text("voicing", {"rootless"}))

(* Register and spacing. *)
RegisterTests ==
  ("third_and_eleventh_are_in_adjacent_or_close_registers" :> AtMost("third_to_eleventh", 14))
  @@ ("voices_are_widely_spaced" :> AtLeast("gap", 7))
  @@ ("spacing_violates_instrument_low_interval_limit" :> Pair("gap", "less", "gap_limit"))
  @@ ("register_is_low" :> Less("max", 48)) @@ ("register_is_high" :> More("min", 79))
  @@ ("outer_voice_span_exceeds_two_octaves" :> More("outer_span", 24))
OutOfRange(c) == Or(Tested(Pair("min", "less", "low"), c), Tested(Pair("max", "more", "high"), c))

(* Melody. *)
DefaultSalience == 60
Structural(c) ==
  IF FactOf(c.num, "threshold") = {} THEN Tested(More("salience", DefaultSalience), c)
  ELSE Tested(Pair("salience", "more", "threshold"), c)

MelodyTests ==
  ("melody_note_is_on_strong_beat" :> AtLeast("metric_weight", 75))
  @@ ("melody_note_is_long" :> AtLeast("duration_ratio", 200))
  @@ ("melody_leap_exceeds_fifth" :> Wider("melody_interval", 7))
  @@ ("melody_is_repeated_pitch" :> Equal("melody_interval", 0))

DegreeNames == {"melody_is_11", "melody_is_extension", "melody_is_altered_tone", "melody_is_chord_tone"}
OfDegree(p, degree, tones) ==
  IF degree = {} \/ (p = "melody_is_chord_tone" /\ tones = {}) THEN "U"
  ELSE Known(\E d \in degree :
    CASE p = "melody_is_11" -> d = 11
      [] p = "melody_is_extension" -> ~IsAltered(d) /\ Number(d) \in {9, 11, 13}
      [] p = "melody_is_altered_tone" -> IsAltered(d)
      [] p = "melody_is_chord_tone" -> \E ds \in tones : d \in ds)

(* Motion and dissonance. *)
MotionTests ==
  ("motion_is_parallel" :> Text("motion", {"parallel"})) @@ ("motion_is_similar" :> Text("motion", {"similar"}))
  @@ ("motion_is_contrary" :> Text("motion", {"contrary"})) @@ ("motion_is_oblique" :> Text("motion", {"oblique"}))
  @@ ("interval_is_perfect_fifth_or_octave" :> Among("arrival", {0, 7}))
  @@ ("voice_leap_is_large" :> Wider("voice_motion", 12))
  @@ ("total_motion_is_minimal" :> Pair("total_motion", "at_most", "least_motion"))

\* Mutant: the weak beats reach up to and into the strong ones.
DissonanceTests_Both ==
  ("dissonance_is_on_strong_beat" :> AtLeast("metric_weight", 50))
  @@ ("note_is_on_weak_beat" :> AtMost("metric_weight", 50))

DissonanceTests ==
  ("dissonance_is_on_strong_beat" :> AtLeast("metric_weight", 50))
  @@ ("note_is_on_weak_beat" :> Less("metric_weight", 50))

(* Function and progression. *)
FunctionTests ==
  ("function_is_tonic" :> Text("function", {"tonic"})) @@ ("function_is_predominant" :> Text("function", {"predominant"}))
  @@ ("function_is_dominant" :> Text("function", {"dominant"}))
  @@ ("root_motion_is_descending_fifth" :> Among("root_motion", {5}))
  @@ ("root_motion_is_stepwise" :> Among("root_motion", {1, 2, 10, 11}))
  @@ ("root_motion_is_third_related" :> Among("root_motion", {3, 4, 8, 9}))

(* Context and what is asked for. *)
ContextTests ==
  ("key_is_minor" :> Text("mode", {"minor", "natural_minor", "harmonic_minor", "melodic_minor",
                                   "aeolian", "dorian", "phrygian", "locrian"}))
  @@ ("modal_center_is_active" :> Text("center", {"modal"}))
  @@ ("harmonic_rhythm_is_fast" :> More("chords_per_bar", 100))
  @@ ("harmonic_rhythm_is_slow" :> Less("chords_per_bar", 100))
  @@ ("complexity_target_is_high" :> AtLeast("complexity", 66))
  @@ ("chromaticism_target_is_high" :> AtLeast("chromaticism", 66))
  @@ ("extension_density_is_high" :> AtLeast("extension", 66))
  @@ ("strictness_is_common_practice" :> Text("strictness", {"common_practice_strict"}))

(* Arrangement. *)
PartTests ==
  ("role_is_bass" :> Text("role", {"bass"})) @@ ("role_is_lead" :> Text("role", {"lead"}))
  @@ ("role_is_pad_or_sustained" :> Text("role", {"pad", "texture", "ambience"}))
  @@ ("part_density_exceeds_role_target" :> Pair("density", "more", "density_target"))
  @@ ("onsets_collide_with_higher_priority_role" :> More("collision", 50))
  @@ ("register_overlaps_another_part" :> More("overlap", 5))
  @@ ("polyphony_exceeds_profile_limit" :> Pair("polyphony", "more", "polyphony_limit"))

(* Loop and integrity. *)
LoopTests ==
  ("final_chord_is_dominant_function" :> Text("final_function", {"dominant"}))
  @@ ("final_chord_is_tonic_function" :> Text("final_function", {"tonic"}))
  @@ ("first_chord_is_tonic_function" :> Text("first_function", {"tonic"}))
  @@ ("note_extends_past_loop_end" :> Pair("note_end", "more", "loop_end"))
  @@ ("note_carry_policy_is_explicit" :> Text("carry", {"carry", "split"}))
  @@ ("bass_leaps_across_wrap" :> Wider("wrap_bass", 7))
  @@ ("harmonic_rhythm_changes_at_wrap" :> Pair("slot_before", "differs", "slot_after"))
  @@ ("loop_length_is_not_exact" :> Pair("length", "differs", "wanted_length"))
  @@ ("duration_is_not_positive" :> AtMost("shortest", 0))

Tests == ChordTests @@ RegisterTests @@ MelodyTests @@ MotionTests @@ DissonanceTests @@ FunctionTests
         @@ ContextTests @@ PartTests @@ LoopTests

ComposedNames == {"voice_exceeds_instrument_range", "melody_note_is_structural",
                  "cluster_intent_is_false", "quartal_or_planing_context", "midi_pitch_out_of_range"}
Composed(p, c) ==
  CASE p = "voice_exceeds_instrument_range" -> OutOfRange(c)
    [] p = "melody_note_is_structural" -> Structural(c)
    [] p = "cluster_intent_is_false" -> Not(Asserted(c, "intentional_cluster"))
    [] p = "quartal_or_planing_context" ->
         Or(Tested(Text("voicing", {"quartal", "quintal"}), c), Asserted(c, "planing_context"))
    [] p = "midi_pitch_out_of_range" ->
         Or(Tested(Less("lowest_note", 0), c), Tested(More("highest_note", 127), c))

(* The predicates that nothing is derived for. *)
AssertedOnly == {
  "altered_tone_resolves_by_step", "bass_supplies_root", "cadence_is_expected_at_this_slot",
  "cadential_six_four_present", "candidate_duplicates_existing_strategy", "chord_is_applied_dominant",
  "chord_is_borrowed_from_parallel_mode", "chord_is_diatonic_to_key", "chord_is_in_root_position",
  "chord_is_symmetric_collection", "chord_is_tritone_substitute", "chord_symbol_is_ambiguous",
  "chordal_seventh_resolves_down_by_step", "common_tone_available", "common_tone_retained",
  "contrast_is_dynamics_only", "dissonance_is_prepared", "doubling_is_allowed_for_role",
  "doubling_is_on_tendency_tone", "essential_chord_tone_only_in_this_layer", "intentional_cluster",
  "is_loop_wrap_boundary", "leading_tone_resolves_up_by_step",
  "leap_is_followed_by_step_in_opposite_direction", "melody_is_at_phrase_end", "melody_is_pickup",
  "melody_material_would_be_altered", "melody_outlines_augmented_or_tritone_interval",
  "melody_reaches_registral_peak", "note_is_approached_by_step", "note_is_chromatic_to_active_scale",
  "note_is_left_by_step", "note_outside_item_bounds", "note_returns_to_previous_pitch",
  "notes_overlap_in_monophonic_part", "omission_changes_semantic_identity", "outer_voices_involved",
  "part_duplicates_melody_rhythm", "pedal_continues_across_wrap", "pedal_point_is_active",
  "phrase_contains_no_rest", "pickup_is_present", "source_material_would_be_mutated",
  "stepwise_connection_available", "suspension_resolves_down_by_step", "target_chord_follows",
  "tendency_tone_is_unresolved", "voice_crossing_present", "voice_overlap_present"}
Vocabulary == DOMAIN Tests \cup ContentNames \cup DegreeNames \cup ComposedNames \cup AssertedOnly

Derived(p, c) ==
  IF p \in ContentNames THEN Content(p, c)
  ELSE IF p \in DegreeNames THEN OfDegree(p, FactOf(c.num, "degree"), FactOf(c.list, "chord"))
  ELSE IF p \in ComposedNames THEN Composed(p, c)
  ELSE IF p \in DOMAIN Tests THEN Tested(Tests[p], c)
  ELSE "U"   \* answered only by an assertion

Evaluate(p, c) == OrElse(Asserted(c, p), Derived(p, c))

-----------------------------------------------------------------------------
(* One rule.  A rule listens for an event; its selectors are the degrees   *)
(* the chord must contain and the role it speaks of ("any" accepts every   *)
(* role, but only when there is one).                                      *)

ChordDegrees(c) == IF FactOf(c.list, "chord") # {} THEN FactOf(c.list, "chord") ELSE FactOf(c.list, "sounding")

Selected(r, c) ==
  /\ r.degrees # {} => \E have \in ChordDegrees(c) : r.degrees \subseteq have
  /\ r.role # {} => \E v \in FactOf(c.str, "role") : r.role \cap {v, "any"} # {}

IsHard(kind) == kind \in {"hard_integrity", "mathematical_invariant", "loop_integrity"}
Rejects(kind) == kind \in {"hard_integrity", "mathematical_invariant"}

InChain(r, prof) == \E p \in r.profiles : Contains(prof.chain, p)
Enabled(r, prof) == r.id \in DOMAIN prof.overrides => prof.overrides[r.id] # "disabled"
Multiplier(r, prof) ==
  IF r.id \in DOMAIN prof.overrides
  THEN CASE prof.overrides[r.id] = "disabled" -> 0
         [] prof.overrides[r.id] = "zero" -> 0
         [] prof.overrides[r.id] = "double" -> 2
  ELSE 1

\* Mutant: an unanswered condition counts as met.
Holding_Guessed(ps, c) == \A p \in ps : Evaluate(p, c) # "F"
Holding(ps, c) == \A p \in ps : Evaluate(p, c) = "T"

\* Mutant of Status: a rejection asks for the weighted delta.
Status_Weighted(r, c, prof) ==
  LET heard == r.event = c.event /\ Selected(r, c) /\ InChain(r, prof) /\ Enabled(r, prof)
      aside == \E p \in r.exceptions : Evaluate(p, c) = "T"
  IN CASE heard /\ aside -> "bypassed"
       [] heard /\ ~aside /\ Holding(r.conditions, c) ->
            IF Rejects(r.kind) /\ r.delta * Multiplier(r, prof) < 0
            THEN "violated" ELSE "applied"
       [] OTHER -> "not_applicable"

\* evaluate_rule: the status of a rule, and what it adds to the score.
Status(r, c, prof) ==
  LET heard == r.event = c.event /\ Selected(r, c) /\ InChain(r, prof) /\ Enabled(r, prof)
      aside == \E p \in r.exceptions : Evaluate(p, c) = "T"
  IN CASE heard /\ aside -> "bypassed"
       [] heard /\ ~aside /\ Holding(r.conditions, c) ->
            IF Rejects(r.kind) /\ r.delta < 0 THEN "violated" ELSE "applied"
       [] OTHER -> "not_applicable"

Delta(r, c, prof) ==
  IF Status(r, c, prof) = "applied" THEN r.delta * Multiplier(r, prof) ELSE 0

\* RuleEngine::evaluate: hard kinds first, each in the order of the base.
Outcome(rules, c, prof) ==
  LET heard == SelectSeq(rules, LAMBDA r : r.event = c.event)
      ordered == SelectSeq(heard, LAMBDA r : IsHard(r.kind))
                 \o SelectSeq(heard, LAMBDA r : ~IsHard(r.kind))
      rejecting == SelectSeq(ordered, LAMBDA r : Status(r, c, prof) = "violated")
  IN [hard |-> [i \in DOMAIN rejecting |-> rejecting[i].id],
      score |-> FoldLeft(LAMBDA sum, r : sum + Delta(r, c, prof), 0, ordered)]

-----------------------------------------------------------------------------
(* Profiles: parent is a function from some profile names to names.        *)

\* Mutant of Ancestry: only a profile that is its own parent is a cycle.
Ancestry_SelfOnly(known, parent, id) ==
  LET walk[n \in 0..Cardinality(known)] ==
        IF n = 0 THEN <<id>>
        ELSE LET soFar == walk[n - 1] IN
             IF soFar = <<>> \/ Last(soFar) \notin DOMAIN parent THEN soFar
             ELSE LET up == parent[Last(soFar)]
                  IN IF up \notin known \/ up = Last(soFar) THEN <<>> ELSE Append(soFar, up)
  IN IF id \in known THEN walk[Cardinality(known)] ELSE <<>>

\* ancestry: <<>> stands for every error, a missing parent or a cycle.
Ancestry(known, parent, id) ==
  LET walk[n \in 0..Cardinality(known)] ==
        IF n = 0 THEN <<id>>
        ELSE LET soFar == walk[n - 1] IN
             IF soFar = <<>> \/ Last(soFar) \notin DOMAIN parent THEN soFar
             ELSE LET up == parent[Last(soFar)]
                  IN IF up \notin known \/ Contains(soFar, up) THEN <<>>
                     ELSE Append(soFar, up)
  IN IF id \in known THEN walk[Cardinality(known)] ELSE <<>>

\* Mutant: merged leaf first, so that the root has the last word.
Merged_RootWins(chain, own) == FoldLeft(LAMBDA acc, p : own[p] @@ acc, <<>>, chain)

\* resolve, of the rule overrides: root first, leaf last, every later write wins.
Merged(chain, own) == FoldLeft(LAMBDA acc, p : own[p] @@ acc, <<>>, Reverse(chain))
=============================================================================
