-------------------------------- MODULE Voicing --------------------------------
(***************************************************************************)
(* Chords put into voices, connected through time (voicing.rs of           *)
(* harmony-engine), and the audit of how the voices lead                   *)
(* (voiceleading.rs).                                                      *)
(*                                                                         *)
(* A template has the degrees it stacks from the bottom, those it needs,   *)
(* its family, the register it belongs in and its spacing limits; of its   *)
(* id only the order counts.  Costs are whole numbers, 6000 to the code's  *)
(* 1.0, exact where the code's are floats equal within a billionth.  What  *)
(* the audit asks of the rules is left out.                                *)
(***************************************************************************)
EXTENDS Chords

CONSTANTS MaxTemplates,     \* MAX_TEMPLATES: tried per chord
          MaxRealisations   \* MAX_REALISATIONS: kept per chord

VoicingBounds == /\ MaxTemplates \in Nat \ {0}
                 /\ MaxRealisations \in Nat \ {0}

MaxLayoutVariants == 5
OctaveOffsets == -1..1

LOCAL Least(m, n) == IF m < n THEN m ELSE n
LOCAL Most(m, n) == IF m < n THEN n ELSE m

\* The members of S that fewer than n others come before.
FirstOf(S, n, Before(_, _)) == {x \in S : Cardinality({y \in S : Before(y, x)}) < n}

-----------------------------------------------------------------------------
(* The tones of a chord, from the lowest degree.                           *)

Below(d, e) == d[1] < e[1] \/ (d[1] = e[1] /\ d[2] < e[2])

\* The tone with n tones below it; none if the chord has no more than n.
ToneAt(spec, n) ==
  LET tones == Degrees(spec)
  IN {d \in tones : Cardinality({e \in tones : Below(e, d)}) = n}

SimpleNumber(n) == IF n > 7 THEN n - 7 ELSE n

\* Mutant of FindTone: an altered degree is content with the natural one.
FindTone_AnyAlteration(spec, wanted) ==
  LET tones == Degrees(spec)
  IN FirstOf({d \in tones : SimpleNumber(d[1]) = SimpleNumber(wanted[1])}, 1, Below)

\* find_tone: a degree written plain takes the chord's own form of it.
FindTone(spec, wanted) ==
  LET tones == Degrees(spec)
  IN IF wanted \in tones THEN {wanted}
     ELSE IF wanted[2] # 0 THEN {}
     ELSE FirstOf({d \in tones : SimpleNumber(d[1]) = SimpleNumber(wanted[1])}, 1, Below)

-----------------------------------------------------------------------------
(* What a chord may be realised as.                                        *)

\* The request's range, narrowed by the instrument's.
Window(vp, instrument) ==
  IF instrument = {} THEN [low |-> vp.low, high |-> vp.high]
  ELSE LET p == CHOOSE p \in instrument : TRUE
       IN [low |-> Most(vp.low, p.low), high |-> Least(vp.high, p.high)]

\* Mutant of MelodyCeiling: only the notes that begin under the chord count.
MelodyCeiling_Onsets(melody, chord, vp, high) ==
  LET over == {n \in melody : chord.onset <= n.onset /\ n.onset < chord.end}
  IN IF ~vp.top \/ over = {} THEN high ELSE Least(Min({n.midi : n \in over}) - 1, high)

\* The harmony stays below whatever of the melody sounds over the chord.
MelodyCeiling(melody, chord, vp, high) ==
  LET over == {n \in melody : n.onset < chord.end /\ n.onset + n.length > chord.onset}
  IN IF ~vp.top \/ over = {} THEN high ELSE Least(Min({n.midi : n \in over}) - 1, high)

UsableTemplates(q, chord) ==
  LET vp == q.vp
      Off(t) == Abs(t.voices - vp.voices)
      Nearer(t, u) == Off(t) < Off(u) \/ (Off(t) = Off(u) /\ t.id < u.id)
  IN FirstOf({t \in q.templates : /\ t.styles \cap q.chain # {}
                                  /\ vp.families = {} \/ t.family \in vp.families
                                  /\ t.voices <= vp.voices + 1
                                  /\ \A d \in t.required : FindTone(chord.spec, d) # {}},
             MaxTemplates, Nearer)

Turned(layout, shift) ==
  LET tail == Tail(layout)
  IN <<Head(layout)>> \o SubSeq(tail, shift + 1, Len(tail)) \o SubSeq(tail, 1, shift)

\* The layout and the rotations of what is above its bass, each at its place
\* among those that differ.
LayoutVariants(template) ==
  LET layout == template.layout
      shifts == IF Len(layout) > 2 THEN 0..(Least(Len(layout) - 1, MaxLayoutVariants) - 1)
                ELSE {0}
      new == {s \in shifts : \A r \in 0..(s - 1) : Turned(layout, r) # Turned(layout, s)}
  IN {[variant |-> Cardinality({r \in new : r < s}), layout |-> Turned(layout, s)] : s \in new}

\* The layout, under it the tone the inversion asks for if it is another.
InvertedLayout(spec, layout, inversion) ==
  LET bottom == ToneAt(spec, inversion)
  IN IF inversion = 0 \/ bottom = {} \/ Head(layout) \in bottom THEN layout
     ELSE <<CHOOSE d \in bottom : TRUE>> \o layout

\* The lowest of the class from floor up.
AtOrAbove(class, floor) == AtOctave(class, floor + ((PcOf(class) - floor) % 12))

\* Mutant of Realize: a voice is sought from the base, not from the one below.
Realize_FromBase(spec, template, layout, base, inversion) ==
  LET tones == SelectSeq(InvertedLayout(spec, layout, inversion), LAMBDA d : FindTone(spec, d) # {})
      pitches == [k \in DOMAIN tones |->
                    AtOrAbove(Spelled(spec, CHOOSE d \in FindTone(spec, tones[k]) : TRUE), base)]
  IN IF Len(tones) < 2 THEN {} ELSE {pitches}

\* realize: the degrees stacked from base up; none if one that is needed is
\* missing, if it leaves the keyboard, or if it has fewer than two voices.
Realize(spec, template, layout, base, inversion) ==
  LET degrees == InvertedLayout(spec, layout, inversion)
      stack[k \in 0..Len(degrees)] ==
        IF k = 0 THEN [pitches |-> <<>>, floor |-> base, failed |-> FALSE]
        ELSE LET Put(below, pitch) ==
                   IF Midi(pitch) > 127 THEN [below EXCEPT !.failed = TRUE]
                   ELSE [pitches |-> Append(below.pitches, pitch),
                         floor |-> Midi(pitch) + 1, failed |-> FALSE]
                 Add(below, tone) ==
                   IF below.failed THEN below
                   ELSE IF tone = {} THEN [below EXCEPT !.failed = degrees[k] \in template.required]
                   ELSE Put(below, AtOrAbove(Spelled(spec, CHOOSE d \in tone : TRUE), below.floor))
             IN Add(stack[k - 1], FindTone(spec, degrees[k]))
      Kept(built) == IF built.failed \/ Len(built.pitches) < 2 THEN {} ELSE {built.pitches}
  IN Kept(stack[Len(degrees)])

DeclaredBass(spec, inversion) ==
  IF spec.bass # {} THEN BassPc(spec)
  ELSE PcOf(Spelled(spec, CHOOSE d \in ToneAt(spec, Least(inversion, Cardinality(Degrees(spec)) - 1)) : TRUE))

\* Mutant of BassIsAsDeclared: only a slash bass is declared.
BassIsAsDeclared_Slash(spec, inversion, template, midis) ==
  spec.bass = {} \/ midis[1] % 12 = BassPc(spec)

\* Rootless voicings leave the bass to another part.
BassIsAsDeclared(spec, inversion, template, midis) ==
  \/ template.family \in {"rootless", "upper_structure"}
  \/ Degrees(spec) = {} /\ spec.bass = {}
  \/ midis[1] % 12 = DeclaredBass(spec, inversion)

\* min_spacing_at: the first limit for notes so low.
LimitAt(limits, midi) ==
  LET applies == {k \in DOMAIN limits : midi < limits[k].below}
  IN IF applies = {} THEN {} ELSE {limits[Min(applies)].gap}

\* What a realisation costs by itself.
VoicingCost(template, spec, midis, vp, ceiling, instrument) ==
  LET sounding == {midis[k] % 12 : k \in DOMAIN midis}
      Missing(degrees) ==
        Cardinality({d \in degrees : (PcOf(spec.root) + SemitonesFromRoot(d)) % 12 \notin sounding})
      bottom == midis[1]
      top == midis[Len(midis)]
      crowding == IF Most(ceiling - bottom, 0) < 12 * (vp.voices - 1) THEN 60 ELSE 150
      Above(n, m) == Most(n - m, 0)
      tight == [k \in 1..(Len(midis) - 1) |->
                  LET own == LimitAt(template.spacing, midis[k])
                      theirs == UNION {LimitAt(p.spacing, midis[k]) : p \in instrument}
                      limit == IF own # {} THEN own ELSE theirs
                  IN IF limit = {} THEN 0
                     ELSE Above(CHOOSE g \in limit : TRUE, midis[k + 1] - midis[k])]
  IN 60 * ( 800 * Missing(GuideTones(spec)) + 150 * Missing(spec.extensions)
          + 250 * Missing(spec.alterations)
          + crowding * Abs(Len(midis) - vp.voices)
          + 5 * Above(template.low, bottom) + 5 * Above(top, template.high)
          + 200 * Above(top, ceiling)
          + 60 * FoldFunction(+, 0, tight))

Midis(pitches) == [k \in DOMAIN pitches |-> Midi(pitches[k])] \o <<>>

Clamp(n, low, high) == Most(low, Least(n, high))

Cheaper(c, d) == \/ c.cost < d.cost
                 \/ c.cost = d.cost /\ \E k \in DOMAIN c.key : /\ c.key[k] < d.key[k]
                                                              /\ \A j \in 1..(k - 1) : c.key[j] = d.key[j]

\* Of one template in one layout and octave.
Realisation(q, chord, window, ceiling, t, v, offset) ==
  {[pitches |-> p, midis |-> Midis(p), template |-> t.id, family |-> t.family,
    key |-> <<t.id, v.variant, offset>>,
    cost |-> VoicingCost(t, chord.spec, Midis(p), q.vp, ceiling, q.instrument)] :
     p \in Realize(chord.spec, t, v.layout,
                   Clamp(t.low + 12 * offset, window.low, window.high), chord.inversion)}

\* realisations: of every template at every layout and octave what fits, the
\* cheapest kept.
Realisations(q, chord, window, ceiling) ==
  LET TemplateOf(c) == CHOOSE t \in q.templates : t.id = c.template
  IN FirstOf({c \in UNION {UNION {UNION {Realisation(q, chord, window, ceiling, t, v, offset) :
                                            offset \in OctaveOffsets} :
                                     v \in LayoutVariants(t)} : t \in UsableTemplates(q, chord)} :
                /\ BassIsAsDeclared(chord.spec, chord.inversion, TemplateOf(c), c.midis)
                /\ \A k \in DOMAIN c.midis : /\ c.midis[k] >= window.low
                                             /\ c.midis[k] <= Least(window.high, ceiling)
                                             /\ c.midis[k] \in 0..127},
             MaxRealisations, Cheaper)

\* place_in: folded down while it is above the ceiling.
Folded(midi, ceiling) ==
  Max({midi % 12} \cup {m \in 0..Least(midi, ceiling) : m % 12 = midi % 12})

\* Mutant of Fallback: each tone is the lowest above the floor.
Fallback_FromFloor(spec, vp, low, high) ==
  LET floor == Clamp(low, 0, 127)
      tones == [k \in 1..Least(vp.voices, Cardinality(Degrees(spec))) |->
                  AtOrAbove(Spelled(spec, CHOOSE d \in ToneAt(spec, k - 1) : TRUE), floor)]
  IN [pitches |-> tones, midis |-> Midis(tones), template |-> 0, family |-> "close",
      key |-> <<0, 0, 0>>, cost |-> 36000]

\* fallback: the chord's tones stacked from the floor as far as there is room.
Fallback(spec, vp, low, high) ==
  LET floor == Clamp(low, 0, 127)
      ceiling == Clamp(high, floor + 1, 127)
      stack[k \in 0..Least(vp.voices, Cardinality(Degrees(spec)))] ==
        IF k = 0 THEN [pitches |-> <<>>, cursor |-> floor, full |-> FALSE]
        ELSE LET Put(below, pitch) ==
                   IF below.full \/ Midi(pitch) > ceiling THEN [below EXCEPT !.full = TRUE]
                   ELSE [pitches |-> Append(below.pitches, pitch), cursor |-> Midi(pitch) + 1,
                         full |-> FALSE]
             IN Put(stack[k - 1],
                    AtOrAbove(Spelled(spec, CHOOSE d \in ToneAt(spec, k - 1) : TRUE),
                              stack[k - 1].cursor))
      root == AtOctave(spec.root, Folded(Midi(AtOrAbove(spec.root, floor)), ceiling))
      Told(pitches) == [pitches |-> pitches, midis |-> Midis(pitches), template |-> 0,
                        family |-> "close", key |-> <<0, 0, 0>>, cost |-> 36000]
      Stacked(s) == Told(IF s = <<>> THEN <<root>> ELSE s)
  IN Stacked(stack[Least(vp.voices, Cardinality(Degrees(spec)))].pitches)

-----------------------------------------------------------------------------
(* The chords together.                                                    *)

\* parallel_penalty_scale, in tenths.
ParallelPenalty(treatment) ==
  CASE treatment = "forbidden" -> 15 [] treatment = "penalised" -> 10
    [] treatment = "neutral" -> 3    [] treatment = "idiomatic" -> 0
    [] OTHER -> 8

Perfect5Or8(gap) == gap % 12 \in {0, 7}

\* Mutant of ParallelPerfects: neighbours only.
ParallelPerfects_Neighbours(prev, next) ==
  {p \in (1..Least(Len(prev), Len(next))) \X (1..Least(Len(prev), Len(next))) :
     LET i == p[1] j == p[2]
     IN /\ j = i + 1 /\ next[i] # prev[i] /\ next[i] - prev[i] = next[j] - prev[j]
        /\ Perfect5Or8(Abs(prev[j] - prev[i]))}

\* count_parallel_perfects: the pairs of voices it counts.
ParallelPerfects(prev, next) ==
  {p \in (1..Least(Len(prev), Len(next))) \X (1..Least(Len(prev), Len(next))) :
     LET i == p[1] j == p[2]
         before == Abs(prev[j] - prev[i])
     IN /\ i < j /\ next[i] # prev[i] /\ next[i] - prev[i] = next[j] - prev[j]
        /\ Perfect5Or8(before) /\ before % 12 = Abs(next[j] - next[i]) % 12}

MotionCost(prev, next, vp, penalty) ==
  LET n == Least(Len(prev), Len(next))
      moves == [k \in 1..n |-> LET d == Abs(next[k] - prev[k])
                               IN 35 * d + 120 * Most(d - vp.leap, 0)]
  IN IF n = 0 THEN 0
     ELSE (60 * ( FoldFunction(+, 0, moves)
                + 50 * penalty * Cardinality(ParallelPerfects(prev, next))
                + 80 * Abs(Len(prev) - Len(next)))) \div n

\* Mutant of Connected: each chord goes where it is cheapest to go next.
Connected_Greedy(layers, vp, penalty) ==
  LET walk[i \in DOMAIN layers] ==
        LET Costs(c) == c.cost + (IF i = 1 THEN 0
                                  ELSE MotionCost(walk[i - 1].midis, c.midis, vp, penalty))
        IN CHOOSE c \in layers[i] : \A d \in layers[i] : Costs(c) <= Costs(d)
  IN [i \in DOMAIN layers |-> walk[i]] \o <<>>

\* The dynamic program of voice_progression, from the first chord on: for
\* every candidate the cheapest way to it, of equal ways the one whose last
\* candidate has the lesser key; then back from the cheapest of all.
Connected(layers, vp, penalty) ==
  LET KeyBefore(c, d) == \E k \in DOMAIN c.key : /\ c.key[k] < d.key[k]
                                                 /\ \A j \in 1..(k - 1) : c.key[j] = d.key[j]
      Best(ways) == CHOOSE w \in ways : \A x \in ways :
                      w.total < x.total \/ (w.total = x.total /\ ~KeyBefore(x.at, w.at))
      ways[i \in DOMAIN layers] ==
        IF i = 1 THEN {[at |-> c, total |-> c.cost, path |-> <<c>>] : c \in layers[1]}
        ELSE LET before == ways[i - 1]
             IN {LET w == Best({[w EXCEPT !.total = @ + MotionCost(w.at.midis, c.midis, vp, penalty)]
                                : w \in before})
                 IN [at |-> c, total |-> w.total + c.cost, path |-> Append(w.path, c)] :
                 c \in layers[i]}
  IN Best(ways[Len(layers)]).path

\* The candidates of one chord.
Layer(q, chord, window, ceiling) ==
  LET OrElse(fitting) == IF fitting = {} THEN {Fallback(chord.spec, q.vp, window.low, ceiling)}
                         ELSE fitting
  IN OrElse(Realisations(q, chord, window, ceiling))

\* The candidates of every chord, and those taken.
VoiceProgression(q) ==
  LET window == Window(q.vp, q.instrument)
      Voices(layers) ==
        [layers |-> layers, chosen |-> Connected(layers, q.vp, ParallelPenalty(q.treatment))]
  IN Voices([i \in DOMAIN q.chords |->
               Layer(q, q.chords[i], window,
                     MelodyCeiling(q.melody, q.chords[i], q.vp, window.high))] \o <<>>)

-----------------------------------------------------------------------------
(* The audit, of voicings as pitches.                                      *)

Crossings(midis) == {k \in 1..(Len(midis) - 1) : midis[k + 1] <= midis[k]}

Together(a, b) == 1..Least(Len(a), Len(b))

Connections(a, b) ==
  [k \in Together(a, b) |-> [semitones |-> Midi(b[k]) - Midi(a[k]),
                             motion |-> CASE Abs(Midi(b[k]) - Midi(a[k])) = 0 -> "static"
                                          [] Abs(Midi(b[k]) - Midi(a[k])) \in 1..2 -> "step"
                                          [] OTHER -> "leap"]] \o <<>>

\* A voice that has gone past where its neighbour was.
Overlaps(a, b) ==
  {<<k, "under">> : k \in {k \in Together(a, b) : k > 1 /\ Midi(b[k]) < Midi(a[k - 1])}}
  \cup {<<k, "over">> : k \in {k \in Together(a, b) :
                                 k + 1 \in Together(a, b) /\ Midi(b[k]) > Midi(a[k + 1])}}

Sign(n) == IF n > 0 THEN 1 ELSE IF n < 0 THEN -1 ELSE 0

\* Mutant of Parallels: the interval of arrival is enough.
Parallels_Arrival(a, b, penalty) ==
  {[voices |-> p, hidden |-> FALSE] :
    p \in {p \in Together(a, b) \X Together(a, b) :
             LET mi == Midi(b[p[1]]) - Midi(a[p[1]])
             IN /\ p[1] < p[2] /\ mi # 0 /\ Perfect5Or8(Midi(b[p[2]]) - Midi(b[p[1]]))
                /\ Sign(mi) = Sign(Midi(b[p[2]]) - Midi(a[p[2]]))}}

\* Parallel perfect intervals, and the direct ones of the outer voices where
\* the style polices them.
Parallels(a, b, penalty) ==
  LET outer == Least(Len(a), Len(b))
      Told(p) ==
        LET i == p[1] j == p[2]
            before == Abs(Midi(a[j]) - Midi(a[i]))
            after == Abs(Midi(b[j]) - Midi(b[i]))
            mi == Midi(b[i]) - Midi(a[i])
            mj == Midi(b[j]) - Midi(a[j])
        IN IF ~(i < j /\ Perfect5Or8(after) /\ after # 0) THEN {}
           ELSE IF Perfect5Or8(before) /\ before % 12 = after % 12 /\ mi = mj /\ mi # 0
           THEN {[voices |-> p, hidden |-> FALSE]}
           ELSE IF /\ Sign(mi) = Sign(mj) /\ mi # 0 /\ i = 1 /\ j = outer /\ Abs(mj) > 2
                   /\ penalty >= 10
           THEN {[voices |-> p, hidden |-> TRUE]}
           ELSE {}
  IN UNION {Told(p) : p \in Together(a, b) \X Together(a, b)}

LeadingTone(spec, pc) == IsDominantFamily(spec) /\ pc = (PcOf(spec.root) + 4) % 12

\* SeventhQuality::alter against the major seventh.
ChordalSeventh(spec, pc) ==
  \E d \in Seventh(spec) : pc = (PcOf(spec.root) + 11 + d[2]) % 12

\* Mutant of Unresolved: any step will do.
Unresolved_AnyStep(spec, a, b) ==
  {t \in Together(a, b) \X {"leading", "seventh"} :
     LET motion == Midi(b[t[1]]) - Midi(a[t[1]])
         pc == Midi(a[t[1]]) % 12
     IN (IF t[2] = "leading" THEN LeadingTone(spec, pc) ELSE ChordalSeventh(spec, pc))
        /\ Abs(motion) \notin 1..2}

\* The tendency tones left hanging.
Unresolved(spec, a, b) ==
  {t \in Together(a, b) \X {"leading", "seventh"} :
     LET motion == Midi(b[t[1]]) - Midi(a[t[1]])
         pc == Midi(a[t[1]]) % 12
     IN \/ t[2] = "leading" /\ LeadingTone(spec, pc) /\ motion # 1
        \/ t[2] = "seventh" /\ ChordalSeventh(spec, pc) /\ motion \notin {-1, -2}}

\* audit_with: all transitions, and how it scores; in 1/4000 of the code's 1.0,
\* rounded down, and without what the rules add.
Audit(voicings, chords, penalty, excused) ==
  LET pairs == 1..(Len(voicings) - 1)
      connections == [k \in pairs |-> Connections(voicings[k], voicings[k + 1])]
      parallels == [k \in pairs |-> Parallels(voicings[k], voicings[k + 1], penalty)]
      overlaps == [k \in pairs |-> Overlaps(voicings[k], voicings[k + 1])]
      unresolved == [k \in pairs |-> Unresolved(chords[k].spec, voicings[k], voicings[k + 1])]
      crossings == [k \in DOMAIN voicings |-> Crossings(Midis(voicings[k]))]
      Count(sets) == FoldFunction(+, 0, [k \in DOMAIN sets |-> Cardinality(sets[k])])
      Travel(c) == FoldFunction(+, 0, [k \in DOMAIN c |-> Abs(c[k].semitones)])
      motion == FoldFunction(+, 0, [k \in pairs |-> Travel(connections[k])])
      joined == FoldFunction(+, 0, [k \in pairs |-> Len(connections[k])])
      true == Count([k \in pairs |-> {p \in parallels[k] : ~p.hidden}])
      smooth == IF joined = 0 THEN 2000 ELSE Clamp(4000 - ((1000 * motion) \div joined), 0, 4000)
  IN [connections |-> connections, parallels |-> parallels, overlaps |-> Count(overlaps),
      unresolved |-> unresolved, crossings |-> Count(crossings), motion |-> motion,
      true |-> true,
      score |-> smooth - (IF excused THEN 0 ELSE 100 * penalty * true)
                - 600 * Count(crossings) - 400 * Count(overlaps) - 480 * Count(unresolved)]
=============================================================================
