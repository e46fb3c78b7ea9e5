-------------------------------- MODULE Arranger --------------------------------
(***************************************************************************)
(* The arrangement of a harmony for several parts (plan.rs, with roles.rs, *)
(* energy.rs, sections.rs, phrase.rs, masking.rs and density.rs): a pattern*)
(* and an instrument for every role, the curve of the energy over the loop,*)
(* the sections and what each may have, the windows of pitch pushed apart, *)
(* and the parts written, measured, and written again.                     *)
(*                                                                         *)
(* A role is its name; a pattern is one of Accompaniment's with a role, the*)
(* sections it takes part in, what it adds to the energy and whether the   *)
(* profile names it.  Densities and energies of the request are in         *)
(* hundredths, the controls of a section in the units it computes them in. *)
(* The score, the rules it is made of, labels and names are left out.      *)
(***************************************************************************)
EXTENDS Accompaniment

Rules == INSTANCE NoteRules

\* The first of a sequence that no other beats.
LOCAL FirstBest(seq, value(_)) ==
  seq[CHOOSE i \in DOMAIN seq : \A j \in DOMAIN seq :
        value(seq[i]) > value(seq[j]) \/ (value(seq[i]) = value(seq[j]) /\ i <= j)]

-----------------------------------------------------------------------------
(* Roles: roles.rs.                                                        *)

\* ArrangementRole::all, the order that breaks ties.
RoleOrder == <<"lead", "counterlead", "bass", "harmonic_bed", "pad", "comping", "pulse", "ostinato",
               "riff", "percussion", "impact", "transition", "texture", "ambience", "ornament",
               "ear_candy">>
RoleIndex(role) == CHOOSE i \in DOMAIN RoleOrder : RoleOrder[i] = role

Rank(priority) == CASE priority = "foreground" -> 0 [] priority = "background" -> 2 [] OTHER -> 1

Substitutes(role) ==
  CASE role = "pulse" -> <<"ostinato", "bass", "comping">>
    [] role = "percussion" -> <<"pulse", "ostinato", "riff">>
    [] role = "ornament" -> <<"counterlead", "riff", "lead">>
    [] role = "ear_candy" -> <<"texture", "ornament", "counterlead">>
    [] OTHER -> <<>>

\* The patterns of the first of the role and its substitutes that has any.
PatternPool(catalogue, role) ==
  LET of(r) == SelectSeq(catalogue, LAMBDA p : p.role = r)
      tiers == SelectSeq(<<role>> \o Substitutes(role), LAMBDA r : of(r) # <<>>)
  IN IF tiers = <<>> THEN <<>> ELSE of(tiers[1])

\* pattern_fit with onset_conflict, in 1/40000 and rounded down.
PatternFit(pattern, density, energy, section, contested) ==
  LET hits == Cardinality(pattern.onsets \cap contested)
      conflict == IF pattern.onsets = {} THEN 0 ELSE (60000 * hits) \div Cardinality(pattern.onsets)
      takesPart == IF section = {} \/ pattern.sections = {} THEN 20000
                   ELSE IF section \subseteq pattern.sections THEN 40000 ELSE 0
  IN (IF pattern.styled THEN 80000 ELSE 0) + takesPart
     + 400 * (100 - Distance(pattern.density, density)) + 300 * (100 - Distance(pattern.adds, energy))
     - conflict

\* select_pattern: the one asked for if it is of the role, or else the best;
\* the empty set if there is none.
SelectPattern(catalogue, role, forced, density, energy, section, contested) ==
  LET asked == SelectSeq(catalogue, LAMBDA p : p.id \in forced)
      pool == PatternPool(catalogue, role)
      fit(p) == PatternFit(p, density, energy, section, contested)
  IN IF asked # <<>> /\ asked[1].role = role THEN {asked[1]}
     ELSE IF pool = <<>> THEN {} ELSE {FirstBest(pool, fit)}

SharedSemitones(v, w) == Max({Min({v[2], w[2]}) - Max({v[1], w[1]}) + 1, 0})

\* instrument_fit, in thousandths and rounded down; select_instrument.
InstrumentFit(inst, pattern, role) ==
  (IF role \in inst.roles THEN 2000 ELSE IF pattern.role \in inst.roles THEN 1500 ELSE 0)
  + (IF inst.polyphony >= pattern.polyphony THEN 1000 ELSE 0)
  + (1000 * SharedSemitones(<<inst.low, inst.high>>, <<pattern.low, pattern.high>>))
      \div Max({pattern.high - pattern.low, 1})

SelectInstrument(instruments, pattern, role) ==
  LET fit(i) == InstrumentFit(i, pattern, role)
  IN IF instruments = <<>> THEN {} ELSE {FirstBest(instruments, fit)}

\* Mutant of AllocationOrder: as the roles were asked for.
AllocationOrder_Asked(builds) == [i \in DOMAIN builds |-> i]

\* allocation_order: the indices of the builds, the most important first.
AllocationOrder(builds) ==
  LET before(i, j) == \/ builds[i].priority < builds[j].priority
                      \/ builds[i].priority = builds[j].priority
                           /\ RoleIndex(builds[i].role) < RoleIndex(builds[j].role)
  IN SortSeq([i \in DOMAIN builds |-> i], before)

-----------------------------------------------------------------------------
(* The whole loop: energy.rs.                                              *)

\* resolve_curve: what was asked for, or the sections', or a gentle rise.
ResolveCurve(r, span) ==
  LET middle == span[1] + (span[2] - span[1]) \div 2
      at(k) == LET s == r.sections[(k + 1) \div 2]
               IN <<IF k % 2 = 1 THEN s.start ELSE s.end, s.energy>>
  IN IF r.curve # <<>> THEN r.curve
     ELSE IF r.sections # <<>>
     THEN SortSeq([k \in 1..(2 * Len(r.sections)) |-> at(k)], LAMBDA a, b : a[1] < b[1])
     ELSE <<<<span[1], Within(r.base - 15, 0, 100)>>, <<middle, r.base>>,
            <<span[2], Within(r.base + 15, 0, 100)>>>>

\* layer_budget: half of them at no energy, all at half of it.
LayerBudget(energy, available) ==
  IF available = 0 THEN 0
  ELSE Within((available * (50 + Within(energy, 0, 100)) + 50) \div 100, 1, available)

SamplePerBar(curve, span, map) ==
  LET bars == BarOf(map, span[1])..BarOf(map, span[2] - 1)
      Sampled(lines) == [k \in DOMAIN lines |-> <<lines[k], SampleCurve(curve, lines[k], 50)>>]
  IN Sampled(Up({Max({BarStart(map, b), span[1]}) : b \in bars}) \o <<span[2]>>)

Recurring == {"lead", "bass", "pad", "harmonic_bed", "ostinato"}
Seamless == {"seamless_color", "modal_drone"}

\* Mutant of StrategicSilence: it may take the last bar.
StrategicSilence_ToTheEnd(samples, span, map) ==
  LET low(s) == -s[2]
      trough == FirstBest(samples, low)[1]
  IN IF Len(samples) < 4 \/ trough = span[1] \/ trough >= span[2] THEN {}
     ELSE {<<trough, trough + MeterAt(map, trough).bar>>}

\* A bar at the lowest point, but neither the first nor the last.
StrategicSilence(samples, span, map) ==
  LET low(s) == -s[2]
      trough == FirstBest(samples, low)[1]
      end == trough + MeterAt(map, trough).bar
  IN IF Len(samples) < 4 \/ trough = span[1] \/ end >= span[2] THEN {} ELSE {<<trough, end>>}

\* plan_loop: the silence, and where a transition belongs.  The ending, which
\* depends on the chords alone, is left out.
PlanLoop(curve, span, map, intent) ==
  LET lastBar == BarStart(map, BarOf(map, span[2] - Beat \div 8))
  IN [silence |-> StrategicSilence(SamplePerBar(curve, span, map), span, map),
      transition |-> IF intent \in Seamless \/ lastBar <= span[1] THEN {} ELSE {lastBar}]

-----------------------------------------------------------------------------
(* The sections: sections.rs.                                              *)

\* implied_sections: four bars each, and no more than 64.
ImpliedSections(span, map) ==
  LET block == 4 * MeterAt(map, span[1]).bar
      count == Min({(span[2] - span[1] + block - 1) \div block, 64})
  IN [k \in 1..count |-> [id |-> k, start |-> span[1] + (k - 1) * block,
                          end |-> Min({span[1] + k * block, span[2]}),
                          role |-> IF k % 2 = 1 THEN "verse" ELSE "chorus", energy |-> 50]]

\* A section's controls as its energy sets them: density in millionths, lengths,
\* velocity and complexity in ten-thousandths.
Controls(s, energy, layers, density) ==
  [id |-> s.id, start |-> s.start, end |-> s.end, role |-> s.role, energy |-> energy,
   density |-> Within(density * (5500 + 90 * energy), 0, 1000000), shift |-> 0,
   budget |-> LayerBudget(energy, layers), lengths |-> 10000 - 35 * energy,
   velocity |-> 8000 + 35 * energy, complexity |-> Within(3500 + 65 * energy, 0, 10000)]

\* Mutant of Contrasted: the shift alone makes the contrast.
Contrasted_Shift(plan, previous) ==
  [plan EXCEPT !.shift = IF plan.energy >= previous.energy THEN 7 ELSE -7]

\* Mutant of Contrasted: a falling section keeps its layers.
Contrasted_Layers(plan, previous) ==
  LET rising == plan.energy >= previous.energy
      way == IF rising THEN 1 ELSE -1
  IN [plan EXCEPT
        !.shift = 7 * way,
        !.density = IF Distance(@, previous.density) < 50000
                    THEN Within(previous.density + 200000 * way, 0, 1000000) ELSE @,
        !.lengths = IF Distance(@, previous.lengths) < 1000
                    THEN Within(previous.lengths - 3000 * way, 1500, 10000) ELSE @]

\* enforce_contrast, of a section and the one before it.
Contrasted(plan, previous) ==
  LET rising == plan.energy >= previous.energy
      way == IF rising THEN 1 ELSE -1
  IN [plan EXCEPT
        !.shift = 7 * way,
        !.density = IF Distance(@, previous.density) < 50000
                    THEN Within(previous.density + 200000 * way, 0, 1000000) ELSE @,
        !.lengths = IF Distance(@, previous.lengths) < 1000
                    THEN Within(previous.lengths - 3000 * way, 1500, 10000) ELSE @,
        !.budget = IF @ = previous.budget /\ @ > 1 /\ ~rising THEN @ - 1 ELSE @]

PlanSections(sections, span, map, curve, layers, density) ==
  LET source == IF sections = <<>> THEN ImpliedSections(span, map)
                ELSE SortSeq(sections, LAMBDA s, t : \/ s.start < t.start
                                                     \/ s.start = t.start /\ s.id < t.id)
      energy(s) == IF sections # <<>> THEN s.energy
                   ELSE SampleCurve(curve, s.start + (s.end - s.start) \div 2, s.energy)
  IN FoldLeft(LAMBDA plans, s :
                LET plan == Controls(s, energy(s), layers, density)
                IN Append(plans, IF plans = <<>> THEN plan ELSE Contrasted(plan, Last(plans))),
              <<>>, source)

\* contrast_is_dynamics_only, but for the volume itself.
SameButVolume(a, b) ==
  /\ a.shift = b.shift /\ a.budget = b.budget
  /\ Distance(a.density, b.density) < 10000 /\ Distance(a.lengths, b.lengths) < 100

-----------------------------------------------------------------------------
(* Phrases: phrase.rs.  A frame has the phrases, in order, the gaps in the *)
(* tune and its onsets, as far as they lie in the span.                    *)

\* clip_windows: what of the windows lies in a span.
Lasting(windows) == {w \in windows : w[1] < w[2]}
ClipWindows(windows, span) ==
  Lasting({<<Max({w[1], span[1]}), Min({w[2], span[2]})>> : w \in windows})

Frame(phrases, gaps, tune, span) ==
  LET kept == ClipWindows(phrases, span)
      earlier(v, w) == v[1] < w[1] \/ (v[1] = w[1] /\ v[2] < w[2])
      ordered(S) == [i \in 1..Cardinality(S) |->
                       CHOOSE w \in S : Cardinality({v \in S : earlier(v, w)}) = i - 1] \o <<>>
  IN [phrases |-> IF kept = {} THEN <<span>> ELSE ordered(kept), gaps |-> ClipWindows(gaps, span),
      onsets |-> {n.onset : n \in ToSet(tune)} \cap span[1]..(span[2] - 1), span |-> span]

Entrance(frame, stagger) ==
  LET index == Min({stagger, Len(frame.phrases) \div 3})
  IN IF stagger = 0 THEN frame.span[1] ELSE frame.phrases[index + 1][1]

\* Mutant of ActiveWindows: the silence is played through.
ActiveWindows_Through(frame, entrance, silence) == {<<Max({entrance, frame.span[1]}), frame.span[2]>>}

\* active_windows: from the entrance to the end, without the silence.
ActiveWindows(frame, entrance, silence) ==
  LET whole == <<Max({entrance, frame.span[1]}), frame.span[2]>>
      Split(ws, s) == UNION {IF s[2] <= w[1] \/ s[1] >= w[2] THEN {w}
                             ELSE {<<w[1], s[1]>>, <<s[2], w[2]>>} : w \in ws}
  IN Lasting(IF silence = {} THEN {whole} ELSE Split({whole}, CHOOSE s \in silence : TRUE))

\* variation: in hundredths, by the phrase a position lies in.
Variation(frame, q) ==
  LET inside == {k \in DOMAIN frame.phrases : frame.phrases[k][1] <= q /\ q < frame.phrases[k][2]}
  IN IF inside = {} THEN 100 ELSE <<100, 112, 90, 120>>[((Min(inside) - 1) % 4) + 1]

\* fill_window: half a bar before a boundary, if the loop has it.
FillWindows(boundaries, span, bar) ==
  {w \in {<<q - bar \div 2, q>> : q \in boundaries} : w[1] >= span[1] /\ w[2] <= span[2]}

\* placement_windows: a transition fills before each section that follows and
\* before the loop begins again, an impact marks the sections, an answer has the
\* gaps of the tune.
PlacementWindows(build, frame, plans, loop, map, silence) ==
  LET span == frame.span
      bar == MeterAt(map, span[1]).bar
      entrance == Entrance(frame, build.stagger)
      fills == FillWindows({p.end : p \in ToSet(Front(plans))}, span, bar)
                 \cup Lasting({<<Max({q, span[1]}), span[2]>> : q \in loop.transition})
  IN CASE build.role = "transition" ->
            IF fills = {} THEN {<<span[2] - Min({bar, span[2] - span[1]}), span[2]>>} ELSE fills
       [] build.role = "impact" -> ClipWindows({<<p.start, p.start + bar>> : p \in ToSet(plans)}, span)
       [] build.role \notin {"transition", "impact"} /\ build.pattern.activity = "phrase_gaps" ->
            IF frame.gaps = {} THEN {<<entrance, span[2]>>} ELSE frame.gaps
       [] OTHER -> ActiveWindows(frame, entrance, silence)

-----------------------------------------------------------------------------
(* Registers: masking.rs.                                                  *)

SeparationBounds(window, inst) == <<Max({window[1] - 12, inst.low}), Min({window[2] + 12, inst.high})>>

\* Half of a width less 45 hundredths of the spread, to the nearest.
LOCAL HalfOf(width, spread) == (width * (10000 - 45 * spread) + 10000) \div 20000

\* The first half of separate: towards its own centre.
Narrowed(w, bound, spread) ==
  LET half == HalfOf(w[2] - w[1], spread)
      centre == (w[1] + w[2]) \div 2
  IN <<Min({Max({centre - half, bound[1]}), bound[2] - 1}),
       Max({Min({centre + half, bound[2]}), bound[1] + 1})>>

\* How much overlap the spread tolerates, and how high it wants a window to begin:
\* a gap above that, but no higher than an octave from home.
Tolerated(below, w, spread) ==
  LET smaller == Max({Min({below[2] - below[1], w[2] - w[1]}) + 1, 1})
  IN ((100 - spread) * smaller + 50) \div 100

Wanted(below, w, home, spread) ==
  Min({below[2] - Tolerated(below, w, spread) + (5 * spread + 50) \div 100, home + 12})

IsClear(below, w, home, spread) ==
  \/ SharedSemitones(below, w) <= Tolerated(below, w, spread)
  \/ w[1] >= Wanted(below, w, home, spread)

\* How far up it may go at most: to the top of its bound, and an octave from home.
Headroom(w, bound, home) ==
  Min({Max({bound[2] - w[2], 0}), Max({home + 12 - (w[1] + w[2]) \div 2, 0})})

\* Mutant of PushedOff: the bound is not looked at.
PushedOff_Anyhow(w, below, bound, home, spread) ==
  LET want == Wanted(below, w, home, spread)
  IN IF IsClear(below, w, home, spread) THEN w ELSE <<want, w[2] + want - w[1]>>

Lift(w, below, bound, home, spread) ==
  Min({Wanted(below, w, home, spread) - w[1], Headroom(w, bound, home)})

\* One step of the second half: up from the one below as far as it may; and what
\* is then still too low is cut from below, if that leaves an octave.
PushedOff(w, below, bound, home, spread) ==
  LET want == Wanted(below, w, home, spread)
      shift == Lift(w, below, bound, home, spread)
  IN IF IsClear(below, w, home, spread) THEN w
     ELSE IF w[1] + shift < want /\ want <= w[2] + shift - 12 THEN <<want, w[2] + shift>>
     ELSE <<w[1] + shift, w[2] + shift>>

\* separate: from the lowest centre up.
Separate(windows, bounds, spread) ==
  LET narrow == [i \in DOMAIN windows |-> Narrowed(windows[i], bounds[i], spread)]
      home == [i \in DOMAIN windows |-> (narrow[i][1] + narrow[i][2]) \div 2]
      rising == SortSeq([i \in DOMAIN windows |-> i],
                        LAMBDA i, j : home[i] < home[j] \/ (home[i] = home[j] /\ i < j))
      push(ws, k) == [ws EXCEPT ![rising[k]] =
                        PushedOff(@, ws[rising[k - 1]], bounds[rising[k]], home[rising[k]], spread)]
  IN IF spread = 0 \/ Len(windows) < 2 THEN windows
     ELSE FoldLeft(push, narrow, [k \in 1..(Len(windows) - 1) |-> k + 1])

\* Mutant of ShiftWindow: it may leave the catalogue's window.
ShiftWindow_Out(window, limits, shift) == <<window[1] + shift, window[2] + shift>>

\* shift_window, within the limits of the part.
ShiftWindow(window, limits, shift) ==
  LET low == Within(window[1] + shift, limits[1], limits[2] - 12)
  IN IF shift = 0 \/ limits[2] - limits[1] < 12 THEN window
     ELSE <<low, Within(window[2] + shift, low + 12, limits[2])>>

\* masking_report, as far as arrange compares it: how often two parts sound at
\* once within a fourth.  The limit of 4096 is left out.
Masking(parts) ==
  LET sounding == UNION {{<<p, i>> : i \in DOMAIN parts[p]} : p \in DOMAIN parts}
      note(v) == parts[v[1]][v[2]]
  IN Cardinality({vw \in sounding \X sounding :
       /\ vw[1][1] < vw[2][1] /\ Rules!Overlap(note(vw[1]), note(vw[2]))
       /\ Distance(note(vw[1]).midi, note(vw[2]).midi) <= 5})

-----------------------------------------------------------------------------
(* The parts: plan.rs.                                                     *)

\* A part for which nothing is written yet.
BuildOf(role, p, i, window) ==
  [role |-> role, pattern |-> p, inst |-> i, priority |-> Rank(p.priority), stagger |-> 0,
   base |-> window, bounds |-> SeparationBounds(window, i), window |-> window,
   notes |-> <<>>, withheld |-> {}]

\* select_builds: for each role that has a pattern and an instrument.
SelectBuilds(r, plans, contested) ==
  LET energy == Max({p.energy : p \in ToSet(plans)})
      section == {plans[k].role : k \in {1} \cap DOMAIN plans}
      pattern(role) == SelectPattern(r.catalogue, role, r.texture, r.density, energy, section,
                                     IF role = "lead" THEN {} ELSE contested)
      builds(role) == UNION {{BuildOf(role, p, i, BaseWindow(p, i)) :
                                i \in SelectInstrument(r.instruments, p, role)} : p \in pattern(role)}
      first(S) == IF S = {} THEN <<>> ELSE <<CHOOSE x \in S : TRUE>>
  IN FlattenSeq([k \in DOMAIN r.roles |-> first(builds(r.roles[k]))])

\* preserved_lead: what of the tune begins in the span, no longer than it.
PreservedLead(tune, span) ==
  LET kept == SelectSeq(tune, LAMBDA n : n.onset >= span[1] /\ n.onset < span[2])
  IN [k \in DOMAIN kept |-> [kept[k] EXCEPT !.length = Min({@, span[2] - kept[k].onset})]]

LOCAL Window(w) == [start |-> w[1], end |-> w[2]]
\* rank_by_priority, from one.
Ranks(builds) ==
  LET order == AllocationOrder(builds)
  IN [i \in DOMAIN builds |-> CHOOSE k \in DOMAIN order : order[k] = i]

\* What of a section lies in the loop, and where in it the part sounds.
SectionOptions(build, plan, sec, frame, active, avoid, curve) ==
  LET voices == Max({(build.pattern.polyphony * (40000 + 6 * plan.complexity) + 99999) \div 100000, 1})
  IN [window |-> ShiftWindow(build.window, build.bounds, IF build.priority = 0 THEN 0 ELSE plan.shift),
      span |-> sec, density |-> Within((plan.density * Variation(frame, sec[1])) \div 1000000, 0, 100),
      velocity |-> plan.velocity \div 1000, lengths |-> plan.lengths \div 1000,
      polyphony |-> Min({voices, Max({build.pattern.polyphony, 1}), Max({build.inst.polyphony, 1})}),
      base |-> 0, avoid |-> avoid, active |-> ClipWindows(active, sec), energy |-> curve]

\* The sections of the loop as they are for a part: whether it plays there, which
\* it does if it ranks among those the energy affords and has its place there.
Assigned(b, rank, active, c) ==
  LET avoid == IF b.role = "lead" THEN {} ELSE c.frame.onsets
      inLoop(p) == <<Max({p.start, c.span[1]}), Min({p.end, c.span[2]})>>
      assign(p, opts) == [id |-> p.id, opts |-> opts, plays |-> rank <= p.budget /\ opts.active # {}]
      all == [k \in DOMAIN c.plans |->
                assign(c.plans[k], SectionOptions(b, c.plans[k], inLoop(c.plans[k]), c.frame, active,
                                                  avoid, c.curve))]
  IN SelectSeq(all, LAMBDA s : s.opts.span[1] < s.opts.span[2])

\* A breath in each phrase, unless the pattern is held.
Breathed(b, notes, c) ==
  IF IsSustained(b.pattern) THEN notes
  ELSE Rules!EnsureRest(notes, [k \in DOMAIN c.frame.phrases |-> Window(c.frame.phrases[k])],
                        MeterAt(c.map, c.span[1]).bar \div 8)

\* Section by section what the pattern makes of it.
Performed(b, sections, c) ==
  LET played == SelectSeq(sections, LAMBDA s : s.plays)
      written == FlattenSeq([k \in DOMAIN played |->
                   Realized(b.pattern, c.chords, c.map, b.inst, played[k].opts)])
  IN [b EXCEPT !.notes = Rules!Enforced(Breathed(b, written, c), b.inst, Window(c.span),
                                        Max({b.pattern.polyphony, 1})),
               !.withheld = {s.id : s \in {x \in ToSet(sections) : ~x.plays}}]

\* realize_all, of one build: the tune as it is, or what is written for it.
RealizeOne(b, rank, c) ==
  LET lead == PreservedLead(c.tune, c.span)
      silence == IF b.priority = 0 THEN {} ELSE c.loop.silence
      active == PlacementWindows(b, c.frame, c.plans, c.loop, c.map, silence)
  IN IF b.role = "lead" /\ c.preserve /\ lead # <<>>
     THEN [b EXCEPT !.notes = Rules!Enforced(lead, b.inst, Window(c.span), Max({b.inst.polyphony, 1})),
                    !.withheld = {}]
     ELSE Performed(b, Assigned(b, rank, active, c), c)

RealizeAll(builds, c) ==
  [i \in DOMAIN builds |-> RealizeOne(builds[i], Ranks(builds)[i], c)] \o <<>>

\* thin_backgrounds: off the attacks of those before them that are not background.
ThinBackgrounds(builds) ==
  LET step(s, i) ==
        LET b == s.builds[i]
            onsets == {n.onset : n \in ToSet(b.notes)}
            floor == Max({(2 * Cardinality(onsets)) \div 3, 1})
        IN IF b.priority # 2 THEN [s EXCEPT !.busy = @ \cup onsets]
           ELSE IF IsSustained(b.pattern) \/ s.busy = {} THEN s
           ELSE [s EXCEPT !.builds[i].notes = Rules!ThinAgainst(@, s.busy, floor)]
  IN FoldLeft(step, [builds |-> builds, busy |-> {}], AllocationOrder(builds)).builds

PartNotes(builds) == [i \in DOMAIN builds |-> builds[i].notes]

\* Mutant of SeparationKept: what was separated stays, however it sounds.
SeparationKept_Always(first, second, c) == [builds |-> second, reverted |-> FALSE]

\* Mutant of SeparationKept: the windows are not put back.
SeparationKept_Windows(first, second, c) ==
  IF Masking(PartNotes(second)) <= Masking(PartNotes(first))
  THEN [builds |-> second, reverted |-> FALSE]
  ELSE [builds |-> RealizeAll(second, c), reverted |-> TRUE]

\* The separation is kept unless it made things worse.
SeparationKept(first, second, c) ==
  IF Masking(PartNotes(second)) <= Masking(PartNotes(first))
  THEN [builds |-> second, reverted |-> FALSE]
  ELSE [builds |-> RealizeAll([i \in DOMAIN second |-> [second[i] EXCEPT !.window = second[i].base]], c),
        reverted |-> TRUE]

\* validate.
IsRequest(r) ==
  /\ r.density \in 0..100 /\ r.spread \in 0..100
  /\ \A i, j \in DOMAIN r.roles : r.roles[i] = r.roles[j] => i = j
  /\ \A k \in DOMAIN r.curve : /\ r.curve[k][2] \in 0..100
                               /\ k > 1 => r.curve[k - 1][1] <= r.curve[k][1]
  /\ \A s \in ToSet(r.sections) : s.start < s.end /\ s.energy \in 0..100

Span(r) == <<r.chords[1].onset, Max({c.onset + c.length : c \in ToSet(r.chords)})>>

\* What every part of an arrangement is written from.
Context(r, span, map, curve) ==
  [span |-> span, map |-> map, curve |-> curve, loop |-> PlanLoop(curve, span, map, r.intent),
   plans |-> PlanSections(r.sections, span, map, curve, Len(r.roles), r.density),
   frame |-> Frame(r.phrases, r.gaps, r.tune, span), chords |-> r.chords, tune |-> r.tune,
   preserve |-> r.preserve]

Setting(r, span, map) == Context(r, span, map, ResolveCurve(r, span))

\* Those that matter less and do not recur come in later.
Staggered(builds) ==
  LET ranks == Ranks(builds)
      stagger(i) == IF builds[i].priority = 0 \/ builds[i].role \in Recurring THEN 0
                    ELSE Min({ranks[i] - 1, 3})
  IN [i \in DOMAIN builds |-> [builds[i] EXCEPT !.stagger = stagger(i)]] \o <<>>

\* The same parts, in the windows they are pushed into.
Apart(builds, spread) ==
  LET windows == Separate([i \in DOMAIN builds |-> builds[i].base],
                          [i \in DOMAIN builds |-> builds[i].bounds], spread)
  IN [i \in DOMAIN builds |-> [builds[i] EXCEPT !.window = windows[i]]]

Arrangement(r, c, first, kept) ==
  LET sounding == SelectSeq(kept.builds, LAMBDA b : b.notes # <<>>)
  IN [span |-> c.span, plans |-> c.plans, loop |-> c.loop, first |-> PartNotes(first),
      builds |-> kept.builds, reverted |-> kept.reverted,
      parts |-> [k \in DOMAIN sounding |-> [role |-> sounding[k].role, notes |-> sounding[k].notes]],
      unmatched |-> {role \in ToSet(r.roles) : \A b \in ToSet(first) : b.role # role},
      silent |-> {b.role : b \in {x \in ToSet(kept.builds) : x.notes = <<>>}}]

\* Written, written again apart and thinned, and what is kept of the two.
ArrangeAnew(r, c, first) ==
  Arrangement(r, c, first,
              SeparationKept(first, ThinBackgrounds(RealizeAll(Apart(first, r.spread), c)), c))

ArrangeIn(r, c, builds) ==
  IF builds = <<>> THEN {} ELSE {ArrangeAnew(r, c, RealizeAll(Staggered(builds), c))}

ArrangeFor(r, c) ==
  ArrangeIn(r, c, SelectBuilds(r, c.plans, {PositionInBar(c.map, q) : q \in c.frame.onsets}))

\* arrange: the empty set if it is refused.
Arrange(r) ==
  IF ~IsRequest(r) \/ r.chords = <<>> \/ r.roles = <<>> \/ Span(r)[2] <= Span(r)[1] THEN {}
  ELSE ArrangeFor(r, Setting(r, Span(r), TimeMap(r.events)))

\* max_polyphony: what sounds where a note begins.
MaxPolyphony(notes) ==
  Max({0} \cup {Cardinality({j \in DOMAIN notes : notes[j].onset <= notes[i].onset
                                                   /\ notes[i].onset < Rules!NoteEnd(notes[j])})
                  : i \in DOMAIN notes})
=============================================================================
