CONSTANTS
  Predicates <- MCPredicates
  Rulings <- MCRulings
  Outcomes <- MCOutcomes
  Lineages <- MCLineages
  Bundles <- MCBundles
  Queries <- MCQueries
  Durations <- MCDurations
  Calendars <- MCCalendars
  Spellings <- MCSpellings
  Scales <- MCScales
  Chords <- MCChords
  Symbols <- MCSymbols
  Extractions <- MCExtractions
  Melodies <- MCMelodies
  Figures <- MCFigures
  Stagings <- MCStagings
  Searches <- MCSearches
  Choosings <- MCChoosings
  Progressions <- MCProgressions
  Parts <- MCParts
  Breaths <- MCBreaths
  Thinnings <- MCThinnings
  Accompaniments <- MCAccompaniments
  Arrangements <- MCArrangements
  Sectionings <- MCSectionings
  Separations <- MCSeparations
  Seams <- MCSeams
  Wraps <- MCWraps
  Audits <- MCAudits
  Regexes <- MCRegexes
  Texts <- MCTexts
  Schemas <- MCSchemas
  Documents <- MCDocuments
  Messages <- MCMessages
  Grid = 2
  Quarter = 8
  QnMin <- MCQnMin
  QnMax = 8
  MaxTracksPerStage = 3
  MaxItemsPerStage = 3
  MaxNotesPerItem = 2
  MaxGeneratedNotes = 3
  MaxOperations = 8
  MaxExpectedOutputs = 6
  DefaultBar = 4
  Beat = 4
  Tick = 96
  MaxVoices = 2
  MaxGroupDepth = 2
  MaxParseDepth = 2
  MaxRefDepth = 2
  MaxTemplates = 4
  MaxRealisations = 5
  MaxHypotheses = 3
  Widest = 99999
  PitchNames <- MCPitchNames
  ClassNames <- MCClassNames
  PathOrder <- MCPathOrder
  JsonFiles <- MCJsonFiles
  RuleFiles = {"rules/m.json", "rules/n.json"}
  ProfileFiles = {"profiles/a.json", "profiles/b.json", "profiles/c.json"}
  IdOrder <- MCIdOrder
  ProfileIds <- MCProfileIds
  Components = {"c1", "c2"}
  Minimums <- MCMinimums
  Domains = {"m", "n"}
  PartOf <- MCPartOf
  Stems = {"dominant", "domin", "major"}
  DefaultResults = 4
  LargestInt = 127
  WidestInt = 32767
  GridDen = 4
  SafeIds = {"r1", "r2", "r3"}
  MaxRequestBytes = 3
  MaxResultBytes = 3
  MaxCommandsPerTick = 2
SPECIFICATION Spec
INVARIANTS TheorySound DomainSound AnalysisSound PlanHonest HarmonySound ArrangementSound LoopSound CodecsSound
CHECK_DEADLOCK FALSE
