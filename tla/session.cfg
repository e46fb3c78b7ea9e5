CONSTANTS
  Material = {m1, m2}
  Profile = {f1}
  Option = {o1}
  DefaultOption = o1
  SNAPSHOT_TTL = 1
  ANALYSIS_TTL = 2
  CANDIDATE_TTL = 2
  PLAN_TTL = 2
  TRANSACTION_TTL = 3
  MAX_SNAPSHOTS = 2
  MAX_ANALYSES = 2
  MAX_CANDIDATES = 3
  MAX_PLANS = 1
  MAX_TRANSACTIONS = 1
  MAX_CACHE_ENTRIES = 1
  MaxCalls = 5
  MaxCount = 2
SPECIFICATION Spec
INVARIANTS TypeOK Bounded LabelsAgree NeverStale AnswerUsable
PROPERTIES StagedForThis
SYMMETRY Symmetry
