SPECIFICATION FeaturesSpec
CONSTANTS
  Players = {1, 2}
  Codes = {c1}
  CodeCapacity = 1
  Awards = {a1, a2}
  Wanted = {2}
  Budgets = {1, 3}
  CohortKey = cohort
  AdminKeys = {c1}
  ClaimKeys = {c1}
  Achievers = {1}
  Txns = {x1, x2}
  Free = Free
  NoPlayer = NoPlayer
  NoCode = NoCode
  Buyers = {"b1", "b2"}
  Tokens = {1, 2, 3}
  SignedFor <- MCSignedFor
  PackOf <- MCPackOf
  KindOf <- MCKindOf
  OneTimePacks = {"once"}
  Builds <- MCBuilds
  Cashiers = {x1, x2}
  StrikeLimit = 1
  MaxStrikes = 1
  Unlocked = Unlocked
  Nobody = Nobody
  Hours = 2
  Documents <- MCDocuments
  MaxHour = 6
  MaxSetBack = 1
  MaxGenerations = 1
  MaxProgress = 1
  Replicas = {x1, x2}
  JobNames = {j1, j2}
  MaxConcurrent = 1
  NoReplica = NoReplica
  Runs = {1, 2, 3}
  Racer <- MCRacer
  Score <- MCScore
  QuarantineTop = 1
  TierUpTo = 1
  Sessions = {x1, x2}
  NoRun = NoRun
  Tabs = {x1, x2}
  Bought = {k1}
  NoTab = NoTab
  NoToken = NoToken
  Crew = {m1, m2}
  Captain = m1
  Profiles = {reliable}
  Risky = {}
  Pool = 2
  Segment = 1
  DayLength = 1
  MaxTime = 1
  InjuryTime = 1
  MaxFuel = 1
  MaxBeats = 1
  MaxAccepts = 2
  MaxSetBacks = 1
  None = None
  Hull = 2
  EnemyHull = 2
  SecondHull = 1
  StartHulls = {2}
  NearMissHull = 1
  BoardMax = 1
  RallyHull = 2
  Layers = 1
  Punch = 1
  CloakFirst = 1
  CloakEvery = 2
  CloakBeats = 2
  WarnBeat = 2
  LandBeat = 3
  HoldoutBeats = 2
  FreighterHull = 1
  RegrowMax = 1
  OathBeats = 2
  Rounds = 1
  Moves = {"strike", "oath"}
  LastBeat = 3
  NoResult = NoResult
  Handlers = {x1, x2}
  Paid = {k1}
  Recruits = {m2}
  MaxActs = 1
INVARIANTS
  FeaturesTypeOK
  CodesCounted
  PaidOnce
  BudgetKept
  DeliveredOnce
  PaidSettled
  NoTokenCycle
  DailyRows
  NeverTwiceAtOnce
  RunsWhileDue
  OneEntryEach
  AppliedOnce
  ClaimAccounted
  OffersPaidOnce
  OneThingAtATime
  WallFallsOnce
  BeatsLoadButTwo
  KeptUnlessOverlapped
PROPERTIES
  RollingSpaced
  PaidWhenVisible
  BeginsWhole
SYMMETRY MCSymmetry
CHECK_DEADLOCK FALSE
