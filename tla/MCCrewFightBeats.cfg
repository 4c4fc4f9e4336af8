SPECIFICATION CrewFightSpec
CONSTANTS
  Hull = 2
  EnemyHull = 2
  SecondHull = 1
  StartHulls = {1, 2}
  NearMissHull = 1
  BoardMax = 1
  RallyHull = 2
  Layers = 1
  Punch = 1
  CloakFirst = 1
  CloakEvery = 2
  CloakBeats = 2
  WarnBeat = 2
  LandBeat = 3
  HoldoutBeats = 2
  FreighterHull = 1
  RegrowMax = 1
  OathBeats = 2
  Rounds = 1
  Moves = {"strike", "oath"}
  LastBeat = 3
  NoResult = NoResult
INVARIANT
  BeatsLoad
CHECK_DEADLOCK FALSE
