SPECIFICATION VoyageSpec
CONSTANTS
  Crew = {m1, m2}
  Captain = m1
  Profiles = {reliable}
  Risky = {}
  Pool = 2
  Segment = 1
  DayLength = 1
  MaxTime = 1
  InjuryTime = 1
  MaxFuel = 2
  MaxBeats = 1
  MaxAccepts = 1
  MaxSetBacks = 0
  None = None
INVARIANTS
  FightsLoad
CHECK_DEADLOCK FALSE
