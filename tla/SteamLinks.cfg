CONSTANTS
  Procs = {p1, p2}
SPECIFICATION Spec
INVARIANTS ServiceAtSpawn NoneIsForgotten NoRaceIsLostTwice
