\* The monitor alone: three jobs may be queued on its mutex at once.
CONSTANTS
  Tasks = {t1, t2, t3}
  Clis = {}
  Actors = {t1, t2, t3}
  Servers = {s1, s2}
  None = none
  CliCommands = {}
  Attempts = 2
  LaunchMode = "proton"
  StopNotice = FALSE
  SlowLaunch = FALSE
SPECIFICATION FairSpec
INVARIANT JobsExclusive
INVARIANT AtMostOneServer
INVARIANT NoUpdateUnderServer
INVARIANT KillsOnlyAsked
INVARIANT StartsUpdatedFiles
PROPERTY EveryJobEnds
PROPERTY ManagesOneServer
