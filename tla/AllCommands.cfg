\* A job and a command line process at once, every command, launches that are
\* still in flight when a stop looks for the game.
CONSTANTS
  Tasks = {t1}
  Clis = {c1}
  Actors = {t1, c1}
  Servers = {s1, s2}
  None = none
  CliCommands = {"start", "stop", "restart", "update", "install"}
  Attempts = 2
  LaunchMode = "proton"
  StopNotice = TRUE
  SlowLaunch = TRUE
SPECIFICATION FairSpec
INVARIANT TypeOK
PROPERTY EveryCommandEnds
PROPERTY CommandsRunOut
