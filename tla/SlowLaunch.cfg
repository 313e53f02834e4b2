\* The monitor alone, but a job may stop the server while Proton still starts it.
CONSTANTS
  Tasks = {t1}
  Clis = {}
  Actors = {t1}
  Servers = {s1, s2}
  None = none
  CliCommands = {}
  Attempts = 1
  LaunchMode = "proton"
  StopNotice = FALSE
  SlowLaunch = TRUE
SPECIFICATION FairSpec
INVARIANT AtMostOneServer
