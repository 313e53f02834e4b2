\* The container with two jobs of its monitor, stopped, killed and started any
\* number of times; every launch has the time it takes before a stop looks.
CONSTANTS
  Tasks = {t1, t2}
  Clis = {entry}
  Entry = entry
  Actors = {t1, t2, entry}
  Servers = {s1, s2}
  None = none
  CliCommands = {"install", "start", "stop"}
  Attempts = 1
  LaunchMode = "proton"
  StopNotice = FALSE
  SlowLaunch = FALSE
  MaxStops = 2
SPECIFICATION BoxFairSpec
INVARIANT BoxTypeOK
INVARIANT EndsSaved
PROPERTY StopsByItself
PROPERTY ScriptRunsOut
PROPERTY ManagesOneServer
