\* WEBHOOK_URL and STOP_DELAY are set, and the webhook cannot be sent.
CONSTANTS
  Tasks = {t1}
  Clis = {entry}
  Entry = entry
  Actors = {t1, entry}
  Servers = {s1, s2}
  None = none
  CliCommands = {"install", "start", "stop"}
  Attempts = 1
  LaunchMode = "proton"
  StopNotice = TRUE
  SlowLaunch = FALSE
  MaxStops = 1
SPECIFICATION BoxFairSpec
INVARIANT EndsSaved
