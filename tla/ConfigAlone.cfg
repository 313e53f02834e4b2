CONSTANTS
  slotCount = slotCount
  mode = mode
  v1 = v1
  v2 = v2
  Loaders = {l1}
  ServerKeys = {slotCount}
  GameKeys = {mode}
  Values = {v1, v2}
  Defaults <- MCDefaults
  Absent = Absent
  Broken = Broken
  Empty = Empty
  Unset = Unset
  Invalid = Invalid
  MaxBackups = 2
  MaxCopies = 3
  OneAtATime = TRUE
  EditsAtRest = TRUE
SPECIFICATION Spec
INVARIANTS StoreTypeOK EnvironmentWins BrokenIsLeftAlone SettledIsQuiet
PROPERTIES ChangedIsBackedUp
