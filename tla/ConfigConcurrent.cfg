CONSTANTS
  slotCount = slotCount
  mode = mode
  v1 = v1
  v2 = v2
  Loaders = {l1, l2}
  ServerKeys = {slotCount}
  GameKeys = {mode}
  Values = {v1, v2}
  Defaults <- MCDefaults
  Absent = Absent
  Broken = Broken
  Empty = Empty
  Unset = Unset
  Invalid = Invalid
  MaxBackups = 1
  MaxCopies = 1
  OneAtATime = FALSE
  EditsAtRest = TRUE
SPECIFICATION Spec
PROPERTIES LoadsAreAtomic
INVARIANTS EditsStick ReadableAtRest
