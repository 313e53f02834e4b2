CONSTANTS
  Words <- MCWords
  Lower <- MCLower
  GroupFields <- MCGroupFields
  Texts <- MCTexts
  Parses <- MCParses
  DefaultFields <- MCDefaultFields
  DefaultGroups <- MCDefaultGroups
  OperatorFiles <- MCOperatorFiles
  Environs <- MCEnvirons
  Absent = Absent
  Broken = Broken
SPECIFICATION StartupSpec
INVARIANTS StartupTypeOK VariablesWin NoTwinGroups OperatorGroupsStay LoadsSettle
PROPERTIES ConfigIsCurrent
