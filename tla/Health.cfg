CONSTANTS
  Probes = {p1}
  Workers = {1, 2}
  PortPairs <- TwoPairs
  PortEdits = TRUE
  HttpPort = 3000
SPECIFICATION FairSpec
INVARIANTS PollerTypeOK StaleForOneRound
PROPERTIES ComesBack GoesDown ProbesEnd
