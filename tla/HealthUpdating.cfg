CONSTANTS
  Probes = {p1}
  Workers = {2}
  PortPairs <- OnePair
  PortEdits = FALSE
  HttpPort = 3000
SPECIFICATION Spec
INVARIANTS DeadMeansGone
