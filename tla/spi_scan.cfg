SPECIFICATION Spec
CONSTANTS
  WordRange = 8
  DacRange = 4
  Datagrams <- MCDatagrams
  MaxDatagrams = 2
  MaxKills = 1
INVARIANTS OwnParameters OnGrid AllSamples
PROPERTIES StoppedMeansStill ScanEnds
CHECK_DEADLOCK FALSE
