SPECIFICATION Spec
CONSTANTS
  NMT_MAX_NODE_ID = 6
  Slaves = {2, 3, 5}
  NbClients = 2
  Preset <- MCPreset
  objA = objA
  objB = objB
  one = one
  two = two
  long = long
  bulky = bulky
  huge = huge
  Indexes = {objA, objB}
  Values = {one, two, long, bulky, huge}
  Size <- MCSize
  Cut <- MCCut
  SDO_MAX_LENGTH_TRANSFER = 32
  ConciseDCF <- MCConciseDCF
  Factories <- MCFactories
  Lacks <- MCLacks
  HeartbeatProducers = {3}
  SavingBuilds = {TRUE, FALSE}
  MaxLosses = 1
  MaxCrashes = 1
  MaxRefusals = 1
INVARIANTS
  StartedMeansConfigured
  StatusFollowsTransfer
PROPERTIES
  NobodyForgotten
  EveryCheckEnds
CHECK_DEADLOCK FALSE
