CONSTANTS
  e1 = e1
  a1 = a1
  Nodes <- MCNodes
  Elders <- MCElders
  Cap = 3
  MinCap = 3
  Tranche = 2
  MaxStores = 5
  MaxJoins = 1
SPECIFICATION Spec
CHECK_DEADLOCK FALSE
INVARIANT TypeOK JoinsOnlyUnderPressure
PROPERTY FullLeadsToJoinsAllowed
