CONSTANTS
  e1 = e1
  a1 = a1
  q1 = q1
  q2 = q2
  q3 = q3
  Nodes <- MCNodes
  Elders <- MCElders
  Queries <- MCQueries
  DataQueryLimit = 1
  MaxGen = 1
SPECIFICATION Spec
CHECK_DEADLOCK FALSE
INVARIANT TypeOK
PROPERTY QueryResolved
