CONSTANTS
  s = s
  a = a
  e1 = e1
  e2 = e2
  pA = pA
  pB = pB
  m1 = m1
  m2 = m2
  Nodes <- MCNodes
  Prefixes <- MCPrefixes
  Home <- MCHome
  Elders <- MCElders
  Payloads <- MCPayloads
  Origin <- MCOrigin
  Target <- MCTarget
  ProbePairs <- MCProbePairs
  MaxGen = 1
  MaxLoss = 1
SPECIFICATION Spec
INVARIANTS TypeOK NoSilentDrop
PROPERTIES AeTerminates
