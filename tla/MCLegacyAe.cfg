CONSTANTS
  e1 = e1
  e2 = e2
  m1 = m1
  m2 = m2
  Elders <- MCElders
  Payloads <- MCPayloads
  Target <- MCTarget
  MaxGen = 2
SPECIFICATION Spec
INVARIANT TypeOK
CHECK_DEADLOCK FALSE
