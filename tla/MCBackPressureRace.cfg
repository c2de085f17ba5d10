CONSTANTS
  t1 = t1
  t2 = t2
  Tasks <- MCTasks2
  Loads <- MCLoads
  SanityMax = 20
  Sessions = {0, 1, 2}
SPECIFICATION Spec
INVARIANT StoredInBandOfAdvertised
