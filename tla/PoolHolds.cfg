CONSTANTS
  Sessions = {s1, s2}
  Clients = {c1, c2, c3}
  Identities = {i1, i2}
  None = None
  MaxEpoch = 1
SPECIFICATION Spec
SYMMETRY Symmetry
INVARIANTS
  OneOwner
  IdleIsReusable
  TasksDoNotOverlap
