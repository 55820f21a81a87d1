\* Sessions are always ready for another request, so no state is final.
SPECIFICATION Spec
CONSTANTS
  Sessions = {s1, s2}
  Users = {u1, u2}
  TaskIds = {id1, id2}
  TimeContracts = {t1}
  ProgressContracts = {p1}
  MaxBatch = 2
  None = None
SYMMETRY Symmetry
INVARIANTS
  TypeOK
  AcceptedRuns
  StoppedIsGone
  ListingComplete
PROPERTY LeavesOnlyWhenRevoked
