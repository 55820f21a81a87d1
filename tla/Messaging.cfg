SPECIFICATION FairSpec
CONSTANTS
  Sessions = {s1, s2}
  Threads = 1
  MaxPending = 1
INVARIANTS
  TypeOK
  GrantedMeansOpen
PROPERTIES
  LoginGoesOn
  RequestsAreAnswered
