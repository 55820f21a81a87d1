SPECIFICATION Spec
CONSTANTS
  Word = 4194304
  IntBound = 50
  BeforeQuery <- Cut
  Requests <- SampleRequests
  None = None
INVARIANTS
  ScheduledAsAsked
  RoutedAsMeant
