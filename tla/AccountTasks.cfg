\* With its requests used up http_stream idles: nothing more is asked of it.
CHECK_DEADLOCK FALSE
SPECIFICATION FairSpec
CONSTANTS
  Requests = {r1, r2}
  TaskIds = {id1, id2}
  Exchanges = {"binance"}
  MaxSessions = 2
  MaxPolls = 2
  MaxBacklog = 1
  None = None
INVARIANTS
  TypeOK
  AnswerTellsTruth
  AloneGetsOwn
PROPERTY EveryRequestEnds
