SPECIFICATION FairSpec
CONSTANTS
  t1 = t1
  t2 = t2
  Threads = {t1, t2}
  NoThread = NoThread
  CommandCapacity = 1
  EventCapacity = 2
  U64Max = 3
INVARIANTS
  TypeOK
  CommittedIsPublishable
  AnswersAreTrue
  CallsAreAccounted
  EventRevisionsIncrease
  ShutdownOkMeansWorkerGone
PROPERTIES
  NoCommitAfterShutdown
  EveryCallReturns
  ShutdownStopsWorker
CHECK_DEADLOCK FALSE
