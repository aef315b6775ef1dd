SPECIFICATION FairSpec
CONSTANTS
  Query <- MCQuery
  WithCallback <- MCWithCallback
  Thread <- MCThread
  DispatcherThread = "dispatcher"
  Worker = "worker"
  NoQuery = "none"
INVARIANTS EachQueryOnce NothingLostAtShutdown
PROPERTIES OnlyInHandIsOvertaken AcceptedIsExecuted
CHECK_DEADLOCK FALSE
