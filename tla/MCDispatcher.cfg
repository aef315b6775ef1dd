SPECIFICATION FairSpec
CONSTANTS
  Task <- MCTask
  Timer <- MCTimer
  Expiring <- MCExpiring
  Closing = "closing"
  Thread <- MCThread
  DispatcherThread = "dispatcher"
  SchedulerThread = "scheduler"
  NoTask = "none"
INVARIANTS NoLostWakeup EachTaskOnce ClosingIsLast
PROPERTY AcceptedTaskHandled
CHECK_DEADLOCK FALSE
