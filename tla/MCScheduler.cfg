SPECIFICATION FairSpec
CONSTANTS
  e1 = e1
  e2 = e2
  Event <- MCEvent
  Delay <- MCDelay
  MaxEventId = 2
  MaxNow = 2
  Thread <- MCThread
  DispatcherThread = "dispatcher"
  NoEvent = NoEvent
  NoDeadline = NoDeadline
CHECK_DEADLOCK FALSE
INVARIANTS NeverOversleeps NeverEarly StoppedNeverFires
PROPERTIES DueEventFires TimerServiceSpec
