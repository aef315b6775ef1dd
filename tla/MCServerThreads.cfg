SPECIFICATION EndingSpec
CONSTANTS
  Event <- MCEvent
  Delay <- MCDelay
  MaxEventId = 1
  MaxNow = 1
  Query <- MCQuery
  Callback <- MCCallback
  CallbackOf <- MCCallbackOf
  Request <- MCLogin
  Signal <- MCSignal
  GameShutdown = "gameShutdown"
  Closing = "closing"
  NoTask = "none"
  NoDeadline = NoDeadline
  NoQuery = "none"
INVARIANTS ReturnedEventIsAlive NothingLeftBehind
PROPERTY SignalEndsTheGame
CHECK_DEADLOCK FALSE
