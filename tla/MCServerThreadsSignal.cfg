SPECIFICATION FairSpec
CONSTANTS
  Event <- MCEvent
  Delay <- MCNoDelay
  MaxEventId = 1
  MaxNow = 0
  Query <- MCQuery
  Callback <- MCCallback
  CallbackOf <- MCCallbackOf
  Request <- MCLogin
  Signal <- MCSigint
  GameShutdown = "gameShutdown"
  Closing = "closing"
  NoTask = "none"
  NoDeadline = NoDeadline
  NoQuery = "none"
PROPERTY SignalEndsTheServer
CHECK_DEADLOCK FALSE
