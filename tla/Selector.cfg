\* The selector alone, its inputs in any order.  Timeouts of a single tick and a dwell of
\* one more than the freshness timeouts, so a dwell outlives any single message.
SPECIFICATION HistorySpec
CONSTANTS
  StateTimeout = 0
  StopTimeout = 0
  LocalTimeout = 0
  LocalHold = 1
  TmpcTimeout = 0
  ValidTimeout = 0
  TmpcHold = 1
  ReadyDwell = 1
  MaxDisagreement = 1
  PlanningStates = {"LOCAL", "GLOBAL", "STOP"}
  LocalCommands <- AnyPpCommand
  TmpcCommands <- AnyTmpcCommand
INVARIANT HistoryTypeOK
PROPERTIES TakeoverEarned RelaysCommands
