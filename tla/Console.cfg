SPECIFICATION ConsoleSpec
CONSTANTS
  Keys <- AllKeys
  MaxInputs = 2
  Remote = TRUE
  MaxPressed = 7
INVARIANT LineAsTyped
PROPERTY HistoryKeeps
CHECK_DEADLOCK FALSE
