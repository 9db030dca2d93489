CONSTANTS
  WordSize = 4
  MaxInt = 4095
  FirstId = 41
  LastId = 42
  MaxTotal = 3
  ClientLines <- Typed
  StackWords <- Leftovers
SPECIFICATION Spec
INVARIANT IdsDenoted
PROPERTIES WholeLinesExact ShortLinesMix
