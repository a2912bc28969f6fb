SPECIFICATION Spec
CONSTANTS
  Videos = {1, 2}
  Legacy = {f}
  Slots = {s}
  Encodings = {e1}
  None = None
  MaxAttempts = 2
  MaxRequests = 2
  MaxEvents = 2
CHECK_DEADLOCK FALSE
INVARIANT ConversionUnderWay
