SPECIFICATION Spec
CONSTANTS
  Client = {c1, c2}
  MaxRetries = 1
  defaultBackoff = 1
  Delays = {0, 1, 3}
  floodFallback = 2
PROPERTIES SecondCallWaits
