SPECIFICATION Spec
CONSTANTS
  CoordinateSize = 2
  Coordinates <- MCCoordinates
  Buttons = {3}
  KeyCodes = {2}
  Malformed <- MCMalformed
  Leftover = {1, 3}
  Junk = Junk
  MaxSent = 2
INVARIANTS
  DecoderInv
  FramingKept
PROPERTIES
  SentIsQueued
  ReaderStops
