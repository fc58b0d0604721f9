SPECIFICATION MCSpec
CONSTANTS
  Keys <- MCKeys
  MaxRegistrations = 4
  Second = 3
  Millis = {0, 2, 4, 6}
  MaxTime = 11
  Codes = {"KEY_LEFTCTRL", "KEY_LEFTALT", "KEY_T"}
  MaxLen = 4
  Delay = 2
  MaxFrames = 5
INVARIANTS
  RegistrerInv
  TwiceOnlyIfContradictory
  NotTooShort
  ComboInv
  EncoderInv
  AllDelivered
PROPERTIES
  UnregistersOnlyItself
  SleepEnds
