SPECIFICATION SafeSpec
CONSTANTS
  Width = 3
  Coordinates <- MCCoordinates
  Codes = {"KEY_A", "KEY_F1"}
  Enabled = {"KEY_A"}
  MaxInFlight = 3
INVARIANTS
  DispatchInv
  ClickLands
