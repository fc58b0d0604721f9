SPECIFICATION SafeSpec
CONSTANTS
  MouseEvents = {"BTN_LEFT", "REL_X"}
  KeyboardEvents = {"KEY_A", "KEY_B", "KEY_C"}
  LastChannel = 3
  MaxFd = 7
INVARIANTS
  DescriptorInv
  DevicesReady
  OnlyKeyboardsLeak
  AdvertisesFirstFree
