SPECIFICATION SafeSpec
CONSTANTS
  Keys <- MCKeys
  MaxRegistrations = 4
INVARIANT RegistersOnlyNew
