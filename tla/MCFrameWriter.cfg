SPECIFICATION Spec
CONSTANTS
  Png <- MCPng
  MaxFrames = 3
INVARIANTS
  WriterInv
  StreamOfFrames
PROPERTY LostLinkEndsWriter
