SPECIFICATION Spec
CONSTANTS
  Bytes = {1, 2}
  Sizes = {1, 3}
  Messages <- MCMessages
  Junk = Junk
  QueueSize = 2
INVARIANTS
  SocketInv
PROPERTIES
  LostLinkReleases
  ImplementsStream
