SPECIFICATION Spec
CONSTANTS
  Buttons = {"MIDDLE_BUTTON"}
  MaxBacklog = 1
INVARIANTS
  SessionInv
  QuiescentBeforeDelete
  TeardownHasCause
PROPERTIES
  UsesThreadsProperly
  UsesConsumerProperly
  ImplementsRemoteControl
  LostLinkEndsSession
  LostHandshakeEnds
  WriterFailureEndsSession
