SPECIFICATION Spec
CONSTANTS
  Buttons = {"MIDDLE_BUTTON"}
  MaxBacklog = 1
PROPERTY TerminationJoinsWorkers
