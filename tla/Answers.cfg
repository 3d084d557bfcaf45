SPECIFICATION FairSpec
CONSTANTS
  None = None
CHECK_DEADLOCK FALSE
PROPERTIES CallsAnswered SlotsComeBack
