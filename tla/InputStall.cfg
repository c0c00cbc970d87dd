SPECIFICATION InputSpec
CONSTANTS
  InCap = 2
  OutCap = 1
  ReaderCap = 1
  MessageBytes = 3
  MaxMessages = 2
PROPERTY ReadsContinue
CHECK_DEADLOCK FALSE
