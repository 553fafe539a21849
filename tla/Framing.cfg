SPECIFICATION Spec
CONSTANTS
  Base = 4
  BufSize = 10
  Registered <- MCRegistered
  Messages <- MCMessages
  MaxSent = 3
INVARIANTS TypeOK ReceivedInOrder ReaderAccepts
PROPERTIES AllReceived
CHECK_DEADLOCK FALSE
