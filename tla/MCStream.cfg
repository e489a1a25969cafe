SPECIFICATION FairSpec
CONSTANTS
  Chunks = 3
  MaxBuffered = 2
  AfterFailure = {"retry"}
  MaxFaults = 2
PROPERTIES ImplementsOrderedStream HandledOnce ReaderIsTold
CHECK_DEADLOCK FALSE
