SPECIFICATION Spec
CONSTANTS
  b0 = b0
  b1 = b1
  None = None
  Banks = {b0, b1}
  NParts = 2
  Base = 2
  PartSize = 2
  BankSize = 8
  Window = {0, 1}
  Writable = {0}
  Bytes = {0, 1}
  Calls <- MCCalls
  Boot <- MCBoot
  Zero = 0
  Depth = 2
  LastEpoch = 1
INVARIANTS OuterOwns
PROPERTIES ReadersSeeWholeParts CountersExact AcceptedIsSeen
