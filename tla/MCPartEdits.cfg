SPECIFICATION EditsSpec
CONSTANTS
  b0 = b0
  b1 = b1
  None = None
  Banks = {b0, b1}
  NParts = 2
  Base = 1
  PartSize = 1
  BankSize = 4
  Window = {0}
  Writable = {0}
  Bytes = {0, 1}
  Calls <- MCCalls
  Boot <- MCBoot
  Zero = 0
  Depth = 1
  LastEpoch = 1
INVARIANTS MirrorAgrees ChangesAreMarked
