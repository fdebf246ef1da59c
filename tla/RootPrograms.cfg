\* All set-up programs, with and without memory; the untyped program with the
\* object sizes of several kernels and all lists of up to three untypeds.
SPECIFICATION BothSpec
CONSTANTS
  Programs = {"libraries1", "libraries2", "libraries3", "bak", "multiserver", "libraries4", "capabilities", "mapping"}
  WORD = 65536
  MSG_DATA = 24929
  None = None
  TcbBits = {9, 10, 11}
  EpBits = {4}
  NtfnBits = {4, 5, 6}
  WORD_BITS = 16
  FANOUT = 256
  SLOTS = 257
  MaxUntypeds = 3
  Spread = {0, 1, 2}
INVARIANTS
  TypeOK
  AbortsSafely
  ReadyWhenStarted
  FilledWhole
PROPERTIES
  ImplementsCall
  Ends
CHECK_DEADLOCK FALSE
