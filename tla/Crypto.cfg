\* The hash functions on messages of up to 1060 bytes, and the whole
\* decompression in a field of 524269 elements.
SPECIFICATION CryptoSpec
CONSTANTS
  LIMBS = 2
  RADIX = 1024
  BITS = 19
  D <- MCD
  I <- MCI
  Encodings <- MCEncodings
  WORD_BYTES = 2
  BASE = 32
  Pieces = {0, 1, 15, 33, 100}
  MaxFed = 1060
INVARIANTS
  PackCanonical
  AcceptsPoints
  RejectsNonSquares
PROPERTY
  ImplementsStream
CHECK_DEADLOCK FALSE
