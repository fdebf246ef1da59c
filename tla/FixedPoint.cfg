\* The network as it is built: no weight or bias exceeds 16 in the first layer
\* and 32 in the second, and INT_MAX is the least that WidthAssumption admits.
\* The harness with six bits in place of 32, five nodes in place of eight,
\* counts up to nine for a byte: all above five are refused alike.
SPECIFICATION EitherSpec
CONSTANTS
  INPUT_DIM = 128
  HIDDEN_DIM = 16
  W1 <- BuiltW1
  B1 <- BuiltB1
  W2 <- BuiltW2
  B2 <- BuiltB2
  X_MAX = 128
  W_MAX = 16
  W2_MAX = 32
  INT_MAX = 536576
  Inputs <- BuiltInputs
  WIDTH = 6
  Q16_SHIFT = 3
  MAX_NODES = 5
  MAX_COUNT = 7
  BYTE_MAX = 9
  FEATURE_BUF = 128
  NODE_BYTES = 68
  FUZZ = 2
INVARIANTS
  NoOverflow
  IsThreshold
  Ordered
PROPERTY Passes
CHECK_DEADLOCK FALSE
