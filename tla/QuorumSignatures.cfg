\* Not a run: a statement of the source that does not hold.
\* Frames whose witnesses carry the right keys, with signatures of any kind.
SPECIFICATION Spec
CONSTANTS
  MAX_NODES = 1
  MAX_QUORUM_SIGNERS = 4
  QUORUM_THRESHOLD = 3
  BITMAP_BITS = 8
  SEQ_MAX = 1
  COUNT_MAX = 1
  Claimants <- MCClaimants
  DocketTexts <- MCDocketTexts
  EmptyDocket = {}
  Keys <- MCKeys
  SOVR_ROOT_PUBKEYS <- MCRootKeys
  DecodableKeys <- MCDecodableKeys
  ZeroHash = ZeroHash
  Frames <- MCSignedFrames
INVARIANT
  SignaturesVerified
CHECK_DEADLOCK FALSE
