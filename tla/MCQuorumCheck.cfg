\* The committee of the code; every witness list for the bitmaps that matter.
SPECIFICATION Spec
CONSTANTS
  MAX_NODES = 1
  MAX_QUORUM_SIGNERS = 4
  QUORUM_THRESHOLD = 3
  BITMAP_BITS = 8
  SEQ_MAX = 1
  COUNT_MAX = 1
  Claimants <- MCClaimants
  DocketTexts <- MCDocketTexts
  EmptyDocket = {}
  Keys <- MCKeys
  SOVR_ROOT_PUBKEYS <- MCRootKeys
  DecodableKeys <- MCDecodableKeys
  ZeroHash = ZeroHash
  Frames <- MCFrames
INVARIANTS
  VerdictCorrect
  CommitteeQuorum
PROPERTY
  Returns
CHECK_DEADLOCK FALSE
