\* Not a run: a statement of the white paper that does not hold.
SPECIFICATION AppSpec
CONSTANTS
  MAX_NODES = 2
  MAX_QUORUM_SIGNERS = 2
  QUORUM_THRESHOLD = 2
  BITMAP_BITS = 3
  SEQ_MAX = 2
  COUNT_MAX = 3
  Claimants <- MCClaimants
  DocketTexts <- MCDocketTexts
  EmptyDocket <- MCEmptyDocket
  Keys <- MCKeys
  SOVR_ROOT_PUBKEYS <- MCRootKeys
  DecodableKeys <- MCDecodableKeys
  ZeroHash = ZeroHash
  Frames <- MCRepeatedFrames
  Pages <- MCPages
  BlankPage <- MCBlankPage
  OP_ADD = 1
  OP_NOT = 2
  OP_BULK_PROCESS = 3
  OP_SOVR_EVALUATE = 4
  Opcodes = {1, 2, 3, 4, 9}
  Badges = {2, 49153}
  ROLE_FIDUCIARY_PR = 49153
  CLIENT_BADGE_AUTH = 49153
  CLIENT_BADGE_UNAUTH = 2
  CorruptPage <- MCBlankPage
  AuthenticPage <- MCAuthenticPage
  StaleWords = {0, 65535}
  WORD_SPAN = 65536
  Prio <- Built
  MaxFrames = 2
INVARIANT
  HashesChained
