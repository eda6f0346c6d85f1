SPECIFICATION FairSpec
CONSTANTS
  U128 = 16
  Runs <- MCRuns
  Challenges <- MCChallenges
  StateAt <- MCStateAt
  OtherState <- MCOtherState
  Token <- MCToken
  RegistryOwner = 2
  Commitments <- MCCommitments
  NoKey = NoKey
  NoSecret = NoSecret
  NoCommitment = NoCommitment
  Unread = Unread
  None = None
  NoOwner = NoOwner
  NoPresentation = NoPresentation
  BadSignature = BadSignature
  Accounts = {2, 3}
  MaxSlips = 1
  Links <- MCLinks
  MaxKeys = 2
  MaxFaults = 1
  Nonces = {n1}
  Requests = {r1, r2}
  NONCE_TTL = 2
  Admin = FALSE
  MaxClock = 2
CHECK_DEADLOCK FALSE
INVARIANTS
  ProvingTypeOK
  PreflightIsExact
  ResponseVerifies
  NoWastedProof
  IdentityFollowsKeys
  OneIdentity
  FailsForCause
  NonceSpentOnce
PROPERTIES
  RunsEnd
