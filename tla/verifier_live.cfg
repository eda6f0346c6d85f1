SPECIFICATION FairSpec
CONSTANTS
  Challenges = {c1, c2}
  Nonce <- MCNonce
  Requests = {q1, q2}
  Responses <- MCFewResponses
  Agents = {"agent"}
  Owners = {"owner"}
  Thresholds = {2}
  Selectors = {1}
  Heads <- MCHeads
  Draws <- MCOneDraw
  MaxTime = 2
  TTL_SECONDS = 1
  WindowDays = 1
  SlotOverride = 14400
  TestnetMode = TRUE
  AllowUnverifiedOwner = FALSE
  AllowNoPresentation = FALSE
  AllowDebug = FALSE
  KurierOn = TRUE
  SubmitterOn = FALSE
  Faults = FALSE
  NoOwner = NoOwner
  NoPresentation = NoPresentation
  BadSignature = BadSignature
PROPERTIES
  AnswersAreJudged
  SettleReports
