SPECIFICATION FlowSpec
CONSTANTS
  JobIds = {j1, j2}
  Challenges = {c1, c2}
  AnswersTo <- MCAnswersTo
  NoJob = NoJob
  Absent = Absent
  Torn = Torn
  TornWrites = TRUE
  MaxCrashes = 1
  Nonce <- MCNonce
  Requests = {q1, q2}
  Responses <- MCResponses
  Agents = {"agent"}
  Owners = {"owner"}
  Thresholds = {2}
  Selectors = {1}
  Heads <- MCHeads
  Draws <- MCDraws
  MaxTime = 1
  TTL_SECONDS = 0
  WindowDays = 1
  SlotOverride = 14400
  TestnetMode = TRUE
  AllowUnverifiedOwner = FALSE
  AllowNoPresentation = FALSE
  AllowDebug = FALSE
  KurierOn = FALSE
  SubmitterOn = FALSE
  Faults = TRUE
  NoOwner = NoOwner
  NoPresentation = NoPresentation
  BadSignature = BadSignature
SYMMETRY Symmetry
CHECK_DEADLOCK FALSE
INVARIANTS
  VerifiedJobIsVerified
  FirstVerdictIsFinal
