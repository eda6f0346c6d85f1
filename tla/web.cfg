SPECIFICATION FairWebSpec
CONSTANTS
  JobIds = {j1, j2}
  Challenges = {c1, c2}
  AnswersTo <- MCAnswersTo
  NoJob = NoJob
  Absent = Absent
  Torn = Torn
  TornWrites = TRUE
  MaxCrashes = 2
CHECK_DEADLOCK FALSE
INVARIANTS
  WebTypeOK
  OneProveAtATime
  ProvingIsDriven
PROPERTIES
  ProvedOnce
  JobsSurvive
  ProofsEnd
