SPECIFICATION FairSubmitterSpec
CONSTANTS
  b1 = b1
  b2 = b2
  b3 = b3
  theAgent = theAgent
  theIdentity = theIdentity
  otherIdentity = otherIdentity
  Pipelines = {b1, b2, b3}
  Agents = {theAgent}
  AgentOf <- OneAgent
  CommitmentOf <- TwoIdentities
  Commitments = {theIdentity, otherIdentity}
  OwnerIdentities = {theIdentity, otherIdentity}
  NoAgent = NoAgent
  ZERO32 = ZERO32
  Restarts = TRUE
INVARIANTS
  SubmitterTypeOK
  OneSendAtATime
  CardsAreTrue
PROPERTIES
  CardsMoveForward
  PipelinesEnd
