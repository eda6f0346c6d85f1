SPECIFICATION SubmitterSpec
CONSTANTS
  b1 = b1
  b2 = b2
  b3 = b3
  theAgent = theAgent
  theIdentity = theIdentity
  otherIdentity = otherIdentity
  Pipelines = {b1, b2}
  Agents = {theAgent}
  AgentOf <- OneAgent
  CommitmentOf <- SameIdentity
  Commitments = {theIdentity, otherIdentity}
  OwnerIdentities = {}
  NoAgent = NoAgent
  ZERO32 = ZERO32
  Restarts = FALSE
INVARIANTS
  RegisteredIsNoOp
