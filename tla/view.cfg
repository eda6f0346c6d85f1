SPECIFICATION ViewSpec
CONSTANTS
  theAgent = theAgent
  theIdentity = theIdentity
  Pipelines = {b1}
  Agents = {theAgent}
  AgentOf <- OneAgent
  CommitmentOf <- SameIdentity
  Commitments = {theIdentity}
  OwnerIdentities = {}
  NoAgent = NoAgent
  ZERO32 = ZERO32
  Restarts = FALSE
  Readers = {r1, r2}
  Fetches = {f1, f2}
  None = None
SYMMETRY Symmetry
INVARIANTS
  ClearShows
PROPERTIES
  ShownMovesForward
