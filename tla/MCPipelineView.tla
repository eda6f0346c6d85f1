--------------------------- MODULE MCPipelineView ---------------------------
(***************************************************************************)
(* Small instances of PipelineView: one bundle, whose card two readers watch.       *)
(***************************************************************************)
EXTENDS PipelineView, TLC

CONSTANTS theAgent, theIdentity

OneAgent == [p \in Pipelines |-> theAgent]
SameIdentity == [p \in Pipelines |-> theIdentity]

Symmetry == Permutations(Pipelines) \cup Permutations(Readers) \cup Permutations(Fetches)

=============================================================================
