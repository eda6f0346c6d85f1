---------------------------- MODULE MCSubmitter -----------------------------
(***************************************************************************)
(* Small instances of Submitter: bundles of one answer, which share agent  *)
(* and identity, and a bundle made with another identity.                  *)
(***************************************************************************)
EXTENDS Submitter

CONSTANTS b1, b2, b3, theAgent, theIdentity, otherIdentity

OneAgent == [p \in Pipelines |-> theAgent]
SameIdentity == [p \in Pipelines |-> theIdentity]
TwoIdentities == [p \in Pipelines |-> IF p = b3 THEN otherIdentity ELSE theIdentity]

=============================================================================
