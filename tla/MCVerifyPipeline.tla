-------------------------- MODULE MCVerifyPipeline --------------------------
(* A workspace with two targets, whose crates have a name each or one name,  *)
(* as the library and the binary of a package with src/lib.rs and            *)
(* src/main.rs have.                                                         *)
EXTENDS VerifyPipeline, TLC

CONSTANTS lib, bin

MCTargets == {lib, bin}
OwnNames == [t \in MCTargets |-> t]
SharedName == [t \in MCTargets |-> "package"]

\* The targets can be exchanged.
Symmetry == Permutations(MCTargets)
=============================================================================
