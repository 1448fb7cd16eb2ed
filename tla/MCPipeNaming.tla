---------------------------- MODULE MCPipeNaming ----------------------------
(* Instances of PipeNaming for TLC. *)
EXTENDS PipeNaming, TLC

CONSTANTS s1, s2, s3

Symmetry == Permutations(Servers)
=============================================================================
