---------------------------- MODULE MCRpcClient -----------------------------
(***************************************************************************)
(* Instances of RpcClient for TLC.  Targets are interchangeable.           *)
(***************************************************************************)
EXTENDS RpcClient, TLC

Symmetry == Permutations(Target)
=============================================================================
