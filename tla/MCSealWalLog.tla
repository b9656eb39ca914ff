---------------------------- MODULE MCSealWalLog ----------------------------
(* Instances of SealWalLog for TLC. *)
EXTENDS SealWalLog, TLC

MutationSymmetry == Permutations(MutationIds)
=============================================================================
