------------------------------ MODULE MCSessions ------------------------------
(***************************************************************************)
(* Small instances of Sessions for TLC.                                    *)
(***************************************************************************)
EXTENDS SessionProperties, TLC

\* Neither callers nor instances are told apart.
SessionSymmetry == Permutations(Callers) \cup Permutations(Instances)

=============================================================================
