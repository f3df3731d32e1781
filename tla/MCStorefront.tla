----------------------------- MODULE MCStorefront -----------------------------
(***************************************************************************)
(* Small instances of Storefront for TLC.                                  *)
(***************************************************************************)
EXTENDS StorefrontProperties, TLC

\* Neither requests, nor SKUs, nor keys are told apart.
StorefrontSymmetry == Permutations(Callers) \cup Permutations(SKUs) \cup Permutations(Keys)

=============================================================================
