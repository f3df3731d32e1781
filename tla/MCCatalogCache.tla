---------------------------- MODULE MCCatalogCache ----------------------------
(***************************************************************************)
(* Small instances of CatalogCache for TLC.                                *)
(***************************************************************************)
EXTENDS CacheProperties, TLC

\* Neither callers nor instances are told apart.
CacheSymmetry == Permutations(Callers) \cup Permutations(Instances)

=============================================================================
