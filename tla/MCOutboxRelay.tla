---------------------------- MODULE MCOutboxRelay -----------------------------
(***************************************************************************)
(* Small instances of OutboxRelay for TLC.                                 *)
(***************************************************************************)
EXTENDS OutboxProperties, TLC

CONSTANTS ra, rb

\* The relays are interchangeable.
RelaySymmetry == Permutations(Relays)

=============================================================================
