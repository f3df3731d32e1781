--------------------------- MODULE MCEventConsumer ----------------------------
(***************************************************************************)
(* Small instances of EventConsumer for TLC.                               *)
(***************************************************************************)
EXTENDS ConsumerProperties, TLC

CONSTANTS ca, cb

=============================================================================
