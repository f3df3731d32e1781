------------------------------ MODULE MCCopilot ------------------------------
(***************************************************************************)
(* Small instances of Copilot for TLC.                                     *)
(***************************************************************************)
EXTENDS CopilotProperties, TLC

\* Neither users nor requests are told apart.
CopilotSymmetry == Permutations(Users) \cup Permutations(Callers)

=============================================================================
