----------------------------- MODULE MCAutopilot -----------------------------
(* Small instances of Autopilot for TLC. *)
EXTENDS Autopilot, TLC

Symmetry == Permutations(Workers) \cup Permutations(Markets)
=============================================================================
