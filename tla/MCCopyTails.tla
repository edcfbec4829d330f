----------------------------- MODULE MCCopyTails -----------------------------
(* Small instances of CopyTails for TLC. *)
EXTENDS CopyTails, TLC

AnyRail == [r \in Requests |-> Rails]
Symmetry == Permutations(Requests)
=============================================================================
