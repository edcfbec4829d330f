---------------------------- MODULE MCMirrorClose ----------------------------
(* Small instances of MirrorClose for TLC. *)
EXTENDS MirrorClose, TLC
=============================================================================
