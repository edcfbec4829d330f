------------------------------ MODULE Receipts ------------------------------
(***************************************************************************)
(* What the bet ledger promises about real exposure, whatever crashes,     *)
(* races and retries happen below it: exposure is never taken before its   *)
(* receipt exists, and a receipt that was declared void (the open failed,  *)
(* or the position died outside the app) never has exposure behind it,     *)
(* then or later.                                                          *)
(***************************************************************************)
CONSTANTS Bets

VARIABLES
    receipt,    \* receipt[b]: "none", "issued" or "void"
    live        \* bets with exposure on the venue

Init ==
    /\ receipt = [b \in Bets |-> "none"]
    /\ live = {}

Issue(b) ==
    /\ receipt[b] = "none"
    /\ receipt' = [receipt EXCEPT ![b] = "issued"]
    /\ UNCHANGED live

Fill(b) ==
    /\ receipt[b] = "issued"
    /\ live' = live \cup {b}
    /\ UNCHANGED receipt

Flatten(S) ==
    /\ live' = live \ S
    /\ UNCHANGED receipt

Void(b) ==
    /\ receipt[b] = "issued"
    /\ b \notin live
    /\ receipt' = [receipt EXCEPT ![b] = "void"]
    /\ UNCHANGED live

Next ==
    \/ \E b \in Bets : Issue(b) \/ Fill(b) \/ Void(b)
    \/ \E S \in SUBSET Bets : Flatten(S)

Spec == Init /\ [][Next]_<<receipt, live>>
=============================================================================
