---------------------------- MODULE MCFlashTail ----------------------------
(* Bets that share one slot of one wallet; the last close of each does not *)
(* show what it paid.                                                      *)
EXTENDS FlashTail

OneSlot == [b \in Bets |-> "SOL-long"]
OneWallet == [b \in Bets |-> "wallet"]
LastClose == {Close(b, MaxCloses) : b \in Bets}
=============================================================================
