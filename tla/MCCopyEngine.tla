---------------------------- MODULE MCCopyEngine ----------------------------
(* One wallet and one market, so that everything can merge; one target that *)
(* all follow.                                                             *)
EXTENDS CopyEngine

OneWallet == [s \in Subs |-> "wallet"]
OneMarket == [k \in Keys |-> "SOL"]
OneSide == [k \in Keys |-> "long"]
TheTarget == CHOOSE t \in Targets : TRUE
FollowsOne == [s \in Subs |-> TheTarget]
SourceIsOne == [k \in Keys |-> TheTarget]

=============================================================================
