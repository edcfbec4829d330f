---------------------------- MODULE MCArenaBot ----------------------------
(* One market, candles of two buckets of two seconds.                     *)
EXTENDS ArenaBot
=============================================================================
