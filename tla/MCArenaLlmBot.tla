--------------------------- MODULE MCArenaLlmBot ---------------------------
(* Ten basis points to the whole, prices around ten.                       *)
EXTENDS ArenaLlmBot, TLC

Ask(long, lev, frac, stop, tp) ==
    [long |-> long, lev |-> lev, frac |-> frac, stop |-> stop, tp |-> tp, sure |-> TRUE]

\* A long beyond the leverage cap, and a short with a tight stop and a profit
\* target.
TwoAsks == {Ask(TRUE, 3, 5, 4, 0), Ask(FALSE, 1, 5, 1, 3)}

\* And one whose fee the balance does not cover, and one without a stop.
FourAsks == TwoAsks \cup {Ask(TRUE, 2, 10, 2, 0), Ask(TRUE, 1, 5, 0, 0)}

MarketSymmetry == Permutations(Markets)

=============================================================================
