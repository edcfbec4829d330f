--------------------------- MODULE MCLlmOperator ---------------------------
(* The positions of MCArenaLlmBot, on the one market that has a feed       *)
(* (lib/arena/markets.ts:25-32).                                           *)
EXTENDS LlmOperator

Ask(long, lev, frac, stop, tp) ==
    [long |-> long, lev |-> lev, frac |-> frac, stop |-> stop, tp |-> tp, sure |-> TRUE]

\* A long without and a short with a profit target.
Long == Ask(TRUE, 1, 5, 4, 0)
Short == Ask(FALSE, 1, 5, 1, 3)
AskTwo == {Long, Short}

Opening(m, ask) == [kind |-> "open", market |-> m, ask |-> ask]
Closing(m) == [kind |-> "close", market |-> m]

\* Nothing, two opens (which may name one market), and a change of side.
FewDecisions ==
    {<<>>, <<Opening("SOL", Long), Opening("SOL", Short)>>,
     <<Closing("SOL"), Opening("SOL", Short)>>}
=============================================================================
