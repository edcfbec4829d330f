-------------------------- MODULE CopyTails_proofs --------------------------
(***************************************************************************)
(* Proofs about CopyTails, for any set of requests and closes and any      *)
(* rails.  Only what a reservation protects needs a hypothesis: requests   *)
(* end within half its life (SlowRequests = FALSE).  Orders may be filled  *)
(* under any close.                                                        *)
(*                                                                         *)
(* Three inductive invariants, each over the one before: TypeInv (what the *)
(* row and the order of a request say of where it stands), ReserveInv (who *)
(* holds the reservation, which tails can still come, which block) and     *)
(* CloseInv (what a close has seen, whose position it acts on, what a      *)
(* closed row leaves).                                                     *)
(***************************************************************************)
EXTENDS CopyTails, FiniteSetTheorems, TLAPS

\* What a row can say, the records of closes, and what a step may not undo.
Statuses == {"none", "pending", "confirmed", "failed", "manual_review", "closed"}
ConfirmedStays == \A q \in Requests : WasConfirmed(q) => WasConfirmed(q)'
CloseRecs == [pc : {"idle", "read", "wait", "over"}, of : Requests \cup {"none"},
              seen : SUBSET Requests, took : SUBSET Requests]

\* Next, spelled out for the proofs by cases.
LEMMA NextCases ==
  ASSUME [Next]_vars
  PROVE
    \/ \E r \in Requests : Guard(r)
    \/ \E r \in Requests : Reserve(r)
    \/ \E r \in Requests : ReserveRefused(r)
    \/ \E r \in Requests : Release(r)
    \/ \E r \in Requests : CheckChain(r)
    \/ \E r \in Requests : InsertPending(r)
    \/ \E r \in Requests : Send(r)
    \/ \E r \in Requests : Answered(r)
    \/ \E r \in Requests : TakenForOpen(r)
    \/ \E r \in Requests : Throws(r)
    \/ \E r \in Requests : MarkFailed(r)
    \/ \E r \in Requests : Record(r)
    \/ \E r \in Requests : Undo(r)
    \/ \E r \in Requests : Review(r)
    \/ \E r \in Requests : Block(r)
    \/ \E r \in Requests : Crash(r)
    \/ \E r \in Requests : Fill(r)
    \/ \E r \in Requests : Reject(r)
    \/ \E r \in Requests : DiesOutside(r)
    \/ \E c \in Closes : \E r \in Requests : Decide(c, r)
    \/ \E c \in Closes : FoundGone(c)
    \/ \E c \in Closes : SendClose(c)
    \/ \E c \in Closes : EndClose(c)
    \/ \E c \in Closes : CloseThrows(c)
    \/ \E c \in Closes : Reduce(c)
    \/ \E c \in Closes : RejectClose(c)
    \/ Expire
    \/ UNCHANGED vars
  BY DEF Next, RequestStep, CloseStep, VenueStep

\* The end of a close writes its row, if it still may, and no other.
LEMMA RowClosed ==
  ASSUME TypeOK, NEW c \in Closes, CloseRow(c)
  PROVE  /\ row' \in [Requests -> Statuses] /\ close' \in [Closes -> CloseRecs]
         /\ \A r \in Requests :
                row'[r] = IF r = close[c].of /\ MayWrite(c) THEN "closed" ELSE row[r]
         /\ close'[c].pc = "over" /\ close'[c].of = close[c].of
         /\ \A d \in Closes : d # c => close'[d] = close[d]
  BY DEF CloseRow, TypeOK, Statuses, CloseRecs

\* The records of closes are typed.
LEMMA CloseRecTypes ==
  TypeOK => close \in [Closes -> CloseRecs] /\ \A d \in Closes : close[d] \in CloseRecs
  BY DEF TypeOK, CloseRecs

\* A close decides on its row.
LEMMA DecideMoves ==
  ASSUME TypeOK, NEW c \in Closes, NEW r \in Requests, Decide(c, r)
  PROVE  /\ close' \in [Closes -> CloseRecs]
         /\ close'[c].pc = "read" /\ close'[c].of = r
         /\ \A d \in Closes : d # c => close'[d] = close[d]
  <1> DEFINE rec == [close[c] EXCEPT !.pc = "read", !.of = r]
  <1>1. close' = [close EXCEPT ![c] = rec]  BY CloseRecTypes DEF Decide
  <1>2. rec \in CloseRecs /\ rec.pc = "read" /\ rec.of = r  BY CloseRecTypes DEF CloseRecs
  <1> HIDE DEF rec
  <1> QED BY <1>1, <1>2, CloseRecTypes

\* A close sends its order on what it sees of the position.
LEMMA SendCloseMoves ==
  ASSUME TypeOK, NEW c \in Closes, SendClose(c)
  PROVE  /\ close' \in [Closes -> CloseRecs]
         /\ close'[c].pc = "wait" /\ close'[c].of = close[c].of
         /\ close'[c].seen = Position(close[c].of)
         /\ \A d \in Closes : d # c => close'[d] = close[d]
  <1> DEFINE rec == [close[c] EXCEPT !.pc = "wait", !.seen = Position(close[c].of)]
  <1>1. close' = [close EXCEPT ![c] = rec]  BY CloseRecTypes DEF SendClose
  <1>2. Position(close[c].of) \subseteq Requests  BY DEF Position, TypeOK
  <1>3. /\ rec \in CloseRecs /\ rec.pc = "wait" /\ rec.of = close[c].of
        /\ rec.seen = Position(close[c].of)
    BY <1>2, CloseRecTypes DEF CloseRecs
  <1> HIDE DEF rec
  <1> QED BY <1>1, <1>3, CloseRecTypes

\* Types.
LEMMA TypeKept ==
  ASSUME TypeOK, RailShape, CloseShape, [Next]_vars
  PROVE  TypeOK'
  <1>1. ASSUME NEW r \in Requests, Guard(r) PROVE TypeOK'
    BY <1>1 DEF Guard, HasOpenTail, Go, At, venueVars, closeVars, history, TypeOK, Fates
  <1>2. ASSUME NEW r \in Requests, Reserve(r) PROVE TypeOK'
    BY <1>2 DEF Reserve, TakeLock, Running, Over, Go, At, venueVars, closeVars, history, TypeOK,
       Fates, Reserves
  <1>3. ASSUME NEW r \in Requests, ReserveRefused(r) PROVE TypeOK'
    BY <1>3 DEF ReserveRefused, TakeLock, Running, Over, Go, At, lockVars, venueVars, closeVars,
       history, TypeOK, Fates, Reserves
  <1>4. ASSUME NEW r \in Requests, Release(r) PROVE TypeOK'
    BY <1>4 DEF Release, Go, At, venueVars, closeVars, history, TypeOK, Fates
  <1>5. ASSUME NEW r \in Requests, CheckChain(r) PROVE TypeOK'
    BY <1>5 DEF CheckChain, Go, At, lockVars, venueVars, closeVars, history, TypeOK, Fates
  <1>6. ASSUME NEW r \in Requests, InsertPending(r) PROVE TypeOK'
    BY <1>6 DEF InsertPending, BestEffort, Go, At, lockVars, venueVars, closeVars, history,
       TypeOK, Fates
  <1>7. ASSUME NEW r \in Requests, Send(r) PROVE TypeOK'
    BY <1>7 DEF Send, Go, At, lockVars, closeVars, history, TypeOK, Fates
  <1>8. ASSUME NEW r \in Requests, Answered(r) PROVE TypeOK'
    BY <1>8 DEF Answered, Go, At, lockVars, venueVars, closeVars, history, TypeOK, Fates
  <1>9. ASSUME NEW r \in Requests, TakenForOpen(r) PROVE TypeOK'
    BY <1>9 DEF TakenForOpen, Go, At, lockVars, venueVars, closeVars, TypeOK, Fates
  <1>10. ASSUME NEW r \in Requests, Throws(r) PROVE TypeOK'
    BY <1>10 DEF Throws, Leave, Go, At, lockVars, venueVars, closeVars, TypeOK, Fates, Reserves
  <1>11. ASSUME NEW r \in Requests, MarkFailed(r) PROVE TypeOK'
    BY <1>11 DEF MarkFailed, BestEffort, Go, At, lockVars, venueVars, closeVars, history, TypeOK,
       Fates, RailShape
  <1>12. ASSUME NEW r \in Requests, Record(r) PROVE TypeOK'
    BY <1>12 DEF Record, BestEffort, Leave, Go, At, lockVars, venueVars, closeVars, history,
       TypeOK, Fates, Reserves
  <1>13. ASSUME NEW r \in Requests, Undo(r) PROVE TypeOK'
    BY <1>13 DEF Undo, Reductions, Position, Go, At, lockVars, closeVars, history, TypeOK, Fates
  <1>14. ASSUME NEW r \in Requests, Review(r) PROVE TypeOK'
    BY <1>14 DEF Review, BestEffort, Go, At, lockVars, venueVars, closeVars, history, TypeOK,
       Fates, RailShape
  <1>15. ASSUME NEW r \in Requests, Block(r) PROVE TypeOK'
    BY <1>15 DEF Block, Go, At, venueVars, closeVars, history, TypeOK, Fates
  <1>16. ASSUME NEW r \in Requests, Crash(r) PROVE TypeOK'
    BY <1>16 DEF Crash, Running, Over, Go, At, lockVars, venueVars, closeVars, history, TypeOK,
       Fates
  <1>17. ASSUME NEW r \in Requests, Fill(r) PROVE TypeOK'
    <2>1. UNION {{r, close[c].of} \cup close[c].seen : c \in Under(r)} \subseteq Requests
      <3> SUFFICES ASSUME NEW c \in Under(r)
                   PROVE  close[c].of \in Requests /\ close[c].seen \subseteq Requests
        BY <1>17
      <3>1. c \in Closes /\ close[c].pc # "idle"  BY DEF Under, CloseShape, Closes
      <3> QED BY <3>1, CloseRecTypes DEF CloseShape, CloseRecs
    <2>2. crossed' \subseteq Requests  BY <1>17, <2>1 DEF Fill, TypeOK
    <2> QED
      BY <1>17, <2>2 DEF Fill, requestVars, lockVars, closeVars, TypeOK, Fates
  <1>18. ASSUME NEW r \in Requests, Reject(r) PROVE TypeOK'
    BY <1>18 DEF Reject, At, requestVars, lockVars, closeVars, history, TypeOK, Fates
  <1>19. ASSUME NEW r \in Requests, DiesOutside(r) PROVE TypeOK'
    BY <1>19 DEF DiesOutside, Position, At, requestVars, lockVars, closeVars, history, TypeOK,
       Fates
  <1>20. ASSUME NEW c \in Closes, NEW r \in Requests, Decide(c, r) PROVE TypeOK'
    BY <1>20, DecideMoves DEF Decide, requestVars, lockVars, venueVars, history, TypeOK,
       CloseRecs, Fates
  <1>21. ASSUME NEW c \in Closes, FoundGone(c) PROVE TypeOK'
    <2>1. CloseRow(c)  BY <1>21 DEF FoundGone
    <2>2. row' \in [Requests -> Statuses] /\ close' \in [Closes -> CloseRecs]
          /\ \A r \in Requests : row'[r] \in {row[r], "closed"}
      BY <2>1, <1>21, RowClosed DEF FoundGone
    <2> QED
      BY <1>21, <2>2 DEF FoundGone, lockVars, venueVars, history, TypeOK, CloseRecs, Statuses
  <1>22. ASSUME NEW c \in Closes, SendClose(c) PROVE TypeOK'
    <2>1. shut' \in [Closes -> Fates]  BY <1>22 DEF SendClose, TypeOK, Fates
    <2> QED
      BY <1>22, <2>1, SendCloseMoves DEF SendClose, requestVars, lockVars, venueVars, history,
         TypeOK, CloseRecs, Fates
  <1>23. ASSUME NEW c \in Closes, EndClose(c) PROVE TypeOK'
    <2>1. CloseRow(c)  BY <1>23 DEF EndClose
    <2>2. row' \in [Requests -> Statuses] /\ close' \in [Closes -> CloseRecs]
          /\ \A r \in Requests : row'[r] \in {row[r], "closed"}
      BY <2>1, <1>23, RowClosed DEF EndClose
    <2>3. proceeds' \in [Requests -> {"none", "own", "other"}]
      BY <1>23 DEF EndClose, ResultOf, TypeOK
    <2> QED
      BY <1>23, <2>2, <2>3 DEF EndClose, lockVars, venueVars, history, TypeOK, CloseRecs,
         Statuses
  <1>24. ASSUME NEW c \in Closes, CloseThrows(c) PROVE TypeOK'
    BY <1>24 DEF CloseThrows, At, requestVars, lockVars, venueVars, history, TypeOK, Fates
  <1>25. ASSUME NEW c \in Closes, Reduce(c) PROVE TypeOK'
    BY <1>25 DEF Reduce, Reductions, Position, At, requestVars, lockVars, history, TypeOK, Fates
  <1>26. ASSUME NEW c \in Closes, RejectClose(c) PROVE TypeOK'
    BY <1>26 DEF RejectClose, At, requestVars, lockVars, venueVars, history, TypeOK, Fates
  <1>27. ASSUME Expire PROVE TypeOK'
    BY <1>27 DEF Expire, MayExpire, At, requestVars, venueVars, closeVars, history, TypeOK,
       Fates
  <1>28. CASE UNCHANGED vars
    BY <1>28 DEF vars, At, requestVars, lockVars, venueVars, closeVars, history, TypeOK, Fates
  <1> QED
    BY <1>1, <1>2, <1>3, <1>4, <1>5, <1>6, <1>7, <1>8, <1>9, <1>10, <1>11, <1>12, <1>13, <1>14,
       <1>15, <1>16, <1>17, <1>18, <1>19, <1>20, <1>21, <1>22, <1>23, <1>24, <1>25, <1>26, <1>27,
       <1>28, NextCases

\* Only whale requests compensate.
LEMMA RailKept ==
  ASSUME TypeOK, RailShape, [Next]_vars
  PROVE  RailShape'
  <1>1. ASSUME NEW r \in Requests, Guard(r) PROVE RailShape'
    BY <1>1 DEF Guard, HasOpenTail, Go, At, venueVars, closeVars, history, TypeOK, RailShape,
       Reserves
  <1>2. ASSUME NEW r \in Requests, Reserve(r) PROVE RailShape'
    BY <1>2 DEF Reserve, TakeLock, LockIsFree, Go, At, venueVars, closeVars, history, TypeOK,
       RailShape, Reserves
  <1>3. ASSUME NEW r \in Requests, ReserveRefused(r) PROVE RailShape'
    BY <1>3 DEF ReserveRefused, TakeLock, LockIsFree, lockVars, Go, At, venueVars, closeVars,
       history, TypeOK, RailShape, Reserves
  <1>4. ASSUME NEW r \in Requests, Release(r) PROVE RailShape'
    BY <1>4 DEF Release, Go, At, venueVars, closeVars, history, TypeOK, RailShape, Reserves
  <1>5. ASSUME NEW r \in Requests, CheckChain(r) PROVE RailShape'
    BY <1>5 DEF CheckChain, Go, At, lockVars, venueVars, closeVars, history, TypeOK, RailShape,
       Reserves
  <1>6. ASSUME NEW r \in Requests, InsertPending(r) PROVE RailShape'
    BY <1>6 DEF InsertPending, BestEffort, Go, At, lockVars, venueVars, closeVars, history,
       TypeOK, RailShape, Reserves
  <1>7. ASSUME NEW r \in Requests, Send(r) PROVE RailShape'
    BY <1>7 DEF Send, Go, At, lockVars, closeVars, history, TypeOK, RailShape, Reserves
  <1>8. ASSUME NEW r \in Requests, Answered(r) PROVE RailShape'
    BY <1>8 DEF Answered, Go, At, lockVars, venueVars, closeVars, history, TypeOK, RailShape,
       Reserves
  <1>9. ASSUME NEW r \in Requests, TakenForOpen(r) PROVE RailShape'
    BY <1>9 DEF TakenForOpen, Go, At, lockVars, venueVars, closeVars, TypeOK, RailShape,
       Reserves
  <1>10. ASSUME NEW r \in Requests, Throws(r) PROVE RailShape'
    BY <1>10 DEF Throws, Leave, Go, At, lockVars, venueVars, closeVars, TypeOK, RailShape,
       Reserves
  <1>11. ASSUME NEW r \in Requests, MarkFailed(r) PROVE RailShape'
    BY <1>11 DEF MarkFailed, BestEffort, Go, At, lockVars, venueVars, closeVars, history, TypeOK,
       RailShape, Reserves
  <1>12. ASSUME NEW r \in Requests, Record(r) PROVE RailShape'
    BY <1>12 DEF Record, BestEffort, Leave, Go, At, lockVars, venueVars, closeVars, history,
       TypeOK, RailShape, Reserves
  <1>13. ASSUME NEW r \in Requests, Undo(r) PROVE RailShape'
    BY <1>13 DEF Undo, Reductions, Position, Go, At, lockVars, closeVars, history, TypeOK,
       RailShape, Reserves
  <1>14. ASSUME NEW r \in Requests, Review(r) PROVE RailShape'
    BY <1>14 DEF Review, BestEffort, Go, At, lockVars, venueVars, closeVars, history, TypeOK,
       RailShape, Reserves
  <1>15. ASSUME NEW r \in Requests, Block(r) PROVE RailShape'
    BY <1>15 DEF Block, Go, At, venueVars, closeVars, history, TypeOK, RailShape, Reserves
  <1>16. ASSUME NEW r \in Requests, Crash(r) PROVE RailShape'
    BY <1>16 DEF Crash, Running, Over, Go, At, lockVars, venueVars, closeVars, history, TypeOK,
       RailShape, Reserves
  <1>17. ASSUME NEW r \in Requests, Fill(r) PROVE RailShape'
    BY <1>17 DEF Fill, Under, At, requestVars, lockVars, closeVars, TypeOK, RailShape,
       Reserves
  <1>18. ASSUME NEW r \in Requests, Reject(r) PROVE RailShape'
    BY <1>18 DEF Reject, At, requestVars, lockVars, closeVars, history, TypeOK, RailShape,
       Reserves
  <1>19. ASSUME NEW r \in Requests, DiesOutside(r) PROVE RailShape'
    BY <1>19 DEF DiesOutside, Position, At, requestVars, lockVars, closeVars, history, TypeOK,
       RailShape, Reserves
  <1>20. ASSUME NEW c \in Closes, NEW r \in Requests, Decide(c, r) PROVE RailShape'
    BY <1>20 DEF Decide, MayClose, At, requestVars, lockVars, venueVars, history, TypeOK,
       RailShape, Reserves
  <1>21. ASSUME NEW c \in Closes, FoundGone(c) PROVE RailShape'
    BY <1>21 DEF FoundGone, CloseRow, MayWrite, At, lockVars, venueVars, history, TypeOK,
       RailShape, Reserves
  <1>22. ASSUME NEW c \in Closes, SendClose(c) PROVE RailShape'
    BY <1>22 DEF SendClose, Position, At, requestVars, lockVars, venueVars, history, TypeOK,
       RailShape, Reserves
  <1>23. ASSUME NEW c \in Closes, EndClose(c) PROVE RailShape'
    BY <1>23 DEF EndClose, CloseRow, MayWrite, ResultOf, At, lockVars, venueVars, history,
       TypeOK, RailShape, Reserves
  <1>24. ASSUME NEW c \in Closes, CloseThrows(c) PROVE RailShape'
    BY <1>24 DEF CloseThrows, At, requestVars, lockVars, venueVars, history, TypeOK, RailShape,
       Reserves
  <1>25. ASSUME NEW c \in Closes, Reduce(c) PROVE RailShape'
    BY <1>25 DEF Reduce, Reductions, Position, At, requestVars, lockVars, history, TypeOK,
       RailShape, Reserves
  <1>26. ASSUME NEW c \in Closes, RejectClose(c) PROVE RailShape'
    BY <1>26 DEF RejectClose, At, requestVars, lockVars, venueVars, history, TypeOK, RailShape,
       Reserves
  <1>27. ASSUME Expire PROVE RailShape'
    BY <1>27 DEF Expire, MayExpire, At, requestVars, venueVars, closeVars, history, TypeOK,
       RailShape, Reserves
  <1>28. CASE UNCHANGED vars
    BY <1>28 DEF vars, At, requestVars, lockVars, venueVars, closeVars, history, TypeOK,
       RailShape, Reserves
  <1> QED
    BY <1>1, <1>2, <1>3, <1>4, <1>5, <1>6, <1>7, <1>8, <1>9, <1>10, <1>11, <1>12, <1>13, <1>14,
       <1>15, <1>16, <1>17, <1>18, <1>19, <1>20, <1>21, <1>22, <1>23, <1>24, <1>25, <1>26, <1>27,
       <1>28, NextCases

\* Where a request stands tells of its order.
LEMMA OrderKept ==
  ASSUME TypeOK, RailShape, OrderShape, [Next]_vars
  PROVE  OrderShape'
  <1>1. ASSUME NEW r \in Requests, Guard(r) PROVE OrderShape'
    BY <1>1 DEF Guard, HasOpenTail, Go, At, venueVars, closeVars, history, TypeOK, OrderShape,
       Running, Over, Reserves
  <1>2. ASSUME NEW r \in Requests, Reserve(r) PROVE OrderShape'
    BY <1>2 DEF Reserve, TakeLock, LockIsFree, Go, At, venueVars, closeVars, history, TypeOK,
       OrderShape, Running, Over, Reserves
  <1>3. ASSUME NEW r \in Requests, ReserveRefused(r) PROVE OrderShape'
    BY <1>3 DEF ReserveRefused, TakeLock, LockIsFree, lockVars, Go, At, venueVars, closeVars,
       history, TypeOK, OrderShape, Running, Over, Reserves
  <1>4. ASSUME NEW r \in Requests, Release(r) PROVE OrderShape'
    BY <1>4 DEF Release, Go, At, venueVars, closeVars, history, TypeOK, OrderShape, Reserves
  <1>5. ASSUME NEW r \in Requests, CheckChain(r) PROVE OrderShape'
    BY <1>5 DEF CheckChain, Go, At, lockVars, venueVars, closeVars, history, TypeOK, OrderShape,
       Position, Reserves
  <1>6. ASSUME NEW r \in Requests, InsertPending(r) PROVE OrderShape'
    BY <1>6 DEF InsertPending, BestEffort, Go, At, lockVars, venueVars, closeVars, history,
       TypeOK, OrderShape, Reserves
  <1>7. ASSUME NEW r \in Requests, Send(r) PROVE OrderShape'
    BY <1>7 DEF Send, Go, At, lockVars, closeVars, history, TypeOK, OrderShape, Reserves
  <1>8. ASSUME NEW r \in Requests, Answered(r) PROVE OrderShape'
    BY <1>8 DEF Answered, Go, At, lockVars, venueVars, closeVars, history, TypeOK, OrderShape,
       Reserves
  <1>9. ASSUME NEW r \in Requests, TakenForOpen(r) PROVE OrderShape'
    BY <1>9 DEF TakenForOpen, Go, At, lockVars, venueVars, closeVars, TypeOK, OrderShape,
       Position, Reserves
  <1>10. ASSUME NEW r \in Requests, Throws(r) PROVE OrderShape'
    BY <1>10 DEF Throws, Leave, Go, At, lockVars, venueVars, closeVars, TypeOK, OrderShape,
       Reserves
  <1>11. ASSUME NEW r \in Requests, MarkFailed(r) PROVE OrderShape'
    BY <1>11 DEF MarkFailed, BestEffort, Go, At, lockVars, venueVars, closeVars, history, TypeOK,
       OrderShape, Reserves
  <1>12. ASSUME NEW r \in Requests, Record(r) PROVE OrderShape'
    BY <1>12 DEF Record, BestEffort, Leave, Go, At, lockVars, venueVars, closeVars, history,
       TypeOK, OrderShape, Reserves
  <1>13. ASSUME NEW r \in Requests, Undo(r) PROVE OrderShape'
    BY <1>13 DEF Undo, Reductions, Position, Go, At, lockVars, closeVars, history, TypeOK,
       OrderShape, Reserves
  <1>14. ASSUME NEW r \in Requests, Review(r) PROVE OrderShape'
    BY <1>14 DEF Review, BestEffort, Go, At, lockVars, venueVars, closeVars, history, TypeOK,
       OrderShape, Reserves
  <1>15. ASSUME NEW r \in Requests, Block(r) PROVE OrderShape'
    BY <1>15 DEF Block, Go, At, venueVars, closeVars, history, TypeOK, OrderShape, Reserves
  <1>16. ASSUME NEW r \in Requests, Crash(r) PROVE OrderShape'
    BY <1>16 DEF Crash, Running, Over, Go, At, lockVars, venueVars, closeVars, history, TypeOK,
       OrderShape, Reserves
  <1>17. ASSUME NEW r \in Requests, Fill(r) PROVE OrderShape'
    BY <1>17 DEF Fill, Under, At, requestVars, lockVars, closeVars, TypeOK, OrderShape,
       Reserves
  <1>18. ASSUME NEW r \in Requests, Reject(r) PROVE OrderShape'
    BY <1>18 DEF Reject, At, requestVars, lockVars, closeVars, history, TypeOK, OrderShape,
       Reserves
  <1>19. ASSUME NEW r \in Requests, DiesOutside(r) PROVE OrderShape'
    BY <1>19 DEF DiesOutside, Position, At, requestVars, lockVars, closeVars, history, TypeOK,
       OrderShape, Reserves
  <1>20. ASSUME NEW c \in Closes, NEW r \in Requests, Decide(c, r) PROVE OrderShape'
    BY <1>20 DEF Decide, MayClose, At, requestVars, lockVars, venueVars, history, TypeOK,
       OrderShape, Reserves
  <1>21. ASSUME NEW c \in Closes, FoundGone(c) PROVE OrderShape'
    BY <1>21 DEF FoundGone, CloseRow, MayWrite, At, lockVars, venueVars, history, TypeOK,
       OrderShape, Position, Reserves
  <1>22. ASSUME NEW c \in Closes, SendClose(c) PROVE OrderShape'
    BY <1>22 DEF SendClose, Position, At, requestVars, lockVars, venueVars, history, TypeOK,
       OrderShape, Reserves
  <1>23. ASSUME NEW c \in Closes, EndClose(c) PROVE OrderShape'
    BY <1>23 DEF EndClose, CloseRow, MayWrite, ResultOf, At, lockVars, venueVars, history,
       TypeOK, OrderShape, Position, Reserves
  <1>24. ASSUME NEW c \in Closes, CloseThrows(c) PROVE OrderShape'
    BY <1>24 DEF CloseThrows, At, requestVars, lockVars, venueVars, history, TypeOK, OrderShape,
       Reserves
  <1>25. ASSUME NEW c \in Closes, Reduce(c) PROVE OrderShape'
    BY <1>25 DEF Reduce, Reductions, Position, At, requestVars, lockVars, history, TypeOK,
       OrderShape, Reserves
  <1>26. ASSUME NEW c \in Closes, RejectClose(c) PROVE OrderShape'
    BY <1>26 DEF RejectClose, At, requestVars, lockVars, venueVars, history, TypeOK, OrderShape,
       Reserves
  <1>27. ASSUME Expire PROVE OrderShape'
    BY <1>27 DEF Expire, MayExpire, At, requestVars, venueVars, closeVars, history, TypeOK,
       OrderShape, Over, Reserves
  <1>28. CASE UNCHANGED vars
    BY <1>28 DEF vars, At, requestVars, lockVars, venueVars, closeVars, history, TypeOK,
       OrderShape, Reserves
  <1> QED
    BY <1>1, <1>2, <1>3, <1>4, <1>5, <1>6, <1>7, <1>8, <1>9, <1>10, <1>11, <1>12, <1>13, <1>14,
       <1>15, <1>16, <1>17, <1>18, <1>19, <1>20, <1>21, <1>22, <1>23, <1>24, <1>25, <1>26, <1>27,
       <1>28, NextCases

\* What made a row confirmable stays: requests never go back, answers are not taken back.
LEMMA WasConfirmedStays ==
  ASSUME TypeOK, OrderShape, [Next]_vars
  PROVE  ConfirmedStays
  <1>1. ASSUME NEW r \in Requests, Guard(r) PROVE ConfirmedStays
    BY <1>1 DEF Guard, HasOpenTail, Go, At, venueVars, closeVars, history, TypeOK,
       ConfirmedStays, WasConfirmed, Past, Running, Over
  <1>2. ASSUME NEW r \in Requests, Reserve(r) PROVE ConfirmedStays
    BY <1>2 DEF Reserve, TakeLock, LockIsFree, Go, At, venueVars, closeVars, history, TypeOK,
       ConfirmedStays, WasConfirmed, Past, Running, Over, Reserves
  <1>3. ASSUME NEW r \in Requests, ReserveRefused(r) PROVE ConfirmedStays
    BY <1>3 DEF ReserveRefused, TakeLock, LockIsFree, lockVars, Go, At, venueVars, closeVars,
       history, TypeOK, ConfirmedStays, WasConfirmed, Past, Running, Over, Reserves
  <1>4. ASSUME NEW r \in Requests, Release(r) PROVE ConfirmedStays
    BY <1>4 DEF Release, Go, At, venueVars, closeVars, history, TypeOK, ConfirmedStays,
       WasConfirmed, Past
  <1>5. ASSUME NEW r \in Requests, CheckChain(r) PROVE ConfirmedStays
    BY <1>5 DEF CheckChain, Go, At, lockVars, venueVars, closeVars, history, TypeOK,
       ConfirmedStays, WasConfirmed, Past, Position
  <1>6. ASSUME NEW r \in Requests, InsertPending(r) PROVE ConfirmedStays
    BY <1>6 DEF InsertPending, BestEffort, Go, At, lockVars, venueVars, closeVars, history,
       TypeOK, ConfirmedStays, WasConfirmed, Past
  <1>7. ASSUME NEW r \in Requests, Send(r) PROVE ConfirmedStays
    BY <1>7 DEF Send, Go, At, lockVars, closeVars, history, TypeOK, ConfirmedStays, WasConfirmed,
       Past
  <1>8. ASSUME NEW r \in Requests, Answered(r) PROVE ConfirmedStays
    BY <1>8 DEF Answered, Go, At, lockVars, venueVars, closeVars, history, TypeOK,
       ConfirmedStays, WasConfirmed, Past
  <1>9. ASSUME NEW r \in Requests, TakenForOpen(r) PROVE ConfirmedStays
    BY <1>9 DEF TakenForOpen, Go, At, lockVars, venueVars, closeVars, TypeOK, ConfirmedStays,
       WasConfirmed, Past, Position
  <1>10. ASSUME NEW r \in Requests, Throws(r) PROVE ConfirmedStays
    BY <1>10 DEF Throws, Leave, Go, At, lockVars, venueVars, closeVars, TypeOK, ConfirmedStays,
       WasConfirmed, Past, Reserves
  <1>11. ASSUME NEW r \in Requests, MarkFailed(r) PROVE ConfirmedStays
    BY <1>11 DEF MarkFailed, BestEffort, Go, At, lockVars, venueVars, closeVars, history, TypeOK,
       ConfirmedStays, WasConfirmed, Past
  <1>12. ASSUME NEW r \in Requests, Record(r) PROVE ConfirmedStays
    BY <1>12 DEF Record, BestEffort, Leave, Go, At, lockVars, venueVars, closeVars, history,
       TypeOK, ConfirmedStays, WasConfirmed, Past, Reserves
  <1>13. ASSUME NEW r \in Requests, Undo(r) PROVE ConfirmedStays
    BY <1>13 DEF Undo, Reductions, Position, Go, At, lockVars, closeVars, history, TypeOK,
       ConfirmedStays, WasConfirmed, Past
  <1>14. ASSUME NEW r \in Requests, Review(r) PROVE ConfirmedStays
    BY <1>14 DEF Review, BestEffort, Go, At, lockVars, venueVars, closeVars, history, TypeOK,
       ConfirmedStays, WasConfirmed, Past
  <1>15. ASSUME NEW r \in Requests, Block(r) PROVE ConfirmedStays
    BY <1>15 DEF Block, Go, At, venueVars, closeVars, history, TypeOK, ConfirmedStays,
       WasConfirmed, Past
  <1>16. ASSUME NEW r \in Requests, Crash(r) PROVE ConfirmedStays
    BY <1>16 DEF Crash, Running, Over, Go, At, lockVars, venueVars, closeVars, history, TypeOK,
       ConfirmedStays, WasConfirmed, Past
  <1>17. ASSUME NEW r \in Requests, Fill(r) PROVE ConfirmedStays
    BY <1>17 DEF Fill, Under, At, requestVars, lockVars, closeVars, TypeOK, ConfirmedStays,
       WasConfirmed, Past
  <1>18. ASSUME NEW r \in Requests, Reject(r) PROVE ConfirmedStays
    BY <1>18 DEF Reject, At, requestVars, lockVars, closeVars, history, TypeOK, ConfirmedStays,
       WasConfirmed, Past
  <1>19. ASSUME NEW r \in Requests, DiesOutside(r) PROVE ConfirmedStays
    BY <1>19 DEF DiesOutside, Position, At, requestVars, lockVars, closeVars, history, TypeOK,
       ConfirmedStays, WasConfirmed, Past
  <1>20. ASSUME NEW c \in Closes, NEW r \in Requests, Decide(c, r) PROVE ConfirmedStays
    BY <1>20 DEF Decide, MayClose, At, requestVars, lockVars, venueVars, history, TypeOK,
       ConfirmedStays, WasConfirmed, Past
  <1>21. ASSUME NEW c \in Closes, FoundGone(c) PROVE ConfirmedStays
    BY <1>21 DEF FoundGone, CloseRow, MayWrite, At, lockVars, venueVars, history, TypeOK,
       ConfirmedStays, WasConfirmed, Past, Position
  <1>22. ASSUME NEW c \in Closes, SendClose(c) PROVE ConfirmedStays
    BY <1>22 DEF SendClose, Position, At, requestVars, lockVars, venueVars, history, TypeOK,
       ConfirmedStays, WasConfirmed, Past
  <1>23. ASSUME NEW c \in Closes, EndClose(c) PROVE ConfirmedStays
    BY <1>23 DEF EndClose, CloseRow, MayWrite, ResultOf, At, lockVars, venueVars, history,
       TypeOK, ConfirmedStays, WasConfirmed, Past, Position
  <1>24. ASSUME NEW c \in Closes, CloseThrows(c) PROVE ConfirmedStays
    BY <1>24 DEF CloseThrows, At, requestVars, lockVars, venueVars, history, TypeOK,
       ConfirmedStays, WasConfirmed, Past
  <1>25. ASSUME NEW c \in Closes, Reduce(c) PROVE ConfirmedStays
    BY <1>25 DEF Reduce, Reductions, Position, At, requestVars, lockVars, history, TypeOK,
       ConfirmedStays, WasConfirmed, Past
  <1>26. ASSUME NEW c \in Closes, RejectClose(c) PROVE ConfirmedStays
    BY <1>26 DEF RejectClose, At, requestVars, lockVars, venueVars, history, TypeOK,
       ConfirmedStays, WasConfirmed, Past
  <1>27. ASSUME Expire PROVE ConfirmedStays
    BY <1>27 DEF Expire, MayExpire, At, requestVars, venueVars, closeVars, history, TypeOK,
       ConfirmedStays, WasConfirmed, Past, Over
  <1>28. CASE UNCHANGED vars
    BY <1>28 DEF vars, At, requestVars, lockVars, venueVars, closeVars, history, TypeOK,
       ConfirmedStays, WasConfirmed, Past
  <1> QED
    BY <1>1, <1>2, <1>3, <1>4, <1>5, <1>6, <1>7, <1>8, <1>9, <1>10, <1>11, <1>12, <1>13, <1>14,
       <1>15, <1>16, <1>17, <1>18, <1>19, <1>20, <1>21, <1>22, <1>23, <1>24, <1>25, <1>26, <1>27,
       <1>28, NextCases

\* An order that takes something of a single exposure takes that.
LEMMA OwnUnit ==
  ASSUME NEW r \in Requests, NEW x \in Reductions(r, {r}), x # {}, r \in held
  PROVE  r \in x
  BY DEF Reductions

\* The status of a row tells of its request.
LEMMA RowKept ==
  ASSUME TypeOK, RailShape, OrderShape, RowShape, CloseShape, [Next]_vars
  PROVE  RowShape'
  <1>1. ASSUME NEW r \in Requests, Guard(r) PROVE RowShape'
    BY <1>1 DEF Guard, HasOpenTail, Go, At, venueVars, closeVars, history, TypeOK, RowShape,
       WasConfirmed, Past, Running, Over, Reserves
  <1>2. ASSUME NEW r \in Requests, Reserve(r) PROVE RowShape'
    BY <1>2 DEF Reserve, TakeLock, LockIsFree, Go, At, venueVars, closeVars, history, TypeOK,
       RowShape, WasConfirmed, Past, Running, Over, Reserves
  <1>3. ASSUME NEW r \in Requests, ReserveRefused(r) PROVE RowShape'
    BY <1>3 DEF ReserveRefused, TakeLock, LockIsFree, lockVars, Go, At, venueVars, closeVars,
       history, TypeOK, RowShape, WasConfirmed, Past, Running, Over, Reserves
  <1>4. ASSUME NEW r \in Requests, Release(r) PROVE RowShape'
    BY <1>4 DEF Release, Go, At, venueVars, closeVars, history, TypeOK, RowShape, WasConfirmed,
       Past, Reserves
  <1>5. ASSUME NEW r \in Requests, CheckChain(r) PROVE RowShape'
    BY <1>5 DEF CheckChain, Go, At, lockVars, venueVars, closeVars, history, TypeOK, RowShape,
       WasConfirmed, Past, Position, Reserves
  <1>6. ASSUME NEW r \in Requests, InsertPending(r) PROVE RowShape'
    BY <1>6 DEF InsertPending, BestEffort, Go, At, lockVars, venueVars, closeVars, history,
       TypeOK, OrderShape, RowShape, WasConfirmed, Past, Reserves
  <1>7. ASSUME NEW r \in Requests, Send(r) PROVE RowShape'
    BY <1>7 DEF Send, Go, At, lockVars, closeVars, history, TypeOK, RowShape, WasConfirmed, Past,
       Reserves
  <1>8. ASSUME NEW r \in Requests, Answered(r) PROVE RowShape'
    BY <1>8 DEF Answered, Go, At, lockVars, venueVars, closeVars, history, TypeOK, RowShape,
       WasConfirmed, Past, Reserves
  <1>9. ASSUME NEW r \in Requests, TakenForOpen(r) PROVE RowShape'
    BY <1>9 DEF TakenForOpen, Go, At, lockVars, venueVars, closeVars, TypeOK, RowShape,
       WasConfirmed, Past, Position, Reserves
  <1>10. ASSUME NEW r \in Requests, Throws(r) PROVE RowShape'
    BY <1>10 DEF Throws, Leave, Go, At, lockVars, venueVars, closeVars, TypeOK, RowShape,
       WasConfirmed, Past, Reserves
  <1>11. ASSUME NEW r \in Requests, MarkFailed(r) PROVE RowShape'
    BY <1>11 DEF MarkFailed, BestEffort, Go, At, lockVars, venueVars, closeVars, history, TypeOK,
       RowShape, WasConfirmed, Past, Reserves
  <1>12. ASSUME NEW r \in Requests, Record(r) PROVE RowShape'
    BY <1>12 DEF Record, BestEffort, Leave, Go, At, lockVars, venueVars, closeVars, history,
       TypeOK, OrderShape, RowShape, WasConfirmed, Past, Reserves
  <1>13. ASSUME NEW r \in Requests, Undo(r) PROVE RowShape'
    <2>1. PICK x \in Reductions(r, {r}) \cup {{}} :
            held' = held \ x /\ (Go(r, "review") \/ (x # {} /\ Go(r, "failed")))
      BY <1>13 DEF Undo
    <2>2. At(r, "failed")' => r \notin held'  BY <2>1, OwnUnit DEF Go, At, TypeOK
    <2> QED
      BY <1>13, <2>1, <2>2 DEF Undo, Go, At, TypeOK, RailShape, OrderShape, RowShape,
         WasConfirmed, Past, Reserves, Position, Running, Over, lockVars, history, closeVars
  <1>14. ASSUME NEW r \in Requests, Review(r) PROVE RowShape'
    BY <1>14 DEF Review, BestEffort, Go, At, lockVars, venueVars, closeVars, history, TypeOK,
       OrderShape, RowShape, WasConfirmed, Past, Reserves
  <1>15. ASSUME NEW r \in Requests, Block(r) PROVE RowShape'
    BY <1>15 DEF Block, Go, At, venueVars, closeVars, history, TypeOK, RowShape, WasConfirmed,
       Past, Reserves
  <1>16. ASSUME NEW r \in Requests, Crash(r) PROVE RowShape'
    BY <1>16 DEF Crash, Running, Over, Go, At, lockVars, venueVars, closeVars, history, TypeOK,
       RowShape, WasConfirmed, Past, Reserves
  <1>17. ASSUME NEW r \in Requests, Fill(r) PROVE RowShape'
    BY <1>17 DEF Fill, Under, At, requestVars, lockVars, closeVars, TypeOK, RowShape,
       WasConfirmed, Past, Reserves
  <1>18. ASSUME NEW r \in Requests, Reject(r) PROVE RowShape'
    BY <1>18 DEF Reject, At, requestVars, lockVars, closeVars, history, TypeOK, RowShape,
       WasConfirmed, Past, Reserves
  <1>19. ASSUME NEW r \in Requests, DiesOutside(r) PROVE RowShape'
    BY <1>19 DEF DiesOutside, Position, At, requestVars, lockVars, closeVars, history, TypeOK,
       RowShape, WasConfirmed, Past, Reserves
  <1>20. ASSUME NEW c \in Closes, NEW r \in Requests, Decide(c, r) PROVE RowShape'
    BY <1>20 DEF Decide, MayClose, At, requestVars, lockVars, venueVars, history, TypeOK,
       RowShape, WasConfirmed, Past, Reserves
  <1>21. ASSUME NEW c \in Closes, FoundGone(c) PROVE RowShape'
    <2>1. CloseRow(c) /\ close[c].pc = "read"  BY <1>21 DEF FoundGone
    <2>2. \A r \in Requests : row'[r] = row[r] \/ (row'[r] = "closed" /\ WasConfirmed(r))
      BY <2>1, RowClosed DEF CloseShape
    <2> QED
      BY <1>21, <2>2 DEF FoundGone, At, TypeOK, RailShape, OrderShape, RowShape, WasConfirmed,
         Past, Reserves, Position, Running, Over, lockVars, venueVars, history
  <1>22. ASSUME NEW c \in Closes, SendClose(c) PROVE RowShape'
    BY <1>22 DEF SendClose, Position, At, requestVars, lockVars, venueVars, history, TypeOK,
       RowShape, WasConfirmed, Past, Reserves
  <1>23. ASSUME NEW c \in Closes, EndClose(c) PROVE RowShape'
    <2>1. CloseRow(c) /\ close[c].pc = "wait"  BY <1>23 DEF EndClose
    <2>2. \A r \in Requests : row'[r] = row[r] \/ (row'[r] = "closed" /\ WasConfirmed(r))
      BY <2>1, RowClosed DEF CloseShape
    <2> QED
      BY <1>23, <2>2 DEF EndClose, At, TypeOK, RailShape, OrderShape, RowShape, WasConfirmed,
         Past, Reserves, Position, Running, Over, lockVars, venueVars, history
  <1>24. ASSUME NEW c \in Closes, CloseThrows(c) PROVE RowShape'
    BY <1>24 DEF CloseThrows, At, requestVars, lockVars, venueVars, history, TypeOK, RowShape,
       WasConfirmed, Past, Reserves
  <1>25. ASSUME NEW c \in Closes, Reduce(c) PROVE RowShape'
    BY <1>25 DEF Reduce, Reductions, Position, At, requestVars, lockVars, history, TypeOK,
       RowShape, WasConfirmed, Past, Reserves
  <1>26. ASSUME NEW c \in Closes, RejectClose(c) PROVE RowShape'
    BY <1>26 DEF RejectClose, At, requestVars, lockVars, venueVars, history, TypeOK, RowShape,
       WasConfirmed, Past, Reserves
  <1>27. ASSUME Expire PROVE RowShape'
    BY <1>27 DEF Expire, MayExpire, At, requestVars, venueVars, closeVars, history, TypeOK,
       RowShape, WasConfirmed, Past, Over, Reserves
  <1>28. CASE UNCHANGED vars
    BY <1>28 DEF vars, At, requestVars, lockVars, venueVars, closeVars, history, TypeOK,
       RowShape, WasConfirmed, Past, Reserves
  <1> QED
    BY <1>1, <1>2, <1>3, <1>4, <1>5, <1>6, <1>7, <1>8, <1>9, <1>10, <1>11, <1>12, <1>13, <1>14,
       <1>15, <1>16, <1>17, <1>18, <1>19, <1>20, <1>21, <1>22, <1>23, <1>24, <1>25, <1>26, <1>27,
       <1>28, NextCases

\* Closes are of rows that were confirmed.
LEMMA CloseKept ==
  ASSUME TypeOK, OrderShape, RowShape, CloseShape, [Next]_vars
  PROVE  CloseShape'
  <1>1. ASSUME NEW r \in Requests, Guard(r) PROVE CloseShape'
    BY <1>1, WasConfirmedStays DEF Guard, HasOpenTail, Go, At, requestVars, lockVars, venueVars,
       closeVars, history, TypeOK, ConfirmedStays, CloseShape
  <1>2. ASSUME NEW r \in Requests, Reserve(r) PROVE CloseShape'
    BY <1>2, WasConfirmedStays DEF Reserve, Reserves, TakeLock, LockIsFree, Go, At, requestVars,
       lockVars, venueVars, closeVars, history, TypeOK, ConfirmedStays, CloseShape
  <1>3. ASSUME NEW r \in Requests, ReserveRefused(r) PROVE CloseShape'
    BY <1>3, WasConfirmedStays DEF ReserveRefused, Reserves, TakeLock, LockIsFree, lockVars, Go,
       At, requestVars, venueVars, closeVars, history, TypeOK, ConfirmedStays, CloseShape
  <1>4. ASSUME NEW r \in Requests, Release(r) PROVE CloseShape'
    BY <1>4, WasConfirmedStays DEF Release, Go, At, requestVars, lockVars, venueVars, closeVars,
       history, TypeOK, ConfirmedStays, CloseShape
  <1>5. ASSUME NEW r \in Requests, CheckChain(r) PROVE CloseShape'
    BY <1>5, WasConfirmedStays DEF CheckChain, Go, At, requestVars, lockVars, venueVars,
       closeVars, history, TypeOK, ConfirmedStays, CloseShape
  <1>6. ASSUME NEW r \in Requests, InsertPending(r) PROVE CloseShape'
    BY <1>6, WasConfirmedStays DEF InsertPending, BestEffort, Go, At, requestVars, lockVars,
       venueVars, closeVars, history, TypeOK, ConfirmedStays, CloseShape
  <1>7. ASSUME NEW r \in Requests, Send(r) PROVE CloseShape'
    BY <1>7, WasConfirmedStays DEF Send, Go, At, requestVars, lockVars, venueVars, closeVars,
       history, TypeOK, ConfirmedStays, CloseShape
  <1>8. ASSUME NEW r \in Requests, Answered(r) PROVE CloseShape'
    BY <1>8, WasConfirmedStays DEF Answered, Go, At, requestVars, lockVars, venueVars, closeVars,
       history, TypeOK, ConfirmedStays, CloseShape
  <1>9. ASSUME NEW r \in Requests, TakenForOpen(r) PROVE CloseShape'
    BY <1>9, WasConfirmedStays DEF TakenForOpen, Go, At, requestVars, lockVars, venueVars,
       closeVars, history, TypeOK, ConfirmedStays, CloseShape
  <1>10. ASSUME NEW r \in Requests, Throws(r) PROVE CloseShape'
    BY <1>10, WasConfirmedStays DEF Throws, Leave, Reserves, Go, At, requestVars, lockVars,
       venueVars, closeVars, history, TypeOK, ConfirmedStays, CloseShape
  <1>11. ASSUME NEW r \in Requests, MarkFailed(r) PROVE CloseShape'
    BY <1>11, WasConfirmedStays DEF MarkFailed, BestEffort, Go, At, requestVars, lockVars,
       venueVars, closeVars, history, TypeOK, ConfirmedStays, CloseShape
  <1>12. ASSUME NEW r \in Requests, Record(r) PROVE CloseShape'
    BY <1>12, WasConfirmedStays DEF Record, BestEffort, Leave, Reserves, Go, At, requestVars,
       lockVars, venueVars, closeVars, history, TypeOK, ConfirmedStays, CloseShape
  <1>13. ASSUME NEW r \in Requests, Undo(r) PROVE CloseShape'
    BY <1>13, WasConfirmedStays DEF Undo, Reductions, Position, Go, At, requestVars, lockVars,
       venueVars, closeVars, history, TypeOK, ConfirmedStays, CloseShape
  <1>14. ASSUME NEW r \in Requests, Review(r) PROVE CloseShape'
    BY <1>14, WasConfirmedStays DEF Review, BestEffort, Go, At, requestVars, lockVars, venueVars,
       closeVars, history, TypeOK, ConfirmedStays, CloseShape
  <1>15. ASSUME NEW r \in Requests, Block(r) PROVE CloseShape'
    BY <1>15, WasConfirmedStays DEF Block, Go, At, requestVars, lockVars, venueVars, closeVars,
       history, TypeOK, ConfirmedStays, CloseShape
  <1>16. ASSUME NEW r \in Requests, Crash(r) PROVE CloseShape'
    BY <1>16, WasConfirmedStays DEF Crash, Running, Over, Go, At, requestVars, lockVars,
       venueVars, closeVars, history, TypeOK, ConfirmedStays, CloseShape
  <1>17. ASSUME NEW r \in Requests, Fill(r) PROVE CloseShape'
    BY <1>17, WasConfirmedStays DEF Fill, Under, Go, At, requestVars, lockVars, venueVars,
       closeVars, history, TypeOK, ConfirmedStays, CloseShape
  <1>18. ASSUME NEW r \in Requests, Reject(r) PROVE CloseShape'
    BY <1>18, WasConfirmedStays DEF Reject, Go, At, requestVars, lockVars, venueVars, closeVars,
       history, TypeOK, ConfirmedStays, CloseShape
  <1>19. ASSUME NEW r \in Requests, DiesOutside(r) PROVE CloseShape'
    BY <1>19, WasConfirmedStays DEF DiesOutside, Position, Go, At, requestVars, lockVars,
       venueVars, closeVars, history, TypeOK, ConfirmedStays, CloseShape
  <1>20. ASSUME NEW c \in Closes, NEW r \in Requests, Decide(c, r) PROVE CloseShape'
    <2>1. WasConfirmed(r)'
      BY <1>20, WasConfirmedStays DEF Decide, MayClose, RowShape, ConfirmedStays
    <2>2. shut' = shut /\ close[c].pc = "idle"  BY <1>20 DEF Decide
    <2> SUFFICES ASSUME NEW d \in Closes
                 PROVE  /\ close'[d].pc # "idle" =>
                               close'[d].of \in Requests /\ WasConfirmed(close[d].of)'
                        /\ close'[d].pc \in {"idle", "read"} => shut'[d] = "none"
      BY DEF CloseShape
    <2>3. CASE d = c
      <3>1. close'[d].of = r /\ close'[d].pc = "read"  BY <1>20, <2>3, DecideMoves
      <3>2. WasConfirmed(close[d].of)'  BY <2>1, <3>1 DEF WasConfirmed, Past
      <3> QED BY <2>2, <2>3, <3>1, <3>2 DEF CloseShape
    <2>4. CASE d # c
      <3>1. close'[d] = close[d]  BY <1>20, <2>4, DecideMoves
      <3>2. close[d].pc # "idle" => WasConfirmed(close[d].of)'
        BY <3>1, WasConfirmedStays DEF CloseShape, ConfirmedStays, WasConfirmed, Past
      <3> QED BY <2>2, <3>1, <3>2 DEF CloseShape
    <2> QED BY <2>3, <2>4
  <1>21. ASSUME NEW c \in Closes, FoundGone(c) PROVE CloseShape'
    BY <1>21, RowClosed, WasConfirmedStays DEF FoundGone, CloseShape, ConfirmedStays
  <1>22. ASSUME NEW c \in Closes, SendClose(c) PROVE CloseShape'
    <2>1. shut' = [shut EXCEPT ![c] = "flight"] /\ close[c].pc = "read"  BY <1>22 DEF SendClose
    <2>2. \A d \in Closes :
             /\ close'[d].of = close[d].of
             /\ IF d = c THEN close'[d].pc = "wait" ELSE close'[d].pc = close[d].pc
      BY <1>22, SendCloseMoves
    <2> SUFFICES ASSUME NEW d \in Closes
                 PROVE  /\ close'[d].pc # "idle" =>
                               close'[d].of \in Requests /\ WasConfirmed(close[d].of)'
                        /\ close'[d].pc \in {"idle", "read"} => shut'[d] = "none"
      BY DEF CloseShape
    <2>3. close'[d].pc # "idle" => close[d].pc # "idle"  BY <2>1, <2>2
    <2>4. close[d].pc # "idle" => close'[d].of \in Requests /\ WasConfirmed(close[d].of)'
      BY <2>2, WasConfirmedStays DEF CloseShape, ConfirmedStays, WasConfirmed, Past
    <2>5. close'[d].pc \in {"idle", "read"} => shut'[d] = "none"
      BY <2>1, <2>2 DEF CloseShape, TypeOK
    <2> QED BY <2>3, <2>4, <2>5
  <1>23. ASSUME NEW c \in Closes, EndClose(c) PROVE CloseShape'
    BY <1>23, RowClosed, WasConfirmedStays DEF EndClose, CloseShape, ConfirmedStays
  <1>24. ASSUME NEW c \in Closes, CloseThrows(c) PROVE CloseShape'
    BY <1>24, WasConfirmedStays DEF CloseThrows, Go, At, requestVars, lockVars, venueVars,
       closeVars, history, TypeOK, ConfirmedStays, CloseShape
  <1>25. ASSUME NEW c \in Closes, Reduce(c) PROVE CloseShape'
    BY <1>25, WasConfirmedStays DEF Reduce, CloseShape, ConfirmedStays, TypeOK
  <1>26. ASSUME NEW c \in Closes, RejectClose(c) PROVE CloseShape'
    BY <1>26, WasConfirmedStays DEF RejectClose, Go, At, requestVars, lockVars, venueVars,
       closeVars, history, TypeOK, ConfirmedStays, CloseShape
  <1>27. ASSUME Expire PROVE CloseShape'
    BY <1>27, WasConfirmedStays DEF Expire, MayExpire, Go, At, requestVars, lockVars, venueVars,
       closeVars, history, TypeOK, ConfirmedStays, CloseShape
  <1>28. CASE UNCHANGED vars
    BY <1>28, WasConfirmedStays DEF vars, At, requestVars, lockVars, venueVars, closeVars,
       history, TypeOK, ConfirmedStays, CloseShape
  <1> QED
    BY <1>1, <1>2, <1>3, <1>4, <1>5, <1>6, <1>7, <1>8, <1>9, <1>10, <1>11, <1>12, <1>13, <1>14,
       <1>15, <1>16, <1>17, <1>18, <1>19, <1>20, <1>21, <1>22, <1>23, <1>24, <1>25, <1>26, <1>27,
       <1>28, NextCases

\* At most one request is between its reservation and its end.
LEMMA LockKept ==
  ASSUME SlowRequests = FALSE, TypeOK, RailShape, LockInv, [Next]_vars
  PROVE  LockInv'
  <1>1. ASSUME NEW r \in Requests, Guard(r) PROVE LockInv'
    <2>1. /\ UNCHANGED <<rail, lock, taker>> /\ taker # r
          /\ pc[r] = "new" /\ pc'[r] \in {"over", "cleared"}
      BY <1>1 DEF Guard, Go, At, TypeOK, LockInv
    <2>2. \A q \in Requests : q # r => pc'[q] = pc[q]  BY <1>1 DEF Guard, Go, TypeOK
    <2>3. \A q \in Requests : Critical(q)' => Critical(q)
      BY <2>1, <2>2 DEF Critical, Running, Over, At, Reserves
    <2>4. taker \in Running' => taker \in Running /\ Running' \subseteq Running \cup {r}
      BY <2>1, <2>2 DEF Running, Over, At
    <2>5. ahead \subseteq ahead' /\ (taker \in Running => ahead' = ahead \cup {r})
      BY <1>1 DEF Guard
    <2> QED BY <2>1, <2>2, <2>3, <2>4, <2>5 DEF LockInv, At
  <1>2. ASSUME NEW r \in Requests, Reserve(r) PROVE LockInv'
    BY <1>2 DEF Reserve, TakeLock, LockIsFree, Go, At, venueVars, closeVars, history, TypeOK,
       LockInv, Critical, Running, Over, Reserves
  <1>3. ASSUME NEW r \in Requests, ReserveRefused(r) PROVE LockInv'
    BY <1>3 DEF ReserveRefused, TakeLock, LockIsFree, lockVars, Go, At, venueVars, closeVars,
       history, TypeOK, LockInv, Critical, Running, Over, Reserves
  <1>4. ASSUME NEW r \in Requests, Release(r) PROVE LockInv'
    BY <1>4 DEF Release, Go, At, venueVars, closeVars, history, TypeOK, RailShape, LockInv,
       Critical, Running, Over, Reserves
  <1>5. ASSUME NEW r \in Requests, CheckChain(r) PROVE LockInv'
    BY <1>5 DEF CheckChain, Go, At, lockVars, venueVars, closeVars, history, TypeOK, LockInv,
       Critical, Running, Over, Reserves
  <1>6. ASSUME NEW r \in Requests, InsertPending(r) PROVE LockInv'
    BY <1>6 DEF InsertPending, BestEffort, Go, At, lockVars, venueVars, closeVars, history,
       TypeOK, LockInv, Critical, Running, Over, Reserves
  <1>7. ASSUME NEW r \in Requests, Send(r) PROVE LockInv'
    BY <1>7 DEF Send, Go, At, lockVars, closeVars, history, TypeOK, LockInv, Critical, Running,
       Over, Reserves
  <1>8. ASSUME NEW r \in Requests, Answered(r) PROVE LockInv'
    BY <1>8 DEF Answered, Go, At, lockVars, venueVars, closeVars, history, TypeOK, LockInv,
       Critical, Running, Over, Reserves
  <1>9. ASSUME NEW r \in Requests, TakenForOpen(r) PROVE LockInv'
    BY <1>9 DEF TakenForOpen, Go, At, lockVars, venueVars, closeVars, TypeOK, LockInv, Critical,
       Running, Over, Reserves
  <1>10. ASSUME NEW r \in Requests, Throws(r) PROVE LockInv'
    BY <1>10 DEF Throws, Leave, Go, At, lockVars, venueVars, closeVars, TypeOK, LockInv,
       Critical, Running, Over, Reserves
  <1>11. ASSUME NEW r \in Requests, MarkFailed(r) PROVE LockInv'
    BY <1>11 DEF MarkFailed, BestEffort, Go, At, lockVars, venueVars, closeVars, history, TypeOK,
       LockInv, Critical, Running, Over, Reserves
  <1>12. ASSUME NEW r \in Requests, Record(r) PROVE LockInv'
    BY <1>12 DEF Record, BestEffort, Leave, Go, At, lockVars, venueVars, closeVars, history,
       TypeOK, LockInv, Critical, Running, Over, Reserves
  <1>13. ASSUME NEW r \in Requests, Undo(r) PROVE LockInv'
    BY <1>13 DEF Undo, Reductions, Position, Go, At, lockVars, closeVars, history, TypeOK,
       LockInv, Critical, Running, Over, Reserves
  <1>14. ASSUME NEW r \in Requests, Review(r) PROVE LockInv'
    BY <1>14 DEF Review, BestEffort, Go, At, lockVars, venueVars, closeVars, history, TypeOK,
       LockInv, Critical, Running, Over, Reserves
  <1>15. ASSUME NEW r \in Requests, Block(r) PROVE LockInv'
    BY <1>15 DEF Block, Go, At, venueVars, closeVars, history, TypeOK, RailShape, LockInv,
       Critical, Running, Over, Reserves
  <1>16. ASSUME NEW r \in Requests, Crash(r) PROVE LockInv'
    BY <1>16 DEF Crash, Running, Over, Go, At, lockVars, venueVars, closeVars, history, TypeOK,
       LockInv, Critical, Reserves
  <1>17. ASSUME NEW r \in Requests, Fill(r) PROVE LockInv'
    BY <1>17 DEF Fill, Under, At, requestVars, lockVars, closeVars, TypeOK, LockInv, Critical,
       Running, Over, Reserves
  <1>18. ASSUME NEW r \in Requests, Reject(r) PROVE LockInv'
    BY <1>18 DEF Reject, At, requestVars, lockVars, closeVars, history, TypeOK, LockInv,
       Critical, Running, Over, Reserves
  <1>19. ASSUME NEW r \in Requests, DiesOutside(r) PROVE LockInv'
    BY <1>19 DEF DiesOutside, Position, At, requestVars, lockVars, closeVars, history, TypeOK,
       LockInv, Critical, Running, Over, Reserves
  <1>20. ASSUME NEW c \in Closes, NEW r \in Requests, Decide(c, r) PROVE LockInv'
    BY <1>20 DEF Decide, MayClose, At, requestVars, lockVars, venueVars, history, TypeOK,
       LockInv, Critical, Running, Over, Reserves
  <1>21. ASSUME NEW c \in Closes, FoundGone(c) PROVE LockInv'
    BY <1>21 DEF FoundGone, CloseRow, MayWrite, At, lockVars, venueVars, history, TypeOK,
       LockInv, Critical, Running, Over, Reserves
  <1>22. ASSUME NEW c \in Closes, SendClose(c) PROVE LockInv'
    BY <1>22 DEF SendClose, Position, At, requestVars, lockVars, venueVars, history, TypeOK,
       LockInv, Critical, Running, Over, Reserves
  <1>23. ASSUME NEW c \in Closes, EndClose(c) PROVE LockInv'
    BY <1>23 DEF EndClose, CloseRow, MayWrite, ResultOf, At, lockVars, venueVars, history,
       TypeOK, LockInv, Critical, Running, Over, Reserves
  <1>24. ASSUME NEW c \in Closes, CloseThrows(c) PROVE LockInv'
    BY <1>24 DEF CloseThrows, At, requestVars, lockVars, venueVars, history, TypeOK, LockInv,
       Critical, Running, Over, Reserves
  <1>25. ASSUME NEW c \in Closes, Reduce(c) PROVE LockInv'
    BY <1>25 DEF Reduce, Reductions, Position, At, requestVars, lockVars, history, TypeOK,
       LockInv, Critical, Running, Over, Reserves
  <1>26. ASSUME NEW c \in Closes, RejectClose(c) PROVE LockInv'
    BY <1>26 DEF RejectClose, At, requestVars, lockVars, venueVars, history, TypeOK, LockInv,
       Critical, Running, Over, Reserves
  <1>27. ASSUME Expire PROVE LockInv'
    BY <1>27 DEF Expire, MayExpire, At, requestVars, venueVars, closeVars, history, TypeOK,
       LockInv, Critical, Running, Over, Reserves
  <1>28. CASE UNCHANGED vars
    BY <1>28 DEF vars, At, requestVars, lockVars, venueVars, closeVars, history, TypeOK, LockInv,
       Critical, Running, Over, Reserves
  <1> QED
    BY <1>1, <1>2, <1>3, <1>4, <1>5, <1>6, <1>7, <1>8, <1>9, <1>10, <1>11, <1>12, <1>13, <1>14,
       <1>15, <1>16, <1>17, <1>18, <1>19, <1>20, <1>21, <1>22, <1>23, <1>24, <1>25, <1>26, <1>27,
       <1>28, NextCases

\* No two Flash tails that may come are both answered for.
LEMMA FlashKept ==
  ASSUME SlowRequests = FALSE, TypeOK, RailShape, OrderShape, LockInv, FlashInv, [Next]_vars
  PROVE  FlashInv'
  <1>1. ASSUME NEW r \in Requests, Guard(r) PROVE FlashInv'
    BY <1>1 DEF Guard, HasOpenTail, Go, At, venueVars, closeVars, history, TypeOK, FlashInv,
       MayCome, Lost, Running, Over
  <1>2. ASSUME NEW r \in Requests, Reserve(r) PROVE FlashInv'
    BY <1>2 DEF Reserve, TakeLock, LockIsFree, Go, At, venueVars, closeVars, history, TypeOK,
       FlashInv, MayCome, Lost, Running, Over, Reserves
  <1>3. ASSUME NEW r \in Requests, ReserveRefused(r) PROVE FlashInv'
    BY <1>3 DEF ReserveRefused, TakeLock, LockIsFree, lockVars, Go, At, venueVars, closeVars,
       history, TypeOK, FlashInv, MayCome, Lost, Running, Over, Reserves
  <1>4. ASSUME NEW r \in Requests, Release(r) PROVE FlashInv'
    BY <1>4 DEF Release, Go, At, venueVars, closeVars, history, TypeOK, FlashInv, MayCome, Lost
  <1>5. ASSUME NEW r \in Requests, CheckChain(r) PROVE FlashInv'
    <2>1. /\ UNCHANGED <<rail, order, held, unheard>>
          /\ pc[r] = "reserved" /\ rail[r] = "flash" /\ Critical(r)
      BY <1>5 DEF CheckChain, At, venueVars, history, Critical, Running, Over, Reserves
    <2>2. \A q \in Requests : q # r => pc'[q] = pc[q]  BY <1>5 DEF CheckChain, Go, TypeOK
    <2>3. pc'[r] \in {"order", "release"}  BY <1>5 DEF CheckChain, Go, TypeOK
    <2>4. ASSUME NEW q \in Requests, q # r, rail[q] = "flash", MayCome(q), pc'[r] = "order"
          PROVE  Lost(q)
      <3>1. q \notin held
        <4>1. pc'[r] = "order" => Position(r) = {}  BY <1>5 DEF CheckChain, Go, TypeOK
        <4> QED BY <2>1, <2>4, <4>1 DEF Position, Venue
      <3>2. ~Critical(q)  BY <2>1, <2>4 DEF LockInv
      <3>3. ~At(q, "order") /\ ~At(q, "wait")
        BY <2>4, <3>2 DEF Critical, Running, Over, Reserves, At
      <3> QED BY <2>4, <3>1, <3>3 DEF MayCome, OrderShape, Lost
    <2>5. \A q \in Requests : (Lost(q) /\ q # r => Lost(q)') /\ (MayCome(q)' /\ q # r => MayCome(q))
      BY <2>1, <2>2 DEF Lost, MayCome, At
    <2>6. ~Lost(r)  BY <2>1 DEF Lost, OrderShape, At
    <2>7. MayCome(r)' => pc'[r] = "order"  BY <2>1, <2>3 DEF MayCome, OrderShape, At
    <2> QED BY <2>1, <2>4, <2>5, <2>6, <2>7 DEF FlashInv
  <1>6. ASSUME NEW r \in Requests, InsertPending(r) PROVE FlashInv'
    BY <1>6 DEF InsertPending, BestEffort, Go, At, lockVars, venueVars, closeVars, history,
       TypeOK, FlashInv, MayCome, Lost
  <1>7. ASSUME NEW r \in Requests, Send(r) PROVE FlashInv'
    BY <1>7 DEF Send, Go, At, lockVars, closeVars, history, TypeOK, FlashInv, MayCome, Lost
  <1>8. ASSUME NEW r \in Requests, Answered(r) PROVE FlashInv'
    BY <1>8 DEF Answered, Go, At, lockVars, venueVars, closeVars, history, TypeOK, FlashInv,
       MayCome, Lost
  <1>9. ASSUME NEW r \in Requests, TakenForOpen(r) PROVE FlashInv'
    BY <1>9 DEF TakenForOpen, Go, At, lockVars, venueVars, closeVars, TypeOK, FlashInv, MayCome,
       Lost
  <1>10. ASSUME NEW r \in Requests, Throws(r) PROVE FlashInv'
    BY <1>10 DEF Throws, Leave, Go, At, lockVars, venueVars, closeVars, TypeOK, FlashInv,
       MayCome, Lost, Reserves
  <1>11. ASSUME NEW r \in Requests, MarkFailed(r) PROVE FlashInv'
    BY <1>11 DEF MarkFailed, BestEffort, Go, At, lockVars, venueVars, closeVars, history, TypeOK,
       FlashInv, MayCome, Lost
  <1>12. ASSUME NEW r \in Requests, Record(r) PROVE FlashInv'
    BY <1>12 DEF Record, BestEffort, Leave, Go, At, lockVars, venueVars, closeVars, history,
       TypeOK, FlashInv, MayCome, Lost, Reserves
  <1>13. ASSUME NEW r \in Requests, Undo(r) PROVE FlashInv'
    BY <1>13 DEF Undo, Reductions, Position, Go, At, lockVars, closeVars, history, TypeOK,
       FlashInv, MayCome, Lost
  <1>14. ASSUME NEW r \in Requests, Review(r) PROVE FlashInv'
    BY <1>14 DEF Review, BestEffort, Go, At, lockVars, venueVars, closeVars, history, TypeOK,
       FlashInv, MayCome, Lost
  <1>15. ASSUME NEW r \in Requests, Block(r) PROVE FlashInv'
    BY <1>15 DEF Block, Go, At, venueVars, closeVars, history, TypeOK, FlashInv, MayCome, Lost
  <1>16. ASSUME NEW r \in Requests, Crash(r) PROVE FlashInv'
    BY <1>16 DEF Crash, Running, Over, Go, At, lockVars, venueVars, closeVars, history, TypeOK,
       FlashInv, MayCome, Lost
  <1>17. ASSUME NEW r \in Requests, Fill(r) PROVE FlashInv'
    BY <1>17 DEF Fill, Under, At, requestVars, lockVars, closeVars, TypeOK, FlashInv, MayCome,
       Lost
  <1>18. ASSUME NEW r \in Requests, Reject(r) PROVE FlashInv'
    BY <1>18 DEF Reject, At, requestVars, lockVars, closeVars, history, TypeOK, FlashInv,
       MayCome, Lost
  <1>19. ASSUME NEW r \in Requests, DiesOutside(r) PROVE FlashInv'
    BY <1>19 DEF DiesOutside, Position, At, requestVars, lockVars, closeVars, history, TypeOK,
       FlashInv, MayCome, Lost
  <1>20. ASSUME NEW c \in Closes, NEW r \in Requests, Decide(c, r) PROVE FlashInv'
    BY <1>20 DEF Decide, MayClose, At, requestVars, lockVars, venueVars, history, TypeOK,
       FlashInv, MayCome, Lost
  <1>21. ASSUME NEW c \in Closes, FoundGone(c) PROVE FlashInv'
    BY <1>21 DEF FoundGone, CloseRow, MayWrite, At, lockVars, venueVars, history, TypeOK,
       FlashInv, MayCome, Lost
  <1>22. ASSUME NEW c \in Closes, SendClose(c) PROVE FlashInv'
    BY <1>22 DEF SendClose, Position, At, requestVars, lockVars, venueVars, history, TypeOK,
       FlashInv, MayCome, Lost
  <1>23. ASSUME NEW c \in Closes, EndClose(c) PROVE FlashInv'
    BY <1>23 DEF EndClose, CloseRow, MayWrite, ResultOf, At, lockVars, venueVars, history,
       TypeOK, FlashInv, MayCome, Lost
  <1>24. ASSUME NEW c \in Closes, CloseThrows(c) PROVE FlashInv'
    BY <1>24 DEF CloseThrows, At, requestVars, lockVars, venueVars, history, TypeOK, FlashInv,
       MayCome, Lost
  <1>25. ASSUME NEW c \in Closes, Reduce(c) PROVE FlashInv'
    BY <1>25 DEF Reduce, Reductions, Position, At, requestVars, lockVars, history, TypeOK,
       FlashInv, MayCome, Lost
  <1>26. ASSUME NEW c \in Closes, RejectClose(c) PROVE FlashInv'
    BY <1>26 DEF RejectClose, At, requestVars, lockVars, venueVars, history, TypeOK, FlashInv,
       MayCome, Lost
  <1>27. ASSUME Expire PROVE FlashInv'
    BY <1>27 DEF Expire, MayExpire, At, requestVars, venueVars, closeVars, history, TypeOK,
       FlashInv, MayCome, Lost, Over
  <1>28. CASE UNCHANGED vars
    BY <1>28 DEF vars, At, requestVars, lockVars, venueVars, closeVars, history, TypeOK,
       FlashInv, MayCome, Lost
  <1> QED
    BY <1>1, <1>2, <1>3, <1>4, <1>5, <1>6, <1>7, <1>8, <1>9, <1>10, <1>11, <1>12, <1>13, <1>14,
       <1>15, <1>16, <1>17, <1>18, <1>19, <1>20, <1>21, <1>22, <1>23, <1>24, <1>25, <1>26, <1>27,
       <1>28, NextCases

\* Nobody orders beside an unresolved whale tail.
LEMMA BlockKept ==
  ASSUME SlowRequests = FALSE, TypeOK, RailShape, OrderShape, RowShape, CloseShape, LockInv,
         BlockInv, [Next]_vars
  PROVE  BlockInv'
  <1>1. ASSUME NEW r \in Requests, Guard(r) PROVE BlockInv'
    BY <1>1 DEF Guard, HasOpenTail, Go, At, venueVars, closeVars, history, TypeOK, OrderShape,
       BlockInv, Unresolved, Running, Over, Venue, Blocking, Reserves
  <1>2. ASSUME NEW r \in Requests, Reserve(r) PROVE BlockInv'
    BY <1>2 DEF Reserve, TakeLock, LockIsFree, Go, At, venueVars, closeVars, history, TypeOK,
       BlockInv, Unresolved, Running, Over, Venue, Reserves
  <1>3. ASSUME NEW r \in Requests, ReserveRefused(r) PROVE BlockInv'
    BY <1>3 DEF ReserveRefused, TakeLock, LockIsFree, lockVars, Go, At, venueVars, closeVars,
       history, TypeOK, OrderShape, BlockInv, Unresolved, Running, Over, Venue, Reserves
  <1>4. ASSUME NEW r \in Requests, Release(r) PROVE BlockInv'
    BY <1>4 DEF Release, Go, At, venueVars, closeVars, history, TypeOK, RailShape, RowShape,
       LockInv, BlockInv, Unresolved, Critical, Running, Over, Venue, Reserves
  <1>5. ASSUME NEW r \in Requests, CheckChain(r) PROVE BlockInv'
    BY <1>5 DEF CheckChain, Go, At, lockVars, venueVars, closeVars, history, TypeOK, BlockInv,
       Unresolved, Running, Over, Venue, Reserves
  <1>6. ASSUME NEW r \in Requests, InsertPending(r) PROVE BlockInv'
    BY <1>6 DEF InsertPending, BestEffort, Go, At, lockVars, venueVars, closeVars, history,
       TypeOK, BlockInv, Unresolved, Running, Over, Venue, Reserves
  <1>7. ASSUME NEW r \in Requests, Send(r) PROVE BlockInv'
    BY <1>7 DEF Send, Go, At, lockVars, closeVars, history, TypeOK, BlockInv, Unresolved,
       Running, Over, Venue, Reserves
  <1>8. ASSUME NEW r \in Requests, Answered(r) PROVE BlockInv'
    BY <1>8 DEF Answered, Go, At, lockVars, venueVars, closeVars, history, TypeOK, BlockInv,
       Unresolved, Running, Over, Venue, Reserves
  <1>9. ASSUME NEW r \in Requests, TakenForOpen(r) PROVE BlockInv'
    BY <1>9 DEF TakenForOpen, Go, At, lockVars, venueVars, closeVars, TypeOK, BlockInv,
       Unresolved, Running, Over, Venue, Reserves
  <1>10. ASSUME NEW r \in Requests, Throws(r) PROVE BlockInv'
    BY <1>10 DEF Throws, Leave, Go, At, lockVars, venueVars, closeVars, TypeOK, BlockInv,
       Unresolved, Running, Over, Venue, Reserves
  <1>11. ASSUME NEW r \in Requests, MarkFailed(r) PROVE BlockInv'
    BY <1>11 DEF MarkFailed, BestEffort, Go, At, lockVars, venueVars, closeVars, history, TypeOK,
       BlockInv, Unresolved, Running, Over, Venue, Reserves
  <1>12. ASSUME NEW r \in Requests, Record(r) PROVE BlockInv'
    BY <1>12 DEF Record, BestEffort, Leave, Go, At, lockVars, venueVars, closeVars, history,
       TypeOK, BlockInv, Unresolved, Running, Over, Venue, Reserves
  <1>13. ASSUME NEW r \in Requests, Undo(r) PROVE BlockInv'
    BY <1>13 DEF Undo, Reductions, Position, Go, At, lockVars, closeVars, history, TypeOK,
       BlockInv, Unresolved, Running, Over, Venue, Reserves
  <1>14. ASSUME NEW r \in Requests, Review(r) PROVE BlockInv'
    BY <1>14 DEF Review, BestEffort, Go, At, lockVars, venueVars, closeVars, history, TypeOK,
       BlockInv, Unresolved, Running, Over, Venue, Reserves
  <1>15. ASSUME NEW r \in Requests, Block(r) PROVE BlockInv'
    BY <1>15 DEF Block, Go, At, venueVars, closeVars, history, TypeOK, LockInv, BlockInv,
       Unresolved, Critical, Running, Over, Venue, Reserves
  <1>16. ASSUME NEW r \in Requests, Crash(r) PROVE BlockInv'
    BY <1>16 DEF Crash, Running, Over, Go, At, lockVars, venueVars, closeVars, history, TypeOK,
       OrderShape, LockInv, BlockInv, Unresolved, Critical, Venue, Reserves
  <1>17. ASSUME NEW r \in Requests, Fill(r) PROVE BlockInv'
    BY <1>17 DEF Fill, Under, At, requestVars, lockVars, closeVars, TypeOK, BlockInv,
       Unresolved, Running, Over, Venue, Reserves
  <1>18. ASSUME NEW r \in Requests, Reject(r) PROVE BlockInv'
    BY <1>18 DEF Reject, At, requestVars, lockVars, closeVars, history, TypeOK, BlockInv,
       Unresolved, Running, Over, Venue, Reserves
  <1>19. ASSUME NEW r \in Requests, DiesOutside(r) PROVE BlockInv'
    BY <1>19 DEF DiesOutside, Position, At, requestVars, lockVars, closeVars, history, TypeOK,
       BlockInv, Unresolved, Running, Over, Venue, Reserves
  <1>20. ASSUME NEW c \in Closes, NEW r \in Requests, Decide(c, r) PROVE BlockInv'
    BY <1>20 DEF Decide, requestVars, lockVars, venueVars, history, TypeOK, BlockInv, Unresolved,
       Running, Over, Venue
  <1>21. ASSUME NEW c \in Closes, FoundGone(c) PROVE BlockInv'
    BY <1>21, RowClosed DEF FoundGone, lockVars, venueVars, history, TypeOK, BlockInv,
       Unresolved, Running, Over, At, Venue
  <1>22. ASSUME NEW c \in Closes, SendClose(c) PROVE BlockInv'
    BY <1>22 DEF SendClose, requestVars, lockVars, venueVars, history, TypeOK, BlockInv,
       Unresolved, Running, Over, Venue
  <1>23. ASSUME NEW c \in Closes, EndClose(c) PROVE BlockInv'
    BY <1>23, RowClosed DEF EndClose, lockVars, venueVars, history, TypeOK, BlockInv, Unresolved,
       Running, Over, At, Venue
  <1>24. ASSUME NEW c \in Closes, CloseThrows(c) PROVE BlockInv'
    BY <1>24 DEF CloseThrows, At, requestVars, lockVars, venueVars, history, TypeOK, BlockInv,
       Unresolved, Running, Over, Venue, Reserves
  <1>25. ASSUME NEW c \in Closes, Reduce(c) PROVE BlockInv'
    BY <1>25 DEF Reduce, Reductions, Position, At, requestVars, lockVars, history, TypeOK,
       BlockInv, Unresolved, Running, Over, Venue, Reserves
  <1>26. ASSUME NEW c \in Closes, RejectClose(c) PROVE BlockInv'
    BY <1>26 DEF RejectClose, At, requestVars, lockVars, venueVars, history, TypeOK, BlockInv,
       Unresolved, Running, Over, Venue, Reserves
  <1>27. ASSUME Expire PROVE BlockInv'
    BY <1>27 DEF Expire, MayExpire, At, requestVars, venueVars, closeVars, history, TypeOK,
       BlockInv, Unresolved, Running, Over, Venue, Reserves
  <1>28. CASE UNCHANGED vars
    BY <1>28 DEF vars, At, requestVars, lockVars, venueVars, closeVars, history, TypeOK,
       BlockInv, Unresolved, Running, Over, Venue, Reserves
  <1> QED
    BY <1>1, <1>2, <1>3, <1>4, <1>5, <1>6, <1>7, <1>8, <1>9, <1>10, <1>11, <1>12, <1>13, <1>14,
       <1>15, <1>16, <1>17, <1>18, <1>19, <1>20, <1>21, <1>22, <1>23, <1>24, <1>25, <1>26, <1>27,
       <1>28, NextCases

\* An order takes all that is left of what its close has seen, and all there is where the
\* close has seen all of it.
LEMMA WhatIsTaken ==
  ASSUME TypeOK, NEW r \in Requests, NEW seen \in SUBSET Requests, NEW x \in Reductions(r, seen)
  PROVE  /\ x \subseteq Position(r) /\ seen \cap Position(r) \subseteq x
         /\ Position(r) \subseteq seen => x = Position(r)
  <1>1. /\ x \subseteq Position(r) /\ (Cardinality(x) = Cardinality(seen) \/ x = Position(r))
        /\ seen \cap held \subseteq x \/ x \subseteq seen
    BY DEF Reductions
  <1>2. IsFiniteSet(seen)  BY CopyTailsAssumption, FS_Subset
  <1>3. Cardinality(x) = Cardinality(seen) /\ x \subseteq seen => x = seen  BY <1>2, FS_Subset
  <1>4. Position(r) \subseteq held  BY DEF Position
  <1> QED BY <1>1, <1>3, <1>4

\* A close leaves nothing of what it has seen, and takes the whole position of its row unless
\* the market was entered again under it.
LEMMA ReduceMoves ==
  ASSUME TypeOK, CloseShape, SeenInv, NEW c \in Closes, Reduce(c)
  PROVE  LET r == close[c].of IN
         /\ r \in Requests /\ shut[c] = "flight" /\ close[c].pc \in {"wait", "over"}
         /\ shut' = [shut EXCEPT ![c] = "done"]
         /\ close'[c].pc = close[c].pc /\ close'[c].of = r /\ close'[c].seen = close[c].seen
         /\ held' = held \ close'[c].took
         /\ close'[c].took # {} /\ close'[c].took \subseteq Position(r)
         /\ close[c].seen \cap Position(r) \subseteq close'[c].took
         /\ \/ close'[c].took = Position(r) /\ Position(r) \subseteq close[c].seen
            \/ Position(r) \cup {r} \subseteq crossed
         /\ \A d \in Closes : d # c => close'[d] = close[d]
         /\ UNCHANGED <<rail, requestVars, proceeds, lockVars, order, history>>
  <1>1. PICK x \in Reductions(close[c].of, close[c].seen) \ {{}} :
          held' = held \ x /\ close' = [close EXCEPT ![c].took = x]
    BY DEF Reduce
  <1>2. close[c].of \in Requests /\ shut[c] = "flight" /\ close[c].pc \in {"wait", "over"}
    BY CloseRecTypes DEF Reduce, CloseShape, CloseRecs
  <1>3. close[c].seen \in SUBSET Requests  BY CloseRecTypes DEF CloseRecs
  <1>4. /\ x \subseteq Position(close[c].of) /\ close[c].seen \cap Position(close[c].of) \subseteq x
        /\ Position(close[c].of) \subseteq close[c].seen => x = Position(close[c].of)
    BY <1>1, <1>2, <1>3, WhatIsTaken
  <1>5. x # {} /\ x \in SUBSET Requests  BY <1>1, <1>4 DEF Position, TypeOK
  <1>6. /\ close'[c].pc = close[c].pc /\ close'[c].of = close[c].of
        /\ close'[c].seen = close[c].seen
        /\ close'[c].took = x /\ \A d \in Closes : d # c => close'[d] = close[d]
    BY <1>1, <1>5, CloseRecTypes DEF CloseRecs
  <1>7. /\ shut' = [shut EXCEPT ![c] = "done"]
        /\ UNCHANGED <<rail, requestVars, proceeds, lockVars, order, history>>
    BY DEF Reduce
  <1>8. \/ Position(close[c].of) \subseteq close[c].seen
        \/ Position(close[c].of) \cup {close[c].of} \subseteq crossed
    BY <1>2 DEF SeenInv
  <1>9. \/ x = Position(close[c].of) /\ Position(close[c].of) \subseteq close[c].seen
        \/ Position(close[c].of) \cup {close[c].of} \subseteq crossed
    BY <1>4, <1>8
  <1> QED BY <1>1, <1>2, <1>4, <1>5, <1>6, <1>7, <1>9

\* A closed row holds nothing.
LEMMA ClosedKept ==
  ASSUME TypeOK, RailShape, OrderShape, RowShape, CloseShape, SeenInv,
         ClosedRowsHoldNothing, [Next]_vars
  PROVE  ClosedRowsHoldNothing'
  <1>1. ASSUME NEW r \in Requests, Guard(r) PROVE ClosedRowsHoldNothing'
    BY <1>1 DEF Guard, HasOpenTail, Go, At, venueVars, closeVars, history, TypeOK,
       ClosedRowsHoldNothing
  <1>2. ASSUME NEW r \in Requests, Reserve(r) PROVE ClosedRowsHoldNothing'
    BY <1>2 DEF Reserve, TakeLock, LockIsFree, Go, At, venueVars, closeVars, history, TypeOK,
       ClosedRowsHoldNothing, Reserves
  <1>3. ASSUME NEW r \in Requests, ReserveRefused(r) PROVE ClosedRowsHoldNothing'
    BY <1>3 DEF ReserveRefused, TakeLock, LockIsFree, lockVars, Go, At, venueVars, closeVars,
       history, TypeOK, ClosedRowsHoldNothing, Reserves
  <1>4. ASSUME NEW r \in Requests, Release(r) PROVE ClosedRowsHoldNothing'
    BY <1>4 DEF Release, Go, At, venueVars, closeVars, history, TypeOK, ClosedRowsHoldNothing
  <1>5. ASSUME NEW r \in Requests, CheckChain(r) PROVE ClosedRowsHoldNothing'
    BY <1>5 DEF CheckChain, Go, At, lockVars, venueVars, closeVars, history, TypeOK,
       ClosedRowsHoldNothing, Position
  <1>6. ASSUME NEW r \in Requests, InsertPending(r) PROVE ClosedRowsHoldNothing'
    BY <1>6 DEF InsertPending, BestEffort, Go, At, lockVars, venueVars, closeVars, history,
       TypeOK, ClosedRowsHoldNothing
  <1>7. ASSUME NEW r \in Requests, Send(r) PROVE ClosedRowsHoldNothing'
    BY <1>7 DEF Send, Go, At, lockVars, closeVars, history, TypeOK, ClosedRowsHoldNothing
  <1>8. ASSUME NEW r \in Requests, Answered(r) PROVE ClosedRowsHoldNothing'
    BY <1>8 DEF Answered, Go, At, lockVars, venueVars, closeVars, history, TypeOK,
       ClosedRowsHoldNothing
  <1>9. ASSUME NEW r \in Requests, TakenForOpen(r) PROVE ClosedRowsHoldNothing'
    BY <1>9 DEF TakenForOpen, Go, At, lockVars, venueVars, closeVars, TypeOK,
       ClosedRowsHoldNothing, Position
  <1>10. ASSUME NEW r \in Requests, Throws(r) PROVE ClosedRowsHoldNothing'
    BY <1>10 DEF Throws, Leave, Go, At, lockVars, venueVars, closeVars, TypeOK,
       ClosedRowsHoldNothing, Reserves
  <1>11. ASSUME NEW r \in Requests, MarkFailed(r) PROVE ClosedRowsHoldNothing'
    BY <1>11 DEF MarkFailed, BestEffort, Go, At, lockVars, venueVars, closeVars, history, TypeOK,
       ClosedRowsHoldNothing
  <1>12. ASSUME NEW r \in Requests, Record(r) PROVE ClosedRowsHoldNothing'
    BY <1>12 DEF Record, BestEffort, Leave, Go, At, lockVars, venueVars, closeVars, history,
       TypeOK, ClosedRowsHoldNothing, Reserves
  <1>13. ASSUME NEW r \in Requests, Undo(r) PROVE ClosedRowsHoldNothing'
    BY <1>13 DEF Undo, Reductions, Position, Go, At, lockVars, closeVars, history, TypeOK,
       ClosedRowsHoldNothing
  <1>14. ASSUME NEW r \in Requests, Review(r) PROVE ClosedRowsHoldNothing'
    BY <1>14 DEF Review, BestEffort, Go, At, lockVars, venueVars, closeVars, history, TypeOK,
       ClosedRowsHoldNothing
  <1>15. ASSUME NEW r \in Requests, Block(r) PROVE ClosedRowsHoldNothing'
    BY <1>15 DEF Block, Go, At, venueVars, closeVars, history, TypeOK, ClosedRowsHoldNothing
  <1>16. ASSUME NEW r \in Requests, Crash(r) PROVE ClosedRowsHoldNothing'
    BY <1>16 DEF Crash, Running, Over, Go, At, lockVars, venueVars, closeVars, history, TypeOK,
       ClosedRowsHoldNothing
  <1>17. ASSUME NEW r \in Requests, Fill(r) PROVE ClosedRowsHoldNothing'
    BY <1>17 DEF Fill, Under, At, requestVars, lockVars, closeVars, TypeOK, RowShape,
       WasConfirmed, ClosedRowsHoldNothing
  <1>18. ASSUME NEW r \in Requests, Reject(r) PROVE ClosedRowsHoldNothing'
    BY <1>18 DEF Reject, At, requestVars, lockVars, closeVars, history, TypeOK,
       ClosedRowsHoldNothing
  <1>19. ASSUME NEW r \in Requests, DiesOutside(r) PROVE ClosedRowsHoldNothing'
    BY <1>19 DEF DiesOutside, Position, At, requestVars, lockVars, closeVars, history, TypeOK,
       ClosedRowsHoldNothing
  <1>20. ASSUME NEW c \in Closes, NEW r \in Requests, Decide(c, r) PROVE ClosedRowsHoldNothing'
    BY <1>20 DEF Decide, MayClose, At, requestVars, lockVars, venueVars, history, TypeOK,
       ClosedRowsHoldNothing
  <1>21. ASSUME NEW c \in Closes, FoundGone(c) PROVE ClosedRowsHoldNothing'
    <2>1. close[c].of \in Requests /\ close[c].of \notin held
      BY <1>21 DEF FoundGone, CloseShape, Position
    <2>2. CloseRow(c) /\ UNCHANGED <<held, unheard>>  BY <1>21 DEF FoundGone, venueVars, history
    <2> QED BY <2>1, <2>2, RowClosed DEF ClosedRowsHoldNothing, TypeOK
  <1>22. ASSUME NEW c \in Closes, SendClose(c) PROVE ClosedRowsHoldNothing'
    BY <1>22 DEF SendClose, Position, At, requestVars, lockVars, venueVars, history, TypeOK,
       ClosedRowsHoldNothing
  <1>23. ASSUME NEW c \in Closes, EndClose(c) PROVE ClosedRowsHoldNothing'
    <2>1. close[c].of \in Requests /\ close[c].of \notin held \ unheard
      BY <1>23 DEF EndClose, CloseShape, SeenInv, Position
    <2>2. CloseRow(c) /\ UNCHANGED <<held, unheard>>  BY <1>23 DEF EndClose, venueVars, history
    <2> QED BY <2>1, <2>2, RowClosed DEF ClosedRowsHoldNothing, TypeOK
  <1>24. ASSUME NEW c \in Closes, CloseThrows(c) PROVE ClosedRowsHoldNothing'
    BY <1>24 DEF CloseThrows, At, requestVars, lockVars, venueVars, history, TypeOK,
       ClosedRowsHoldNothing
  <1>25. ASSUME NEW c \in Closes, Reduce(c) PROVE ClosedRowsHoldNothing'
    BY <1>25 DEF Reduce, Reductions, Position, At, requestVars, lockVars, history, TypeOK,
       ClosedRowsHoldNothing
  <1>26. ASSUME NEW c \in Closes, RejectClose(c) PROVE ClosedRowsHoldNothing'
    BY <1>26 DEF RejectClose, At, requestVars, lockVars, venueVars, history, TypeOK,
       ClosedRowsHoldNothing
  <1>27. ASSUME Expire PROVE ClosedRowsHoldNothing'
    BY <1>27 DEF Expire, MayExpire, At, requestVars, venueVars, closeVars, history, TypeOK,
       ClosedRowsHoldNothing
  <1>28. CASE UNCHANGED vars
    BY <1>28 DEF vars, At, requestVars, lockVars, venueVars, closeVars, history, TypeOK,
       ClosedRowsHoldNothing
  <1> QED
    BY <1>1, <1>2, <1>3, <1>4, <1>5, <1>6, <1>7, <1>8, <1>9, <1>10, <1>11, <1>12, <1>13, <1>14,
       <1>15, <1>16, <1>17, <1>18, <1>19, <1>20, <1>21, <1>22, <1>23, <1>24, <1>25, <1>26, <1>27,
       <1>28, NextCases

\* What comes to a position under a close of it is crossed, and the close leaves nothing of
\* what it has seen.
LEMMA SeenKept ==
  ASSUME TypeOK, RailShape, OrderShape, RowShape, CloseShape, SeenInv,
         [Next]_vars
  PROVE  SeenInv'
  <1>1. ASSUME NEW r \in Requests, Guard(r) PROVE SeenInv'
    BY <1>1 DEF Guard, HasOpenTail, Go, At, venueVars, closeVars, history, TypeOK, SeenInv,
       Position, Venue
  <1>2. ASSUME NEW r \in Requests, Reserve(r) PROVE SeenInv'
    BY <1>2 DEF Reserve, TakeLock, LockIsFree, Go, At, venueVars, closeVars, history, TypeOK,
       SeenInv, Position, Venue, Reserves
  <1>3. ASSUME NEW r \in Requests, ReserveRefused(r) PROVE SeenInv'
    BY <1>3 DEF ReserveRefused, TakeLock, LockIsFree, lockVars, Go, At, venueVars, closeVars,
       history, TypeOK, SeenInv, Position, Venue, Reserves
  <1>4. ASSUME NEW r \in Requests, Release(r) PROVE SeenInv'
    BY <1>4 DEF Release, Go, At, venueVars, closeVars, history, TypeOK, SeenInv, Position, Venue
  <1>5. ASSUME NEW r \in Requests, CheckChain(r) PROVE SeenInv'
    BY <1>5 DEF CheckChain, Go, At, lockVars, venueVars, closeVars, history, TypeOK, SeenInv,
       Position, Venue
  <1>6. ASSUME NEW r \in Requests, InsertPending(r) PROVE SeenInv'
    BY <1>6 DEF InsertPending, BestEffort, Go, At, lockVars, venueVars, closeVars, history,
       TypeOK, SeenInv, Position, Venue
  <1>7. ASSUME NEW r \in Requests, Send(r) PROVE SeenInv'
    BY <1>7 DEF Send, Go, At, lockVars, closeVars, history, TypeOK, SeenInv, Position, Venue
  <1>8. ASSUME NEW r \in Requests, Answered(r) PROVE SeenInv'
    BY <1>8 DEF Answered, Go, At, lockVars, venueVars, closeVars, history, TypeOK, SeenInv,
       Position, Venue
  <1>9. ASSUME NEW r \in Requests, TakenForOpen(r) PROVE SeenInv'
    BY <1>9 DEF TakenForOpen, Go, At, lockVars, venueVars, closeVars, TypeOK, SeenInv, Position,
       Venue
  <1>10. ASSUME NEW r \in Requests, Throws(r) PROVE SeenInv'
    BY <1>10 DEF Throws, Leave, Go, At, lockVars, venueVars, closeVars, TypeOK, SeenInv,
       Position, Venue, Reserves
  <1>11. ASSUME NEW r \in Requests, MarkFailed(r) PROVE SeenInv'
    BY <1>11 DEF MarkFailed, BestEffort, Go, At, lockVars, venueVars, closeVars, history, TypeOK,
       SeenInv, Position, Venue
  <1>12. ASSUME NEW r \in Requests, Record(r) PROVE SeenInv'
    BY <1>12 DEF Record, BestEffort, Leave, Go, At, lockVars, venueVars, closeVars, history,
       TypeOK, SeenInv, Position, Venue, Reserves
  <1>13. ASSUME NEW r \in Requests, Undo(r) PROVE SeenInv'
    BY <1>13 DEF Undo, Reductions, Position, Go, At, lockVars, closeVars, history, TypeOK,
       SeenInv, Venue
  <1>14. ASSUME NEW r \in Requests, Review(r) PROVE SeenInv'
    BY <1>14 DEF Review, BestEffort, Go, At, lockVars, venueVars, closeVars, history, TypeOK,
       SeenInv, Position, Venue
  <1>15. ASSUME NEW r \in Requests, Block(r) PROVE SeenInv'
    BY <1>15 DEF Block, Go, At, venueVars, closeVars, history, TypeOK, SeenInv, Position, Venue
  <1>16. ASSUME NEW r \in Requests, Crash(r) PROVE SeenInv'
    BY <1>16 DEF Crash, Running, Over, Go, At, lockVars, venueVars, closeVars, history, TypeOK,
       SeenInv, Position, Venue
  <1>17. ASSUME NEW r \in Requests, Fill(r) PROVE SeenInv'
    <2>1. /\ order[r] = "flight" /\ held' = held \cup {r}
          /\ crossed' = crossed \cup UNION {{r, close[c].of} \cup close[c].seen : c \in Under(r)}
          /\ UNCHANGED <<rail, unheard, close, shut>>
      BY <1>17 DEF Fill, closeVars
    <2> SUFFICES ASSUME NEW d \in Closes
                 PROVE  /\ shut[d] = "flight" =>
                              \/ Position(close[d].of)' \subseteq close[d].seen
                              \/ Position(close[d].of)' \cup {close[d].of} \cup close[d].seen
                                    \subseteq crossed'
                        /\ close[d].pc = "wait" /\ close[d].of \in held' \ unheard =>
                              close[d].of \in close[d].seen /\ shut[d] # "done"
      BY <2>1 DEF SeenInv, Position, Venue
    <2>2. ASSUME shut[d] = "flight", Venue(close[d].of) = Venue(r)
          PROVE  Position(close[d].of)' \cup {close[d].of} \cup close[d].seen \subseteq crossed'
      <3>1. d \in Under(r)  BY <2>2 DEF Under
      <3>2. {r, close[d].of} \cup close[d].seen \subseteq crossed'  BY <2>1, <3>1
      <3>3. Position(close[d].of)' \subseteq Position(close[d].of) \cup {r}
        BY <2>1 DEF Position, Venue
      <3>4. Position(close[d].of) \subseteq close[d].seen \cup crossed  BY <2>2 DEF SeenInv
      <3> QED BY <2>1, <3>2, <3>3, <3>4
    <2>3. ASSUME shut[d] = "flight", Venue(close[d].of) # Venue(r)
          PROVE  \/ Position(close[d].of)' \subseteq close[d].seen
                 \/ Position(close[d].of)' \cup {close[d].of} \cup close[d].seen \subseteq crossed'
      <3>1. Position(close[d].of)' = Position(close[d].of)  BY <2>1, <2>3 DEF Position, Venue
      <3> QED BY <2>1, <2>3, <3>1 DEF SeenInv
    <2>4. close[d].pc = "wait" /\ close[d].of \in held' \ unheard =>
            close[d].of \in close[d].seen /\ shut[d] # "done"
      <3>1. close[d].pc = "wait" /\ close[d].of \notin unheard => close[d].of # r
        BY <2>1 DEF CloseShape, WasConfirmed
      <3> QED BY <2>1, <3>1 DEF SeenInv
    <2> QED BY <2>2, <2>3, <2>4
  <1>18. ASSUME NEW r \in Requests, Reject(r) PROVE SeenInv'
    BY <1>18 DEF Reject, At, requestVars, lockVars, closeVars, history, TypeOK, SeenInv,
       Position, Venue
  <1>19. ASSUME NEW r \in Requests, DiesOutside(r) PROVE SeenInv'
    BY <1>19 DEF DiesOutside, Position, At, requestVars, lockVars, closeVars, history, TypeOK,
       SeenInv, Venue
  <1>20. ASSUME NEW c \in Closes, NEW r \in Requests, Decide(c, r) PROVE SeenInv'
    BY <1>20 DEF Decide, MayClose, At, requestVars, lockVars, venueVars, history, TypeOK,
       SeenInv, Position, Venue
  <1>21. ASSUME NEW c \in Closes, FoundGone(c) PROVE SeenInv'
    BY <1>21 DEF FoundGone, CloseRow, MayWrite, At, lockVars, venueVars, history, TypeOK,
       SeenInv, Position, Venue
  <1>22. ASSUME NEW c \in Closes, SendClose(c) PROVE SeenInv'
    BY <1>22 DEF SendClose, Position, At, requestVars, lockVars, venueVars, history, TypeOK,
       SeenInv, Venue
  <1>23. ASSUME NEW c \in Closes, EndClose(c) PROVE SeenInv'
    BY <1>23 DEF EndClose, CloseRow, MayWrite, ResultOf, At, lockVars, venueVars, history,
       TypeOK, SeenInv, Position, Venue
  <1>24. ASSUME NEW c \in Closes, CloseThrows(c) PROVE SeenInv'
    BY <1>24 DEF CloseThrows, At, requestVars, lockVars, venueVars, history, TypeOK, SeenInv,
       Position, Venue
  <1>25. ASSUME NEW c \in Closes, Reduce(c) PROVE SeenInv'
    <2>1. /\ held' = held \ close'[c].took /\ shut[c] = "flight"
          /\ shut' = [shut EXCEPT ![c] = "done"] /\ UNCHANGED <<rail, unheard, crossed>>
          /\ close[c].seen \cap Position(close[c].of) \subseteq close'[c].took
      BY <1>25, ReduceMoves DEF history
    <2>2. \A d \in Closes : /\ close'[d].of = close[d].of /\ close'[d].pc = close[d].pc
                            /\ close'[d].seen = close[d].seen
      BY <1>25, ReduceMoves
    <2>3. close[c].of \in held => close[c].of \in Position(close[c].of)  BY DEF Position
    <2>4. close[c].pc = "wait" => close[c].of \notin held' \ unheard
      BY <2>1, <2>3 DEF SeenInv
    <2>5. \A d \in Closes : Position(close[d].of)' \subseteq Position(close[d].of)
      BY <2>1, <2>2 DEF Position, Venue
    <2> SUFFICES ASSUME NEW d \in Closes
                 PROVE  /\ shut'[d] = "flight" =>
                              \/ Position(close[d].of)' \subseteq close[d].seen
                              \/ Position(close[d].of)' \cup {close[d].of} \cup close[d].seen
                                    \subseteq crossed
                        /\ close[d].pc = "wait" /\ close[d].of \in held' \ unheard =>
                              close[d].of \in close[d].seen /\ shut'[d] # "done"
      BY <2>1, <2>2 DEF SeenInv, Position, Venue
    <2>6. CASE d = c  BY <2>1, <2>4, <2>6 DEF TypeOK
    <2>7. CASE d # c
      <3>1. shut'[d] = shut[d]  BY <2>1, <2>7 DEF TypeOK
      <3> QED BY <2>1, <2>5, <3>1 DEF SeenInv
    <2> QED BY <2>6, <2>7
  <1>26. ASSUME NEW c \in Closes, RejectClose(c) PROVE SeenInv'
    BY <1>26 DEF RejectClose, At, requestVars, lockVars, venueVars, history, TypeOK, SeenInv,
       Position, Venue
  <1>27. ASSUME Expire PROVE SeenInv'
    BY <1>27 DEF Expire, MayExpire, At, requestVars, venueVars, closeVars, history, TypeOK,
       SeenInv, Position, Venue
  <1>28. CASE UNCHANGED vars
    BY <1>28 DEF vars, At, requestVars, lockVars, venueVars, closeVars, history, TypeOK, SeenInv,
       Position, Venue
  <1> QED
    BY <1>1, <1>2, <1>3, <1>4, <1>5, <1>6, <1>7, <1>8, <1>9, <1>10, <1>11, <1>12, <1>13, <1>14,
       <1>15, <1>16, <1>17, <1>18, <1>19, <1>20, <1>21, <1>22, <1>23, <1>24, <1>25, <1>26, <1>27,
       <1>28, NextCases

\* Where nothing was stacked, a position is of one live row.
LEMMA AloneKept ==
  ASSUME TypeOK, RailShape, OrderShape, RowShape, CloseShape, SeenInv,
         ClosedRowsHoldNothing, AloneInv, [Next]_vars
  PROVE  AloneInv'
  <1>1. ASSUME NEW r \in Requests, Guard(r) PROVE AloneInv'
    BY <1>1 DEF Guard, HasOpenTail, Go, At, venueVars, closeVars, history, TypeOK,
       ClosedRowsHoldNothing, AloneInv, Left, Position, Venue
  <1>2. ASSUME NEW r \in Requests, Reserve(r) PROVE AloneInv'
    BY <1>2 DEF Reserve, TakeLock, LockIsFree, Go, At, venueVars, closeVars, history, TypeOK,
       ClosedRowsHoldNothing, AloneInv, Left, Position, Venue, Reserves
  <1>3. ASSUME NEW r \in Requests, ReserveRefused(r) PROVE AloneInv'
    BY <1>3 DEF ReserveRefused, TakeLock, LockIsFree, lockVars, Go, At, venueVars, closeVars,
       history, TypeOK, ClosedRowsHoldNothing, AloneInv, Left, Position, Venue, Reserves
  <1>4. ASSUME NEW r \in Requests, Release(r) PROVE AloneInv'
    BY <1>4 DEF Release, Go, At, venueVars, closeVars, history, TypeOK, ClosedRowsHoldNothing,
       AloneInv, Left, Position, Venue
  <1>5. ASSUME NEW r \in Requests, CheckChain(r) PROVE AloneInv'
    BY <1>5 DEF CheckChain, Go, At, lockVars, venueVars, closeVars, history, TypeOK,
       ClosedRowsHoldNothing, AloneInv, Left, Position, Venue
  <1>6. ASSUME NEW r \in Requests, InsertPending(r) PROVE AloneInv'
    BY <1>6 DEF InsertPending, BestEffort, Go, At, lockVars, venueVars, closeVars, history,
       TypeOK, RowShape, WasConfirmed, Past, ClosedRowsHoldNothing, AloneInv, Left, Position,
       Venue
  <1>7. ASSUME NEW r \in Requests, Send(r) PROVE AloneInv'
    BY <1>7 DEF Send, Go, At, lockVars, closeVars, history, TypeOK, ClosedRowsHoldNothing,
       AloneInv, Left, Position, Venue
  <1>8. ASSUME NEW r \in Requests, Answered(r) PROVE AloneInv'
    BY <1>8 DEF Answered, Go, At, lockVars, venueVars, closeVars, history, TypeOK,
       ClosedRowsHoldNothing, AloneInv, Left, Position, Venue
  <1>9. ASSUME NEW r \in Requests, TakenForOpen(r) PROVE AloneInv'
    BY <1>9 DEF TakenForOpen, Go, At, lockVars, venueVars, closeVars, TypeOK,
       ClosedRowsHoldNothing, AloneInv, Left, Position, Venue
  <1>10. ASSUME NEW r \in Requests, Throws(r) PROVE AloneInv'
    BY <1>10 DEF Throws, Leave, Go, At, lockVars, venueVars, closeVars, TypeOK,
       ClosedRowsHoldNothing, AloneInv, Left, Position, Venue, Reserves
  <1>11. ASSUME NEW r \in Requests, MarkFailed(r) PROVE AloneInv'
    BY <1>11 DEF MarkFailed, BestEffort, Go, At, lockVars, venueVars, closeVars, history, TypeOK,
       RailShape, RowShape, WasConfirmed, ClosedRowsHoldNothing, AloneInv, Left, Position, Venue
  <1>12. ASSUME NEW r \in Requests, Record(r) PROVE AloneInv'
    BY <1>12 DEF Record, BestEffort, Leave, Go, At, lockVars, venueVars, closeVars, history,
       TypeOK, RowShape, WasConfirmed, Past, ClosedRowsHoldNothing, AloneInv, Left, Position,
       Venue, Reserves
  <1>13. ASSUME NEW r \in Requests, Undo(r) PROVE AloneInv'
    BY <1>13 DEF Undo, Reductions, Position, Go, At, lockVars, closeVars, history, TypeOK,
       RailShape, ClosedRowsHoldNothing, AloneInv, Left, Venue
  <1>14. ASSUME NEW r \in Requests, Review(r) PROVE AloneInv'
    BY <1>14 DEF Review, BestEffort, Go, At, lockVars, venueVars, closeVars, history, TypeOK,
       RailShape, RowShape, WasConfirmed, ClosedRowsHoldNothing, AloneInv, Left, Position, Venue
  <1>15. ASSUME NEW r \in Requests, Block(r) PROVE AloneInv'
    BY <1>15 DEF Block, Go, At, venueVars, closeVars, history, TypeOK, ClosedRowsHoldNothing,
       AloneInv, Left, Position, Venue
  <1>16. ASSUME NEW r \in Requests, Crash(r) PROVE AloneInv'
    BY <1>16 DEF Crash, Running, Over, Go, At, lockVars, venueVars, closeVars, history, TypeOK,
       ClosedRowsHoldNothing, AloneInv, Left, Position, Venue
  <1>17. ASSUME NEW r \in Requests, Fill(r) PROVE AloneInv'
    <2> SUFFICES ASSUME ~stacked' PROVE AloneInv'  BY DEF AloneInv
    <2>1. /\ order[r] = "flight" /\ order' = [order EXCEPT ![r] = "done"]
          /\ held' = held \cup {r} /\ ~stacked /\ crossed \subseteq crossed'
          /\ UNCHANGED <<rail, row, unheard>>
      BY <1>17 DEF Fill, requestVars, TypeOK
    <2>2. \A q \in Requests : order[q] = "done" /\ Venue(q) = Venue(r) => row[q] = "closed"
      BY <1>17, <2>1 DEF Fill
    <2>3. \A q \in Requests : row[q] = "closed" => Left(q)  BY DEF Left, ClosedRowsHoldNothing
    <2>4. \A q \in Requests : q # r => (order'[q] = order[q] /\ (Left(q) => Left(q)'))
      BY <2>1 DEF Left, TypeOK
    <2>5. \A p, q \in Requests : (Venue(p) = Venue(q)) = (Venue(p) = Venue(q))'
      BY <2>1 DEF Venue
    <2>6. ASSUME NEW p \in Requests, NEW q \in Requests, p # q, Venue(p) = Venue(q),
                 order'[p] = "done", order'[q] = "done"
          PROVE  Left(p)' \/ Left(q)'
      <3>1. CASE p = r  BY <2>2, <2>3, <2>4, <2>6, <3>1
      <3>2. CASE q = r  BY <2>2, <2>3, <2>4, <2>6, <3>2
      <3>3. CASE p # r /\ q # r  BY <2>1, <2>4, <2>6, <3>3 DEF AloneInv
      <3> QED BY <3>1, <3>2, <3>3
    <2>7. ASSUME NEW q \in Requests, q \notin crossed, rail[q] = "flash", order'[q] = "done",
                 row[q] # "closed", q \notin held'
          PROVE  Position(q)' = {}
      <3>1. q # r /\ order[q] = "done" /\ Position(q) = {}  BY <2>1, <2>4, <2>7 DEF AloneInv
      <3>2. Venue(q) # Venue(r)  BY <2>2, <2>7, <3>1
      <3> QED BY <2>1, <3>1, <3>2 DEF Position, Venue
    <2> QED BY <2>1, <2>5, <2>6, <2>7 DEF AloneInv
  <1>18. ASSUME NEW r \in Requests, Reject(r) PROVE AloneInv'
    BY <1>18 DEF Reject, At, requestVars, lockVars, closeVars, history, TypeOK,
       ClosedRowsHoldNothing, AloneInv, Left, Position, Venue
  <1>19. ASSUME NEW r \in Requests, DiesOutside(r) PROVE AloneInv'
    BY <1>19 DEF DiesOutside, Position, At, requestVars, lockVars, closeVars, history, TypeOK,
       ClosedRowsHoldNothing, AloneInv, Left, Venue
  <1>20. ASSUME NEW c \in Closes, NEW r \in Requests, Decide(c, r) PROVE AloneInv'
    BY <1>20 DEF Decide, MayClose, At, requestVars, lockVars, venueVars, history, TypeOK,
       ClosedRowsHoldNothing, AloneInv, Left, Position, Venue
  <1>21. ASSUME NEW c \in Closes, FoundGone(c) PROVE AloneInv'
    BY <1>21 DEF FoundGone, CloseRow, MayWrite, At, lockVars, venueVars, history, TypeOK,
       ClosedRowsHoldNothing, AloneInv, Left, Position, Venue
  <1>22. ASSUME NEW c \in Closes, SendClose(c) PROVE AloneInv'
    BY <1>22 DEF SendClose, Position, At, requestVars, lockVars, venueVars, history, TypeOK,
       ClosedRowsHoldNothing, AloneInv, Left, Venue
  <1>23. ASSUME NEW c \in Closes, EndClose(c) PROVE AloneInv'
    BY <1>23 DEF EndClose, CloseRow, MayWrite, ResultOf, At, lockVars, venueVars, history,
       TypeOK, ClosedRowsHoldNothing, AloneInv, Left, Position, Venue
  <1>24. ASSUME NEW c \in Closes, CloseThrows(c) PROVE AloneInv'
    BY <1>24 DEF CloseThrows, At, requestVars, lockVars, venueVars, history, TypeOK,
       ClosedRowsHoldNothing, AloneInv, Left, Position, Venue
  <1>25. ASSUME NEW c \in Closes, Reduce(c) PROVE AloneInv'
    <2> SUFFICES ASSUME ~stacked PROVE AloneInv'  BY <1>25 DEF Reduce, history, AloneInv
    <2>1. /\ held' = held \ close'[c].took /\ close'[c].took \subseteq Position(close[c].of)
          /\ UNCHANGED <<rail, row, order, unheard, stacked, crossed>>
          /\ \/ close'[c].took = Position(close[c].of)
             \/ Position(close[c].of) \subseteq crossed
      BY <1>25, ReduceMoves DEF requestVars, history
    <2>2. \A q \in Requests : Left(q) => Left(q)'  BY <2>1 DEF Left
    <2>3. \A p, q \in Requests : Venue(p)' = Venue(p)  BY <2>1 DEF Venue
    <2>4. ASSUME NEW q \in Requests, q \notin crossed, rail[q] = "flash", order[q] = "done",
                 row[q] # "closed", q \notin held'
          PROVE  Position(q)' = {}
      <3>1. CASE q \notin held
        <4>1. Position(q) = {}  BY <2>4, <3>1 DEF AloneInv
        <4> QED BY <2>1, <4>1 DEF Position, Venue
      <3>2. CASE q \in held
        <4>1. q \in Position(close[c].of) /\ close'[c].took = Position(close[c].of)
          BY <2>1, <2>4, <3>2
        <4>2. Position(q) = Position(close[c].of)  BY <4>1 DEF Position
        <4> QED BY <2>1, <4>1, <4>2 DEF Position, Venue
      <3> QED BY <3>1, <3>2
    <2>5. \A p, q \in Requests :
            p # q /\ Venue(p) = Venue(q) /\ order[p] = "done" /\ order[q] = "done" =>
                Left(p)' \/ Left(q)'
      BY <2>2 DEF AloneInv
    <2> QED BY <2>1, <2>3, <2>4, <2>5 DEF AloneInv
  <1>26. ASSUME NEW c \in Closes, RejectClose(c) PROVE AloneInv'
    BY <1>26 DEF RejectClose, At, requestVars, lockVars, venueVars, history, TypeOK,
       ClosedRowsHoldNothing, AloneInv, Left, Position, Venue
  <1>27. ASSUME Expire PROVE AloneInv'
    BY <1>27 DEF Expire, MayExpire, At, requestVars, venueVars, closeVars, history, TypeOK,
       ClosedRowsHoldNothing, AloneInv, Left, Position, Venue
  <1>28. CASE UNCHANGED vars
    BY <1>28 DEF vars, At, requestVars, lockVars, venueVars, closeVars, history, TypeOK,
       ClosedRowsHoldNothing, AloneInv, Left, Position, Venue
  <1> QED
    BY <1>1, <1>2, <1>3, <1>4, <1>5, <1>6, <1>7, <1>8, <1>9, <1>10, <1>11, <1>12, <1>13, <1>14,
       <1>15, <1>16, <1>17, <1>18, <1>19, <1>20, <1>21, <1>22, <1>23, <1>24, <1>25, <1>26, <1>27,
       <1>28, NextCases

\* As long as no order was filled beside another, a confirmed row with an answer is that
\* of the position, if there is one.
LEMMA OwnThere ==
  ASSUME TypeOK, RailShape, OrderShape, RowShape, ClosedRowsHoldNothing, AloneInv, ~stacked,
         NEW r \in Requests, r \notin unheard \cup crossed, row[r] = "confirmed"
  PROVE  /\ r \in held \/ Position(r) = {}
         /\ rail[r] # "flash" => Position(r) \subseteq {r}
  <1>1. order[r] = "done"  BY DEF RowShape, WasConfirmed
  <1>2. rail[r] # "flash" => Position(r) \subseteq {r}
    <2> SUFFICES ASSUME rail[r] # "flash", NEW s \in Position(r), s # r PROVE FALSE
      OBVIOUS
    <2>1. s \in held /\ s \in Requests /\ Venue(s) = Venue(r)  BY DEF Position, TypeOK
    <2>2. order[s] = "done"  BY <2>1 DEF OrderShape
    <2>3. Left(s)  BY <1>1, <2>1, <2>2 DEF AloneInv, Left
    <2>4. rail[s] = "flash"  BY <2>1, <2>3 DEF Left, RowShape, WasConfirmed
    <2> QED BY <2>1, <2>4 DEF Venue
  <1>3. rail[r] = "flash" => r \in held \/ Position(r) = {}  BY <1>1 DEF AloneInv
  <1>4. rail[r] # "flash" => r \in held \/ Position(r) = {}  BY <1>2 DEF Position
  <1> QED BY <1>2, <1>3, <1>4

\* On Pacifica it is then alone.
LEMMA AloneAtPacifica ==
  ASSUME TypeOK, RailShape, OrderShape, RowShape, AloneInv, ~stacked,
         NEW r \in held, NEW s \in held, rail[r] # "flash", rail[s] # "flash"
  PROVE  r = s
  <1>1. r \in Requests /\ s \in Requests /\ Venue(r) = Venue(s)  BY DEF TypeOK, Venue
  <1>2. order[r] = "done" /\ order[s] = "done"  BY <1>1 DEF OrderShape
  <1>3. ~Left(r) /\ ~Left(s)  BY <1>1 DEF Left, RowShape, WasConfirmed
  <1> QED BY <1>1, <1>2, <1>3 DEF AloneInv

\* Closes act on their own exposure.
LEMMA OwnKept ==
  ASSUME TypeOK, RailShape, OrderShape, RowShape, CloseShape, SeenInv,
         ClosedRowsHoldNothing, AloneInv, OwnInv, [Next]_vars
  PROVE  OwnInv'
  <1>1. ASSUME NEW r \in Requests, Guard(r) PROVE OwnInv'
    BY <1>1 DEF Guard, HasOpenTail, Go, At, venueVars, closeVars, history, TypeOK, OwnInv,
       ActsOnOwn, MayWrite, Position, Venue
  <1>2. ASSUME NEW r \in Requests, Reserve(r) PROVE OwnInv'
    BY <1>2 DEF Reserve, TakeLock, LockIsFree, Go, At, venueVars, closeVars, history, TypeOK,
       OwnInv, ActsOnOwn, MayWrite, Position, Venue, Reserves
  <1>3. ASSUME NEW r \in Requests, ReserveRefused(r) PROVE OwnInv'
    BY <1>3 DEF ReserveRefused, TakeLock, LockIsFree, lockVars, Go, At, venueVars, closeVars,
       history, TypeOK, OwnInv, ActsOnOwn, MayWrite, Position, Venue, Reserves
  <1>4. ASSUME NEW r \in Requests, Release(r) PROVE OwnInv'
    BY <1>4 DEF Release, Go, At, venueVars, closeVars, history, TypeOK, OwnInv, ActsOnOwn,
       MayWrite, Position, Venue
  <1>5. ASSUME NEW r \in Requests, CheckChain(r) PROVE OwnInv'
    BY <1>5 DEF CheckChain, Go, At, lockVars, venueVars, closeVars, history, TypeOK, OwnInv,
       ActsOnOwn, MayWrite, Position, Venue
  <1>6. ASSUME NEW r \in Requests, InsertPending(r) PROVE OwnInv'
    BY <1>6 DEF InsertPending, BestEffort, Go, At, lockVars, venueVars, closeVars, history,
       TypeOK, CloseShape, OwnInv, ActsOnOwn, MayWrite, Position, Venue
  <1>7. ASSUME NEW r \in Requests, Send(r) PROVE OwnInv'
    BY <1>7 DEF Send, Go, At, lockVars, closeVars, history, TypeOK, OwnInv, ActsOnOwn, MayWrite,
       Position, Venue
  <1>8. ASSUME NEW r \in Requests, Answered(r) PROVE OwnInv'
    BY <1>8 DEF Answered, Go, At, lockVars, venueVars, closeVars, history, TypeOK, OwnInv,
       ActsOnOwn, MayWrite, Position, Venue
  <1>9. ASSUME NEW r \in Requests, TakenForOpen(r) PROVE OwnInv'
    BY <1>9 DEF TakenForOpen, Go, At, lockVars, venueVars, closeVars, TypeOK, OwnInv, ActsOnOwn,
       MayWrite, Position, Venue
  <1>10. ASSUME NEW r \in Requests, Throws(r) PROVE OwnInv'
    BY <1>10 DEF Throws, Leave, Go, At, lockVars, venueVars, closeVars, TypeOK, OwnInv,
       ActsOnOwn, MayWrite, Position, Venue, Reserves
  <1>11. ASSUME NEW r \in Requests, MarkFailed(r) PROVE OwnInv'
    BY <1>11 DEF MarkFailed, BestEffort, Go, At, lockVars, venueVars, closeVars, history, TypeOK,
       CloseShape, OwnInv, ActsOnOwn, MayWrite, Position, Venue
  <1>12. ASSUME NEW r \in Requests, Record(r) PROVE OwnInv'
    BY <1>12 DEF Record, BestEffort, Leave, Go, At, lockVars, venueVars, closeVars, history,
       TypeOK, CloseShape, WasConfirmed, Past, OwnInv, ActsOnOwn, MayWrite, Position, Venue,
       Reserves
  <1>13. ASSUME NEW r \in Requests, Undo(r) PROVE OwnInv'
    <2>1. /\ rail[r] = "whale"
          /\ UNCHANGED <<rail, row, order, unheard, stacked, crossed, close, shut>>
          /\ held' \subseteq held /\ \A s \in held \ held' : rail[s] # "flash"
      BY <1>13 DEF Undo, Reductions, Position, Venue, RailShape, At, history, closeVars, TypeOK
    <2> SUFFICES ASSUME NEW d \in Closes PROVE ActsOnOwn(d)'
      BY DEF OwnInv
    <2>2. ASSUME ~stacked, close[d].of \in Requests,
                 close[d].of \in held \/ Position(close[d].of) = {}
          PROVE  close[d].of \in held' \/ Position(close[d].of)' = {}
      <3>1. CASE close[d].of \in held'  BY <3>1
      <3>2. CASE Position(close[d].of) = {}  BY <2>1, <3>2 DEF Position, Venue
      <3>3. CASE close[d].of \in held \ held'
        <4>1. \A s \in held : rail[s] # "flash" => s = close[d].of
          BY <2>1, <2>2, <3>3, AloneAtPacifica
        <4> QED BY <2>1, <3>3, <4>1 DEF Position, Venue
      <3> QED BY <2>2, <3>1, <3>2, <3>3
    <2>3. close[d].pc = "read" => close[d].of \in Requests  BY DEF CloseShape
    <2> QED BY <2>1, <2>2, <2>3 DEF OwnInv, ActsOnOwn, MayWrite
  <1>14. ASSUME NEW r \in Requests, Review(r) PROVE OwnInv'
    BY <1>14 DEF Review, BestEffort, Go, At, lockVars, venueVars, closeVars, history, TypeOK,
       CloseShape, OwnInv, ActsOnOwn, MayWrite, Position, Venue
  <1>15. ASSUME NEW r \in Requests, Block(r) PROVE OwnInv'
    BY <1>15 DEF Block, Go, At, venueVars, closeVars, history, TypeOK, OwnInv, ActsOnOwn,
       MayWrite, Position, Venue
  <1>16. ASSUME NEW r \in Requests, Crash(r) PROVE OwnInv'
    BY <1>16 DEF Crash, Running, Over, Go, At, lockVars, venueVars, closeVars, history, TypeOK,
       OwnInv, ActsOnOwn, MayWrite, Position, Venue
  <1>17. ASSUME NEW r \in Requests, Fill(r) PROVE OwnInv'
    <2>1. /\ held' = held \cup {r} /\ (stacked => stacked') /\ crossed \subseteq crossed'
          /\ crossed' = crossed \cup UNION {{r, close[c].of} \cup close[c].seen : c \in Under(r)}
          /\ UNCHANGED <<rail, row, unheard, close, shut>>
      BY <1>17 DEF Fill, requestVars, closeVars, TypeOK
    <2> SUFFICES ASSUME NEW d \in Closes PROVE ActsOnOwn(d)'
      BY DEF OwnInv
    <2>2. ASSUME d \in Users, close[d].pc = "read", close[d].of \notin crossed',
                 close[d].of \in held \/ Position(close[d].of) = {}
          PROVE  close[d].of \in held' \/ Position(close[d].of)' = {}
      <3>1. Venue(close[d].of) # Venue(r)
        <4> SUFFICES ASSUME Venue(close[d].of) = Venue(r) PROVE FALSE  OBVIOUS
        <4>1. d \in Under(r)  BY <2>2 DEF Under
        <4> QED BY <2>1, <2>2, <4>1
      <3> QED BY <2>1, <2>2, <3>1 DEF Position, Venue
    <2> QED BY <2>1, <2>2 DEF OwnInv, ActsOnOwn, MayWrite, Closes
  <1>18. ASSUME NEW r \in Requests, Reject(r) PROVE OwnInv'
    BY <1>18 DEF Reject, At, requestVars, lockVars, closeVars, history, TypeOK, OwnInv,
       ActsOnOwn, MayWrite, Position, Venue
  <1>19. ASSUME NEW r \in Requests, DiesOutside(r) PROVE OwnInv'
    BY <1>19 DEF DiesOutside, Position, At, requestVars, lockVars, closeVars, history, TypeOK,
       OwnInv, ActsOnOwn, MayWrite, Venue
  <1>20. ASSUME NEW c \in Closes, NEW r \in Requests, Decide(c, r) PROVE OwnInv'
    <2>1. /\ UNCHANGED <<rail, row, order, held, unheard, stacked, crossed, shut>>
          /\ row[r] = "confirmed"
      BY <1>20 DEF Decide, MayClose, requestVars, venueVars, history
    <2>2. ActsOnOwn(c)'
      <3>1. ~stacked /\ r \notin unheard \cup crossed => r \in held \/ Position(r) = {}
        BY <2>1, OwnThere
      <3> QED BY <1>20, <2>1, <3>1, DecideMoves DEF ActsOnOwn, Position, Venue
    <2>3. ASSUME NEW d \in Closes, d # c PROVE ActsOnOwn(d)'
      <3>1. close'[d] = close[d]  BY <1>20, <2>3, DecideMoves
      <3> QED BY <2>1, <3>1 DEF OwnInv, ActsOnOwn, MayWrite, Position, Venue
    <2> QED BY <2>2, <2>3 DEF OwnInv
  <1>21. ASSUME NEW c \in Closes, FoundGone(c) PROVE OwnInv'
    BY <1>21 DEF FoundGone, CloseRow, MayWrite, At, lockVars, venueVars, history, TypeOK, OwnInv,
       ActsOnOwn, Position, Venue
  <1>22. ASSUME NEW c \in Closes, SendClose(c) PROVE OwnInv'
    <2>1. /\ UNCHANGED <<rail, row, order, held, unheard, stacked, crossed>>
          /\ shut' = [shut EXCEPT ![c] = "flight"]
          /\ close[c].pc = "read" /\ Position(close[c].of) # {}
      BY <1>22 DEF SendClose, requestVars, venueVars, history
    <2>2. ActsOnOwn(c)'
      <3> SUFFICES ASSUME ~stacked, close[c].of \notin unheard \cup crossed, MayWrite(c)
                   PROVE  /\ close[c].of \in Position(close[c].of)
                          /\ rail[close[c].of] # "flash" => Position(close[c].of) = {close[c].of}
        BY <1>22, <2>1, SendCloseMoves DEF ActsOnOwn, MayWrite, TypeOK
      <3>1. close[c].of \in Requests  BY <2>1 DEF CloseShape
      <3>2. close[c].of \in held
        <4>1. CASE c \in Users  BY <2>1, <4>1 DEF OwnInv, ActsOnOwn
        <4>2. CASE row[close[c].of] = "confirmed"  BY <2>1, <3>1, <4>2, OwnThere
        <4> QED BY <4>1, <4>2 DEF MayWrite
      <3>3. close[c].of \in Position(close[c].of)  BY <3>2 DEF Position
      <3>4. rail[close[c].of] # "flash" => \A s \in Position(close[c].of) : s = close[c].of
        BY <3>1, <3>2, AloneAtPacifica DEF Position, Venue
      <3> QED BY <3>3, <3>4
    <2>3. ASSUME NEW d \in Closes, d # c PROVE ActsOnOwn(d)'
      <3>1. close'[d] = close[d] /\ shut'[d] = shut[d]  BY <1>22, <2>1, <2>3, SendCloseMoves
      <3> QED BY <2>1, <3>1 DEF OwnInv, ActsOnOwn, MayWrite, Position, Venue
    <2> QED BY <2>2, <2>3 DEF OwnInv
  <1>23. ASSUME NEW c \in Closes, EndClose(c) PROVE OwnInv'
    BY <1>23 DEF EndClose, CloseRow, MayWrite, ResultOf, At, lockVars, venueVars, history,
       TypeOK, OwnInv, ActsOnOwn, Position, Venue
  <1>24. ASSUME NEW c \in Closes, CloseThrows(c) PROVE OwnInv'
    BY <1>24 DEF CloseThrows, At, requestVars, lockVars, venueVars, history, TypeOK, OwnInv,
       ActsOnOwn, MayWrite, Position, Venue
  <1>25. ASSUME NEW c \in Closes, Reduce(c) PROVE OwnInv'
    <2>1. /\ held' = held \ close'[c].took /\ shut' = [shut EXCEPT ![c] = "done"]
          /\ close'[c].took # {} /\ close'[c].took \subseteq Position(close[c].of)
          /\ \/ close'[c].took = Position(close[c].of) /\ close'[c].took \subseteq close[c].seen
             \/ Position(close[c].of) \cup {close[c].of} \subseteq crossed
          /\ UNCHANGED <<rail, row, unheard, stacked, crossed>>
      BY <1>25, ReduceMoves DEF requestVars, history
    <2> SUFFICES ASSUME NEW d \in Closes PROVE ActsOnOwn(d)'
      BY DEF OwnInv
    <2>2. close'[d].pc = close[d].pc /\ close'[d].of = close[d].of /\ close'[d].seen = close[d].seen
      BY <1>25, ReduceMoves
    <2>3. close[d].of \notin crossed /\ (close[d].of \in held \/ Position(close[d].of) = {}) =>
            close[d].of \in held' \/ Position(close[d].of)' = {}
      <3>1. ASSUME close[d].of \notin crossed, close[d].of \in held, close[d].of \notin held'
            PROVE  Position(close[d].of)' = {}
        <4>1. /\ close[d].of \in Position(close[c].of)
              /\ close'[c].took = Position(close[c].of)
          BY <2>1, <3>1
        <4>2. Venue(close[d].of) = Venue(close[c].of)  BY <4>1 DEF Position
        <4> QED BY <2>1, <2>2, <4>1, <4>2 DEF Position, Venue
      <3>2. Position(close[d].of) = {} => Position(close[d].of)' = {}
        BY <2>1, <2>2 DEF Position, Venue
      <3> QED BY <3>1, <3>2
    <2>4. CASE d = c
      <3>1. close[c].of \notin crossed /\ close[c].seen = {close[c].of} =>
              close'[c].took = {close[c].of}
        BY <2>1
      <3> QED BY <2>1, <2>2, <2>3, <2>4, <3>1 DEF OwnInv, ActsOnOwn, MayWrite
    <2>5. CASE d # c
      <3>1. close'[d] = close[d] /\ shut'[d] = shut[d]  BY <1>25, <2>1, <2>5, ReduceMoves
      <3> QED BY <2>1, <2>2, <2>3, <3>1 DEF OwnInv, ActsOnOwn, MayWrite
    <2> QED BY <2>4, <2>5
  <1>26. ASSUME NEW c \in Closes, RejectClose(c) PROVE OwnInv'
    BY <1>26 DEF RejectClose, At, requestVars, lockVars, venueVars, history, TypeOK, OwnInv,
       ActsOnOwn, MayWrite, Position, Venue
  <1>27. ASSUME Expire PROVE OwnInv'
    BY <1>27 DEF Expire, MayExpire, At, requestVars, venueVars, closeVars, history, TypeOK,
       OwnInv, ActsOnOwn, MayWrite, Position, Venue
  <1>28. CASE UNCHANGED vars
    BY <1>28 DEF vars, At, requestVars, lockVars, venueVars, closeVars, history, TypeOK, OwnInv,
       ActsOnOwn, MayWrite, Position, Venue
  <1> QED
    BY <1>1, <1>2, <1>3, <1>4, <1>5, <1>6, <1>7, <1>8, <1>9, <1>10, <1>11, <1>12, <1>13, <1>14,
       <1>15, <1>16, <1>17, <1>18, <1>19, <1>20, <1>21, <1>22, <1>23, <1>24, <1>25, <1>26, <1>27,
       <1>28, NextCases

\* A result is of its own exposure.
LEMMA ProceedsKept ==
  ASSUME TypeOK, RailShape, OrderShape, RowShape, CloseShape, SeenInv,
         ClosedRowsHoldNothing, OwnInv, ProceedsAreOwn, [Next]_vars
  PROVE  ProceedsAreOwn'
  <1>1. ASSUME NEW r \in Requests, Guard(r) PROVE ProceedsAreOwn'
    BY <1>1 DEF Guard, HasOpenTail, Go, At, venueVars, closeVars, history, TypeOK,
       ProceedsAreOwn
  <1>2. ASSUME NEW r \in Requests, Reserve(r) PROVE ProceedsAreOwn'
    BY <1>2 DEF Reserve, TakeLock, LockIsFree, Go, At, venueVars, closeVars, history, TypeOK,
       ProceedsAreOwn, Reserves
  <1>3. ASSUME NEW r \in Requests, ReserveRefused(r) PROVE ProceedsAreOwn'
    BY <1>3 DEF ReserveRefused, TakeLock, LockIsFree, lockVars, Go, At, venueVars, closeVars,
       history, TypeOK, ProceedsAreOwn, Reserves
  <1>4. ASSUME NEW r \in Requests, Release(r) PROVE ProceedsAreOwn'
    BY <1>4 DEF Release, Go, At, venueVars, closeVars, history, TypeOK, ProceedsAreOwn
  <1>5. ASSUME NEW r \in Requests, CheckChain(r) PROVE ProceedsAreOwn'
    BY <1>5 DEF CheckChain, Go, At, lockVars, venueVars, closeVars, history, TypeOK,
       ProceedsAreOwn
  <1>6. ASSUME NEW r \in Requests, InsertPending(r) PROVE ProceedsAreOwn'
    BY <1>6 DEF InsertPending, BestEffort, Go, At, lockVars, venueVars, closeVars, history,
       TypeOK, ProceedsAreOwn
  <1>7. ASSUME NEW r \in Requests, Send(r) PROVE ProceedsAreOwn'
    BY <1>7 DEF Send, Go, At, lockVars, closeVars, history, TypeOK, ProceedsAreOwn
  <1>8. ASSUME NEW r \in Requests, Answered(r) PROVE ProceedsAreOwn'
    BY <1>8 DEF Answered, Go, At, lockVars, venueVars, closeVars, history, TypeOK,
       ProceedsAreOwn
  <1>9. ASSUME NEW r \in Requests, TakenForOpen(r) PROVE ProceedsAreOwn'
    BY <1>9 DEF TakenForOpen, Go, At, lockVars, venueVars, closeVars, TypeOK, ProceedsAreOwn
  <1>10. ASSUME NEW r \in Requests, Throws(r) PROVE ProceedsAreOwn'
    BY <1>10 DEF Throws, Leave, Go, At, lockVars, venueVars, closeVars, TypeOK, ProceedsAreOwn,
       Reserves
  <1>11. ASSUME NEW r \in Requests, MarkFailed(r) PROVE ProceedsAreOwn'
    BY <1>11 DEF MarkFailed, BestEffort, Go, At, lockVars, venueVars, closeVars, history, TypeOK,
       ProceedsAreOwn
  <1>12. ASSUME NEW r \in Requests, Record(r) PROVE ProceedsAreOwn'
    BY <1>12 DEF Record, BestEffort, Leave, Go, At, lockVars, venueVars, closeVars, history,
       TypeOK, ProceedsAreOwn, Reserves
  <1>13. ASSUME NEW r \in Requests, Undo(r) PROVE ProceedsAreOwn'
    BY <1>13 DEF Undo, Reductions, Position, Go, At, lockVars, closeVars, history, TypeOK,
       ProceedsAreOwn
  <1>14. ASSUME NEW r \in Requests, Review(r) PROVE ProceedsAreOwn'
    BY <1>14 DEF Review, BestEffort, Go, At, lockVars, venueVars, closeVars, history, TypeOK,
       ProceedsAreOwn
  <1>15. ASSUME NEW r \in Requests, Block(r) PROVE ProceedsAreOwn'
    BY <1>15 DEF Block, Go, At, venueVars, closeVars, history, TypeOK, ProceedsAreOwn
  <1>16. ASSUME NEW r \in Requests, Crash(r) PROVE ProceedsAreOwn'
    BY <1>16 DEF Crash, Running, Over, Go, lockVars, venueVars, closeVars, history, TypeOK,
       ProceedsAreOwn
  <1>17. ASSUME NEW r \in Requests, Fill(r) PROVE ProceedsAreOwn'
    BY <1>17 DEF Fill, Under, requestVars, lockVars, closeVars, TypeOK, ProceedsAreOwn
  <1>18. ASSUME NEW r \in Requests, Reject(r) PROVE ProceedsAreOwn'
    BY <1>18 DEF Reject, requestVars, lockVars, closeVars, history, TypeOK, ProceedsAreOwn
  <1>19. ASSUME NEW r \in Requests, DiesOutside(r) PROVE ProceedsAreOwn'
    BY <1>19 DEF DiesOutside, Position, requestVars, lockVars, closeVars, history, TypeOK,
       ProceedsAreOwn
  <1>20. ASSUME NEW c \in Closes, NEW r \in Requests, Decide(c, r) PROVE ProceedsAreOwn'
    BY <1>20 DEF Decide, MayClose, requestVars, lockVars, venueVars, history, TypeOK,
       ProceedsAreOwn
  <1>21. ASSUME NEW c \in Closes, FoundGone(c) PROVE ProceedsAreOwn'
    BY <1>21 DEF FoundGone, CloseRow, MayWrite, lockVars, venueVars, history, TypeOK,
       ProceedsAreOwn
  <1>22. ASSUME NEW c \in Closes, SendClose(c) PROVE ProceedsAreOwn'
    BY <1>22 DEF SendClose, Position, requestVars, lockVars, venueVars, history, TypeOK,
       ProceedsAreOwn
  <1>23. ASSUME NEW c \in Closes, EndClose(c) PROVE ProceedsAreOwn'
    <2> SUFFICES ASSUME ~stacked, NEW q \in Requests \ (unheard \cup crossed),
                        proceeds'[q] = "other"
                 PROVE  FALSE
      BY <1>23 DEF EndClose, history, ProceedsAreOwn
    <2>1. proceeds[q] # "other"  BY DEF ProceedsAreOwn
    <2>2. q = close[c].of /\ MayWrite(c) /\ ResultOf(c) = "other" /\ close[c].pc = "wait"
      BY <1>23, <2>1 DEF EndClose, TypeOK
    <2>3. rail[q] # "flash" => shut[c] = "done"  BY <1>23, <2>2 DEF EndClose
    <2> QED BY <2>2, <2>3 DEF OwnInv, ActsOnOwn, ResultOf
  <1>24. ASSUME NEW c \in Closes, CloseThrows(c) PROVE ProceedsAreOwn'
    BY <1>24 DEF CloseThrows, requestVars, lockVars, venueVars, history, TypeOK, ProceedsAreOwn
  <1>25. ASSUME NEW c \in Closes, Reduce(c) PROVE ProceedsAreOwn'
    BY <1>25 DEF Reduce, Reductions, Position, requestVars, lockVars, history, TypeOK,
       ProceedsAreOwn
  <1>26. ASSUME NEW c \in Closes, RejectClose(c) PROVE ProceedsAreOwn'
    BY <1>26 DEF RejectClose, requestVars, lockVars, venueVars, history, TypeOK, ProceedsAreOwn
  <1>27. ASSUME Expire PROVE ProceedsAreOwn'
    BY <1>27 DEF Expire, MayExpire, requestVars, venueVars, closeVars, history, TypeOK,
       ProceedsAreOwn
  <1>28. CASE UNCHANGED vars
    BY <1>28 DEF vars, requestVars, lockVars, venueVars, closeVars, history, TypeOK,
       ProceedsAreOwn
  <1> QED
    BY <1>1, <1>2, <1>3, <1>4, <1>5, <1>6, <1>7, <1>8, <1>9, <1>10, <1>11, <1>12, <1>13, <1>14,
       <1>15, <1>16, <1>17, <1>18, <1>19, <1>20, <1>21, <1>22, <1>23, <1>24, <1>25, <1>26, <1>27,
       <1>28, NextCases

-----------------------------------------------------------------------------

\* The first invariant.
LEMMA TypeInvFirst == Init => TypeInv
  <1>1. ASSUME Init PROVE TypeOK
    BY <1>1, CopyTailsAssumption DEF Init, TypeOK, NoClose, Fates, Closes
  <1>2. ASSUME Init PROVE RailShape /\ OrderShape /\ RowShape
    BY <1>2 DEF Init, RailShape, OrderShape, RowShape, At
  <1>3. ASSUME Init PROVE CloseShape  BY <1>3 DEF Init, CloseShape, NoClose
  <1> QED BY <1>1, <1>2, <1>3 DEF TypeInv

LEMMA TypeInvKept == TypeInv /\ [Next]_vars => TypeInv'
  BY TypeKept, RailKept, OrderKept, RowKept, CloseKept DEF TypeInv

(***************************************************************************)
(* What statuses, orders and closes tell of each other, whatever is late,  *)
(* fails or dies (app/api/bet/whale/route.ts, copy/close/route.ts).        *)
(***************************************************************************)
\* What the status of a row tells of its request and of its order, on every rail
\* (app/api/bet/whale, copy and bot/route.ts).
THEOREM ShapesHold == Spec => []TypeInv
  BY TypeInvFirst, TypeInvKept, PTL DEF Spec

(***************************************************************************)
(* Every behaviour of requests and closes is type correct; a row that is   *)
(* not a Pacifica whale's is never pending, failed or in review            *)
(* (app/api/bet/whale, copy and bot/route.ts).                             *)
(***************************************************************************)
THEOREM TypeCorrect == Spec => []TypeOK
  BY ShapesHold, PTL DEF TypeInv

\* The parts that hold while a reservation outlives its request.
ReserveInv == LockInv /\ FlashInv /\ BlockInv

\* The second invariant.
LEMMA ReserveInvFirst == Init => ReserveInv
  BY CopyTailsAssumption DEF Init, ReserveInv, LockInv, FlashInv, BlockInv, Critical, Running,
     MayCome, Unresolved, Over, At

LEMMA ReserveInvKept ==
  ASSUME SlowRequests = FALSE
  PROVE  TypeInv /\ ReserveInv /\ [Next]_vars => ReserveInv'
  BY LockKept, FlashKept, BlockKept DEF TypeInv, ReserveInv

(***************************************************************************)
(* Where requests are shorter than half a reservation: at most one request *)
(* is between its reservation and its end, and nobody can still order      *)
(* beside a tail that is unresolved (lib/bets/tail-reservation.ts).        *)
(***************************************************************************)
THEOREM ReservationsHold ==
  ASSUME SlowRequests = FALSE
  PROVE  Spec => []ReserveInv
  BY ShapesHold, ReserveInvFirst, ReserveInvKept, PTL DEF Spec

(***************************************************************************)
(* Flash tails are merged only where a request gave up or died, for any    *)
(* number of requests on any rails (lib/flash-v2/session-trade.ts).        *)
(***************************************************************************)
THEOREM FlashApart ==
  ASSUME SlowRequests = FALSE
  PROVE  Spec => []FlashStaysApart
  <1>1. TypeInv /\ ReserveInv => FlashStaysApart
    BY DEF TypeInv, TypeOK, ReserveInv, FlashInv, MayCome, Lost, At, FlashStaysApart
  <1> QED BY <1>1, ShapesHold, ReservationsHold, PTL

\* The step of UnresolvedTailsBlock: the one who orders is the taker, and an
\* unresolved tail has the reservation of its own.
LEMMA UnresolvedBlocksStep ==
  ASSUME TypeInv, ReserveInv, [Next]_vars, NEW r \in Requests,
         rail[r] = "whale", order[r] = "none", order'[r] = "flight"
  PROVE  ~\E s \in held : /\ rail[s] = "whale" /\ Over(s) /\ s \notin unheard
                           /\ row[s] \in {"pending", "manual_review"}
  <1>1. PICK q \in Requests : Send(q) /\ q = r
    BY NextCases DEF Guard, Reserve, ReserveRefused, Release, CheckChain, InsertPending, Send,
       Answered, TakenForOpen, Throws, MarkFailed, Record, Undo, Review, Block, Crash, Fill,
       Reject, DiesOutside, Decide, FoundGone, SendClose, EndClose, CloseThrows, Reduce,
       RejectClose, Expire, venueVars, vars, TypeInv, TypeOK
  <1>2. At(r, "order") /\ r \in Running /\ Venue(r) = "pacifica"
    BY <1>1 DEF Send, At, Running, Over, Venue
  <1>3. taker = r /\ ~Over(r)
    BY <1>2 DEF ReserveInv, LockInv, Critical, At, Running, Reserves
  <1> SUFFICES ASSUME NEW s \in held, rail[s] = "whale", Over(s), s \notin unheard,
                      row[s] \in {"pending", "manual_review"}
               PROVE  FALSE
    OBVIOUS
  <1>4. s \in Requests /\ Unresolved(s)  BY DEF TypeInv, TypeOK, Unresolved
  <1>5. taker = s  BY <1>2, <1>4 DEF ReserveInv, BlockInv
  <1> QED BY <1>3, <1>5

(***************************************************************************)
(* While a whale tail is unresolved on Pacifica no whale order goes out,   *)
(* also none of a request that passed the guard before the row existed     *)
(* (app/api/bet/whale/route.ts; lib/bets/tail-reservation.ts, block).      *)
(***************************************************************************)
THEOREM UnresolvedTailsBlock ==
  ASSUME SlowRequests = FALSE
  PROVE  Spec => UnresolvedBlocks
  <1>1. TypeInv /\ ReserveInv /\ [Next]_vars =>
          [\A r \in Requests :
              rail[r] = "whale" /\ order[r] = "none" /\ order'[r] = "flight" =>
                  ~\E s \in held : /\ rail[s] = "whale" /\ Over(s) /\ s \notin unheard
                                   /\ row[s] \in {"pending", "manual_review"}]_vars
    BY UnresolvedBlocksStep
  <1> QED BY <1>1, ShapesHold, ReservationsHold, PTL DEF Spec, UnresolvedBlocks

\* The third invariant.
LEMMA CloseInvFirst == Init => CloseInv
  BY DEF Init, CloseInv, ClosedRowsHoldNothing, SeenInv, AloneInv, OwnInv, ActsOnOwn,
     ProceedsAreOwn, NoClose

LEMMA CloseInvKept ==
  TypeInv /\ CloseInv /\ [Next]_vars => CloseInv'
  BY ClosedKept, SeenKept, AloneKept, OwnKept, ProceedsKept DEF TypeInv, CloseInv

(***************************************************************************)
(* A close leaves nothing of the position it has read, although orders are *)
(* filled under it; and unless one was, and nothing was stacked, that is   *)
(* the exposure of its own row (app/api/bet/copy/close/route.ts,           *)
(* lib/bets/mirror-close.ts).                                              *)
(***************************************************************************)
THEOREM InductiveInvariant ==
  Spec => []CloseInv
  BY ShapesHold, CloseInvFirst, CloseInvKept, PTL DEF Spec

(***************************************************************************)
(* A closed row holds nothing, however many closes of the user and of the  *)
(* sweep act on it (app/api/bet/copy/close/route.ts,                       *)
(* lib/bets/mirror-close.ts).                                              *)
(***************************************************************************)
THEOREM ClosedRowsAreEmpty ==
  Spec => []ClosedRowsHoldNothing
  BY InductiveInvariant, PTL DEF CloseInv

(***************************************************************************)
(* The result of a row is that of its own exposure, unless an order was    *)
(* filled beside another, or the market was entered again under a close of *)
(* the row or of what that close had seen (app/api/bet/copy/close/route.ts).*)
(***************************************************************************)
THEOREM ResultsAreOwn ==
  Spec => []ProceedsAreOwn
  BY InductiveInvariant, PTL DEF CloseInv

(***************************************************************************)
(* A Pacifica whale tail that is live when its request is over has a row   *)
(* that blocks the market (app/api/bet/whale/route.ts).                    *)
(***************************************************************************)
THEOREM LiveTailsHaveRows ==
  Spec => []LiveTailsAreRecorded
  <1>1. TypeInv /\ CloseInv => LiveTailsAreRecorded
    BY DEF TypeInv, TypeOK, OrderShape, RowShape, CloseInv, ClosedRowsHoldNothing,
       LiveTailsAreRecorded, Blocking
  <1> QED BY <1>1, ShapesHold, InductiveInvariant, PTL

=============================================================================
