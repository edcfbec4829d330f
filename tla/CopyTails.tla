------------------------------ MODULE CopyTails ------------------------------
(***************************************************************************)
(* The copy tails of one user on one market: the requests that open them   *)
(* (app/api/bet/whale, copy and bot/route.ts), the reservation that        *)
(* serializes them (lib/bets/tail-reservation.ts), the guard on the rows   *)
(* (lib/bets/copy-guard.ts), and the closes of the user                    *)
(* (app/api/bet/copy/close/route.ts) and of the mirror sweep               *)
(* (lib/bets/mirror-close.ts).                                             *)
(*                                                                         *)
(* A request runs on one of three rails: "flash" (the flash-v2 branch of   *)
(* all three routes), "whale" (Pacifica, whale route) and "copy"           *)
(* (Pacifica, copy route).  Each venue nets the user's orders into one     *)
(* position.  Every query may fail before or after it took effect, every   *)
(* order may be executed after its sender stopped listening, and a process *)
(* may die between any two steps.                                          *)
(*                                                                         *)
(* A tail is one unit of exposure; sizing, leverage, onboarding and        *)
(* deposits happen before the first step.                                  *)
(***************************************************************************)
EXTENDS Integers, FiniteSets

CONSTANTS
    Requests,     \* requests to open; the row of a request has its name
    RailsOf,      \* the rails a request may run on
    Users,        \* closes the user asks for
    Mirrors,      \* closes the mirror sweep decides on
    SlowRequests  \* whether a request may last half a reservation (30 of 60 s)

Closes == Users \cup Mirrors
Rails == {"flash", "whale", "copy"}

ASSUME CopyTailsAssumption ==
    /\ IsFiniteSet(Requests) /\ "none" \notin Requests
    /\ RailsOf \in [Requests -> SUBSET Rails]
    /\ Users \cap Mirrors = {}
    /\ SlowRequests \in BOOLEAN

VARIABLES
    rail,     \* the rail of each request: FLASH_V2 as its process sees it
    pc,       \* where the request is
    row,      \* bets.status of the row it wrote
    proceeds, \* bets.proceedsUsdc: none, of the row's own exposure, of another's
    lock,     \* the row of tail_reservations
    taker,    \* the request that took the reservation last
    ahead,    \* requests that began before the taker's was over
    order,    \* fate of the order to open
    held,     \* requests whose exposure is part of a position
    unheard,  \* history: requests that never got the answer to their order
    stacked,  \* history: an order was filled beside one whose row is not closed
    crossed,  \* history: requests that were filled under a close, and those that
              \* close was of or had seen
    close,    \* the locals of each close
    shut      \* fate of the order of each close

requestVars == <<pc, row>>
lockVars == <<lock, taker, ahead>>
venueVars == <<order, held>>
closeVars == <<close, shut>>
history == <<unheard, stacked, crossed>>
vars == <<rail, requestVars, proceeds, lockVars, venueVars, history, closeVars>>

NoClose == [pc |-> "idle", of |-> "none", seen |-> {}, took |-> {}]
Fates == {"none", "flight", "done", "dead"}

TypeOK ==
    /\ rail \in [Requests -> Rails]
    /\ pc \in [Requests -> {"new", "cleared", "reserved", "order", "wait",
                            "record", "undo", "review", "block", "failed",
                            "release", "over", "crashed"}]
    /\ row \in [Requests -> {"none", "pending", "confirmed", "failed",
                             "manual_review", "closed"}]
    /\ \A r \in Requests : rail[r] # "whale" =>
           row[r] \in {"none", "confirmed", "closed"}
    /\ proceeds \in [Requests -> {"none", "own", "other"}]
    /\ lock \in {"none", "live", "expired", "blocked"}
    /\ taker \in Requests \cup {"none"}
    /\ ahead \subseteq Requests /\ held \subseteq Requests /\ unheard \subseteq Requests
    /\ stacked \in BOOLEAN /\ crossed \subseteq Requests
    /\ order \in [Requests -> Fates] /\ shut \in [Closes -> Fates]
    /\ close \in [Closes -> [pc : {"idle", "read", "wait", "over"},
                             of : Requests \cup {"none"},
                             seen : SUBSET Requests, took : SUBSET Requests]]

Init ==
    /\ rail \in [Requests -> Rails] /\ \A r \in Requests : rail[r] \in RailsOf[r]
    /\ pc = [r \in Requests |-> "new"]
    /\ row = [r \in Requests |-> "none"]
    /\ proceeds = [r \in Requests |-> "none"]
    /\ lock = "none" /\ taker = "none" /\ ahead = {}
    /\ order = [r \in Requests |-> "none"]
    /\ held = {} /\ unheard = {} /\ stacked = FALSE /\ crossed = {}
    /\ close = [c \in Closes |-> NoClose]
    /\ shut = [c \in Closes |-> "none"]

Venue(r) == IF rail[r] = "flash" THEN "flash-v2" ELSE "pacifica"

\* What is netted into one position with r.
Position(r) == {s \in held : Venue(s) = Venue(r)}

Over(r) == pc[r] \in {"over", "crashed"}
Running == {r \in Requests : pc[r] # "new" /\ ~Over(r)}

Go(r, step) == pc' = [pc EXCEPT ![r] = step]
At(r, step) == pc[r] = step
Reserves(r) == rail[r] \in {"flash", "whale"}

\* Where a request ends up that is done with its order.
Leave(r) == IF Reserves(r) THEN "release" ELSE "over"

\* A statement that may fail before or after it took effect.
BestEffort(r, status) == row' = [row EXCEPT ![r] = status] \/ UNCHANGED row

-----------------------------------------------------------------------------
(* Guard and reservation.                                                  *)

Blocking == {"confirmed", "pending", "manual_review"}

\* hasOpenTailOnMarket: rows of the same venue only.
HasOpenTail(r) == \E s \in Requests : row[s] \in Blocking /\ Venue(s) = Venue(r)

Guard(r) ==
    /\ At(r, "new")
    /\ Go(r, IF HasOpenTail(r) THEN "over" ELSE "cleared")
    /\ ahead' = IF taker \in Running THEN ahead \cup {r} ELSE ahead
    /\ UNCHANGED <<rail, row, proceeds, lock, taker, venueVars, history, closeVars>>

\* Mutation: the upsert replaces whatever is there.
AnythingIsFree == TRUE

\* The upsert: no row, or one that has expired.
LockIsFree == lock \in {"none", "expired"}

TakeLock(r) ==
    /\ LockIsFree
    /\ lock' = "live" /\ taker' = r /\ ahead' = Running

Reserve(r) ==
    /\ At(r, "cleared") /\ Reserves(r)
    /\ TakeLock(r)
    /\ Go(r, "reserved")
    /\ UNCHANGED <<rail, row, proceeds, venueVars, history, closeVars>>

\* The reservation is taken, or the query failed: before or after it was.
ReserveRefused(r) ==
    /\ At(r, "cleared") /\ Reserves(r)
    /\ TakeLock(r) \/ UNCHANGED lockVars
    /\ Go(r, "over")
    /\ UNCHANGED <<rail, row, proceeds, venueVars, history, closeVars>>

\* Mutation: reservations are shorter than requests.
MayExpireEarly == TRUE

\* Within 60 s the taker is over, and what began while it ran, unless SlowRequests.
MayExpire == SlowRequests \/ \A r \in ahead : Over(r)

Expire ==
    /\ lock = "live"
    /\ MayExpire
    /\ lock' = "expired"
    /\ UNCHANGED <<rail, requestVars, proceeds, taker, ahead, venueVars, history, closeVars>>

\* A DELETE whoever holds it, best effort: the request is over in any case.
Release(r) ==
    /\ At(r, "release")
    /\ lock' \in {"none", lock}
    /\ Go(r, "over")
    /\ UNCHANGED <<rail, row, proceeds, taker, ahead, venueVars, history, closeVars>>

-----------------------------------------------------------------------------
(* The order.                                                              *)

\* executeSessionOpen: any position on the market is a conflict; also no session,
\* no basket, a builder that fails.
CheckChain(r) ==
    /\ At(r, "reserved") /\ rail[r] = "flash"
    /\ \E step \in {"order", "release"} :
          /\ Position(r) # {} => step = "release"
          /\ Go(r, step)
    /\ UNCHANGED <<rail, row, proceeds, lockVars, venueVars, history, closeVars>>

\* Mutation: the order goes out first, the row follows with its answer.
InsertPendingLater(r) ==
    /\ At(r, "reserved") /\ rail[r] = "whale"
    /\ Go(r, "order")
    /\ UNCHANGED <<rail, row, proceeds, lockVars, venueVars, history, closeVars>>

\* The row is on record before the order is; without it there is no order.
InsertPending(r) ==
    /\ At(r, "reserved") /\ rail[r] = "whale"
    /\ \/ /\ row' = [row EXCEPT ![r] = "pending"]
          /\ Go(r, "order")
       \/ /\ BestEffort(r, "pending")
          /\ Go(r, "release")
    /\ UNCHANGED <<rail, proceeds, lockVars, venueVars, history, closeVars>>

Send(r) ==
    /\ At(r, "order") \/ (At(r, "cleared") /\ rail[r] = "copy")
    /\ order' = [order EXCEPT ![r] = "flight"]
    /\ Go(r, "wait")
    /\ UNCHANGED <<rail, row, proceeds, lockVars, held, history, closeVars>>

\* The fill, or the confirmation.
Answered(r) ==
    /\ At(r, "wait") /\ order[r] = "done"
    /\ Go(r, "record")
    /\ UNCHANGED <<rail, row, proceeds, lockVars, venueVars, history, closeVars>>

\* Neither confirmed nor failed: any position on the market is taken for its own.
TakenForOpen(r) ==
    /\ At(r, "wait") /\ rail[r] = "flash" /\ order[r] # "done"
    /\ Position(r) # {}
    /\ Go(r, "record")
    /\ unheard' = unheard \cup {r}
    /\ UNCHANGED <<rail, row, proceeds, lockVars, venueVars, stacked, crossed, closeVars>>

\* "Trade could not open. No funds were spent.": it failed, or nobody knows.
Throws(r) ==
    /\ At(r, "wait")
    /\ Go(r, IF rail[r] = "whale" THEN "failed" ELSE Leave(r))
    /\ unheard' = unheard \cup {r}
    /\ UNCHANGED <<rail, row, proceeds, lockVars, venueVars, stacked, crossed, closeVars>>

MarkFailed(r) ==
    /\ At(r, "failed")
    /\ BestEffort(r, "failed")
    /\ Go(r, "release")
    /\ UNCHANGED <<rail, proceeds, lockVars, venueVars, history, closeVars>>

\* Mutation: a request on any rail leaves a pending row.
RecordAsPending(r) ==
    /\ At(r, "record")
    /\ row' = [row EXCEPT ![r] = "pending"] /\ Go(r, Leave(r))
    /\ UNCHANGED <<rail, proceeds, lockVars, venueVars, history, closeVars>>

\* The insert (flash, copy) or the update (whale) to confirmed.
Record(r) ==
    /\ At(r, "record")
    /\ \/ /\ row' = [row EXCEPT ![r] = "confirmed"]
          /\ Go(r, Leave(r))
       \/ /\ BestEffort(r, "confirmed")
          /\ Go(r, IF rail[r] = "whale" THEN "undo" ELSE Leave(r))
    /\ UNCHANGED <<rail, proceeds, lockVars, venueVars, history, closeVars>>

\* What an order of as many units as seen takes: own units first.
Reductions(r, seen) ==
    {x \in SUBSET Position(r) :
        /\ Cardinality(x) <= Cardinality(seen)
        /\ (seen \cap held) \subseteq x \/ x \subseteq seen
        /\ Cardinality(x) = Cardinality(seen) \/ x = Position(r)}

\* The compensating close; it throws when nothing is there, or unheard.
Undo(r) ==
    /\ At(r, "undo")
    /\ \E x \in Reductions(r, {r}) \cup {{}} :
          /\ held' = held \ x
          /\ \/ Go(r, "review")
             \/ x # {} /\ Go(r, "failed")
    /\ UNCHANGED <<rail, row, proceeds, lockVars, order, history, closeVars>>

Review(r) ==
    /\ At(r, "review")
    /\ BestEffort(r, "manual_review")
    /\ Go(r, "block")
    /\ UNCHANGED <<rail, proceeds, lockVars, venueVars, history, closeVars>>

Block(r) ==
    /\ At(r, "block")
    /\ lock' \in {"blocked", lock}
    /\ Go(r, "over")
    /\ UNCHANGED <<rail, row, proceeds, taker, ahead, venueVars, history, closeVars>>

Crash(r) ==
    /\ r \in Running
    /\ Go(r, "crashed")
    /\ UNCHANGED <<rail, row, proceeds, lockVars, venueVars, history, closeVars>>

-----------------------------------------------------------------------------
(* Closes.                                                                 *)

\* Mutation: the status of the row is not looked at.
EverConfirmed(r) == row[r] \in {"confirmed", "closed"}

MayClose(r) == row[r] = "confirmed"

\* The row is read: by the user's close, or in the list of the sweep.
Decide(c, r) ==
    /\ close[c].pc = "idle"
    /\ MayClose(r)
    /\ close' = [close EXCEPT ![c].pc = "read", ![c].of = r]
    /\ UNCHANGED <<rail, requestVars, proceeds, lockVars, venueVars, history, shut>>

\* The sweep writes only to a row that is still confirmed, the user's close always.
MayWrite(c) == c \in Users \/ row[close[c].of] = "confirmed"

CloseRow(c) ==
    /\ row' = IF MayWrite(c) THEN [row EXCEPT ![close[c].of] = "closed"] ELSE row
    /\ close' = [close EXCEPT ![c].pc = "over"]

\* The position is read later, and the row not again.
FoundGone(c) ==
    /\ close[c].pc = "read" /\ Position(close[c].of) = {}
    /\ CloseRow(c)
    /\ UNCHANGED <<rail, pc, proceeds, lockVars, venueVars, history, shut>>

SendClose(c) ==
    /\ close[c].pc = "read" /\ Position(close[c].of) # {}
    /\ close' = [close EXCEPT ![c].pc = "wait", ![c].seen = Position(close[c].of)]
    /\ shut' = [shut EXCEPT ![c] = "flight"]
    /\ UNCHANGED <<rail, requestVars, proceeds, lockVars, venueVars, history>>

\* Pacifica reports the result of the fill; on Flash it is estimated from the
\* position that was read.
ResultOf(c) ==
    LET r == close[c].of
        exposure == IF rail[r] = "flash" THEN close[c].seen ELSE close[c].took
    IN IF r \in exposure THEN "own" ELSE "other"

\* Filled; or, on Flash, neither confirmed nor failed, but the position is gone.
\* The result may stay unknown.
EndClose(c) ==
    LET r == close[c].of IN
    /\ close[c].pc = "wait"
    /\ shut[c] = "done" \/ (rail[r] = "flash" /\ Position(r) = {})
    /\ CloseRow(c)
    /\ proceeds' \in IF MayWrite(c) THEN {proceeds, [proceeds EXCEPT ![r] = ResultOf(c)]}
                                     ELSE {proceeds}
    /\ UNCHANGED <<rail, pc, lockVars, venueVars, history, shut>>

\* Mutation: a close that may have gone through is taken for one that did.
CloseThrowsClosed(c) ==
    /\ close[c].pc \in {"read", "wait"}
    /\ row' = [row EXCEPT ![close[c].of] = "closed"]
    /\ close' = [close EXCEPT ![c].pc = "over"]
    /\ UNCHANGED <<rail, pc, proceeds, lockVars, venueVars, history, shut>>

\* No session, a look-up or the order throws: the row stays, to be closed again.
CloseThrows(c) ==
    /\ close[c].pc \in {"read", "wait"}
    /\ close' = [close EXCEPT ![c].pc = "over"]
    /\ UNCHANGED <<rail, requestVars, proceeds, lockVars, venueVars, history, shut>>

-----------------------------------------------------------------------------
(* The venues.                                                             *)

\* Closes that are between their reads and the fill of their order; the sweep's writes
\* nothing by then unless its row is still open.
Under(r) ==
    {c \in Closes : /\ shut[c] = "flight" \/ (c \in Users /\ close[c].pc = "read")
                    /\ Venue(close[c].of) = Venue(r)}

\* Nothing keeps an order from being filled under a close.
Fill(r) ==
    /\ order[r] = "flight"
    /\ order' = [order EXCEPT ![r] = "done"]
    /\ held' = held \cup {r}
    /\ stacked' = (stacked \/ \E s \in Requests :
                       order[s] = "done" /\ row[s] # "closed" /\ Venue(s) = Venue(r))
    /\ crossed' = crossed \cup UNION {{r, close[c].of} \cup close[c].seen : c \in Under(r)}
    /\ UNCHANGED <<rail, requestVars, proceeds, lockVars, unheard, closeVars>>

Reject(r) ==
    /\ order[r] = "flight"
    /\ order' = [order EXCEPT ![r] = "dead"]
    /\ UNCHANGED <<rail, requestVars, proceeds, lockVars, held, history, closeVars>>

\* Reduce-only: at most the position that is there.
Reduce(c) ==
    /\ shut[c] = "flight"
    /\ \E x \in Reductions(close[c].of, close[c].seen) \ {{}} :
          /\ held' = held \ x
          /\ close' = [close EXCEPT ![c].took = x]
    /\ shut' = [shut EXCEPT ![c] = "done"]
    /\ UNCHANGED <<rail, requestVars, proceeds, lockVars, order, history>>

RejectClose(c) ==
    /\ shut[c] = "flight"
    /\ shut' = [shut EXCEPT ![c] = "dead"]
    /\ UNCHANGED <<rail, requestVars, proceeds, lockVars, venueVars, history, close>>

\* A liquidation, or the user at the venue's own interface.
DiesOutside(r) ==
    /\ r \in held
    /\ held' = held \ Position(r)
    /\ UNCHANGED <<rail, requestVars, proceeds, lockVars, order, history, closeVars>>

-----------------------------------------------------------------------------
RequestStep(r) ==
    \/ Guard(r) \/ Reserve(r) \/ ReserveRefused(r) \/ Release(r)
    \/ CheckChain(r) \/ InsertPending(r) \/ Send(r)
    \/ Answered(r) \/ TakenForOpen(r) \/ Throws(r) \/ MarkFailed(r) \/ Record(r)
    \/ Undo(r) \/ Review(r) \/ Block(r) \/ Crash(r)

CloseStep(c) ==
    \/ \E r \in Requests : Decide(c, r)
    \/ FoundGone(c) \/ SendClose(c) \/ EndClose(c) \/ CloseThrows(c)

VenueStep ==
    \/ \E r \in Requests : Fill(r) \/ Reject(r) \/ DiesOutside(r)
    \/ \E c \in Closes : Reduce(c) \/ RejectClose(c)

Next ==
    \/ \E r \in Requests : RequestStep(r)
    \/ \E c \in Closes : CloseStep(c)
    \/ Expire
    \/ VenueStep

Spec == Init /\ [][Next]_vars

-----------------------------------------------------------------------------
(***************************************************************************)
(* Two flash-v2 tails are merged only if one of their requests gave up on  *)
(* its transaction, or died, before it landed: the reservation keeps       *)
(* requests apart that both saw an empty market, the look at the chain     *)
(* finds the ones that left no row (lib/flash-v2/session-trade.ts).        *)
(***************************************************************************)
FlashStaysApart ==
    \A r, s \in held :
        r # s /\ rail[r] = "flash" /\ rail[s] = "flash" =>
            \E q \in {r, s} : q \in unheard \/ pc[q] = "crashed"

(***************************************************************************)
(* A Pacifica whale tail that is live when its request is over has a row   *)
(* that blocks the market, whatever failed and wherever the process died:  *)
(* unless the request gave up on the answer to its order                   *)
(* (app/api/bet/whale/route.ts, compensation and manual review).           *)
(***************************************************************************)
LiveTailsAreRecorded ==
    \A r \in held :
        rail[r] = "whale" /\ Over(r) /\ r \notin unheard => row[r] \in Blocking

(***************************************************************************)
(* No whale order goes to Pacifica while a tail is left there that could   *)
(* be neither recorded nor undone, or whose process died: also from        *)
(* requests that passed the guard before its row existed, and although     *)
(* marking the row and blocking the market are both best effort.           *)
(***************************************************************************)
UnresolvedBlocks ==
    [][\A r \in Requests :
          rail[r] = "whale" /\ order[r] = "none" /\ order'[r] = "flight" =>
              ~\E s \in held : /\ rail[s] = "whale" /\ Over(s) /\ s \notin unheard
                               /\ row[s] \in {"pending", "manual_review"}]_vars

(***************************************************************************)
(* A closed row holds nothing: however closes of the user and of the sweep *)
(* meet, act on rows they read before, throw after they took effect, or    *)
(* find nothing to close (app/api/bet/copy/close/route.ts,                 *)
(* lib/bets/mirror-close.ts); unless the row was recorded although nobody  *)
(* had heard of its order.                                                 *)
(***************************************************************************)
ClosedRowsHoldNothing == \A r \in held \ unheard : row[r] # "closed"

(***************************************************************************)
(* The result recorded for a row is that of the row's own exposure,        *)
(* although the user's close overwrites what the sweep wrote, and both may *)
(* act on a row that was closed since they read it.  There are two ways to *)
(* another's: an order that is filled beside a tail that was not closed    *)
(* yet, and the market entered again under a close: the user's takes the   *)
(* new tail then, and books its result on the old row.                     *)
(***************************************************************************)
ProceedsAreOwn ==
    ~stacked => \A r \in Requests \ (unheard \cup crossed) : proceeds[r] # "other"
-----------------------------------------------------------------------------
(***************************************************************************)
(* Why these hold: the parts of an inductive invariant.                    *)
(***************************************************************************)
\* The request has had, or given up, its answer.
Past(r) == pc[r] \notin {"new", "cleared", "reserved", "order", "wait", "record"}

\* Only whale requests compensate; a request without a reservation releases none.
RailShape ==
    \A r \in Requests :
        /\ At(r, "failed") \/ At(r, "undo") \/ At(r, "review") \/ At(r, "block") => rail[r] = "whale"
        /\ At(r, "reserved") \/ At(r, "order") \/ At(r, "release") => Reserves(r)

\* A row that was confirmed: its order was filled, or nobody heard of it, on Flash.
WasConfirmed(r) ==
    /\ Past(r)
    /\ order[r] = "done" \/ r \in unheard
    /\ r \in unheard => rail[r] = "flash"

\* How far the order is tells where the request stands.
OrderShape ==
    \A r \in Requests :
        /\ pc[r] \in {"new", "cleared", "reserved", "order"} => order[r] = "none" /\ r \notin unheard
        /\ At(r, "wait") => r \notin unheard
        /\ order[r] = "flight" => r \in unheard \/ At(r, "wait") \/ At(r, "crashed")
        /\ r \in held => order[r] = "done"
        /\ At(r, "record") \/ At(r, "undo") \/ At(r, "review") \/ At(r, "block") =>
               /\ order[r] = "done" \/ r \in unheard
               /\ r \in unheard => rail[r] = "flash"

\* What the status of a row tells of its request.
RowShape ==
    \A r \in Requests :
        /\ row[r] \in {"confirmed", "manual_review", "closed"} => WasConfirmed(r)
        /\ At(r, "failed") \/ row[r] = "failed" =>
               Past(r) /\ (r \in unheard \/ (r \notin held /\ order[r] = "done"))
        /\ rail[r] = "whale" /\ (At(r, "order") \/ order[r] # "none") => row[r] # "none"
        /\ rail[r] = "whale" /\ At(r, "release") /\ row[r] \in {"pending", "manual_review"} =>
               r \in unheard \/ (r \notin held /\ order[r] # "flight")

\* A close is of a row that was confirmed, and its order goes out once.
CloseShape ==
    \A c \in Closes :
        /\ close[c].pc # "idle" => close[c].of \in Requests /\ WasConfirmed(close[c].of)
        /\ close[c].pc \in {"idle", "read"} => shut[c] = "none"

TypeInv == TypeOK /\ RailShape /\ OrderShape /\ RowShape /\ CloseShape

\* At most one request is between its reservation and its end, unless SlowRequests.
Critical(r) == Reserves(r) /\ r \in Running /\ ~At(r, "cleared")

LockInv ==
    /\ \A r \in Requests : Critical(r) => taker = r /\ lock = "live"
    /\ \A r \in Requests : At(r, "new") => taker # r
    /\ lock = "live" => taker \in ahead
    /\ taker \in Running => Running \subseteq ahead

\* A Flash tail that is there or may come, and whose request answers for it.
MayCome(r) == At(r, "order") \/ order[r] = "flight" \/ r \in held
Lost(r) == r \in unheard \/ At(r, "crashed")

FlashInv ==
    \A r, s \in Requests :
        r # s /\ rail[r] = "flash" /\ rail[s] = "flash" /\ MayCome(r) /\ MayCome(s) =>
            Lost(r) \/ Lost(s)

\* A whale tail that is left, or may come, without an answer to what became of it.
Unresolved(s) ==
    /\ rail[s] = "whale" /\ Over(s) /\ s \notin unheard
    /\ s \in held \/ order[s] = "flight"
    /\ row[s] \in {"pending", "manual_review"}

\* Whoever might still send an order began before the reservation of its request
\* can expire.
BlockInv ==
    \A s, r \in Requests :
        Unresolved(s) /\ r \in Running /\ Venue(r) = "pacifica" =>
            taker = s /\ lock \in {"live", "blocked"} /\ r \in ahead

\* What came to a position since a close of it was sent is crossed with it; of what the
\* close had seen its order leaves nothing.
SeenInv ==
    \A c \in Closes :
        LET r == close[c].of IN
        /\ shut[c] = "flight" =>
               \/ Position(r) \subseteq close[c].seen
               \/ Position(r) \cup {r} \cup close[c].seen \subseteq crossed
        /\ close[c].pc = "wait" /\ r \in held \ unheard =>
               r \in close[c].seen /\ shut[c] # "done"

\* A request whose row was closed, and what its order may still hold.
Left(q) ==
    /\ row[q] \in {"closed", "manual_review", "failed"}
    /\ q \in held => q \in unheard /\ row[q] = "closed"

\* Before an order is filled beside another, all others were closed.
AloneInv ==
    ~stacked =>
        /\ \A r, s \in Requests :
               r # s /\ Venue(r) = Venue(s) /\ order[r] = "done" /\ order[s] = "done" =>
                   Left(r) \/ Left(s)
        /\ \A r \in Requests \ crossed :
               rail[r] = "flash" /\ order[r] = "done" /\ row[r] # "closed" /\ r \notin held =>
                   Position(r) = {}

\* A close that will write a result acts on the exposure of its own row.
ActsOnOwn(c) ==
    LET r == close[c].of IN
    ~stacked /\ r \notin unheard \cup crossed =>
        /\ c \in Users /\ close[c].pc = "read" => r \in held \/ Position(r) = {}
        /\ close[c].pc = "wait" /\ MayWrite(c) =>
               /\ r \in close[c].seen
               /\ rail[r] # "flash" => close[c].seen = {r}
               /\ rail[r] # "flash" /\ shut[c] = "done" => close[c].took = {r}

OwnInv == \A c \in Closes : ActsOnOwn(c)

CloseInv == ClosedRowsHoldNothing /\ SeenInv /\ AloneInv /\ OwnInv /\ ProceedsAreOwn
=============================================================================
