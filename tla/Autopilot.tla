------------------------------ MODULE Autopilot ------------------------------
(***************************************************************************)
(* One autopilot session (lib/autopilot/engine.ts, sessions.ts, shell.ts): *)
(* a tick claims the session, closes bets that are due, recomputes the     *)
(* realized result from the rows, ends the session or opens at most one    *)
(* position, attaches its stop loss and stamps the session.                *)
(*                                                                         *)
(* Workers are the processes that may tick: the lease elects one, but a    *)
(* tick may outlast the lease (TickerLease), so two can meet here.  Around *)
(* them: transactions that are decided after the send, positions that end  *)
(* at the venue by a trigger, a liquidation or the user's hand, a user who *)
(* stops the session, and the reconcile sweep, here reduced to what        *)
(* FlashTail shows of it.                                                  *)
(*                                                                         *)
(* Amounts are whole units.  The brain and the tilt guard are a choice.    *)
(***************************************************************************)
EXTENDS Integers, FiniteSetsExt

CONSTANTS
    Workers,       \* processes that run the ticker
    Markets,       \* AUTOPILOT_MARKETS
    NumBets,       \* bound on the rows of one behaviour
    Budget,        \* session.budgetUsd
    StakeMin,      \* tier.stakeUsdMin
    StakePct,      \* tier.stakePctOfBudget, in percent
    MaxConcurrent, \* tier.maxConcurrent
    Gain,          \* bound: the one profit a close can make
    SlowTicks,     \* whether a claim may expire under a tick that goes on
    MaxCrashes     \* bound on the ticks that are cut off

Bets == 1..NumBets

ASSUME AutopilotAssumption ==
    /\ NumBets \in Nat /\ MaxConcurrent \in Nat /\ MaxCrashes \in Nat
    /\ Budget \in Nat \ {0} /\ StakeMin \in 1..Budget
    /\ StakePct \in 0..100 /\ Gain \in Nat
    /\ SlowTicks \in BOOLEAN

VARIABLES
    session,   \* autopilot_sessions.status
    claimFree, \* lastTickAt is older than TICK_CLAIM_GAP_MS
    status,    \* bets.status of the session's rows
    market,    \* meta.market; the side is left out, one slot per market
    stake,     \* bets.amountUsdc
    result,    \* proceedsUsdc - amountUsdc of a closed row, null is -stake
    openTx,    \* fate of the open transaction
    closeTx,   \* fate of the last close sent for the row; priced: read from the chain
    held,      \* rows whose exposure is part of a live venue position
    tick,      \* the locals of tickSession per worker
    crashes,   \* ticks cut off so far
    orderly    \* history: no number the shell relied on was wrong

rowVars == <<status, market, stake, result>>
venueVars == <<openTx, closeTx, held>>
sessionVars == <<session, claimFree>>
vars == <<sessionVars, rowVars, venueVars, tick, crashes, orderly>>

NoTick == [pc |-> "idle", seen |-> {}, todo |-> {}, pnl |-> 0,
           wallet |-> {}, tried |-> {}, cur |-> 0]

Losing(s) == MapThenSumSet(LAMBDA b : stake[b], s)
RowsIn(statuses) == {b \in Bets : status[b] \in statuses}
Closed == RowsIn({"closed", "closed-external"})

\* sessionStats: computed from the rows, a null counts as a full loss.
Realized == MapThenSumSet(LAMBDA b : result[b], Closed)

\* Mutation: profits extend the budget.
LossBudgetWithProfits(pnl) == Budget + pnl

LossBudget(pnl) == Budget + (IF pnl < 0 THEN pnl ELSE 0)

Amounts == -(NumBets * Budget)..(NumBets * Gain)

TypeOK ==
    /\ session \in {"active", "stopped", "exhausted", "target"}
    /\ claimFree \in BOOLEAN /\ orderly \in BOOLEAN
    /\ status \in [Bets -> {"none", "pending", "confirmed", "closed",
                            "closed-external", "failed", "abandoned"}]
    /\ market \in [Bets -> Markets \cup {"none"}]
    /\ stake \in [Bets -> 0..Budget]
    /\ \A b \in Bets : status[b] # "none" => stake[b] >= StakeMin /\ market[b] \in Markets
    /\ result \in [Bets -> -Budget..Gain]
    /\ held \subseteq Bets
    /\ openTx \in [Bets -> {"none", "flight", "landed", "failed"}]
    /\ closeTx \in [Bets -> {"none", "flight", "landed", "failed", "priced"}]
    /\ tick \in [Workers -> [
           pc : {"idle", "exit", "closing", "phase", "entry", "send",
                 "confirm", "stop", "rescue"},
           seen : SUBSET Bets, todo : SUBSET Bets, pnl : Amounts,
           wallet : SUBSET Markets, tried : SUBSET Markets, cur : 0..NumBets]]
    /\ crashes \in 0..MaxCrashes

Init ==
    /\ session = "active" /\ claimFree = TRUE
    /\ status = [b \in Bets |-> "none"]
    /\ market = [b \in Bets |-> "none"]
    /\ stake = [b \in Bets |-> 0]
    /\ result = [b \in Bets |-> 0]
    /\ held = {}
    /\ openTx = [b \in Bets |-> "none"]
    /\ closeTx = [b \in Bets |-> "none"]
    /\ tick = [w \in Workers |-> NoTick]
    /\ crashes = 0
    /\ orderly = TRUE

\* The venue merges positions of one market.
Merged(b) == {c \in held : market[c] = market[b]}
Ticking == {w \in Workers : tick[w].pc # "idle"}

\* The row a tick is about to confirm.
InHand == {tick[w].cur : w \in Workers}

At(w, pc) == tick[w].pc = pc
Go(w, pc) == tick' = [tick EXCEPT ![w].pc = pc]
Done(w) == tick' = [tick EXCEPT ![w] = NoTick]

\* touchSession, with which a tick ends; its failure is swallowed.
Finish(w) == Done(w) /\ claimFree' \in {FALSE, claimFree}

-----------------------------------------------------------------------------
(* Claim, list and exit pass.                                              *)

\* Mutation: the claim window is not looked at.
ClaimGrantedAnyway == session = "active"

ClaimGranted == session = "active" /\ claimFree

\* listActiveSessions, the claim and the list of open bets: between them nothing
\* is remembered.  A tick that is refused the claim does nothing.
Claim(w) ==
    /\ At(w, "idle")
    /\ ClaimGranted
    /\ claimFree' = FALSE
    /\ tick' = [tick EXCEPT ![w].pc = "exit", ![w].seen = RowsIn({"confirmed"}),
                            ![w].todo = RowsIn({"confirmed"})]
    /\ UNCHANGED <<session, rowVars, venueVars, crashes, orderly>>

\* The claim is taken, but the list throws.
ClaimInVain(w) ==
    /\ At(w, "idle")
    /\ ClaimGranted
    /\ claimFree' = FALSE
    /\ UNCHANGED <<session, rowVars, venueVars, tick, crashes, orderly>>

\* shouldExit, by age or by a favourable mark, is a choice.  The close is built and
\* sent; the venue builds no close without a position.
SendExit(w, b) ==
    /\ At(w, "exit") /\ b \in tick[w].todo
    /\ Merged(b) # {}
    /\ closeTx' = [closeTx EXCEPT ![b] = "flight"]
    /\ tick' = [tick EXCEPT ![w].pc = "closing", ![w].cur = b, ![w].todo = @ \ {b}]
    /\ UNCHANGED <<sessionVars, rowVars, openTx, held, crashes, orderly>>

StayIn(w, b) ==
    /\ At(w, "exit") /\ b \in tick[w].todo
    /\ tick' = [tick EXCEPT ![w].todo = @ \ {b}]
    /\ UNCHANGED <<sessionVars, rowVars, venueVars, crashes, orderly>>

\* The mark, the build or the send throws: the bet stays in openBets.
ExitThrows(w, b) ==
    /\ At(w, "exit") /\ b \in tick[w].todo
    /\ tick' = [tick EXCEPT ![w].todo = @ \ {b}]
    /\ UNCHANGED <<sessionVars, rowVars, venueVars, crashes, orderly>>

\* What a close can bring: all is lost, or a profit.
Results(b) == {-stake[b], Gain}

\* confirmFlashTailClose: a CAS on confirmed.
CasClose(b) ==
    IF status[b] = "confirmed"
    THEN /\ status' = [status EXCEPT ![b] = "closed"]
         /\ \E x \in Results(b) : result' = [result EXCEPT ![b] = x]
    ELSE UNCHANGED <<status, result>>

\* Also a miss takes the bet out of openBets.
ConfirmExit(w) ==
    LET b == tick[w].cur IN
    /\ At(w, "closing")
    /\ CasClose(b)
    /\ tick' = [tick EXCEPT ![w].pc = "exit", ![w].cur = 0, ![w].seen = @ \ {b}]
    /\ UNCHANGED <<sessionVars, market, stake, venueVars, crashes, orderly>>

ConfirmExitThrows(w) ==
    /\ At(w, "closing")
    /\ tick' = [tick EXCEPT ![w].pc = "exit", ![w].cur = 0]
    /\ UNCHANGED <<sessionVars, rowVars, venueVars, crashes, orderly>>

-----------------------------------------------------------------------------
(* Budget phase and entry.                                                 *)

\* Mutation: the session ends on what is free to stake.
PhaseOfFree(pnl) ==
    IF pnl >= Budget THEN "target"
    ELSE IF LossBudget(pnl) <= Losing(RowsIn({"confirmed"})) THEN "exhausted" ELSE "active"

Phase(pnl) ==
    IF pnl >= Budget THEN "target"
    ELSE IF LossBudget(pnl) <= 0 THEN "exhausted" ELSE "active"

Recompute(w) ==
    /\ At(w, "exit") /\ tick[w].todo = {}
    /\ tick' = [tick EXCEPT ![w].pc = "phase", ![w].pnl = Realized]
    /\ UNCHANGED <<sessionVars, rowVars, venueVars, crashes, orderly>>

\* The recompute threw: the column as loaded is used instead.  Its writes may all
\* have been lost (0), or it may be up to date; values in between are left out.
UseCached(w) ==
    /\ At(w, "exit") /\ tick[w].todo = {}
    /\ tick' = [tick EXCEPT ![w].pc = "phase", ![w].pnl = 0]
    /\ orderly' = (orderly /\ Realized = 0)
    /\ UNCHANGED <<sessionVars, rowVars, venueVars, crashes>>

\* A CAS on active.
EndSession(w) ==
    /\ At(w, "phase") /\ Phase(tick[w].pnl) # "active"
    /\ session' = IF session = "active" THEN Phase(tick[w].pnl) ELSE session
    /\ Finish(w)
    /\ UNCHANGED <<rowVars, venueVars, crashes, orderly>>

EndThrows(w) ==
    /\ At(w, "phase") /\ Phase(tick[w].pnl) # "active"
    /\ Finish(w)
    /\ UNCHANGED <<session, rowVars, venueVars, crashes, orderly>>

\* Mutation: markets that were not looked at count as free.
WalletUnseen == {}

\* getWalletPositions, whatever opened them.
WalletMarkets == {market[b] : b \in held}

ReadWallet(w) ==
    /\ At(w, "phase") /\ Phase(tick[w].pnl) = "active"
    /\ Cardinality(tick[w].seen) < MaxConcurrent
    /\ tick' = [tick EXCEPT ![w].pc = "entry", ![w].wallet = WalletMarkets]
    /\ UNCHANGED <<sessionVars, rowVars, venueVars, crashes, orderly>>

\* No room, or recentCloses or the wallet could not be read.
SkipEntries(w) ==
    /\ At(w, "phase") /\ Phase(tick[w].pnl) = "active"
    /\ Finish(w)
    /\ UNCHANGED <<session, rowVars, venueVars, crashes, orderly>>

\* Open stakes are worst-case losses too.
Remaining(w) == LossBudget(tick[w].pnl) - Losing(tick[w].seen)

\* computeStake; the cap of a tier and Flash's least notional only reject more.
ComputeStake(remaining) ==
    Min({Max({(remaining * StakePct) \div 100, StakeMin}), remaining})

Unused == RowsIn({"none"})

\* The brain decides for m, the shell allows it, the open is built, recorded.
RecordOpen(w, m) ==
    LET b == Min(Unused) IN
    /\ At(w, "entry")
    /\ Unused # {}
    /\ m \notin tick[w].tried
    /\ m \notin {market[c] : c \in tick[w].seen} \cup tick[w].wallet
    /\ Remaining(w) >= StakeMin
    /\ status' = [status EXCEPT ![b] = "pending"]
    /\ market' = [market EXCEPT ![b] = m]
    /\ stake' = [stake EXCEPT ![b] = ComputeStake(Remaining(w))]
    /\ tick' = [tick EXCEPT ![w].pc = "send", ![w].cur = b, ![w].tried = @ \cup {m}]
    /\ UNCHANGED <<sessionVars, result, venueVars, crashes, orderly>>

\* No market was entered: held, no decision, something before the record threw,
\* or the shell denied.
EndEntries(w) ==
    /\ At(w, "entry")
    /\ Finish(w)
    /\ UNCHANGED <<session, rowVars, venueVars, crashes, orderly>>

SendOpen(w) ==
    /\ At(w, "send")
    /\ openTx' = [openTx EXCEPT ![tick[w].cur] = "flight"]
    /\ Go(w, "confirm")
    /\ UNCHANGED <<sessionVars, rowVars, closeTx, held, crashes, orderly>>

\* The send threw, before or after the transaction was out: the loop goes on to
\* the next market.
SendThrows(w) ==
    /\ At(w, "send")
    /\ \E fate \in {"none", "flight"} : openTx' = [openTx EXCEPT ![tick[w].cur] = fate]
    /\ tick' = [tick EXCEPT ![w].pc = "entry", ![w].cur = 0]
    /\ UNCHANGED <<sessionVars, rowVars, closeTx, held, crashes, orderly>>

\* A CAS on pending, or the confirm threw: bookkeeping fails no tick.
ConfirmOpen(w) ==
    LET b == tick[w].cur IN
    /\ At(w, "confirm")
    /\ \/ status' = IF status[b] = "pending" THEN [status EXCEPT ![b] = "confirmed"]
                                             ELSE status
       \/ UNCHANGED status
    /\ tick' = [tick EXCEPT ![w] = [NoTick EXCEPT !.pc = "stop", !.cur = b]]
    /\ UNCHANGED <<sessionVars, market, stake, result, venueVars, crashes, orderly>>

\* The stop loss is sent (the take profit may fail without consequence); or it
\* throws and the emergency close, or its confirm, throws as well.
StopOrGiveUp(w) ==
    /\ tick[w].pc \in {"stop", "rescue"}
    /\ Finish(w)
    /\ UNCHANGED <<session, rowVars, venueVars, crashes, orderly>>

\* The stop loss threw: the position is closed at once.
SendRescue(w) ==
    /\ At(w, "stop")
    /\ Merged(tick[w].cur) # {}
    /\ closeTx' = [closeTx EXCEPT ![tick[w].cur] = "flight"]
    /\ Go(w, "rescue")
    /\ UNCHANGED <<sessionVars, rowVars, openTx, held, crashes, orderly>>

ConfirmRescue(w) ==
    /\ At(w, "rescue")
    /\ CasClose(tick[w].cur)
    /\ Finish(w)
    /\ UNCHANGED <<session, market, stake, venueVars, crashes, orderly>>

\* The process dies; the next holder of the lease goes on.
Crash(w) ==
    /\ ~At(w, "idle")
    /\ crashes < MaxCrashes
    /\ crashes' = crashes + 1
    /\ Done(w)
    /\ UNCHANGED <<sessionVars, rowVars, venueVars, orderly>>

-----------------------------------------------------------------------------
(* The surroundings.                                                       *)

\* A tick of one session is shorter than the claim window, unless SlowTicks.
ClaimExpires ==
    /\ ~claimFree
    /\ Ticking = {} \/ SlowTicks
    /\ claimFree' = TRUE
    /\ UNCHANGED <<session, rowVars, venueVars, tick, crashes, orderly>>

\* CAS active -> stopped; nothing is closed.
StopSession ==
    /\ session = "active"
    /\ session' = "stopped"
    /\ UNCHANGED <<claimFree, rowVars, venueVars, tick, crashes, orderly>>

\* A dropped transaction counts as failed, as the sweep takes it in the end.
OpenResolves(b) ==
    /\ openTx[b] = "flight"
    /\ \E fate \in {"landed", "failed"} :
          /\ openTx' = [openTx EXCEPT ![b] = fate]
          /\ held' = IF fate = "landed" THEN held \cup {b} ELSE held
    /\ UNCHANGED <<sessionVars, rowVars, closeTx, tick, crashes, orderly>>

\* A dropped close stays in flight: the sweep never gives up on it.
CloseResolves(b) ==
    /\ closeTx[b] = "flight"
    /\ \/ /\ Merged(b) # {}
          /\ closeTx' = [closeTx EXCEPT ![b] = "landed"]
          /\ held' = held \ Merged(b)
       \/ /\ closeTx' = [closeTx EXCEPT ![b] = "failed"]
          /\ UNCHANGED held
    /\ UNCHANGED <<sessionVars, rowVars, openTx, tick, crashes, orderly>>

\* A trigger, a liquidation, or the user closing at the venue.
DiesOutside(b) ==
    /\ b \in held
    /\ held' = held \ Merged(b)
    /\ UNCHANGED <<sessionVars, rowVars, openTx, closeTx, tick, crashes, orderly>>

\* The sweep: rows never confirmed, minutes after the transaction was decided.
Reap(b) ==
    /\ status[b] = "pending" /\ openTx[b] # "flight"
    /\ b \notin InHand
    /\ status' = [status EXCEPT ![b] = "abandoned"]
    /\ UNCHANGED <<sessionVars, market, stake, result, venueVars, tick,
                   crashes, orderly>>

SweepFailsOpen(b) ==
    /\ status[b] = "confirmed" /\ openTx[b] = "failed"
    /\ status' = [status EXCEPT ![b] = "failed"]
    /\ UNCHANGED <<sessionVars, market, stake, result, venueVars, tick,
                   crashes, orderly>>

SweepExpires(b) ==
    /\ status[b] = "confirmed" /\ openTx[b] = "landed" /\ Merged(b) = {}
    /\ status' = [status EXCEPT ![b] = "closed-external"]
    /\ result' = [result EXCEPT ![b] = -stake[b]]
    /\ UNCHANGED <<sessionVars, market, stake, venueVars, tick, crashes,
                   orderly>>

\* The estimate is replaced by the chain's number.
SweepPrices(b) ==
    /\ status[b] = "closed" /\ closeTx[b] = "landed"
    /\ \E x \in Results(b) :
          /\ result' = [result EXCEPT ![b] = x]
          /\ orderly' = (orderly /\ x >= result[b])
    /\ closeTx' = [closeTx EXCEPT ![b] = "priced"]
    /\ UNCHANGED <<sessionVars, status, market, stake, openTx, held, tick, crashes>>

\* The close failed: the row is open again and its result gone.
SweepReopens(b) ==
    /\ status[b] = "closed" /\ closeTx[b] = "failed"
    /\ status' = [status EXCEPT ![b] = "confirmed"]
    /\ result' = [result EXCEPT ![b] = 0]
    /\ orderly' = FALSE
    /\ UNCHANGED <<sessionVars, market, stake, venueVars, tick, crashes>>

-----------------------------------------------------------------------------
ExitPass(w) ==
    \/ \E b \in Bets : SendExit(w, b) \/ StayIn(w, b) \/ ExitThrows(w, b)
    \/ ConfirmExit(w) \/ ConfirmExitThrows(w)

Entry(w) ==
    \/ ReadWallet(w) \/ SkipEntries(w)
    \/ \E m \in Markets : RecordOpen(w, m)
    \/ EndEntries(w)
    \/ SendOpen(w) \/ SendThrows(w) \/ ConfirmOpen(w)
    \/ StopOrGiveUp(w) \/ SendRescue(w) \/ ConfirmRescue(w)

TickStep(w) ==
    \/ Claim(w) \/ ClaimInVain(w)
    \/ ExitPass(w)
    \/ Recompute(w) \/ UseCached(w)
    \/ EndSession(w) \/ EndThrows(w)
    \/ Entry(w)

VenueStep ==
    \E b \in Bets : OpenResolves(b) \/ CloseResolves(b) \/ DiesOutside(b)

SweepStep(b) ==
    \/ Reap(b) \/ SweepFailsOpen(b) \/ SweepExpires(b)
    \/ SweepPrices(b) \/ SweepReopens(b)

Next ==
    \/ \E w \in Workers : TickStep(w) \/ Crash(w)
    \/ ClaimExpires
    \/ StopSession
    \/ VenueStep
    \/ \E b \in Bets : SweepStep(b)

Spec == Init /\ [][Next]_vars

-----------------------------------------------------------------------------
\* Rows never confirmed whose open a tick has in hand, or which is on its way or
\* live, whatever became of the tick.
Unconfirmed ==
    {b \in RowsIn({"pending", "abandoned"}) :
        b \in InHand \/ openTx[b] = "flight" \/ b \in held}

\* Those of them that no tick will confirm any more: the confirm was lost, or the
\* send threw when the transaction was out (engine.ts:369).
LostConfirms == Unconfirmed \ InHand

AtRisk == RowsIn({"confirmed"}) \cup Unconfirmed

(***************************************************************************)
(* The stakes of bets that are open, live or on their way never exceed     *)
(* what is left of the loss budget, except by those that lost their        *)
(* confirm, which the next tick does not reserve: through closes,          *)
(* liquidations, a user who closes by hand and crashes, as long as no      *)
(* estimate turned out too high and no stale sum was used                  *)
(* (lib/autopilot/shell.ts, evaluateShell; sessions.ts:10-12, "never       *)
(* over-spent").  One tick at a time: with SlowTicks two can meet.         *)
(***************************************************************************)
StakesFitBudget ==
    orderly => Losing(AtRisk) <= LossBudget(Realized) + Losing(LostConfirms)

(***************************************************************************)
(* Bets of the session are merged at the venue only where one of them lost *)
(* its confirm: whatever the exit pass dropped from its list, the wallet   *)
(* is looked at before a market is entered again (lib/autopilot/engine.ts, *)
(* "never hedge/stack a market").                                          *)
(***************************************************************************)
MergesAreLostConfirms ==
    \A b, c \in held :
        b # c /\ market[b] = market[c] =>
            \E d \in RowsIn({"pending", "abandoned"}) : market[d] = market[b]

(***************************************************************************)
(* A session that ends because its loss budget is gone leaves no open bet  *)
(* behind, and nothing live or on its way but what lost its confirm:       *)
(* nothing ticks for an ended session, so nobody would enforce the longest *)
(* hold on it (lib/autopilot/sessions.ts, listActiveSessions).             *)
(***************************************************************************)
ExhaustedIsFlat == orderly /\ session = "exhausted" => AtRisk \subseteq LostConfirms
-----------------------------------------------------------------------------
(* The inductive invariant.                                                *)

\* The venue and the ticks know rows that were recorded, and no others.
RowsExist ==
    /\ \A b \in Bets : status[b] = "none" => openTx[b] = "none" /\ b \notin held
    /\ \A w \in Workers : \A b \in (tick[w].todo \cup {tick[w].cur}) \ {0} : status[b] # "none"

\* From here on: where a tick is shorter than the claim window.

\* One tick at a time, and none for a session that is exhausted.
OneTick ==
    \A w \in Ticking :
        /\ ~claimFree /\ session # "exhausted"
        /\ \A v \in Ticking : v = w

\* What a tick has read or holds in hand, and how far that row is.
Settled == {"confirmed", "closed", "closed-external", "failed"}

ShapeOf(w) ==
    /\ tick[w].seen \cup tick[w].todo \subseteq RowsIn(Settled)
    /\ IF tick[w].pc \in {"idle", "exit", "phase", "entry"}
       THEN tick[w].cur = 0 ELSE tick[w].cur \in Bets
    /\ At(w, "closing") => status[tick[w].cur] \in Settled
    /\ tick[w].pc \in {"send", "confirm"} => status[tick[w].cur] = "pending"
    /\ At(w, "send") => openTx[tick[w].cur] = "none"
    /\ tick[w].pc \in {"stop", "rescue"} => status[tick[w].cur] \in Settled \cup {"pending"}

TickShape == \A w \in Workers : ShapeOf(w)

VenueShape == \A b \in held : openTx[b] = "landed"

\* The loss budget that open bets leave free.
Headroom == LossBudget(Realized) - Losing(RowsIn({"confirmed"}))

\* Rows between the record and the confirm.
InDoubt == {b \in InHand \ {0} : status[b] = "pending"}

DoubtsFit == orderly => Losing(InDoubt) <= Headroom

SeenIsOpen ==
    orderly => \A w \in Workers :
        tick[w].pc \in {"exit", "closing", "phase", "entry", "send"} =>
            RowsIn({"confirmed"}) \subseteq tick[w].seen

\* What a tick takes for free is free.
RemainingIsFree ==
    orderly => \A w \in Workers :
        tick[w].pc \in {"phase", "entry", "send"} => Remaining(w) <= Headroom

NothingLeftIsFlat ==
    orderly => \A w \in Workers :
        At(w, "phase") /\ LossBudget(tick[w].pnl) <= 0 => RowsIn({"confirmed"}) = {}

ExhaustedConfirmsNone == orderly /\ session = "exhausted" => RowsIn({"confirmed"}) = {}

\* A market where a row lost its confirm for good.
Lost(m) == \E d \in RowsIn({"pending", "abandoned"}) \ InHand : market[d] = m

\* Rows that are, or may come to be, part of a position.
Alive == held \cup {b \in Bets : openTx[b] = "flight"}

AliveApart ==
    \A b, c \in Alive : b # c /\ market[b] = market[c] => Lost(market[b])

FlightsAreOpen ==
    \A b \in Bets : openTx[b] = "flight" =>
        status[b] \in {"pending", "confirmed"} \/ Lost(market[b])

FlightsAreSeen ==
    \A w \in Workers : tick[w].pc \in {"exit", "closing", "phase"} =>
        \A b \in RowsIn({"confirmed"}) :
            openTx[b] = "flight" => b \in tick[w].seen \/ Lost(market[b])

MarketsTaken(w) == {market[c] : c \in tick[w].seen} \cup tick[w].wallet

EntryIsFree ==
    \A w \in Workers :
        /\ tick[w].pc \in {"entry", "send"} =>
               \A b \in Alive : market[b] \in MarketsTaken(w) \/ Lost(market[b])
        /\ At(w, "send") => market[tick[w].cur] \notin MarketsTaken(w)

ClosedInFlight ==
    \A w \in Workers :
        tick[w].pc \in {"closing", "rescue"} /\ openTx[tick[w].cur] = "flight" =>
            Lost(market[tick[w].cur])

TypeInv == TypeOK /\ RowsExist
ShapeInv == OneTick /\ TickShape /\ VenueShape
BudgetInv ==
    DoubtsFit /\ SeenIsOpen /\ RemainingIsFree /\ NothingLeftIsFlat /\ ExhaustedConfirmsNone
MergeInv == AliveApart /\ FlightsAreOpen /\ FlightsAreSeen /\ EntryIsFree /\ ClosedInFlight
Inv == TypeInv /\ ShapeInv /\ BudgetInv /\ MergeInv
=============================================================================
