----------------------------- MODULE ArenaLlmBot -----------------------------
(***************************************************************************)
(* An LLM bot of the arena program (arena-program/programs/arena/src):     *)
(* the operator's apply_decision and the crank's tick on one LlmBot        *)
(* account, with the safety floor and the paper accounting of              *)
(* paper_llm.rs.                                                           *)
(*                                                                         *)
(* An instruction is atomic, and one that returns an error changes         *)
(* nothing: a rejected decision is a step that is not taken, and so is     *)
(* one that meets a stale feed.  The clock is abstracted to the three      *)
(* comparisons the program makes with it: whether the day of day_start_ts  *)
(* is over, whether decision_cooldown_secs have passed, and how many       *)
(* seconds of funding are due.  The crank lists the bot in every tick.     *)
(*                                                                         *)
(* Left out, as no guard reads them: the tape, wins, trades, equity_high,  *)
(* fees and funding_paid.                                                  *)
(***************************************************************************)
EXTENDS Integers

CONSTANTS
    Markets,        \* markets of ArenaConfig
    Prices,         \* prices a feed can print
    Gaps,           \* seconds between two fundings of a position
    Asks,           \* arguments of an OPEN decision, confidence reduced to sure
    Free,           \* a slot with active = 0
    BPS,            \* 10000
    HourSecs,       \* 3600
    FeeBps, SpreadBps, MaintBufferBps,                  \* ArenaConfig
    MaxLeverage, MaxStakeFracBps, RiskSizing,           \* LlmParams
    MinStopBps, MaxStopBps, MaxHoldTicks,
    MaxTrades, DailyLossBps, FundingBps,
    MinStake,       \* MIN_STAKE_MICRO
    StartBalance,   \* starting_balance_micro
    MaxOpens        \* bound on the positions opened in one behaviour

\* MAX_POSITIONS = 4
Slots == 1..4

AskFields == [long : BOOLEAN, lev : Nat, frac : Nat, stop : Nat, tp : Nat, sure : BOOLEAN]

Position == [market : Markets, long : BOOLEAN, entry : Nat \ {0}, stake : Nat,
             lev : Nat \ {0}, stop : Nat, tp : Nat, liq : Nat, ticks : Nat]

\* What init_config and init_llm_bot require, and that a feed prints above 0.
ASSUME ArenaAssumption ==
    /\ Prices \subseteq Nat \ {0}
    /\ Gaps \subseteq Nat
    /\ Asks \subseteq AskFields
    /\ Free \notin Position
    /\ BPS \in Nat \ {0} /\ HourSecs \in Nat \ {0}
    /\ FeeBps \in 0..(BPS - 1) /\ SpreadBps \in 0..(BPS - 1)
    /\ MaintBufferBps \in 0..(BPS - 1)
    /\ MaxLeverage \in Nat \ {0} /\ MaxStakeFracBps \in 0..BPS
    /\ RiskSizing \in BOOLEAN
    /\ MinStopBps \in Nat \ {0} /\ MaxStopBps \in MinStopBps..(BPS - 1)
    /\ MaxHoldTicks \in Nat \ {0} /\ MaxTrades \in Nat
    /\ DailyLossBps \in 0..BPS /\ FundingBps \in Nat
    /\ MinStake \in Nat /\ StartBalance \in Nat /\ MaxOpens \in Nat

VARIABLES
    price,      \* price[m]: the last print of the feed of m
    unfolded,   \* markets whose print is newer than last_publish_ts
    bot,        \* the account; spent is history: opening fees and funding taken
    newDay,     \* the day of day_start_ts is not today
    cooling,    \* less than decision_cooldown_secs since last_decision_ts
    opensToday, \* history: positions opened since midnight
    opens       \* history: positions opened

marketVars == <<price, unfolded>>
clockVars == <<newDay, cooling>>
vars == <<marketVars, bot, clockVars, opensToday, opens>>

Bots == [balance : Nat, pnl : Int, dayStart : Nat, tradesToday : Nat,
         halted : BOOLEAN, slots : [Slots -> Position \cup {Free}], spent : Nat]

\* Types: no subtraction of the program falls below zero, which would panic.
TypeOK ==
    /\ price \in [Markets -> Prices]
    /\ unfolded \subseteq Markets
    /\ bot \in Bots
    /\ newDay \in BOOLEAN /\ cooling \in BOOLEAN
    /\ opensToday \in Nat /\ opens \in Nat

Init ==
    /\ price \in [Markets -> Prices]
    /\ unfolded = Markets
    /\ bot = [balance |-> StartBalance, pnl |-> 0, dayStart |-> StartBalance,
              tradesToday |-> 0, halted |-> FALSE, slots |-> [s \in Slots |-> Free],
              spent |-> 0]
    /\ newDay = TRUE /\ cooling = FALSE
    /\ opensToday = 0 /\ opens = 0

-----------------------------------------------------------------------------
(* Arithmetic.                                                             *)

MulDiv(a, num, den) == (a * num) \div den

\* Rust's division of signed integers truncates toward zero.
DivTrunc(a, b) == IF a >= 0 THEN a \div b ELSE -((-a) \div b)

AtLeast(lo, n) == IF n < lo THEN lo ELSE n
AtMost(hi, n) == IF n > hi THEN hi ELSE n
Monus(a, b) == AtLeast(0, a - b)

-----------------------------------------------------------------------------
(* The day and its kill switch.                                            *)

Stake(p) == IF p = Free THEN 0 ELSE p.stake
Locked(b) ==
    Stake(b.slots[1]) + Stake(b.slots[2]) + Stake(b.slots[3]) + Stake(b.slots[4])

EquityAtCost(b) == b.balance + Locked(b)

LossReached(b) ==
    /\ EquityAtCost(b) < b.dayStart
    /\ (b.dayStart - EquityAtCost(b)) * BPS >= b.dayStart * DailyLossBps

\* Mutation: the switch follows the loss instead of latching.
FollowLoss(b) == [b EXCEPT !.halted = LossReached(b)]

\* check_kill_switch
CheckKillSwitch(b) == [b EXCEPT !.halted = @ \/ LossReached(b)]

\* Mutation: the window rolls on every call.
RollAlways(b) ==
    [b EXCEPT !.dayStart = EquityAtCost(b), !.tradesToday = 0, !.halted = FALSE]

\* roll_day
RollDay(b) ==
    IF newDay
    THEN [b EXCEPT !.dayStart = EquityAtCost(b), !.tradesToday = 0, !.halted = FALSE]
    ELSE b

-----------------------------------------------------------------------------
(* Opening.                                                                *)

\* precheck_open: a decision it rejects fails the instruction, except that
\* low confidence is a heartbeat.
Permitted(b, ask) ==
    /\ ~b.halted
    /\ ~cooling
    /\ b.tradesToday < MaxTrades
    /\ ask.sure /\ ask.stop # 0

StopBps(ask) == AtMost(MaxStopBps, AtLeast(MinStopBps, ask.stop))
Leverage(ask) == AtMost(MaxLeverage, AtLeast(1, ask.lev))

\* Stake of the plan, fraction or risk sized, at most the balance.
PlanStake(b, ask) ==
    AtMost(b.balance,
        IF RiskSizing
        THEN MulDiv(MulDiv(b.balance, MaxStakeFracBps, BPS), BPS,
                    AtLeast(1, Leverage(ask) * StopBps(ask)))
        ELSE MulDiv(b.balance, AtMost(MaxStakeFracBps, ask.frac), BPS))

Fee(stake, lev) == MulDiv(stake * lev, FeeBps, BPS)

\* The market fill, worse than the mark by the spread.
Haircut(mark, up) ==
    IF up THEN mark + MulDiv(mark, SpreadBps, BPS) ELSE mark - MulDiv(mark, SpreadBps, BPS)

NewPosition(m, ask, stake) ==
    LET lev == Leverage(ask)
        entry == Haircut(price[m], ask.long)
        margin == MulDiv(entry, BPS - MaintBufferBps, lev * BPS)
        risk == MulDiv(entry, StopBps(ask), BPS)
        gain == MulDiv(entry, ask.tp, BPS)
    IN  [market |-> m, long |-> ask.long, entry |-> entry, stake |-> stake, lev |-> lev,
         liq |-> IF ask.long THEN Monus(entry, margin) ELSE entry + margin,
         stop |-> IF ask.long THEN Monus(entry, risk) ELSE entry + risk,
         tp |-> IF ask.tp = 0 THEN 0
                ELSE IF ask.long THEN entry + gain ELSE Monus(entry, gain),
         ticks |-> 0]

Holds(b, s, m) == b.slots[s] # Free /\ b.slots[s].market = m

\* find_position_in_market
InMarket(b, m) == \E s \in Slots : Holds(b, s, m)

FirstFree(b, s) == b.slots[s] = Free /\ \A t \in 1..(s - 1) : b.slots[t] # Free

\* Mutation: the fee is not set against the balance.
CoversStake(b, stake, fee) == stake >= MinStake /\ b.balance >= stake

Covers(b, stake, fee) == stake >= MinStake /\ b.balance >= stake + fee

\* Mutation: the fee is booked and not paid.
TakeStakeOnly(b, stake, fee) == [b EXCEPT !.balance = @ - stake, !.spent = @ + fee]

TakeStake(b, stake, fee) == [b EXCEPT !.balance = @ - (stake + fee), !.spent = @ + fee]

\* apply_decision, OPEN: roll_day, precheck_open, apply_open.
Open(m, ask) ==
    LET b == RollDay(bot)
        stake == PlanStake(b, ask)
        fee == Fee(stake, Leverage(ask))
    IN
    /\ opens < MaxOpens
    /\ Permitted(b, ask)
    /\ ~InMarket(b, m)
    /\ Covers(b, stake, fee)
    /\ \E s \in Slots :
        /\ FirstFree(b, s)
        /\ bot' = [TakeStake(b, stake, fee) EXCEPT
                    !.tradesToday = @ + 1,
                    !.slots[s] = NewPosition(m, ask, stake)]
    /\ newDay' = FALSE /\ cooling' = TRUE
    /\ opensToday' = opensToday + 1 /\ opens' = opens + 1
    /\ UNCHANGED marketVars

-----------------------------------------------------------------------------
(* Closing.                                                                *)

Pnl(p, exit) ==
    LET raw == DivTrunc(p.stake * p.lev * (exit - p.entry), p.entry)
    IN  IF p.long THEN raw ELSE -raw

Credit(p, exit) == AtLeast(0, p.stake + Pnl(p, exit) - Fee(p.stake, p.lev))

\* apply_close, booked at credit.  The check_kill_switch it ends with is the
\* end of every step that closes.
Close(b, s, credit) ==
    [b EXCEPT !.balance = @ + credit,
              !.pnl = @ + credit - b.slots[s].stake,
              !.slots[s] = Free]

CloseAt(b, s, mark) ==
    Close(b, s, Credit(b.slots[s], Haircut(mark, ~b.slots[s].long)))

\* apply_decision, CLOSE.
CloseByOperator(m) ==
    LET b == RollDay(bot)
    IN
    /\ \E s \in Slots :
        /\ Holds(b, s, m) /\ \A t \in 1..(s - 1) : ~Holds(b, t, m)
        /\ bot' = CheckKillSwitch(CloseAt(b, s, price[m]))
    /\ newDay' = FALSE /\ cooling' = TRUE
    /\ UNCHANGED <<marketVars, opensToday, opens>>

\* apply_decision that trades nothing: HOLD, low confidence, an OPEN that
\* apply_open declines, a CLOSE without a position.
Heartbeat ==
    /\ bot' = RollDay(bot)
    /\ newDay' = FALSE /\ cooling' = TRUE
    /\ UNCHANGED <<marketVars, opensToday, opens>>

-----------------------------------------------------------------------------
(* The crank.                                                              *)

Funding(p, secs) == (p.stake * p.lev * FundingBps * secs) \div (BPS * HourSecs)

\* Funding is taken from the free balance, as far as it goes.
TakeFunding(b, s, secs) ==
    LET taken == AtMost(b.balance, Funding(b.slots[s], secs))
    IN  [b EXCEPT !.balance = @ - taken, !.spent = @ + taken]

Liquidated(p, mark) == IF p.long THEN mark <= p.liq ELSE mark >= p.liq
Stopped(p, mark) == IF p.long THEN mark <= p.stop ELSE mark >= p.stop
TookProfit(p, mark) ==
    p.tp # 0 /\ IF p.long THEN mark >= p.tp ELSE mark <= p.tp

\* Mutation: positions do not age.
NoAging(b, s) == b

\* One more tick held.
Age(b, s) == [b EXCEPT !.slots[s].ticks = @ + 1]

\* The loop of maintain_llm, for the position of slot s.
Maintain(b, s, mark, secs) ==
    LET f == TakeFunding(b, s, secs)
        p == b.slots[s]
        aged == Age(f, s)
    IN  CASE Liquidated(p, mark) -> Close(f, s, 0)
          [] ~Liquidated(p, mark) /\ Stopped(p, mark) -> CloseAt(f, s, p.stop)
          [] ~Liquidated(p, mark) /\ ~Stopped(p, mark) /\ TookProfit(p, mark)
                -> CloseAt(f, s, mark)
          [] OTHER -> IF aged.slots[s].ticks >= MaxHoldTicks
                      THEN CloseAt(aged, s, mark) ELSE aged

\* The loop of maintain_llm meets at most one position (AtMostOnePerMarket).
Maintained(b, m) ==
    IF InMarket(b, m)
    THEN {Maintain(b, s, price[m], secs) : s \in {s \in Slots : Holds(b, s, m)},
                                           secs \in Gaps}
    ELSE {b}

\* tick of one market, with the bot among the accounts: roll_day, maintain_llm.
\* Accounts that name the bot again are as one more print of the same price, after
\* no time at all.
Tick(m) ==
    /\ m \in unfolded
    /\ unfolded' = unfolded \ {m}
    /\ \E rolled \in {RollDay(bot)} :
         \E b \in Maintained(rolled, m) : bot' = CheckKillSwitch(b)
    /\ newDay' = FALSE
    /\ UNCHANGED <<price, cooling, opensToday, opens>>

-----------------------------------------------------------------------------
(* The world: feeds and clock.                                             *)

Publish(m) ==
    /\ \E p \in Prices : price' = [price EXCEPT ![m] = p]
    /\ unfolded' = unfolded \cup {m}
    /\ UNCHANGED <<bot, clockVars, opensToday, opens>>

Midnight ==
    /\ newDay' = TRUE
    /\ opensToday' = 0
    /\ UNCHANGED <<marketVars, bot, cooling, opens>>

CooledDown ==
    /\ cooling' = FALSE
    /\ UNCHANGED <<marketVars, bot, newDay, opensToday, opens>>

Next ==
    \/ \E m \in Markets, ask \in Asks : Open(m, ask)
    \/ \E m \in Markets : CloseByOperator(m) \/ Tick(m) \/ Publish(m)
    \/ Heartbeat \/ Midnight \/ CooledDown

\* Nothing is owed here; who keeps cycling is said in LlmOperator.
Spec == Init /\ [][Next]_vars

-----------------------------------------------------------------------------
(* Properties.                                                             *)

\* No money appears or vanishes between opening, funding and closing: cash and
\* locked stakes are what the bot started with, plus the result it books,
\* minus what it paid in opening fees and funding (paper_llm.rs:48-50).
Books == bot.balance + Locked(bot) = StartBalance + bot.pnl - bot.spent

\* A market is never entered twice: apply_close, through
\* find_position_in_market, would close only the first (paper_llm.rs:160-179).
AtMostOnePerMarket ==
    \A s, t \in Slots :
        /\ bot.slots[s] # Free /\ bot.slots[t] # Free
        /\ bot.slots[s].market = bot.slots[t].market
        => s = t

\* However decisions, ticks and midnights interleave, no calendar day sees
\* more than max_trades_per_day opens: trades_today is reset once a day, by
\* whichever instruction comes first (paper_llm.rs:74-84).
DailyTradeCap == opensToday <= MaxTrades

\* Why, inductively: trades_today counts the opens of today, unless the roll
\* to today is still due and nothing was opened.
DayCounted ==
    /\ bot.tradesToday <= MaxTrades
    /\ opensToday = IF newDay THEN 0 ELSE bot.tradesToday

BotInv == TypeOK /\ Books /\ AtMostOnePerMarket /\ DayCounted

\* Once halted, the bot opens nothing and stays halted until the day rolls,
\* also when a close lifts its equity above the limit again
\* (paper_llm.rs:54-70).
HaltMeansHalt ==
    [][bot.halted /\ ~newDay =>
        /\ bot'.halted
        /\ \A s \in Slots : bot'.slots[s] # Free => bot.slots[s] # Free]_vars

=============================================================================
