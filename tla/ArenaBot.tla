------------------------------ MODULE ArenaBot ------------------------------
(***************************************************************************)
(* A deterministic bot of the arena program and the candles it trades on   *)
(* (arena-program/programs/arena/src): tick folds a price into the ring of *)
(* buckets of its market (candles.rs), maintains the position the bot has  *)
(* there (paper.rs) and opens one when the complete candles break out      *)
(* (strategy.rs).                                                          *)
(*                                                                         *)
(* The program is deterministic: a behaviour is the sequence of prints     *)
(* that ticks fold and of the accounts they list.  A tick is one           *)
(* transaction, here the step that folds its print and a step for each     *)
(* time its accounts name the bot, which they may do again and again.      *)
(* A stale or malformed feed, and a print that is not newer than the last  *)
(* one, are ticks that do nothing.                                         *)
(*                                                                         *)
(* Left out, as no guard reads them: the tape, wins, trades, equity_high,  *)
(* and the opening prices of candles.                                      *)
(***************************************************************************)
EXTENDS Integers, Sequences, SequencesExt

CONSTANTS
    Markets,        \* markets of ArenaConfig
    Prices,         \* prices a feed can print
    Gaps,           \* seconds between two prints
    Free,           \* no position
    BPS,            \* 10000
    FeeBps, SpreadBps, MaintBufferBps, BucketSecs,      \* ArenaConfig
    RingLen,        \* RING_LEN = 64
    MinCandles,     \* MIN_STRAT_CANDLES = 12
    ReadSpan, BreakoutBps, ActivityMultBps, TrendFilter, \* StrategyParams
    StakeFracBps, Leverage, ExitFavorableBps, MaxHoldTicks,
    MinStake,       \* MIN_STAKE_MICRO
    StartBalance,   \* starting_balance_micro
    StartTime,      \* of the first print
    MaxVisits,      \* times the accounts of a transaction can name one bot
    MaxPrints       \* bound on the prints of a market

\* MAX_POSITIONS
Slots == 1..4

\* since is history: the print it was opened at.
Position == [market : Markets, long : BOOLEAN, entry : Nat \ {0}, stake : Nat, liq : Nat,
             ticks : Nat, since : Nat]

\* What init_config and init_bot require, and that a feed prints above 0.  Buckets
\* of real time do not start at 0, which is how an unused one is told.  The spans
\* that init_bot accepts, 1 and 4, leave candles that fit the ring.
ASSUME ArenaBotAssumption ==
    /\ Prices \subseteq Nat \ {0} /\ Gaps \subseteq Nat
    /\ Free \notin Position
    /\ BPS \in Nat \ {0}
    /\ FeeBps \in 0..(BPS - 1) /\ SpreadBps \in 0..(BPS - 1)
    /\ MaintBufferBps \in 0..(BPS - 1)
    /\ BucketSecs \in Nat \ {0} /\ StartTime \in Nat /\ StartTime >= BucketSecs
    /\ RingLen \in Nat \ {0} /\ MinCandles \in Nat \ {0, 1}
    /\ ReadSpan \in Nat \ {0} /\ ReadSpan * MinCandles < RingLen
    /\ BreakoutBps \in Nat /\ ActivityMultBps \in Nat /\ TrendFilter \in BOOLEAN
    /\ StakeFracBps \in 0..BPS /\ Leverage \in Nat \ {0}
    /\ ExitFavorableBps \in Nat /\ MaxHoldTicks \in Nat \ {0}
    /\ MinStake \in Nat /\ StartBalance \in Nat
    /\ MaxVisits \in Nat \ {0} /\ MaxPrints \in Nat

VARIABLES
    state,  \* state[m]: MarketState
    bot,    \* the account; spent is history: opening fees
    visits, \* visits[m]: the last tick, if it is of m, may name the bot so often yet
    prints  \* history: prints[m], what ticks folded, and how far the price has come

vars == <<state, bot, visits, prints>>

Buckets == [high : Nat, low : Nat, close : Nat, start : Nat, path : Nat]

\* Types: no subtraction of the program falls below zero, which would panic.
TypeOK ==
    /\ state \in [Markets -> [ring : [0..(RingLen - 1) -> Buckets],
                              head : 0..(RingLen - 1), published : Nat]]
    /\ bot \in [balance : Nat, pnl : Int, spent : Nat,
                slots : [Slots -> Position \cup {Free}]]
    /\ visits \in [Markets -> 0..MaxVisits]
    /\ \A m \in Markets :
          /\ prints[m] \in Seq([price : Prices, ts : Nat, way : Nat])
          /\ Len(prints[m]) <= MaxPrints

\* A bucket of a ring that is still zeroed.
Blank == [high |-> 0, low |-> 0, close |-> 0, start |-> 0, path |-> 0]

Init ==
    /\ state = [m \in Markets |-> [ring |-> [i \in 0..(RingLen - 1) |-> Blank],
                                   head |-> 0, published |-> 0]]
    /\ bot = [balance |-> StartBalance, pnl |-> 0, spent |-> 0,
              slots |-> [s \in Slots |-> Free]]
    /\ visits = [m \in Markets |-> 0]
    /\ prints = [m \in Markets |-> <<>>]

-----------------------------------------------------------------------------
(* Candles.                                                                *)

Distance(a, b) == IF a > b THEN a - b ELSE b - a

BucketStart(ts) == ts - (ts % BucketSecs)

Flat(close, start) ==
    [high |-> close, low |-> close, close |-> close, start |-> start, path |-> 0]

Hit(b, price) ==
    [b EXCEPT !.high = Max({@, price}), !.low = Min({@, price}), !.close = price,
              !.path = @ + Distance(price, b.close)]

\* Mutation: a gap is one step of the head, whatever its length.
RollOne(ms, target) ==
    LET head == (ms.head + 1) % RingLen
    IN  [ms EXCEPT !.head = head, !.ring[head] = Flat(ms.ring[ms.head].close, target)]

\* The head moves to the bucket of target and leaves flat ones behind, at most
\* all around the ring.
RollForward(ms, target) ==
    LET cur == ms.ring[ms.head]
        from == Max({cur.start, target - RingLen * BucketSecs})
        steps == (target - from) \div BucketSecs
        \* how many steps until the head comes by i
        Turn(i) == IF i > ms.head THEN i - ms.head ELSE i - ms.head + RingLen
    IN  [ms EXCEPT
            !.head = (@ + steps) % RingLen,
            !.ring = [i \in DOMAIN @ |->
                        IF Turn(i) <= steps
                        THEN Flat(cur.close, from + Turn(i) * BucketSecs) ELSE @[i]]]

\* fold_price; the bucket at the head is unused before the first print only.
FoldPrice(ms, price, ts) ==
    LET cur == ms.ring[ms.head]
        rolled == CASE cur.start = 0 ->
                          [ms EXCEPT !.ring[ms.head] = Flat(price, BucketStart(ts))]
                    [] cur.start # 0 /\ ts < cur.start + BucketSecs -> ms
                    [] OTHER -> RollForward(ms, BucketStart(ts))
    IN  [rolled EXCEPT !.ring[rolled.head] = Hit(@, price), !.published = ts]

\* How far the price came in those of S.
PathOver(f, S) == MapThenSumSet(LAMBDA i : f[i].path, S)

\* The candle of a group of buckets that ends with the bucket at last.
Candle(back, group, last) ==
    [h |-> Max({back[i].high : i \in group}), l |-> Min({back[i].low : i \in group}),
     c |-> back[last].close, path |-> PathOver(back, group)]

\* Candles of ReadSpan buckets each, the newest last; back[i] is the bucket i before
\* the one in progress.
CandlesOf(back) ==
    [k \in 1..MinCandles |->
        LET last == (MinCandles - k) * ReadSpan + 1
        IN  Candle(back, last..(last + ReadSpan - 1), last)]

Base == ReadSpan * MinCandles

BackFrom(head, i) == (head + RingLen - i) % RingLen

\* Mutation: the bucket in progress is taken for a complete one.
CandlesInProgress(ms) ==
    LET back == [i \in 1..Base |-> ms.ring[(ms.head + RingLen + 1 - i) % RingLen]]
    IN  IF \A i \in 1..Base : back[i].start # 0 THEN CandlesOf(back) ELSE <<>>

\* complete_candles: all or nothing.
CompleteCandles(ms) ==
    LET back == [i \in 1..Base |-> ms.ring[BackFrom(ms.head, i)]]
    IN  IF \A i \in 1..Base : back[i].start # 0 THEN CandlesOf(back) ELSE <<>>

-----------------------------------------------------------------------------
(* The signal.                                                             *)

Sides == {"long", "short"}

Breaks(side, close, high, low) ==
    LET up == close * BPS >= high * (BPS + BreakoutBps)
    IN  IF side = "long" THEN up
        ELSE ~up /\ close * BPS <= low * (BPS - BreakoutBps)

\* decide_ring_momentum: the side to open, or none.
Signal(candles) ==
    LET n == Len(candles)
        last == candles[n]
        prior == SubSeq(candles, 1, n - 1)
        high == Max({prior[k].h : k \in DOMAIN prior})
        low == Min({prior[k].l : k \in DOMAIN prior})
        paths == PathOver(prior, DOMAIN prior)
        first == candles[1].c
        Trend(side) == first # 0 /\ IF side = "long" THEN last.c > first ELSE last.c < first
    IN  {side \in Sides :
            /\ BreakoutBps < BPS
            /\ n >= MinCandles
            /\ last.c # 0 /\ high # 0 /\ low # 0
            /\ Breaks(side, last.c, high, low)
            /\ paths # 0
            /\ last.path * Len(prior) * BPS >= ActivityMultBps * paths
            /\ TrendFilter => Trend(side)}

-----------------------------------------------------------------------------
(* The paper account.                                                      *)

MulDiv(a, num, den) == (a * num) \div den

\* Rust's division of signed integers truncates toward zero.
DivTrunc(a, b) == IF a >= 0 THEN a \div b ELSE -((-a) \div b)

Haircut(mark, up) ==
    IF up THEN mark + MulDiv(mark, SpreadBps, BPS) ELSE mark - MulDiv(mark, SpreadBps, BPS)

Fee(stake) == MulDiv(stake * Leverage, FeeBps, BPS)

Covers(b, stake) == stake >= MinStake /\ b.balance >= stake + Fee(stake)

NewPosition(m, side, price, stake, ts) ==
    LET long == side = "long"
        entry == Haircut(price, long)
        margin == MulDiv(entry, BPS - MaintBufferBps, Leverage * BPS)
    IN  [market |-> m, long |-> long, entry |-> entry, stake |-> stake, ticks |-> 0,
         since |-> ts,
         liq |-> IF long THEN Max({0, entry - margin}) ELSE entry + margin]

\* Mutation: the fee is booked and not paid.
ChargeStakeOnly(b, stake) == [b EXCEPT !.balance = @ - stake, !.spent = @ + Fee(stake)]

Charge(b, stake) ==
    [b EXCEPT !.balance = @ - (stake + Fee(stake)), !.spent = @ + Fee(stake)]

Holds(b, s, m) == b.slots[s] # Free /\ b.slots[s].market = m
FirstFree(b, s) == b.slots[s] = Free /\ \A t \in 1..(s - 1) : b.slots[t] # Free

\* What try_open may leave: the stake in the first free slot, or nothing new.
Opened(b, m, side, price, ts) ==
    LET stake == MulDiv(b.balance, StakeFracBps, BPS)
    IN  {[Charge(b, stake) EXCEPT !.slots[s] = NewPosition(m, side, price, stake, ts)] :
            s \in {s \in Slots : /\ FirstFree(b, s) /\ Covers(b, stake)
                                 /\ \A t \in Slots : ~Holds(b, t, m)}}

\* close, booked at credit.
Close(b, s, credit) ==
    [b EXCEPT !.balance = @ + credit, !.pnl = @ + credit - b.slots[s].stake,
              !.slots[s] = Free]

CloseAt(b, s, mark) ==
    LET p == b.slots[s]
        exit == Haircut(mark, ~p.long)
        raw == DivTrunc(p.stake * Leverage * (exit - p.entry), p.entry)
        pnl == IF p.long THEN raw ELSE -raw
    IN  Close(b, s, Max({0, p.stake + pnl - Fee(p.stake)}))

Liquidated(p, mark) == IF p.long THEN mark <= p.liq ELSE mark >= p.liq

Favorable(p, mark) ==
    /\ IF p.long THEN mark > p.entry ELSE mark < p.entry
    /\ Distance(mark, p.entry) * BPS >= p.entry * ExitFavorableBps

\* maintain, one slot
MaintainSlot(b, s, m, mark) ==
    LET p == b.slots[s]
        aged == [b EXCEPT !.slots[s].ticks = @ + 1]
    IN  CASE ~Holds(b, s, m) -> b
          [] Holds(b, s, m) /\ Liquidated(p, mark) -> Close(b, s, 0)
          [] Holds(b, s, m) /\ ~Liquidated(p, mark) /\ Favorable(p, mark) ->
                CloseAt(b, s, mark)
          [] OTHER -> IF aged.slots[s].ticks >= MaxHoldTicks
                      THEN CloseAt(aged, s, mark) ELSE aged

\* maintain
Maintain(b, m, mark) ==
    LET Slot(c, s) == MaintainSlot(c, s, m, mark)
    IN  Slot(Slot(Slot(Slot(b, 1), 2), 3), 4)

-----------------------------------------------------------------------------
(* The tick.                                                               *)

\* There is at most one side to follow.
Followed(b, m, sides, price, ts) ==
    LET opened == UNION {Opened(b, m, side, price, ts) : side \in sides}
    IN  IF opened = {} THEN {b} ELSE opened

\* Mutation: a print may be folded again.
AnyPrint(m, ts) == TRUE

Newer(m, ts) == ts > state[m].published

\* tick of a fresh print, up to its accounts
Tick(m, price, gap) ==
    LET ts == IF prints[m] = <<>> THEN StartTime ELSE state[m].published + gap
        way == IF prints[m] = <<>> THEN 0
               ELSE Last(prints[m]).way + Distance(price, Last(prints[m]).price)
    IN
    /\ Len(prints[m]) < MaxPrints
    /\ Newer(m, ts)
    /\ state' = [state EXCEPT ![m] = FoldPrice(@, price, ts)]
    /\ prints' = [prints EXCEPT ![m] = Append(@, [price |-> price, ts |-> ts, way |-> way])]
    /\ visits' = [n \in Markets |-> IF n = m THEN MaxVisits ELSE 0]
    /\ UNCHANGED bot

\* the same tick, once for each time its accounts name the bot
Visit(m) ==
    LET print == Last(prints[m])
    IN
    /\ visits[m] > 0
    /\ visits' = [visits EXCEPT ![m] = @ - 1]
    /\ bot' \in Followed(Maintain(bot, m, print.price), m,
                        Signal(CompleteCandles(state[m])), print.price, print.ts)
    /\ UNCHANGED <<state, prints>>

\* tick of a print that was folded before, or that is stale.
IdleTick == UNCHANGED vars

Next ==
    \/ IdleTick
    \/ \E m \in Markets, price \in Prices, gap \in Gaps : Tick(m, price, gap)
    \/ \E m \in Markets : Visit(m)

Spec == Init /\ [][Next]_vars

-----------------------------------------------------------------------------
(* What all prints together say.                                           *)

FirstBucket(past) == BucketStart(past[1].ts)

\* The prints in the bucket that starts at s, and those before it.
Within(past, s) == {j \in DOMAIN past : BucketStart(past[j].ts) = s}
Before(past, s) == {j \in DOMAIN past : past[j].ts < s}

\* A bucket opens where the one before it closed.
Seen(past, s) ==
    Within(past, s) \cup (IF Before(past, s) = {} THEN {} ELSE {Max(Before(past, s))})

\* The bucket that starts at s.
TrueBucket(past, s) ==
    LET seen == Seen(past, s)
    IN  IF s < FirstBucket(past) THEN Blank
        ELSE [high |-> Max({past[j].price : j \in seen}),
              low |-> Min({past[j].price : j \in seen}),
              close |-> past[Max(seen)].price,
              start |-> s,
              path |-> past[Max(seen)].way - past[Min(seen)].way]

\* The bucket i before the one of the last print.
BucketBack(past, i) == TrueBucket(past, BucketStart(Last(past).ts) - i * BucketSecs)

TrueCandles(past) ==
    IF BucketStart(Last(past).ts) - Base * BucketSecs < FirstBucket(past)
    THEN <<>> ELSE CandlesOf([i \in 1..Base |-> BucketBack(past, i)])

\* decideRingMomentum of the TypeScript reference, on candles with high and low
\* above 0: its loop over the prior candles, its early returns.
ReferenceSignal(candles) ==
    LET n == Len(candles)
        last == candles[n]
        prior == SubSeq(candles, 1, n - 1)
        Highest == CHOOSE h \in {prior[k].h : k \in DOMAIN prior} :
                        \A k \in DOMAIN prior : prior[k].h <= h
        Lowest == CHOOSE l \in {prior[k].l : k \in DOMAIN prior} :
                        \A k \in DOMAIN prior : prior[k].l >= l
        paths == PathOver(prior, DOMAIN prior)
        side == IF last.c * BPS >= Highest * (BPS + BreakoutBps) THEN "long"
                ELSE IF last.c * BPS <= Lowest * (BPS - BreakoutBps) THEN "short"
                ELSE "null"
        against == IF side = "long" THEN last.c <= candles[1].c
                                    ELSE last.c >= candles[1].c
    IN  IF BreakoutBps >= BPS \/ n < MinCandles THEN {}
        ELSE IF \/ last.c <= 0
                \/ side = "null"
                \/ paths <= 0
                \/ last.path * Len(prior) * BPS < ActivityMultBps * paths
                \/ TrendFilter /\ against
        THEN {} ELSE {side}

-----------------------------------------------------------------------------
(***************************************************************************)
(* The account stays sound: amounts have their types, no unsigned          *)
(* subtraction panics, and no money appears or vanishes between opening    *)
(* and closing (paper.rs:67-139).                                          *)
(***************************************************************************)
Stake(p) == IF p = Free THEN 0 ELSE p.stake
Locked(b) ==
    Stake(b.slots[1]) + Stake(b.slots[2]) + Stake(b.slots[3]) + Stake(b.slots[4])

AccountSound ==
    /\ TypeOK
    /\ bot.balance + Locked(bot) = StartBalance + bot.pnl - bot.spent

(***************************************************************************)
(* The ring forgets nothing it still has room for: slot by slot back from  *)
(* the head it holds what all prints since the first say of that bucket,   *)
(* across skipped buckets and gaps longer than the ring, of which          *)
(* candles.rs:42-47 says that clamping is "semantics-free".                *)
(***************************************************************************)
\* The slots of the ring, from the head back.
Shows(ms, past) ==
    \A i \in 0..(RingLen - 1) : ms.ring[BackFrom(ms.head, i)] = BucketBack(past, i)

RingIsHistory == \A m \in Markets : prints[m] # <<>> => Shows(state[m], prints[m])

(***************************************************************************)
(* The program trades on what the TypeScript reference decides from the    *)
(* whole history, and never on the bucket in progress                      *)
(* (strategy.rs:3-6, candles.rs:90-118).                                   *)
(***************************************************************************)
SignalIsReference ==
    \A m \in Markets : prints[m] # <<>> =>
        Signal(CompleteCandles(state[m])) = ReferenceSignal(TrueCandles(prints[m]))

(***************************************************************************)
(* Ticking faster than the feed prints ages no position: since its         *)
(* opening one has aged at most as often as a transaction can name its     *)
(* bot, for each second of oracle time (the spam-aging guard,              *)
(* lib.rs:176-185).  That is once a print only if transactions name a bot  *)
(* once, which the loop over remaining_accounts does not ask (lib.rs:192). *)
(***************************************************************************)
AgingIsPaced ==
    \A s \in Slots : bot.slots[s] # Free =>
        bot.slots[s].ticks
            < MaxVisits * (1 + state[bot.slots[s].market].published - bot.slots[s].since)
=============================================================================
