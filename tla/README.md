# TLA+ models of copy-perps

The repository is *gwak.gg / breach*: an app that copies leveraged perpetual
positions.  A Next.js server (`app/`, `lib/`) holds subscriptions, a Postgres
ledger of bets and several background loops; trades settle on Flash (Solana)
and Pacifica; a Solana program (`arena-program/`) runs paper-trading bots whose
positions users may copy.  This directory holds TLA+ models of the parts where
money depends on the order of things, TLC configurations that check them on
small instances, and TLAPS proofs for every instance.

1. [Inventory](#1-inventory)
2. [Modules and how they correspond to the code](#2-modules-and-how-they-correspond-to-the-code)
3. [Runs, bounds, fairness](#3-runs-bounds-fairness)
4. [What is proved](#4-what-is-proved)
5. [Disagreements between the code and what is said of it](#5-disagreements-between-the-code-and-what-is-said-of-it)
6. [Plan](#6-plan)
7. [Not modelled](#7-not-modelled)

`PROJECT.json` lists components, runs, mutants, the map from definitions to
source lines, findings, hazards and theorems.  To run something:
`tlc -workers 2 -config X.cfg M` and `tlapm M_proofs.tla`.

## 1. Inventory

### How the parts interact

    browser, HTTP routes ─┐
    autopilot ticker ─────┼─ record ─ send ─ confirm ─►  bets, fills (Postgres)
    copy ticker ──────────┘            │                        ▲
       │  fetches                      ▼                        │ repairs
       │                     Flash / Pacifica positions ─► reconcile sweep
       ▼                                                  (in the whale ticker)
    sources: arena bots (Solana program), Flash wallets, whales
                 ▲
       crank (tick) and LLM operator (apply_decision)

Every background loop runs in every server process; a lease row in Postgres
elects the one that works.  Trades on Flash go through one discipline: write the
row, send the transaction, confirm the row by compare-and-set.  Nobody waits
for the chain; the sweep compares rows with the chain afterwards.  The copy
routes (`app/api/bet/*`) have another: a reservation per user and market, the
order, and the row after it or, for whales on Pacifica, before it.  Their bets
are closed by the user or by the mirror sweep, which a monitor of the venues'
sockets triggers.

### Components

| component | state | operations | what is hard | what makes it correct |
|---|---|---|---|---|
| Ticker and lease `lib/copy/ticker.ts`, `ticker-lease.ts` (near-copies for autopilot, whales, crank) | lease row (holder, heartbeat); per process: role, last check, engine state | acquire or renew by upsert, tick between beats, stand down | ticks without timeouts, failed queries that took effect, crash, take-over | one ticker at a time; fresh baselines after a take-over; somebody always ticks |
| Flash-tail ledger `lib/bets/flash-tail.ts` | `bets` rows (status, meta), `fills` | record, confirm open, confirm close, each a CAS plus an insert | slow clients, repeated closes, two statements | a receipt before exposure; terminal statuses are terminal; chain proceeds belong to the landed close |
| Reconcile sweep `lib/bets/flash-reconcile.ts` | none of its own: snapshots of rows between reads and writes | reap pending rows, verify signatures, look wallets up, expire rows | stale snapshots, unreadable wallets, dropped transactions, time box | dead rows hold nothing; wrong rows are repaired |
| Copy engine `lib/copy/engine.ts`, `store.ts`, `sources.ts` | in memory: primed targets, previous keys, attempted pairs; in the database: subscriptions and rows | per tick: load, fetch, close pass, open pass, baselines | failing fetches and sends, crash anywhere, stale wallet reads, caps from queries | one copy per source position; no close while the source is open; nothing from the book found at boot; daily cap up to lost confirms; copies leave when sources do |
| Arena program, LLM bots `paper_llm.rs`, `lib.rs` | one account per bot: balance, four position slots, day window, kill switch | `apply_decision` (open, close, hold), `tick` per market | rounding, underflow, midnight in any instruction, order of funding and exits | books balance; one position per market; daily cap; the switch trips and latches; positions end |
| Arena program, deterministic bots `paper.rs`, `strategy.rs`, `candles.rs` | account per bot, candle ring per market | `tick` | ring wrap-around, gaps, aggregation, two implementations of one rule | the ring is the history; the decision is the reference's; positions age at the pace of the oracle |
| Arena crank `lib/arena/crank.ts` | last commit, lease role | send `tick` per market, capped accounts, commit | failing sends, lease | every market is ticked again |
| LLM operator `lib/arena/llm/`, `scripts/arena/llm-operator-worker.ts` | the account as read, what is left to send | read state, ask the model, floor, submit | several actions per decision against one cooldown, transactions of unknown outcome, an off-chain mirror of the floor | what the mirror lets through the program accepts; a halted bot is released |
| Autopilot `lib/autopilot/` | session rows (budget, phase, claim), bets | claim, exits, decide, open, stop loss, emergency close | claim of 30 s without timeouts, lost confirms, results that change later | stakes fit the budget; no market twice; an exhausted session is flat |
| Whale, bot and leader copy routes, reservations `app/api/bet/whale`, `bot`, `copy`, `lib/bets/tail-reservation.ts` | reservation rows with TTL, bet rows | guard, reserve, order, compensate, block for review | order of unknown outcome, expiry and release of another's reservation | live tails are recorded; what could not be resolved blocks |
| Copy close `app/api/bet/copy/close` | `bets` rows | close by the user | beside a mirror close, write without a CAS | closed rows hold nothing; proceeds are the row's own |
| Mirror close and source monitor `lib/bets/mirror-close.ts`, `lib/whales/source-monitor.ts` | sockets, timer, running and runAgain flags, list of bets | debounce, sweep, read sources, close | events during a sweep, unreadable sources, recognizing a position | no close while the source is open; no event lost; followers leave |
| Flash v2 sessions `lib/flash-v2/session-store.ts` | session key per user | create, activate, revoke | check then upsert | the bound key keeps its secret |
| Pacifica deposits and withdrawals `lib/pacifica/` | none | match chain deposits with history; withdraw | greedy matching within a window; lost answers | nothing credited is reported missing, nor the reverse |
| Whale live cache `lib/whales/live-cache.ts` | Redis snapshot | read-merge-write | writers at once, snapshots older than the one they replace | a position that is open does not vanish from it |
| Everything else (users, Privy, prices, social, notifications, portfolio reads, UI, scripts) | - | reads, display, single statements | - | see section 7 |

`hazards` in `PROJECT.json` lists at which line each difficulty bites and which
property would catch it going wrong.

## 2. Modules and how they correspond to the code

| module | what it is |
|---|---|
| `TickerLease` | the lease row and the loop that lives under it |
| `Receipts` | abstract: what a bet ledger promises about exposure |
| `FlashTail` | ledger, clients, venue and sweep; implements `Receipts` |
| `CopyEngine` | one engine tick, step by step, with sources, venue and sweep around it |
| `ArenaLlmBot` | one LLM bot account under decisions, crank ticks and the clock |
| `LlmOperator` | the operator of such a bot: its cycle, its floor and its transactions, on top of `ArenaLlmBot` |
| `ArenaBot` | the candle ring of a market and a deterministic bot that trades on it |
| `Autopilot` | the tick of one autopilot session, with venue, sweep and user around it |
| `CopyTails` | the copy requests of one user on one market, their reservation, their closes |
| `MirrorClose` | source monitor and mirror sweep, with sources, sockets and cache around them |
| `*_proofs` | theorems and proofs about the module they extend, each with the lemmas on sets, sums and numbers it needs; `ArenaLlmBot_proofs` is also about `LlmOperator` |
| `MC*` | instances for TLC |

Modules compose by what one shows of the other: `CopyEngine` assumes that one
engine ticks at a time, which is `OneTicker` of `TickerLease`, and represents a
take-over as a new engine state; it represents the sweep by its four effects on
a row, which are those of the verification and liveness passes in `FlashTail`;
`Autopilot` does the same, and takes from `TickerLease` that two processes may
tick where a tick outlasts its lease.  `LlmOperator` extends `ArenaLlmBot` and
puts every transaction through its actions.  `MirrorClose` decides which
followers to close, `CopyTails` what such a close does at the venue and against
the user's own.

**TickerLease.**  `holder` and `beatAge` are the lease row, `pc`, `nap`,
`busy`, `lastCheck`, `wasHolder` the locals of the loop of each process.  A
process looks at the lease only when `Recheck` has passed (`IssueCheck`) and
ticks on its remembered role in between (`TickBetweenBeats`).  A query can be
granted, denied, or throw before or after its upsert took effect.  Clocks are
ages that saturate just beyond the TTL, so time is unbounded and the state
finite.  `stale` is history: whose engine state was created before a tick of
somebody else.

**FlashTail.**  `status`, `closeSig`, `proceeds`, `verified` are the columns of
a row and the fields of its meta that the code decides on.  A client is a
program counter (`opener`, `closer`) that may stop anywhere; since nothing
forces it on, a crash of a client needs no action.  A transaction in flight
lands, fails or is dropped.  `amount` is where the proceeds of a row come from,
`proceeds` where its `proceedsSource` says they do: `Opaque` are the closes
whose transaction does not show the owner's USDC account, for which the sweep
stamps what it could not derive (`VerifyCloseOpaque`).  Positions merge per slot (owner, market, side):
closing one closes all that merged.  The sweep is the code row by row: it acts
on `queue`, `candidates` and `gone` as it read them, however much rows have
moved since.  `Grow` passes the age cut-offs of the sweep: 5 min (pending rows
are reaped), 10 min (liveness), 30 min (a transaction not seen is refuted).

**CopyEngine.**  A row is the bet of one subscription for one source position
key.  The engine's program counter walks through load, fetches, close pass,
open pass and baselines; `NewEngine` is a crash or take-over at any of these
points and clears the three in-memory sets.  `cache` is the wallet as read once
per tick.  `young` abstracts the age limit on source positions; `Stamped` are
sources that report an open time at all.  Leverage, notional, mark and entry
gap are rejections without state, all of them `Skip`.

Bots and wallets are read at their source, `Whales` from the live cache
(`View`): `shown` is its snapshot.  A refresh reads accounts one by one
(`RefreshReads`), then the last snapshot for those it did not reach and those of
other sources (`RefreshMerges`), and writes both over whatever was written in
between (`RefreshWrites`); it may fail at any point.  Any number of refreshes
may run: the one of the ticker, the one of the monitor, one per source in each.
`hidden` is history: rows whose source was taken off the snapshot while it was
open.  A position that a refresh gives another id, as Hyperliquid positions get
when their open time becomes known, is to the model one that was closed and
another that was opened.

**ArenaLlmBot.**  `bot` is the account, less its telemetry.  An instruction is
atomic and an error reverts it, so a rejected decision is no step, and neither
is one that meets a stale feed.  The clock is reduced to what the program asks
of it: is the day of `day_start_ts` over (`newDay`), has the cooldown passed
(`cooling`), how many seconds of funding are due (`Gaps`).  Arithmetic is that
of the program: floor division of unsigned numbers, truncation for the signed
result, saturation where the code saturates.  Unsigned subtractions that do not
saturate would panic (the program is built with overflow checks): `TypeOK`
states that none falls below zero.  Three simplifications need a word:

- `apply_close` ends with `check_kill_switch`; in the model it is the end of
  every step that closes.  Within one instruction nothing happens after it that
  reads the switch, and the check is idempotent.
- `maintain_llm` loops over all slots and works on those of its market.  By
  `AtMostOnePerMarket`, proved, that is at most one.
- `spent` is history and counts the funding really taken.  The code's
  `funding_paid_micro` adds the full amount also when the balance saturates.

**LlmOperator.**  `read` is the account as `getBotState` saw it (with `acted`,
whether a transaction of this decision was confirmed since), `queue` what the
floor passed and is not sent yet, `wire` the transaction that was sent.  `Begin`
reads and sends a heartbeat if the day has to roll, `Decide` is the answer of
the model and `evaluateActions`, `Submit` and `Confirmed` send one transaction
after the other.  Any step may throw (`Throws`).  What is on the wire lands as
one of the actions of `ArenaLlmBot`, is declined or rejected by it, or expires;
`confirmTransaction` looks at none of this.  Days end, prices move and the bot
is ticked while a cycle goes on.

**ArenaBot.**  `state[m]` is the ring, its head and the last publish time;
`prints[m]`, all prints that were folded, is history and only properties read
it.  The loop of `fold_price` that walks the head over skipped buckets is one
assignment (`RollForward`) with the clamp of the code; a bucket keeps what is
read of it.  `CompleteCandles`, `Signal`, `Opened` (`try_open`) and `Maintain`
are the functions of the code, over its four slots.  A tick is one transaction:
`Tick` folds its print, and `Visit` is one turn of the loop over
`remaining_accounts` that meets the bot, an exit or an aging first and an entry
after it.  A transaction may name a bot several times (`MaxVisits`), once or not
at all.  A print in the history also
carries the way the price has come, of which `path_len` of a bucket is a
difference.  A print that is not newer, and a stale feed, are
ticks without effect.  `ReferenceSignal` is the TypeScript `decideRingMomentum`.
Markets are independent but for the balance.

**Autopilot.**  One session: `session` and `claimFree` are its row, `tick[w]`
the locals of `tickSession` in each process (the open bets as listed, the
realized result as computed, the wallet as read, the row in hand).  A tick
claims, walks its exit pass bet by bet, recomputes the result from the rows or
falls back to the cached column (`UseCached`), ends the session or reads the
wallet and enters at most one market, then attaches the stop loss or closes
again.  `AtRisk` is what the loss budget has to cover: the open rows, and of the
rows never confirmed those whose open is in hand, on its way or live;
`LostConfirms` are those of them that no tick will confirm any more.  Brain, tilt guard and marks are choices.  Results of closes are a full
loss or one profit; the sweep may replace or void them.

**CopyTails.**  A request has a rail: `flash` (flash-v2, of all three routes),
`whale` (Pacifica, row before order) or `copy` (Pacifica, no reservation, row
after order); flags may differ between processes.  `lock` is the row of
`tail_reservations`; `ahead` remembers which requests began before the taker
was over, so that expiry can be as late as the TTL demands without a clock.
Both venues net the user's orders into one position (`Position`), closes are
reduce-only (`Reductions`).  An order may be filled at any time, also between
what a close has read and its own order (`Under`): `crossed` remembers the rows
this concerns.  Every statement may fail before or after it took
effect, every order may be executed after nobody listens, every process may die
between two steps.

**MirrorClose.**  For each monitor, `timers` counts timeouts that are pending
and `handle` says whether the closure's variable holds the last of them: `fire`
forgets it, so a timeout may survive beside a new one.  The sweep works on
`bets` as listed and on each source as read.  How the copied position is
recognized differs by kind of source: Pacifica by an id formed from the open
time, Hyperliquid by an id the sweep forms itself, leaders by the market.
`Copy` takes a whale's position from the live cache, which may show any position
the source ever had.  Sockets drop and reopen.  The monitor goes with the lease:
its process dies (`MonitorDies`), or it is stopped (`StopMonitor`), which closes
its sockets and nothing else, so that its timeouts and its sweep live on as
those of the monitor `"old"` beside the new one.  A monitor that was stopped
before that is not followed any further.

The upper ends of `u64` and `i64` are not modelled: amounts are micro-dollars
of paper money, products are computed in 128 bits in the code, and the counters
saturate.

## 3. Runs, bounds, fairness

| run | module, configuration | result |
|---|---|---|
| `ticker_lease` | `MCTickerLease` | passes: `OneTicker`, `BaselinesFresh`, `SomeoneTicks` |
| `ledger` | `MCFlashTail` | passes: `DeadRowsHoldNothing`, `ChainProceedsAreReal`, `TerminalStays`, `LedgerPromise`, `RowsSettle` |
| `ledger_lost_confirm` | `MCFlashTailLostConfirm.cfg` | violates `LandedOpenKeepsItsRow` |
| `copy_engine` | `MCCopyEngine` | passes: `OneAttempt`, `BookAtBootIsBaseline`, `WithinDailyCap` |
| `copy_follow` | `MCCopyEngineFollow.cfg` | passes: `OnlyOrphansAreClosed`, `FollowersLeave` |
| `arena_bot` | `MCArenaLlmBot` | passes: `TypeOK`, `Books`, `DailyTradeCap`, `HaltMeansHalt` |
| `arena_operator` | `MCLlmOperator` | passes: `OperatorTypeOK`, `FloorMirrors`, `HaltsEnd`, `PositionsLeave` |
| `arena_ring` | `MCArenaBot` | passes: `AccountSound`, `RingIsHistory`, `SignalIsReference`, `AgingIsPaced` |
| `autopilot` | `MCAutopilot` | passes: `TypeOK`, `StakesFitBudget`, `MergesAreLostConfirms`, `ExhaustedIsFlat` |
| `copy_tails` | `MCCopyTails` | passes: `TypeOK`, `FlashStaysApart`, `LiveTailsAreRecorded`, `UnresolvedBlocks`, `ClosedRowsHoldNothing`, `ProceedsAreOwn` |
| `mirror` | `MCMirrorClose` | passes: `TypeOK`, `OnlyOrphansAreClosed`, `NoEventIsLost`, `OrphansLeave` |
| `mirror_hyperliquid` | `MCMirrorCloseHyperliquid.cfg` | violates `OnlyOrphansAreClosed` |

For every property of a passing run, `PROJECT.json` names a mutant: a plausible
bug in one definition under which TLC finds the property violated.  The mutated
definitions stand in the modules, marked as such, next to the ones they change.
`TypeOK` of `TickerLease`, `FlashTail` and `CopyEngine`, and `AtMostOnePerMarket`
of `ArenaLlmBot`, are proved for every instance (section 4) and not run.

**Bounds.**

- `ticker_lease`: two processes; a time unit is 30 s, so TTL = 6, re-check and
  longest sleep 1, an iteration up to 2 (one minute); one crash.  Two processes
  are enough for every race of the lease: the proofs are for any number.
- `ledger`: one bet and two closes that compete for its row, the last of which
  shows no proceeds.  Bets meet only in
  the slot they are merged in and in the batch of the sweep; the safety
  properties are proved for every number of bets and closes.
- `copy_engine`: one subscription, two source keys of one market and side, one
  with an open time and one without, one opening of a source after the start
  (any subset is open at the start), a daily cap of one stake.  Engines are
  replaced without a bound.  The cap of one makes every order of statuses count.
  Two subscriptions share nothing but the wallet cache and the venue slot, and
  the two keys share those already.
- `copy_follow`: one whale with one key, which may be opened again once, under
  fairness.  One refresh at a time is enough to write a snapshot that is older
  than what happened since it read; `RefreshMerges` has no other whale to take
  over here.  The theorem is about any number of refreshes and whales.
- `arena_bot`: `BPS` = 10 instead of 10000 and prices 6, 10, 13, so that
  rounding is coarse and each price is beyond a stop, a target or a liquidation
  of some position; two markets, two opens in a behaviour, four kinds of
  decision: a long above the leverage cap, a short with a tight stop and a
  target, one whose fee the balance does not cover, and one without a stop.  A gap of 0
  is a bot that is named again in the same tick.
  The markets are symmetric and the properties do not tell them apart.
- `arena_operator`: the one market that has a feed (`lib/arena/markets.ts:25-32`),
  one open a day and two in a behaviour, so that the second open of a decision
  meets the cap and the cooldown; decisions of no action, of two opens and of a
  change of side.  No symmetry, for the liveness properties.
- `arena_ring`: a ring of five buckets of two seconds, two candles of two
  buckets each, so that the candles fill all of the ring but the bucket in
  progress (the program: at most 48 of 63).  Six prints at gaps of 0 (not
  newer), 1 (the same bucket or the next), 3 (the next or a skipped one) and 13
  seconds (longer than the ring): more than once around.  Three prices break
  out up, down and not at all.  With one market the bot never needs its second
  slot; the theorems are about all four, and any markets.  A transaction names
  the bot up to twice, where a Solana transaction has room for a few dozen.
- `autopilot`: two processes, two markets, two rows, a budget of three units of
  which the first stake takes most, so the second fits only if nothing was lost;
  one crash.  Processes and markets are symmetric.
- `copy_tails`: two requests on any rails, one close of the user and one of the
  sweep.  A request has one row, so two closes can meet on one row or work on
  two, and the second request can enter the market again under either.  Requests
  are symmetric.
- `mirror`: one source of kind `pacifica` or `leader`, one bet, two positions
  of the source, two entry prices, two timeouts of each of two monitors.  Other accounts appear as
  `OtherEvent`; sources of a sweep are read one after the other and share no
  state.  `mirror_hyperliquid` needs one position and one price.

**Assumptions of a run.**  Two constants bound what the code does not bound;
without them the properties named fail, and where the code's own comments claim
more, section 5 says so.  The theorems that need one of them have it as their
hypothesis.

- `SlowTicks = FALSE` (`Autopilot`): a tick is over when its 30 s claim is.
  Otherwise ticks of two processes meet in one session, and the second sees
  neither the row nor the wallet the first is about to change: the stakes no
  longer fit the budget, and markets are merged without a lost confirm.
- `SlowRequests = FALSE` (`CopyTails`): a request takes less than half of the
  60 s of a reservation.  Otherwise its successor's reservation is deleted by it,
  and two orders of one market go out.

Deadlock is checked where the system cannot stop.  `autopilot` and
`copy_tails` have a bounded number of rows, requests and closes, and end.

**Fairness.**

- `TickerLease`: time passes, loops run, dead processes are restarted (the
  platform restarts its container), and a lease query that can be granted again
  and again does not fail every time.  The last is strong fairness on
  `CheckGranted`: without it a database that answers every query with an error
  is allowed, and nobody would tick.
- `FlashTail`: the whale ticker starts a sweep every minute; transactions are
  decided; rows grow old; a look-up repeated in sweep after sweep is not
  answered by an error, a crash or the end of the time box every time.  Clients
  owe nothing, which is the point of the sweep.
- `CopyEngine`: engines crash finitely often, the ticker ticks, transactions
  are decided, the sweep visits each row; a fetch, close or confirm tried in tick
  after tick does not throw every time; whales are read and the live cache is
  written again and again.
- `MirrorClose`: some monitored account trades again and again and the accounts
  pause for the delay of the debounce again and again (strong fairness of
  `Fire`); no query, read or close fails every time.  The first is needed
  because nothing but an event starts a sweep: a close that failed waits for
  the next event of anybody.
- `LlmOperator`: days end, the worker goes on cycling, a transaction is
  executed or expires (weak fairness); neither the heartbeats nor what precedes
  them fail every day (strong fairness of `Submit` and `LandBeat`).  A crank is
  not assumed but named: `PositionsLeave` is an implication from `CrankWorks`
  (feeds print, prints are folded), `HaltsEnd` does without it.

## 4. What is proved

All theorems hold for every value of the constants that satisfies the named
assumption of the module, e.g. `ArenaAssumption`, which is what `init_config`
and `init_llm_bot` require.

**TickerLease_proofs.**  `TypeCorrect`.  `MutualExclusion`: under
`TicksFit == Recheck + MaxIter <= TTL`, `Spec => []OneTicker`.
`FreshBaselines`: under `GapsFit == Recheck + MaxIter + MaxNap + MaxIter <= TTL`,
`Spec => []BaselinesFresh`.  The inductive invariant ties the age of the
heartbeat to the time since the last check of the process that believes it is
the holder: a believer whose row was taken over must have been away for longer
than the TTL, and neither a tick nor a nap is that long.  The code enforces
neither inequality; with iterations of four minutes (`MaxIter = 8`) TLC finds
two processes that tick.

**FlashTail_proofs.**  `InductiveInvariant`: `Spec => []LedgerInv`, from which
`TypeCorrect`, `DeadRows`, `ChainProceeds`, `DeadRowsStayDead` and
`ImplementsReceipts` (the refinement of `Receipts`: initial states map to
initial states, each step to a step or a stutter) follow.  The properties are
not inductive: that a row declared dead has no exposure depends on why the
sweep may conclude so.  `OpenersInOrder` says that a transaction past the first
cut-off is decided, `OpensDecided` what the status tells of the open,
`VerifiedMeansLanded` that a `reconciledAt` which can be confirmed again proves
its open even when a slow close wrote back an old meta, and `SweepMemory` that
what the sweep remembers from its reads is still true when it acts.
`ChainProceeds` ties a chain stamp to the landed close the row names, and the
amount to that transaction, unless the close is one of `Opaque`.

**ArenaLlmBot_proofs.**  `InductiveInvariant`: `Spec => []BotInv` with
`BotInv == TypeOK /\ Books /\ AtMostOnePerMarket /\ DayCounted`, and from it
`TypeCorrect`, `BooksBalance`, `OnePerMarket`, `CapHolds` and `HaltHolds`.
`DayCounted` is the strengthening: `trades_today` counts the opens of today,
unless the roll to today is still due and nothing was opened.  `TypeCorrect`
carries the arithmetic: a fraction below one of a positive price is smaller
than the price, a fee the guard let through fits into the balance, and funding
saturates.

**ArenaLlmBot_proofs, of LlmOperator.**  `OperatorInvariant`:
`OperatorSpec => []OperatorInv`, with `BotInv` and `FloorInv` as its parts, for
any decisions of the model; `OperatorTypes` and `FloorHolds` follow.  `FloorInv`
says that what is queued or on the wire fits the trades the account has left,
and that a cooldown running now was seen by the read or started by this cycle's
own sends.  What the floor keeps of a decision is a fold over its actions; the
lemmas characterise the fold by the function its recursion defines, which
exists and is unique.

**ArenaBot_proofs.**  `InductiveInvariant`: `Spec => []ArenaInv`, and from it
`AccountHolds`, `RingRemembers`, `SignalAgrees` and `AgingPaced`, for any
markets, gaps, lengths of ring and buckets.  `Kept` ties a ring to its prints:
zeroed before the first, afterwards slot by slot what all prints say, where
prints are in order and the way they came never shrinks (`History`).  A fold
into the bucket in progress changes one bucket of the history; a fold further on
moves every slot back by the number of buckets passed, modulo the ring, and the
buckets in between saw no print, so that they are flat at the last price, the
clamp of `fold_price` included.  `Good` types and balances the account through
every slot of `maintain` and the opening after it; `Paced` pays the ticks a position
counts with seconds of oracle time, `MaxVisits` of them with each, less the
namings that the transaction under way has left.  `SignalAgrees` adds that whole
candles have prices above zero, on which the guards of the program and those of
the reference are the same.

**CopyEngine_proofs.**  `InductiveInvariant`: `Spec => []CopyInv`, and from it
`TypeCorrect`, `CopiedOnce`, `ClosesOrphansOnly`, `BootBookNotCopied` and
`CapKeeps`, for any number of subscriptions, keys and engine replacements.  The
strengthenings say why the engine may do what it does: `LedgerRemembers`, the
row of an attempt exists before anything is sent, so the ledger knows what a
dead engine forgot; `OrphansKnown`, what the close pass is left with after the
fetches was recorded before them and is not in what they showed, hence gone or,
of a whale, hidden (`Excused`); `BaselinesCover`, a key that is open at a primed
target and not in its baseline was opened since the boot; `CapLeft`, nothing
that happens between the cap guard and the insert makes another row count.
`CapKeeps` adds that what is at stake is what counts, together with what lost
its confirm.  This needs the sets of subscriptions and keys to be finite, which
rows of a database are.

**MirrorClose_proofs.**  `InductiveInvariant`: `Spec => []MirrorInv`, and from
it `TypeCorrect`, `EventsAreHeard` and, where no source is a Hyperliquid whale,
`ClosesOrphansOnly`.  With such a source the last is false
(`mirror_hyperliquid`).  The strengthenings: a bet whose position was never gone
carries the id the source still has (`CopiesFollow`); what a sweep of either
monitor lists was once copied and what it calls orphans was gone (`ListedWereConfirmed`,
`OrphansWereGone`); a timeout the closure remembers is pending
(`HandleIsPending`).

**Autopilot_proofs.**  `TypeCorrect` holds without a hypothesis.  Under
`SlowTicks = FALSE`, `InductiveInvariant`: `Spec => []Inv`, and from it
`StakesFit`, `MergesExplained` and `ExhaustedFlat`.  `ShapeInv` says that one
tick runs at a time and how far the rows are that it has read or in hand.
`BudgetInv` is the chain from the sum a tick computes to the stake it takes: the
open rows are among those it listed (`SeenIsOpen`), what it takes for free is
free (`RemainingIsFree`), a stake in doubt still fits (`DoubtsFit`).  The
stakes of lost confirms stand on both sides: nothing reserves them.  `MergeInv`
says the same of markets: of rows that are or may come to be part of a position,
two share a market only if one lost its confirm, and what a tick did not list
the wallet shows.  The sums over rows are `MapThenSumSet`, a recursion over
subsets; what is needed of them (adding, removing, bounds, unions) is shown by
the smallest counterexample, as proper inclusion among the subsets of a finite
set is well founded.

**CopyTails_proofs.**  Three invariants, each over the one before.
`ShapesHold`: `Spec => []TypeInv`, without a hypothesis, what the status of a
row tells of its request and order; `TypeCorrect` follows.  Under
`SlowRequests = FALSE`, `ReservationsHold`: `Spec => []ReserveInv`, and from it
`FlashApart` and `UnresolvedTailsBlock`.  `LockInv` says that one request is
between its reservation and its end, `BlockInv` that whoever might still order
beside an unresolved tail began while its reservation was alive, hence before it
can expire.  Without a hypothesis again, `InductiveInvariant`:
`Spec => []CloseInv`, and from it `ClosedRowsAreEmpty`, `ResultsAreOwn` and
`LiveTailsHaveRows`.  Orders are filled under a close at any time: what comes to
a position since the close has read it is `crossed` with all the close has seen,
and of what the close has seen its order leaves nothing (`SeenInv`); a close of
a row that was not crossed acts on that row's own exposure, unless an order was
filled beside another (`AloneInv`, `OwnInv`).

**Model-checked only.**  The liveness properties `SomeoneTicks`, `RowsSettle`,
`FollowersLeave`, `OrphansLeave`, `HaltsEnd` and `PositionsLeave` are beyond the
proof system (fairness and ENABLED), so they stay with TLC.  Every invariant and
every action property that a passing run checks is also a theorem.

## 5. Disagreements between the code and what is said of it

With a run:

- **Landed open, abandoned row** (`ledger_lost_confirm`).
  `lib/copy/engine.ts:492` leaves a row pending "for the reconcile sweep" when
  its confirm fails after the send.  The sweep's first act is to abandon
  pending rows older than five minutes, and no later pass lists abandoned rows.
- **Ids of Hyperliquid positions** (`mirror_hyperliquid`).  The sweep asks
  `getHyperliquidOpenPositionIds`, which forms ids from the entry price; the
  refresh, and so the bets, have ids formed from the open time.  They never
  agree: every auto-close copy of a Hyperliquid whale is closed at the first
  forced sweep, its source being open.

Seen while modelling, and behaviours of the models:

- **Two tickers.**  `lib/copy/ticker.ts:4` promises that exactly one process
  ticks.  The lease is looked at only at the head of the loop, and
  `docs/architecture.md:464` says that engine calls carry no abort timeouts: a
  tick longer than the TTL overlaps the next holder's.
- **Stacking.**  The guard at `lib/copy/engine.ts:384` shows landed positions
  as read once per wallet and tick; two fresh positions of one market are both
  opened and the venue merges them, which `engine.ts:70-71` says the read is
  there to prevent.  In `CopyEngine` both rows are then in `held` and `Merged`.
- **Estimates stamped as chain truth.**  For a landed close without a derivable
  amount, `lib/bets/flash-reconcile.ts:253-256` says "Keep the quote estimate
  rather than stamping an unknown as chain truth"; the update that follows
  (`:257-270`) keeps the estimate and sets `proceedsSource` to `"chain"`.  In
  `FlashTail` that is `VerifyCloseOpaque`, and `ChainProceedsAreReal` names these
  closes as its exception.
- **Whale live cache.**  `lib/copy/engine.ts:9-10` and `sources.ts:194-200` take
  care that unknown is never read as flat.  For whales the source is the live
  cache, whose snapshot is read, merged and written without a compare-and-set
  (`lib/whales/live-cache.ts:146-155`), while the refresh of the ticker
  (`lib/whales/ticker.ts:91`), that of the monitor (`source-monitor.ts:304`) and
  the three sources in each run side by side.  A refresh that read a whale
  before it opened a position can write after one that read it later: a fetch
  then succeeds without the position, and its copy is closed while its source is
  open (`hidden`, the exception of `OnlyOrphansAreClosed` in `CopyEngine`).
- **Daily cap.**  `lib/copy/store.ts:171` leaves abandoned rows out of the sum.
  An open that landed and lost its confirm is abandoned after five minutes, and
  the next open takes its place: each lost confirm lets a day exceed the cap by a
  stake (`LostConfirms`, the exception of `WithinDailyCap`).
- **Aging by naming.**  `lib.rs:146-148` says that spam ticks cannot age
  positions between prints, which the guard at `:169-178` sees to, but the loop
  at `:192` does not ask whether an account was named before: a transaction that
  lists a bot several times ages its positions as often per print.  The same goes
  for LLM bots, whose `ticks_held` counts namings while their funding goes by
  time.  `AgingIsPaced` counts namings.
- **A tail under a close.**  `app/api/bet/copy/close/route.ts` reads its row and
  the position, orders, and writes the row it has read.  A tail that is filled in
  between, once the sweep or another close has closed that row, is taken by the
  order and its result booked on the old row (`crossed`, the exception of
  `ProceedsAreOwn`); the new tail's row stays open without a position until its
  own close finds it gone.
- **Fill of a failed open.**  `lib/bets/flash-reconcile.ts:211` deletes the
  fill of a failed transaction so that nothing counts it; a confirm that
  flipped the row before and inserts its fill after the deletion leaves it
  behind (`InsertOpenFill` after `VerifyOpenFailed`).
- **Overlapping autopilot ticks.**  `lib/autopilot/sessions.ts:224-226` says the
  claim "makes the overlap harmless".  It does for 30 s; a tick has no timeout.
- **One position per tick.**  `lib/autopilot/engine.ts:257` speaks of at most
  one new position per tick.  A send that throws makes the loop go on to the
  next market, although its transaction may be out (`SendThrows`).
- **Budget.**  `lib/autopilot/sessions.ts:10-12` promises "over-protected,
  never over-spent".  Three things take a session beyond it.  A close whose
  estimate was too high, or that failed and is reopened, lowers the result after
  a stake was computed from it; the fall back to the cached column does so, too
  (`orderly`).  An open that landed but lost its confirm
  (`lib/autopilot/engine.ts:369`, or a send that threw when the transaction was
  out) is not among the bets of the next tick, which spends its stake once more
  (`LostConfirms`); such a position also outlives a session that ran out.  And
  ticks that overlap do not see each other's stakes (above).  `StakesFitBudget`
  and `ExhaustedIsFlat` hold up to the first two and for ticks that do not
  overlap; a row that was closed counts by its estimate while its close is on
  its way.
- **Stop losses and the end of a session.**  `lib/autopilot/tiers.ts:32`
  and `engine.ts:383` call the stop loss mandatory, but both it and the
  emergency close that replaces it may fail (`StopOrGiveUp`); then the longest
  hold ends the position, as long as the session is active.  Nothing ticks for a session that was stopped or ran
  out, although `tiers.ts:36` says "Engine force-exits any position older than
  this"; only a session that ran out has nothing left open, up to lost confirms
  (`ExhaustedIsFlat`).
- **One open tail.**  `lib/bets/copy-guard.ts:14` promises one open tail per
  market.  The guard is read before the reservation is taken
  (`app/api/bet/whale/route.ts:483` and `:650`), guards rows of one venue, and
  the Pacifica branch of the copy route takes no reservation at all.
- **Pending rows of whales.**  The reaper handles flash-tail rows only; the
  pending row of a whale request whose process died blocks its market for ever,
  as do rows in `manual_review`, which no code resolves.
- **The floor.**  `lib/arena/llm/loop.ts` says the chain never sees a doomed
  transaction.  Opens after the first confirmed action of a decision meet its
  cooldown (`FloorMirrors` names the exception), and opens in held markets are
  declined on chain.  The same file claims a lease against double driving;
  `startLlmBrain` has none, cycles of two processes may overlap.
- **Tape.**  The worker's read-back joins decisions with the tape although
  `confirmTransaction` does not look at the outcome: an open that was rejected
  or declined is stored as sent and joined with an older entry.
- **Who ticks LLM bots.**  The crank passes accounts of seed `bot`
  (`lib/arena/crank-deps.ts`), never `llmbot`; LLM bots are ticked by
  `scripts/arena/tick-loop-devnet.ts` only.  Without it `CrankWorks` is false
  of them, and neither stops nor the maximum age end a position.
- **Trend filter.**  `strategy.rs` and its reference say that the filter "only
  bites on malformed candles".  With `breakout_bps = 0` a close equal to the
  prior range and to the first close is a breakout, and the filter rejects it.
- **Missed events.**  While a Hyperliquid socket is down its events are lost,
  and its snapshot after the reconnect is ignored; the next event of anybody
  makes up for it.
- **Stopping the monitor.**  `stop()` (`lib/whales/source-monitor.ts:456-460`)
  closes sockets; a debounce timer and a sweep that runs survive it beside those
  of the next monitor.  Every write of a sweep is a compare-and-set, so they do
  no harm (`MirrorClose`, the monitor `"old"`).

## 6. Plan

Done: all modules of section 2, with the runs of section 3 and the proofs of
section 4.  Next, in this order:

1. **Proofs** of what the runs leave implicit: that the effects by which
   `CopyEngine` represents the sweep are those of `FlashTail`.
2. **Crank**: pacing of commits, ten accounts per tick of which the rest is
   never ticked, several cranks at once.
3. **Pacifica deposits**: greedy matching against the best matching, over
   bounded inputs.  **Flash v2 sessions**: the race of two keys.
4. A run of the sweep with more rows than its batch.

Abstract specifications worth stating: `Receipts` (done), one live tail per
user and market, and a budgeted session.  Runs stay at two actors of each kind
and below five minutes.

## 7. Not modelled

- **I/O and conversion**: RPC, HTTP and socket clients, account decoding,
  instruction building, quotes, prompts, prices, candles for display, portfolio
  and leaderboard aggregation.  Their results enter the models as choices:
  a fetch that fails or answers, a transaction that lands, fails or vanishes.
- **Third parties**: Flash, Pacifica, Privy, Solana are environment actions,
  modelled from how the code uses them and marked external in the map.
- **Best effort**: notifications, push, monitoring; no other part reads them.
- **Single statements**: social feed, invites, waitlist, user rows.
- **Interface**: `components/`, pages, mobile.  No server state.
- **Sizing, slippage, leverage limits** of the copy engine: rejections that
  leave no state behind.
- **Positions that a refresh skips** because they do not parse
  (`lib/whales/refresh-hyperliquid.ts:327-334`): they vanish from the live cache
  like closed ones.
- **Edits of subscriptions** (stake, cap, deletion): limits are constants of
  `CopyEngine`.
- Positions the user opens by hand in the same slot: the models have merged
  bets, not exposure that no bet stands for.
- **Before the first row of a copy**: onboarding, deposits, consolidation,
  swaps and sizing precede the order and leave nothing that later steps read.
- **The brain of the autopilot** and the model of an LLM bot: what they decide is a choice
  among all decisions of the instance.
- **Pages and components** hold most of the lines of the repository; the models
  stand for the parts of `lib/`, `app/api/` and `arena-program/` that change
  shared state in an order that matters.
