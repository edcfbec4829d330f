----------------------------- MODULE CopyEngine -----------------------------
(***************************************************************************)
(* The Flash copy engine (lib/copy/engine.ts, store.ts, sources.ts): one   *)
(* tick loads the watch set, fetches every watched target once, closes     *)
(* copies whose source position is gone, opens copies of fresh ones and    *)
(* advances its diff baselines.                                            *)
(*                                                                         *)
(* One engine ticks at a time (TickerLease); a crash or a take-over of the *)
(* lease abandons the tick anywhere and continues on a new engine state.   *)
(* Around it: sources that open and close positions, subscriptions that    *)
(* are paused and resumed, transactions that are decided after the send,   *)
(* users who close by hand, and the reconcile sweep, here reduced to what  *)
(* FlashTail shows of it.                                                  *)
(*                                                                         *)
(* Bots and wallets are read at their source, whales from the live cache   *)
(* (lib/whales/live-cache.ts), which several refreshes may write at once.  *)
(* A whale position that a refresh gives another id counts as one that was *)
(* closed and another that was opened.                                     *)
(*                                                                         *)
(* A row is the bet of one subscription for one source position key.       *)
(***************************************************************************)
EXTENDS Integers, FiniteSets

CONSTANTS
    Subs,       \* copy subscriptions
    Targets,    \* copy targets: bots, flash wallets, whales
    Whales,     \* the targets that are whales
    Refreshers, \* refreshes of whales that may run at once: of the ticker, of
                \* the monitor, of each source
    Keys,       \* source position keys, as the fetchers build them
    Follows,    \* Follows[s]: the target of s
    WalletOf,   \* WalletOf[s]: the wallet of the subscriber
    AutoClose,  \* subscriptions with autoClose
    SourceOf,   \* SourceOf[k]: the target that holds k
    MarketOf,   \* MarketOf[k]: its market on Flash
    SideOf,     \* SideOf[k]
    Stamped,    \* keys whose source reports openedTsMs
    MaxConcurrent,  \* maxConcurrent of every subscription
    DailyCap,   \* dailyCapUsd over stakeUsdc
    MaxSourceOpens  \* bound on the positions sources open in one behaviour

Rows == {r \in [sub : Subs, key : Keys] : Follows[r.sub] = SourceOf[r.key]}
Target(r) == Follows[r.sub]

ASSUME CopyEngineAssumption ==
    /\ Follows \in [Subs -> Targets]
    /\ SourceOf \in [Keys -> Targets]
    /\ Whales \subseteq Targets
    /\ Stamped \subseteq Keys
    /\ \A k \in Keys : SourceOf[k] \in Whales => k \in Stamped
    /\ AutoClose \subseteq Subs
    /\ MaxConcurrent \in Nat /\ DailyCap \in Nat /\ MaxSourceOpens \in Nat
    /\ IsFiniteSet(Subs) /\ IsFiniteSet(Keys)

VARIABLES
    book,       \* keys open at their source
    young,      \* keys last opened at most MAX_COPY_AGE_MS ago
    sourceOpens,\* positions opened by sources so far
    shown,      \* the live cache: keys of the last snapshot written
    covers,     \* covers[i]: whales that refresh i has read and not written, all
                \* when it has looked at the last snapshot for the others
    taken,      \* taken[i]: the snapshot it is going to write
    live,       \* subscriptions with status active
    status,     \* bets.status of each row
    opens,      \* how often recordOpen ran for the row
    recent,     \* rows created in the last 24 h
    openTx,     \* fate of the open transaction of the row
    closeTx,    \* of the last close the engine sent for the row: in flight, or
                \* failed; "none" if it landed or is never seen again
    held,       \* rows whose exposure is part of a live venue position
    orphaned,   \* history: recorded rows whose source was gone at some time since
    sinceBoot,  \* history: keys without openedTsMs that were opened since the
                \* engine state was created
    hidden,     \* history: recorded rows whose source a refresh took off the
                \* live cache while it was open
    pc,         \* where the tick is
    watch,      \* subs, as loaded, until todo is known
    toClose,    \* autoCloseBets that the close pass still has to look at
    unfetched,  \* targets still to be fetched
    fetched,    \* targets of positionsByTarget
    seen,       \* its keys
    todo,       \* fresh positions per subscription still to be considered
    cached,     \* wallets of walletPositionsCache
    cache,      \* its positions: what was held when the wallet was read
    cur,        \* the row being closed or opened
    primed,     \* state.primed
    prevKeys,   \* state.prevKeys, of all targets together
    attempted   \* state.attempted

sourceVars == <<book, young, sourceOpens>>
cacheVars == <<shown, covers, taken, hidden>>
rowVars == <<status, opens, recent>>
venueVars == <<openTx, closeTx, held>>
historyVars == <<orphaned, sinceBoot>>
passVars == <<watch, toClose, unfetched, fetched, seen, todo, cached, cache>>
tickVars == <<pc, cur, passVars>>
stateVars == <<primed, prevKeys, attempted>>
vars == <<sourceVars, cacheVars, live, rowVars, venueVars, historyVars, tickVars, stateVars>>

Statuses == {"none", "pending", "confirmed", "closed", "closed-external",
             "failed", "abandoned"}
Fates == {"none", "flight", "landed", "failed"}

TypeOK ==
    /\ book \subseteq Keys /\ young \subseteq Keys
    /\ sourceOpens \in 0..MaxSourceOpens
    /\ shown \subseteq Keys /\ hidden \subseteq Rows
    /\ covers \in [Refreshers -> SUBSET Whales]
    /\ taken \in [Refreshers -> SUBSET Keys]
    /\ live \subseteq Subs
    /\ status \in [Rows -> Statuses]
    /\ opens \in [Rows -> Nat]
    /\ recent \subseteq Rows
    /\ openTx \in [Rows -> Fates] /\ closeTx \in [Rows -> Fates]
    /\ held \subseteq Rows
    /\ orphaned \subseteq Rows
    /\ sinceBoot \subseteq Keys
    /\ pc \in {"idle", "fetch", "close", "closing", "open", "record", "send", "confirm"}
    /\ watch \subseteq Subs
    /\ toClose \subseteq Rows
    /\ unfetched \subseteq Targets /\ fetched \subseteq Targets
    /\ seen \subseteq Keys
    /\ todo \subseteq Rows
    /\ cached \subseteq {WalletOf[s] : s \in Subs}
    /\ cache \subseteq Rows
    /\ cur \subseteq Rows
    /\ pc \in {"closing", "record", "send", "confirm"} => \E r \in Rows : cur = {r}
    /\ primed \subseteq Targets
    /\ prevKeys \subseteq Keys
    /\ attempted \subseteq Rows

NoTick ==
    /\ pc = "idle" /\ cur = {}
    /\ watch = {} /\ toClose = {} /\ unfetched = {} /\ fetched = {} /\ seen = {}
    /\ todo = {} /\ cached = {} /\ cache = {}

Init ==
    /\ book \in SUBSET Keys
    /\ young \in SUBSET (book \cap Stamped) /\ sourceOpens = 0
    /\ shown = {k \in book : SourceOf[k] \in Whales} /\ hidden = {}
    /\ covers = [i \in Refreshers |-> {}]
    /\ taken = [i \in Refreshers |-> {}]
    /\ live = Subs
    /\ status = [r \in Rows |-> "none"]
    /\ opens = [r \in Rows |-> 0]
    /\ recent = {}
    /\ openTx = [r \in Rows |-> "none"]
    /\ closeTx = [r \in Rows |-> "none"]
    /\ held = {}
    /\ orphaned = {} /\ sinceBoot = {}
    /\ NoTick
    /\ primed = {} /\ prevKeys = {} /\ attempted = {}

SameMarket(r, q) ==
    WalletOf[r.sub] = WalletOf[q.sub] /\ MarketOf[r.key] = MarketOf[q.key]

\* The venue merges per owner, market and side.
SameSlot(r, q) == SameMarket(r, q) /\ SideOf[r.key] = SideOf[q.key]
Merged(r) == {q \in held : SameSlot(r, q)}

EndOfTick ==
    /\ pc' = "idle" /\ cur' = {}
    /\ watch' = {} /\ toClose' = {} /\ unfetched' = {} /\ fetched' = {} /\ seen' = {}
    /\ todo' = {} /\ cached' = {} /\ cache' = {}

-----------------------------------------------------------------------------
(* Loading and fetching.                                                   *)

\* Mutation: the close pass follows the active subscriptions.
AutoCloseOfActive ==
    {r \in Rows : status[r] = "confirmed" /\ r.sub \in AutoClose \cap live}

\* listOpenAutoCloseBets: it needs no subscription any more.
OpenAutoCloseBets == {r \in Rows : status[r] = "confirmed" /\ r.sub \in AutoClose}

\* A tick whose load throws, or that watches nothing, is no step.
LoadWatchSet ==
    /\ pc = "idle"
    /\ watch' = live
    /\ toClose' = OpenAutoCloseBets
    /\ unfetched' = {Follows[s] : s \in live} \cup {Target(r) : r \in OpenAutoCloseBets}
    /\ unfetched' # {}
    /\ pc' = "fetch"
    /\ UNCHANGED <<sourceVars, cacheVars, live, rowVars, venueVars, historyVars,
                   fetched, seen, todo, cached, cache, cur, stateVars>>

\* What a fetcher answers: a whale is looked up in the live cache; if it has
\* no snapshot or not the account, the fetch throws.
View(t) == {k \in (IF t \in Whales THEN shown ELSE book) : SourceOf[k] = t}

Fetch(t) ==
    /\ pc = "fetch"
    /\ t \in unfetched
    /\ unfetched' = unfetched \ {t}
    /\ fetched' = fetched \cup {t}
    /\ seen' = seen \cup View(t)
    /\ UNCHANGED <<pc, cur, sourceVars, cacheVars, live, rowVars, venueVars,
                   historyVars, watch, toClose, todo, cached, cache, stateVars>>

\* Mutation: a failed fetch read as an empty book.
FetchFailsFlat(t) ==
    /\ pc = "fetch"
    /\ t \in unfetched
    /\ unfetched' = unfetched \ {t}
    /\ fetched' = fetched \cup {t}
    /\ UNCHANGED <<pc, cur, sourceVars, cacheVars, live, rowVars, venueVars,
                   historyVars, watch, toClose, seen, todo, cached, cache,
                   stateVars>>

FetchFails(t) ==
    /\ pc = "fetch"
    /\ t \in unfetched
    /\ unfetched' = unfetched \ {t}
    /\ UNCHANGED <<pc, cur, sourceVars, cacheVars, live, rowVars, venueVars,
                   historyVars, watch, toClose, fetched, seen, todo, cached,
                   cache, stateVars>>

-----------------------------------------------------------------------------
(* The close pass.                                                         *)

BeginClosePass ==
    /\ pc = "fetch" /\ unfetched = {}
    /\ toClose' = {r \in toClose : Target(r) \in fetched /\ r.key \notin seen}
    /\ pc' = "close"
    /\ UNCHANGED <<cur, sourceVars, cacheVars, live, rowVars, venueVars,
                   historyVars, watch, unfetched, fetched, seen, todo, cached,
                   cache, stateVars>>

\* closeTrade and sendTransaction; the venue builds no close without a position.
SendClose(r) ==
    /\ pc = "close"
    /\ r \in toClose
    /\ Merged(r) # {}
    /\ closeTx' = [closeTx EXCEPT ![r] = "flight"]
    /\ toClose' = toClose \ {r}
    /\ pc' = "closing" /\ cur' = {r}
    /\ UNCHANGED <<sourceVars, cacheVars, live, rowVars, openTx, held,
                   historyVars, watch, unfetched, fetched, seen, todo, cached,
                   cache, stateVars>>

\* The build or the send threw: retried in the next tick.
CloseThrows(r) ==
    /\ pc = "close"
    /\ r \in toClose
    /\ toClose' = toClose \ {r}
    /\ UNCHANGED <<pc, cur, sourceVars, cacheVars, live, rowVars, venueVars,
                   historyVars, watch, unfetched, fetched, seen, todo, cached,
                   cache, stateVars>>

\* confirmClose, unless it throws: a CAS on confirmed.
ConfirmClose(r) ==
    /\ pc = "closing" /\ cur = {r}
    /\ \/ status' = IF status[r] = "confirmed" THEN [status EXCEPT ![r] = "closed"]
                                               ELSE status
       \/ UNCHANGED status
    /\ pc' = "close" /\ cur' = {}
    /\ UNCHANGED <<sourceVars, cacheVars, live, opens, recent, venueVars,
                   historyVars, passVars, stateVars>>

-----------------------------------------------------------------------------
(* The open pass.                                                          *)

\* Mutation: first-sight positions without a timestamp count as
\* fresh.
FreshAtFirstSight ==
    {k \in seen : k \in young \/ (k \notin prevKeys /\ k \notin Stamped)}

\* Against the baseline of a primed target a position is fresh when it is new,
\* and young if its age is known; on first sight only a known age will do.
Fresh ==
    {k \in seen :
        IF SourceOf[k] \in primed THEN k \notin prevKeys /\ (k \in young \/ k \notin Stamped)
                                  ELSE k \in young /\ k \in Stamped}

Offered(fresh) == {r \in Rows : r.sub \in watch /\ r.key \in fresh}

\* Every pair that comes up is added to attempted, whatever becomes of it.
BeginOpenPass ==
    /\ pc = "close" /\ toClose = {}
    /\ todo' = Offered(Fresh) \ attempted
    /\ attempted' = attempted \cup Offered(Fresh)
    /\ watch' = {}
    /\ pc' = "open"
    /\ UNCHANGED <<cur, sourceVars, cacheVars, live, rowVars, venueVars,
                   historyVars, toClose, unfetched, fetched, seen, cached,
                   cache, primed, prevKeys>>

\* Mutation: only open copies count.
HasOpenCopy(r) == status[r] = "confirmed"

\* hasCopiedSourcePosition: any bet status.
HasCopied(r) == status[r] # "none"

RowsOf(s) == {r \in Rows : r.sub = s}

\* Mutation: only confirmed rows count against the cap.
SpentOnConfirmed(s) == Cardinality({r \in RowsOf(s) \cap recent : status[r] = "confirmed"})

\* spentLast24hUsd, in stakes.
Spent(s) == Cardinality({r \in RowsOf(s) \cap recent : status[r] # "abandoned"})

\* The bets of the day that are, were or may become a position, and those of
\* them the guard has lost sight of.
AtStake(s) ==
    {r \in RowsOf(s) \cap recent :
        \/ status[r] \in {"pending", "confirmed", "closed", "closed-external"}
        \/ openTx[r] \in {"flight", "landed"}}
LostConfirms(s) ==
    {r \in AtStake(s) : status[r] = "abandoned" /\ openTx[r] \in {"flight", "landed"}}

CountOpenCopies(s) == Cardinality({r \in RowsOf(s) : status[r] = "confirmed"})

\* The wallet is read once per tick.
HeldIn(r) == IF WalletOf[r.sub] \in cached THEN cache ELSE held

ReadWallet(r) ==
    /\ cache' = cache \cup {q \in HeldIn(r) : WalletOf[q.sub] = WalletOf[r.sub]}
    /\ cached' = cached \cup {WalletOf[r.sub]}

\* All guards pass and the open is built.
Accept(r) ==
    /\ pc = "open"
    /\ r \in todo
    /\ ~HasCopied(r)
    /\ ReadWallet(r)
    /\ \A q \in HeldIn(r) : ~SameMarket(r, q)
    /\ CountOpenCopies(r.sub) < MaxConcurrent
    /\ Spent(r.sub) + 1 <= DailyCap
    /\ todo' = todo \ {r}
    /\ pc' = "record" /\ cur' = {r}
    /\ UNCHANGED <<sourceVars, cacheVars, live, rowVars, venueVars, historyVars,
                   watch, toClose, unfetched, fetched, seen, stateVars>>

\* A guard rejects it (leverage, notional, mark and entry gap included), or a
\* read or the build throws: before or after the wallet was read.
Skip(r) ==
    /\ pc = "open"
    /\ r \in todo
    /\ todo' = todo \ {r}
    /\ ReadWallet(r) \/ UNCHANGED <<cached, cache>>
    /\ UNCHANGED <<pc, cur, sourceVars, cacheVars, live, rowVars, venueVars,
                   historyVars, watch, toClose, unfetched, fetched, seen,
                   stateVars>>

\* Its source may be gone, or be off the live cache, since it was fetched.
RecordOpen(r) ==
    /\ pc = "record" /\ cur = {r}
    /\ status' = [status EXCEPT ![r] = "pending"]
    /\ opens' = [opens EXCEPT ![r] = @ + 1]
    /\ recent' = recent \cup {r}
    /\ orphaned' = orphaned \cup {q \in {r} : q.key \notin book}
    /\ hidden' = hidden \cup {q \in {r} : q.key \in book \ View(Target(q))}
    /\ pc' = "send"
    /\ UNCHANGED <<cur, sourceVars, shown, covers, taken, live, venueVars,
                   sinceBoot, passVars, stateVars>>

\* Past the reaper's cut-off the transaction is too old to land.
SendOpen(r) ==
    /\ pc = "send" /\ cur = {r}
    /\ status[r] = "pending"
    /\ openTx' = [openTx EXCEPT ![r] = "flight"]
    /\ pc' = "confirm"
    /\ UNCHANGED <<cur, sourceVars, cacheVars, live, rowVars, closeTx, held,
                   historyVars, passVars, stateVars>>

\* recordOpen, sendTransaction or confirmOpen threw; a send that threw may have
\* been submitted all the same.
OpenThrows(r) ==
    /\ pc \in {"record", "send", "confirm"} /\ cur = {r}
    /\ \/ UNCHANGED openTx
       \/ /\ pc = "send" /\ status[r] = "pending"
          /\ openTx' = [openTx EXCEPT ![r] = "flight"]
    /\ pc' = "open" /\ cur' = {}
    /\ UNCHANGED <<sourceVars, cacheVars, live, rowVars, closeTx, held,
                   historyVars, passVars, stateVars>>

ConfirmOpen(r) ==
    /\ pc = "confirm" /\ cur = {r}
    /\ status' = IF status[r] = "pending" THEN [status EXCEPT ![r] = "confirmed"]
                                          ELSE status
    /\ pc' = "open" /\ cur' = {}
    /\ UNCHANGED <<sourceVars, cacheVars, live, opens, recent, venueVars,
                   historyVars, passVars, stateVars>>

\* prevKeys and primed, for every target that was fetched.
AdvanceBaselines ==
    /\ pc = "open" /\ todo = {}
    /\ primed' = primed \cup fetched
    /\ prevKeys' = {k \in prevKeys : SourceOf[k] \notin fetched} \cup seen
    /\ EndOfTick
    /\ UNCHANGED <<sourceVars, cacheVars, live, rowVars, venueVars, historyVars,
                   attempted>>

\* A crash, or the lease changed hands: createCopyEngineState.
NewEngine ==
    /\ EndOfTick
    /\ primed' = {} /\ prevKeys' = {} /\ attempted' = {}
    /\ sinceBoot' = {}
    /\ UNCHANGED <<sourceVars, cacheVars, live, rowVars, venueVars, orphaned>>

-----------------------------------------------------------------------------
(* Around the engine.                                                      *)

\* A source opens k, or adds to it: the venue then reports a new openTime.
SourceOpens(k) ==
    /\ sourceOpens < MaxSourceOpens
    /\ sourceOpens' = sourceOpens + 1
    /\ book' = book \cup {k}
    /\ young' = young \cup ({k} \cap Stamped)
    /\ sinceBoot' = sinceBoot \cup ({k} \ (book \cup Stamped))
    /\ UNCHANGED <<cacheVars, live, rowVars, venueVars, orphaned, tickVars,
                   stateVars>>

\* What was read of k before keeps its openedTsMs.
SourceCloses(k) ==
    /\ k \in book
    /\ book' = book \ {k}
    /\ young' = young \ ({k} \ (seen \cup shown \cup UNION {taken[i] : i \in Refreshers}))
    /\ orphaned' = orphaned \cup {r \in Rows : r.key = k /\ status[r] # "none"}
    /\ UNCHANGED <<sourceOpens, cacheVars, live, rowVars, venueVars, sinceBoot,
                   tickVars, stateVars>>

SourceAges(k) ==
    /\ k \in young
    /\ young' = young \ {k}
    /\ UNCHANGED <<book, sourceOpens, cacheVars, live, rowVars, venueVars,
                   historyVars, tickVars, stateVars>>

\* A refresh reads an account; after it has looked at the snapshot, that is the next
\* refresh, the first having failed.
RefreshReads(i, t) ==
    LET own == IF covers[i] = Whales THEN {} ELSE covers[i] \ {t}
    IN
    /\ covers' = [covers EXCEPT ![i] = own \cup {t}]
    /\ taken' = [taken EXCEPT ![i] = {k \in @ : SourceOf[k] \in own}
                                       \cup {k \in book : SourceOf[k] = t}]
    /\ UNCHANGED <<sourceVars, shown, hidden, live, rowVars, venueVars,
                   historyVars, tickVars, stateVars>>

\* writeWhaleLiveSnapshot reads the last snapshot, for the accounts the refresh did
\* not reach and those of other sources,
RefreshMerges(i) ==
    /\ covers[i] # {}
    /\ covers' = [covers EXCEPT ![i] = Whales]
    /\ taken' = [taken EXCEPT ![i] = @ \cup {k \in shown : SourceOf[k] \notin covers[i]}]
    /\ UNCHANGED <<sourceVars, shown, hidden, live, rowVars, venueVars,
                   historyVars, tickVars, stateVars>>

\* and writes both, whatever was written in between.
RefreshWrites(i) ==
    /\ covers[i] = Whales
    /\ shown' = taken[i]
    /\ hidden' = hidden \cup {r \in Rows : /\ r.key \in (shown \cap book) \ taken[i]
                                          /\ status[r] # "none"}
    /\ covers' = [covers EXCEPT ![i] = {}]
    /\ taken' = [taken EXCEPT ![i] = {}]
    /\ UNCHANGED <<sourceVars, live, rowVars, venueVars, historyVars, tickVars,
                   stateVars>>

\* setCopySubscriptionStatus; a stopped subscription is one that stays paused.
PauseOrResume(s) ==
    /\ live' = IF s \in live THEN live \ {s} ELSE live \cup {s}
    /\ UNCHANGED <<sourceVars, cacheVars, rowVars, venueVars, historyVars,
                   tickVars, stateVars>>

OpenDecided(r) ==
    /\ openTx[r] = "flight"
    /\ \E fate \in {"landed", "failed"} :
          /\ openTx' = [openTx EXCEPT ![r] = fate]
          /\ held' = IF fate = "landed" THEN held \cup {r} ELSE held
    /\ UNCHANGED <<sourceVars, cacheVars, live, rowVars, closeTx, historyVars,
                   tickVars, stateVars>>

\* A close whose blockhash expires is never seen again: lost.
CloseDecided(r) ==
    /\ closeTx[r] = "flight"
    /\ \/ /\ Merged(r) # {}
          /\ held' = held \ Merged(r)
          /\ closeTx' = [closeTx EXCEPT ![r] = "none"]
       \/ /\ UNCHANGED held
          /\ \E fate \in {"failed", "none"} : closeTx' = [closeTx EXCEPT ![r] = fate]
    /\ UNCHANGED <<sourceVars, cacheVars, live, rowVars, openTx, historyVars,
                   tickVars, stateVars>>

\* Liquidation, a trigger order, or the user closing: through the app, which
\* closes the row as well, or elsewhere.
ClosesOtherwise(r) ==
    /\ r \in held
    /\ held' = held \ Merged(r)
    /\ \/ UNCHANGED status
       \/ status[r] = "confirmed" /\ status' = [status EXCEPT ![r] = "closed"]
    /\ UNCHANGED <<sourceVars, cacheVars, live, opens, recent, openTx, closeTx,
                   historyVars, tickVars, stateVars>>

\* The reconcile sweep (FlashTail): a pending row that grew old, an open that
\* never landed, a position that is gone, a close that failed.
Sweep(r) ==
    /\ \/ /\ \/ /\ status[r] = "pending" /\ openTx[r] # "flight"
                /\ status' = [status EXCEPT ![r] = "abandoned"]
             \/ /\ status[r] = "confirmed" /\ openTx[r] = "failed"
                /\ status' = [status EXCEPT ![r] = "failed"]
             \/ /\ status[r] = "confirmed" /\ openTx[r] = "landed" /\ Merged(r) = {}
                /\ status' = [status EXCEPT ![r] = "closed-external"]
          /\ UNCHANGED closeTx
       \/ /\ status[r] = "closed" /\ closeTx[r] = "failed"
          /\ status' = [status EXCEPT ![r] = "confirmed"]
          /\ closeTx' = [closeTx EXCEPT ![r] = "none"]
    /\ UNCHANGED <<sourceVars, cacheVars, live, opens, recent, openTx, held,
                   historyVars, tickVars, stateVars>>

\* 24 h after createdAt: what was sent is decided.
DayPasses(r) ==
    /\ r \in recent
    /\ status[r] # "pending" /\ openTx[r] # "flight" /\ closeTx[r] # "flight"
    /\ recent' = recent \ {r}
    /\ UNCHANGED <<sourceVars, cacheVars, live, status, opens, venueVars,
                   historyVars, tickVars, stateVars>>

-----------------------------------------------------------------------------
ClosePass ==
    \/ BeginClosePass
    \/ \E r \in Rows : SendClose(r) \/ CloseThrows(r) \/ ConfirmClose(r)

OpenPass ==
    \/ BeginOpenPass
    \/ \E r \in Rows : \/ Accept(r) \/ Skip(r) \/ RecordOpen(r)
                       \/ SendOpen(r) \/ OpenThrows(r) \/ ConfirmOpen(r)
    \/ AdvanceBaselines

TickStep ==
    \/ LoadWatchSet
    \/ \E t \in Targets : Fetch(t) \/ FetchFails(t)
    \/ ClosePass
    \/ OpenPass

Around ==
    \/ \E k \in Keys : SourceOpens(k) \/ SourceCloses(k) \/ SourceAges(k)
    \/ \E i \in Refreshers :
          \/ \E t \in Whales : RefreshReads(i, t)
          \/ RefreshMerges(i) \/ RefreshWrites(i)
    \/ \E s \in Subs : PauseOrResume(s)
    \/ \E r \in Rows : \/ OpenDecided(r) \/ CloseDecided(r) \/ ClosesOtherwise(r)
                       \/ Sweep(r) \/ DayPasses(r)

Next == TickStep \/ NewEngine \/ Around

Spec == Init /\ [][Next]_vars

\* Engines crash finitely often.  The ticker ticks for ever, transactions are
\* decided and the sweep visits every row.  A fetch, a close and its confirm that
\* are tried in tick after tick do not throw every time, and whales are read
\* again and again, and written.
Fairness ==
    /\ <>[][~NewEngine]_vars
    /\ WF_vars(TickStep)
    /\ \A t \in Targets : SF_vars(Fetch(t))
    /\ \A t \in Whales : WF_vars(\E i \in Refreshers : RefreshReads(i, t))
    /\ WF_vars(\E i \in Refreshers : RefreshWrites(i))
    /\ \A r \in Rows :
          /\ WF_vars(OpenDecided(r)) /\ WF_vars(CloseDecided(r)) /\ WF_vars(Sweep(r))
          /\ SF_vars(SendClose(r))
          /\ SF_vars(ConfirmClose(r) /\ status' # status)

FairSpec == Spec /\ Fairness

-----------------------------------------------------------------------------
(***************************************************************************)
(* One bet per subscription and source position, ever, across crashes and  *)
(* take-overs that lose the in-memory attempted set, and after failed or   *)
(* abandoned attempts (lib/copy/engine.ts:14).                             *)
(***************************************************************************)
OneAttempt == \A r \in Rows : opens[r] <= 1

(***************************************************************************)
(* The engine closes a copy only if its source position really was gone at *)
(* some time since it was copied: a failed fetch is unknown, never flat,   *)
(* and a stale close list or a reopened key does not matter                *)
(* (lib/copy/engine.ts:9).  There is one exception, and only for whales: a *)
(* refresh that had read the whale before it opened the position may       *)
(* overwrite the snapshot the position was copied from                     *)
(* (lib/whales/live-cache.ts:150), and the copy is closed although its     *)
(* source was open all the time.                                           *)
(***************************************************************************)
OnlyOrphansAreClosed ==
    [][\A r \in Rows : SendClose(r) =>
           r \in orphaned \/ (Target(r) \in Whales /\ r \in hidden)]_vars

(***************************************************************************)
(* A position without a timestamp is copied only if it was opened since    *)
(* this engine state exists: the book found at boot is baseline, whatever  *)
(* is paused, resumed, unwatched or fetched unsuccessfully in between.     *)
(***************************************************************************)
BookAtBootIsBaseline ==
    pc \in {"record", "send", "confirm"} =>
        \A r \in cur : r.key \in Stamped \cup sinceBoot

(***************************************************************************)
(* The bets a subscription recorded in a rolling day and that are, were or *)
(* may come to be a position stay within its cap, whatever crashes, the    *)
(* sweep and the chain do to them, up to those whose confirm was lost: the *)
(* sweep abandons their rows, and the guard does not see abandoned rows    *)
(* (lib/copy/store.ts:171).  Each of these takes a stake beyond the cap.   *)
(***************************************************************************)
WithinDailyCap ==
    \A s \in Subs :
        Cardinality(AtStake(s)) <= DailyCap + Cardinality(LostConfirms(s))

(***************************************************************************)
(* A copy does not outlive its source: a confirmed auto-close row whose    *)
(* source stays gone does not stay confirmed, even if its subscription is  *)
(* paused, fetches fail, closes fail or vanish and engines crash.          *)
(***************************************************************************)
FollowersLeave ==
    \A r \in Rows :
        r.sub \in AutoClose => []<>~(status[r] = "confirmed" /\ r.key \notin book)

-----------------------------------------------------------------------------
(* What the proofs need besides: why the engine may do what it does.       *)

\* The ledger remembers every attempt, and the open pass asks it first.
LedgerRemembers ==
    /\ \A r \in Rows : opens[r] = IF status[r] = "none" THEN 0 ELSE 1
    /\ pc = "record" => \A r \in cur : status[r] = "none"

\* Copies the engine may take for orphans.
Excused == orphaned \cup {r \in hidden : Target(r) \in Whales}

\* A recorded row whose source is not open has been orphaned, one whose source
\* is not shown is excused, and so is every row the close pass is left with.
OrphansKnown ==
    /\ \A r \in Rows : status[r] # "none" =>
          /\ r.key \notin book => r \in orphaned
          /\ r.key \notin View(Target(r)) => r \in Excused
    /\ pc = "idle" => fetched = {} /\ seen = {}
    /\ pc = "fetch" => \A r \in toClose :
          /\ status[r] # "none"
          /\ Target(r) \in fetched /\ r.key \notin seen => r \in Excused
    /\ pc \in {"close", "closing"} => toClose \subseteq Excused

\* What is open at a target without timestamps and not in its baseline was
\* opened since the boot: for the baselines of earlier ticks, and for the fetch
\* of this one.
BaselinesCover ==
    /\ \A k \in book \cup seen :
          SourceOf[k] \in primed => k \in Stamped \cup prevKeys \cup sinceBoot
    /\ \A k \in book : SourceOf[k] \in fetched => k \in Stamped \cup seen \cup sinceBoot
    /\ \A r \in todo : r.key \in Stamped \cup sinceBoot

\* The row being recorded still fits under the cap.
CapLeft ==
    /\ pc = "record" => \A r \in cur : Spent(r.sub) + 1 <= DailyCap
    /\ \A s \in Subs : Spent(s) <= DailyCap

CopyInv ==
    /\ TypeOK
    /\ LedgerRemembers
    /\ OrphansKnown
    /\ BaselinesCover /\ BookAtBootIsBaseline
    /\ CapLeft
=============================================================================
