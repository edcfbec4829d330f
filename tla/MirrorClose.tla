----------------------------- MODULE MirrorClose -----------------------------
(***************************************************************************)
(* Auto-close of copied bets: the source monitor turns venue events into   *)
(* debounced reconciles (lib/whales/source-monitor.ts), each of which runs *)
(* the mirror sweep (lib/bets/mirror-close.ts): list the confirmed bets,   *)
(* read every source once, close the bets whose source is gone.            *)
(*                                                                         *)
(* A source holds at most one position in the market that is looked at.    *)
(* It may be opened, grown (which moves its entry price) and closed while  *)
(* a sweep runs.  How the sweep recognizes the copied position depends on  *)
(* the kind of the source:                                                 *)
(*   "pacifica"     by the open time in the id the bet was made with       *)
(*   "hyperliquid"  by an id it forms itself                               *)
(*   "leader"       any position in the market (leader wallets, bots)      *)
(*                                                                         *)
(* The sweep runs nowhere else: a close that failed is tried again at the  *)
(* next event of any source.  What a close does at the venue and against   *)
(* the user's own close is in CopyTails.                                   *)
(***************************************************************************)
EXTENDS Integers, FiniteSets

CONSTANTS
    Bets,      \* bets of one behaviour, each copied once
    Sources,   \* source accounts
    Kinds,     \* the kinds a source may be of
    MaxOpens,  \* bound on the positions a source opens
    Prices,    \* entry prices
    MaxTimers  \* bound on timeouts that are pending at once

ASSUME MirrorCloseAssumption ==
    /\ Kinds \subseteq {"pacifica", "hyperliquid", "leader"}
    /\ MaxOpens \in Nat /\ MaxTimers \in Nat \ {0} /\ Prices # {}

VARIABLES
    kind,     \* the kind of each source
    open,     \* whether the source holds a position
    opened,   \* its open time: a number for each position of the source
    price,    \* its entry price
    socket,   \* whether the socket to the source is up
    status,   \* bets.status: none, confirmed, closed by the user, mirrored
    source,   \* the source of a bet
    copied,   \* the open time of the position that was copied
    bid,      \* meta.sourcePositionId
    timers,   \* timeouts of each monitor that are pending
    handle,   \* whether the closure's variable timer holds the last of them
    running,  \* the closure's flag of that name
    again,    \* the closure's runAgain
    sweep,    \* the locals of its runMirrorCloseSweep
    gone,     \* history: bets whose source was gone at some time since the copy
    unseen    \* history: an event that no sweep of the monitor has begun after

sourceVars == <<kind, open, opened, price>>
betVars == <<status, source, copied, bid>>
debounceVars == <<timers, handle, running, again>>
vars == <<sourceVars, socket, betVars, debounceVars, sweep, gone, unseen>>

\* The monitor that is on, and one that was stopped: it hears of nothing any more, but
\* what it had begun lives on in its process.
Monitors == {"now", "old"}

NoId == <<"none", 0>>
ByTime(t) == <<"opened", t>>
ByPrice(p) == <<"entry", p>>
Ids == {NoId} \cup {ByTime(t) : t \in 1..MaxOpens}
NoSweep == [pc |-> "idle", bets |-> {}, todo |-> {}, orphans |-> {}]

TypeOK ==
    /\ kind \in [Sources -> Kinds]
    /\ open \in [Sources -> BOOLEAN] /\ opened \in [Sources -> 0..MaxOpens]
    /\ price \in [Sources -> Prices]
    /\ socket \in [Sources -> BOOLEAN]
    /\ \A a \in Sources : open[a] => opened[a] > 0
    /\ status \in [Bets -> {"none", "confirmed", "closed", "mirrored"}]
    /\ source \in [Bets -> Sources \cup {"none"}]
    /\ copied \in [Bets -> 0..MaxOpens] /\ bid \in [Bets -> Ids]
    /\ timers \in [Monitors -> 0..MaxTimers] /\ handle \in [Monitors -> BOOLEAN]
    /\ running \in [Monitors -> BOOLEAN] /\ again \in [Monitors -> BOOLEAN]
    /\ unseen \in BOOLEAN
    /\ sweep \in [Monitors -> [pc : {"idle", "list", "read"}, bets : SUBSET Bets,
                                todo : SUBSET Sources, orphans : SUBSET Bets]]
    /\ \A m \in Monitors :
           /\ running[m] = (sweep[m].pc # "idle")
           /\ sweep[m].orphans \subseteq sweep[m].bets
           /\ sweep[m].pc # "read" => sweep[m].bets = {}
    /\ gone \subseteq Bets

Init ==
    /\ kind \in [Sources -> Kinds]
    /\ open = [a \in Sources |-> FALSE]
    /\ opened = [a \in Sources |-> 0]
    /\ price \in [Sources -> Prices]
    /\ socket = [a \in Sources |-> TRUE]
    /\ status = [b \in Bets |-> "none"]
    /\ source = [b \in Bets |-> "none"]
    /\ copied = [b \in Bets |-> 0]
    /\ bid = [b \in Bets |-> NoId]
    /\ timers = [m \in Monitors |-> 0] /\ sweep = [m \in Monitors |-> NoSweep]
    /\ handle = [m \in Monitors |-> FALSE]
    /\ running = [m \in Monitors |-> FALSE] /\ again = [m \in Monitors |-> FALSE]
    /\ gone = {} /\ unseen = FALSE

Confirmed == {b \in Bets : status[b] = "confirmed"}

\* The position that b copied is no longer there.
Orphan(b) ==
    ~open[source[b]] \/ (kind[source[b]] # "leader" /\ opened[source[b]] # copied[b])

-----------------------------------------------------------------------------
(* Debounce: makeDebouncedSourceTrigger.                                   *)

\* The trigger replaces the timeout it knows of.
Trigger ==
    /\ handle["now"] \/ timers["now"] < MaxTimers
    /\ timers' = IF handle["now"] THEN timers ELSE [timers EXCEPT !["now"] = @ + 1]
    /\ handle' = [handle EXCEPT !["now"] = TRUE]
    /\ unseen' = TRUE
    /\ UNCHANGED <<running, again>>

\* An event of source a; without a socket nobody hears of it.
Event(a) == IF socket[a] THEN Trigger ELSE UNCHANGED <<debounceVars, unseen>>

ToList == [NoSweep EXCEPT !.pc = "list"]

\* Mutation: a timeout that meets a running reconcile does nothing.
FireAndForget(m) ==
    /\ timers[m] > 0
    /\ timers' = [timers EXCEPT ![m] = @ - 1] /\ handle' = [handle EXCEPT ![m] = FALSE]
    /\ running' = [running EXCEPT ![m] = TRUE]
    /\ sweep' = [sweep EXCEPT ![m] = IF running[m] THEN @ ELSE ToList]
    /\ UNCHANGED <<sourceVars, socket, betVars, again, gone, unseen>>

\* fire, out of a timeout.
Fire(m) ==
    /\ timers[m] > 0
    /\ timers' = [timers EXCEPT ![m] = @ - 1] /\ handle' = [handle EXCEPT ![m] = FALSE]
    /\ running' = [running EXCEPT ![m] = TRUE]
    /\ again' = [again EXCEPT ![m] = @ \/ running[m]]
    /\ sweep' = [sweep EXCEPT ![m] = IF running[m] THEN @ ELSE ToList]
    /\ UNCHANGED <<sourceVars, socket, betVars, gone, unseen>>

\* The end of a reconcile, whatever came of it; fire runs again at once, and
\* forgets a timeout that was set in the meantime.
Finally(m) ==
    /\ running' = [running EXCEPT ![m] = again[m]]
    /\ again' = [again EXCEPT ![m] = FALSE]
    /\ handle' = [handle EXCEPT ![m] = @ /\ ~again[m]]
    /\ sweep' = [sweep EXCEPT ![m] = IF again[m] THEN ToList ELSE NoSweep]
    /\ UNCHANGED timers

-----------------------------------------------------------------------------
(* The mirror sweep of a monitor.                                          *)

\* What the monitor that is on has heard of, it looks at.
Looks(m) == unseen' = (unseen /\ m # "now")

\* The query for confirmed bets.
List(m) ==
    /\ sweep[m].pc = "list"
    /\ sweep' = [sweep EXCEPT ![m] = [pc |-> "read", bets |-> Confirmed, orphans |-> {},
                                      todo |-> {source[b] : b \in Confirmed}]]
    /\ Looks(m)
    /\ UNCHANGED <<sourceVars, socket, betVars, debounceVars, gone>>

\* Mutation: Pacifica positions are recognized by their market, too.
StillOpenInMarket(b) == open[source[b]]

\* isWhaleSourcePositionStillOpen, getHyperliquidOpenPositionIds, and the find of
\* closeLeaderFollowers.
StillOpen(b) ==
    LET a == source[b] IN
    /\ open[a]
    /\ kind[a] = "pacifica" => bid[b] = ByTime(opened[a])
    /\ kind[a] = "hyperliquid" => bid[b] = ByPrice(price[a])

BetsOf(m, a) == {b \in sweep[m].bets : source[b] = a}

\* The next source of the sweep was read.
Goes(m, a, found) ==
    /\ sweep[m].pc = "read" /\ a \in sweep[m].todo /\ sweep[m].orphans = {}
    /\ sweep' = [sweep EXCEPT ![m].todo = @ \ {a}, ![m].orphans = found]
    /\ UNCHANGED <<sourceVars, socket, betVars, debounceVars, gone, unseen>>

\* The bets it has left are to be closed.
Read(m, a) == Goes(m, a, {b \in BetsOf(m, a) : ~StillOpen(b)})

\* Mutation: a source that cannot be read holds nothing.
ReadFailsFlat(m, a) == Goes(m, a, BetsOf(m, a))

\* Its bets get an error each and stay as they are.
ReadFails(m, a) == Goes(m, a, {})

\* closeFollowerBet; the write is a CAS on confirmed.
CloseFollower(m, b) ==
    /\ b \in sweep[m].orphans
    /\ status' = IF status[b] = "confirmed" THEN [status EXCEPT ![b] = "mirrored"]
                                            ELSE status
    /\ sweep' = [sweep EXCEPT ![m].orphans = @ \ {b}]
    /\ UNCHANGED <<sourceVars, socket, source, copied, bid, debounceVars,
                   gone, unseen>>

\* No session, no agent, or a step of the close threw.
CloseFails(m, b) ==
    /\ b \in sweep[m].orphans
    /\ sweep' = [sweep EXCEPT ![m].orphans = @ \ {b}]
    /\ UNCHANGED <<sourceVars, socket, betVars, debounceVars, gone, unseen>>

\* Mutation: a reconcile that throws leaves the closure running.
SweepThrowsForGood(m) ==
    /\ sweep[m].pc = "list"
    /\ sweep' = [sweep EXCEPT ![m] = NoSweep]
    /\ UNCHANGED <<sourceVars, socket, betVars, debounceVars, gone, unseen>>

\* The query for the bets threw: nobody has looked at the event.
SweepThrows(m) ==
    /\ sweep[m].pc = "list"
    /\ Finally(m)
    /\ Looks(m)
    /\ UNCHANGED <<sourceVars, socket, betVars, gone>>

\* The sweep and the refresh that runs beside it have settled.
EndSweep(m) ==
    /\ sweep[m].pc = "read" /\ sweep[m].todo = {} /\ sweep[m].orphans = {}
    /\ Finally(m)
    /\ UNCHANGED <<sourceVars, socket, betVars, gone, unseen>>

-----------------------------------------------------------------------------
(* Sources, their sockets, the cache.                                      *)

OpenPosition(a) ==
    /\ ~open[a] /\ opened[a] < MaxOpens
    /\ open' = [open EXCEPT ![a] = TRUE]
    /\ opened' = [opened EXCEPT ![a] = @ + 1]
    /\ \E p \in Prices : price' = [price EXCEPT ![a] = p]
    /\ Event(a)
    /\ UNCHANGED <<kind, socket, betVars, sweep, gone>>

GrowPosition(a) ==
    /\ open[a]
    /\ \E p \in Prices \ {price[a]} : price' = [price EXCEPT ![a] = p]
    /\ Event(a)
    /\ UNCHANGED <<kind, open, opened, socket, betVars, sweep, gone>>

ClosePosition(a) ==
    /\ open[a]
    /\ open' = [open EXCEPT ![a] = FALSE]
    /\ gone' = gone \cup {b \in Confirmed : source[b] = a}
    /\ Event(a)
    /\ UNCHANGED <<kind, opened, price, socket, betVars, sweep>>

\* Any of the other accounts that are monitored trades.
OtherEvent ==
    /\ Trigger
    /\ UNCHANGED <<sourceVars, socket, betVars, sweep, gone>>

SocketCloses(a) ==
    /\ socket[a]
    /\ socket' = [socket EXCEPT ![a] = FALSE]
    /\ UNCHANGED <<sourceVars, betVars, debounceVars, sweep, gone, unseen>>

\* Reconnected with backoff.  Pacifica answers the subscription with the positions,
\* which counts as an event; Hyperliquid with a snapshot that is ignored.
SocketOpens(a) ==
    /\ ~socket[a]
    /\ socket' = [socket EXCEPT ![a] = TRUE]
    /\ IF kind[a] = "pacifica"
       THEN Trigger
       ELSE UNCHANGED <<debounceVars, unseen>>
    /\ UNCHANGED <<sourceVars, betVars, sweep, gone>>

\* A whale is copied off the live cache: refreshes fail, and write over newer ones, so
\* it may hold any position the source ever had.  The ids in it are formed by the open
\* time on either venue (mapPacificaPosition, refreshHyperliquidWhales).  A leader's
\* position is looked up before the copy.
Copy(b, a) ==
    /\ status[b] = "none"
    /\ \E t \in 1..opened[a] :
          /\ copied' = [copied EXCEPT ![b] = t]
          /\ IF kind[a] = "leader"
             THEN open[a] /\ t = opened[a] /\ bid' = bid
             ELSE bid' = [bid EXCEPT ![b] = ByTime(t)]
          /\ gone' = IF open[a] /\ opened[a] = t THEN gone ELSE gone \cup {b}
    /\ status' = [status EXCEPT ![b] = "confirmed"]
    /\ source' = [source EXCEPT ![b] = a]
    /\ UNCHANGED <<sourceVars, socket, debounceVars, sweep, unseen>>

UserCloses(b) ==
    /\ status[b] = "confirmed"
    /\ status' = [status EXCEPT ![b] = "closed"]
    /\ UNCHANGED <<sourceVars, socket, source, copied, bid, debounceVars,
                   sweep, gone, unseen>>

NowIs(f, idle) == [m \in Monitors |-> IF m = "now" THEN idle ELSE f[m]]
NowWas(f, idle) == [m \in Monitors |-> IF m = "now" THEN idle ELSE f["now"]]

\* The lease of the whale ticker is lost and a monitor starts elsewhere.  stop closes
\* the sockets only, the timeouts and the reconcile live on; those of a monitor that
\* was stopped before are followed no further.
StopMonitor ==
    /\ timers' = NowWas(timers, 0) /\ handle' = [m \in Monitors |-> FALSE]
    /\ running' = NowWas(running, FALSE) /\ again' = NowWas(again, FALSE)
    /\ sweep' = NowWas(sweep, NoSweep)
    /\ unseen' = FALSE
    /\ socket' = [a \in Sources |-> FALSE]
    /\ UNCHANGED <<sourceVars, betVars, gone>>

\* Its process dies, and what was pending is lost.
MonitorDies ==
    /\ timers' = NowIs(timers, 0) /\ handle' = NowIs(handle, FALSE)
    /\ running' = NowIs(running, FALSE) /\ again' = NowIs(again, FALSE)
    /\ sweep' = NowIs(sweep, NoSweep)
    /\ unseen' = FALSE
    /\ socket' = [a \in Sources |-> FALSE]
    /\ UNCHANGED <<sourceVars, betVars, gone>>

-----------------------------------------------------------------------------
SweepStep(m) ==
    \/ List(m) \/ SweepThrows(m) \/ EndSweep(m)
    \/ \E a \in Sources : Read(m, a) \/ ReadFails(m, a)
    \/ \E b \in Bets : CloseFollower(m, b) \/ CloseFails(m, b)

SourceStep(a) ==
    \/ OpenPosition(a) \/ GrowPosition(a) \/ ClosePosition(a)
    \/ SocketCloses(a) \/ SocketOpens(a)

Next ==
    \/ \E m \in Monitors : Fire(m) \/ SweepStep(m)
    \/ OtherEvent \/ StopMonitor \/ MonitorDies
    \/ \E a \in Sources : SourceStep(a) \/ \E b \in Bets : Copy(b, a)
    \/ \E b \in Bets : UserCloses(b)

Spec == Init /\ [][Next]_vars

\* Some account trades again and again, the accounts pause for the delay of the
\* debounce again and again, and no read, query or close fails every time.
Fairness ==
    /\ WF_vars(OtherEvent)
    /\ SF_vars(Fire("now"))
    /\ WF_vars(SweepStep("now"))
    /\ SF_vars(List("now"))
    /\ \A a \in Sources : SF_vars(Read("now", a))
    /\ \A b \in Bets : SF_vars(CloseFollower("now", b))

FairSpec == Spec /\ Fairness

-----------------------------------------------------------------------------
(***************************************************************************)
(* The sweep closes a bet only if the position it copied was gone at some  *)
(* time since: not when a source could not be read, not when it grew or    *)
(* was closed and opened again while the sweep went through its list       *)
(* (lib/bets/mirror-close.ts, closeWhaleFollowers).                        *)
(***************************************************************************)
OnlyOrphansAreClosed == \A b \in Bets : status[b] = "mirrored" => b \in gone

(***************************************************************************)
(* An event that no sweep has begun after has a timeout, a repetition or a *)
(* reconcile that is about to list the bets: also if it came in the middle *)
(* of a sweep (lib/whales/source-monitor.ts, runAgain).                    *)
(***************************************************************************)
NoEventIsLost ==
    unseen => timers["now"] > 0 \/ again["now"] \/ sweep["now"].pc = "list"

(***************************************************************************)
(* A confirmed bet does not outlive the position it copied, although       *)
(* sockets drop, events are missed, sweeps are cut off and closes fail.    *)
(***************************************************************************)
OrphansLeave == \A b \in Bets : []<>~(status[b] = "confirmed" /\ Orphan(b))

-----------------------------------------------------------------------------
(* The inductive invariant.                                                *)

\* While the copied position has not been gone, it is the one the source holds, and
\* the bet knows it by its id.
Follows(b) ==
    /\ open[source[b]] /\ opened[source[b]] = copied[b]
    /\ kind[source[b]] = "pacifica" => bid[b] = ByTime(copied[b])

CopiesFollow ==
    \A b \in Bets : status[b] = "confirmed" =>
        source[b] \in Sources /\ (b \in gone \/ Follows(b))

\* What was listed was confirmed; what was judged an orphan was one, where no source
\* is of the kind whose ids differ.
ListedWereConfirmed == \A m \in Monitors : \A b \in sweep[m].bets : status[b] # "none"
OrphansWereGone ==
    \A m \in Monitors : \A b \in sweep[m].orphans : status[b] = "confirmed" => b \in gone

HandleIsPending == \A m \in Monitors : handle[m] => timers[m] > 0

MirrorInv ==
    /\ TypeOK
    /\ CopiesFollow
    /\ ListedWereConfirmed
    /\ "hyperliquid" \notin Kinds => OrphansWereGone /\ OnlyOrphansAreClosed
    /\ HandleIsPending /\ NoEventIsLost
=============================================================================
