----------------------------- MODULE LlmOperator -----------------------------
(***************************************************************************)
(* The operator of an LLM bot (lib/arena/llm/loop.ts, floor.ts, run by     *)
(* scripts/arena/llm-operator-worker.ts) on top of the program             *)
(* (ArenaLlmBot): a cycle reads the account, sends a heartbeat if its day  *)
(* is over, otherwise asks the model, holds what it wants to do against    *)
(* its own copy of the safety floor, and sends what passes, one            *)
(* transaction after the other.                                            *)
(*                                                                         *)
(* The floor works on the account as it was read before the model was      *)
(* asked; ticks, midnights and its own transactions change it meanwhile.   *)
(* A step of a cycle may throw, which ends the cycle; a transaction whose  *)
(* confirmation was not awaited may still land, but not after the next     *)
(* cycle has begun: its blockhash is too old by then.                      *)
(***************************************************************************)
EXTENDS ArenaLlmBot, SequencesExt

CONSTANTS
    Decisions,       \* the lists of actions the model may return
    MinOpenLeverage, \* MIN_OPEN_LEVERAGE
    Nothing          \* no transaction

Beat == [kind |-> "beat"]

\* A hold is an action that a decision does not have.
Actions ==
    [kind : {"close"}, market : Markets]
    \cup [kind : {"open"}, market : Markets, ask : AskFields]

Transactions == {Beat} \cup Actions

ASSUME OperatorAssumption ==
    /\ MinOpenLeverage \in Nat \ {0}
    /\ Nothing \notin Transactions
    /\ \A decision \in Decisions : decision \in Seq(Actions)

VARIABLES
    pc,    \* where the cycle is
    read,  \* liveStateFromBot, as of the read; acted: something was sent since
    queue, \* what is left to send
    wire   \* the transaction that was sent and not decided yet

cycleVars == <<pc, read, queue>>
operatorVars == <<cycleVars, wire>>
allVars == <<vars, operatorVars>>

OperatorTypeOK ==
    /\ pc \in {"idle", "think", "send", "wait"}
    /\ read \in [halted : BOOLEAN, trades : Nat, cooling : BOOLEAN, acted : BOOLEAN]
    /\ queue \in Seq(Transactions)
    /\ wire \in Transactions \cup {Nothing}
    /\ wire # Nothing => pc \in {"idle", "wait"}
    /\ queue # <<>> => pc \in {"send", "wait"}
    /\ pc = "send" => queue # <<>>

Unread == [halted |-> FALSE, trades |-> 0, cooling |-> FALSE, acted |-> FALSE]

OperatorInit ==
    /\ Init
    /\ pc = "idle" /\ read = Unread /\ queue = <<>> /\ wire = Nothing

-----------------------------------------------------------------------------
(* The floor.                                                              *)

\* evaluateAction clamps what it passes on; the program clamps again.
Clamped(ask) ==
    [ask EXCEPT
        !.lev = AtMost(MaxLeverage, AtLeast(AtMost(MinOpenLeverage, MaxLeverage), @)),
        !.frac = AtMost(MaxStakeFracBps, @),
        !.stop = AtMost(MaxStopBps, AtLeast(MinStopBps, @))]

\* evaluateAction: an open against the account as it was read and the opens
\* that were passed before it.
FloorPasses(ask, opened) ==
    /\ ~read.halted /\ ~read.cooling
    /\ read.trades + opened < MaxTrades
    /\ ask.sure /\ ask.stop # 0

Opens(sends) == Cardinality({i \in DOMAIN sends : sends[i].kind = "open"})

\* Mutation: every action is held against the account as it was read.
ConsiderAlone(sends, a) ==
    CASE a.kind # "open" -> Append(sends, a)
      [] a.kind = "open" /\ FloorPasses(a.ask, 0) ->
            Append(sends, [a EXCEPT !.ask = Clamped(@)])
      [] OTHER -> sends

\* evaluateAction, with what was passed of the decision before.
Consider(sends, a) ==
    CASE a.kind # "open" -> Append(sends, a)
      [] a.kind = "open" /\ FloorPasses(a.ask, Opens(sends)) ->
            Append(sends, [a EXCEPT !.ask = Clamped(@)])
      [] OTHER -> sends

\* evaluateActions
EvaluateActions(decision) == FoldLeft(Consider, <<>>, decision)

-----------------------------------------------------------------------------
(* The cycle.                                                              *)

Ends == pc' = "idle" /\ read' = Unread /\ queue' = <<>>

\* Mutation: the model is asked whatever the day.
BeginThinking ==
    /\ pc = "idle" /\ wire = Nothing
    /\ read' = [halted |-> bot.halted, trades |-> bot.tradesToday,
                cooling |-> cooling, acted |-> FALSE]
    /\ pc' = "think"
    /\ UNCHANGED <<vars, queue, wire>>

\* getBotState; dayNeedsRoll decides as roll_day does.
Begin ==
    /\ pc = "idle" /\ wire = Nothing
    /\ read' = [halted |-> bot.halted, trades |-> bot.tradesToday,
                cooling |-> cooling, acted |-> FALSE]
    /\ IF newDay THEN pc' = "send" /\ queue' = <<Beat>>
                 ELSE pc' = "think" /\ UNCHANGED queue
    /\ UNCHANGED <<vars, wire>>

\* The model has answered, and the floor has passed some of it.
Decide ==
    /\ pc = "think"
    /\ \E decision \in Decisions :
          LET sends == EvaluateActions(decision) IN
          /\ opens + Opens(sends) <= MaxOpens
          /\ IF sends = <<>> THEN Ends
             ELSE pc' = "send" /\ queue' = sends /\ UNCHANGED read
    /\ UNCHANGED <<vars, wire>>

\* Mutation: the confirmation is not awaited.
SubmitAll ==
    /\ pc = "send"
    /\ wire' = Head(queue) /\ queue' = Tail(queue)
    /\ pc' = IF Tail(queue) = <<>> THEN "idle" ELSE "send"
    /\ UNCHANGED <<vars, read>>

Submit ==
    /\ pc = "send"
    /\ wire' = Head(queue) /\ queue' = Tail(queue)
    /\ pc' = "wait"
    /\ UNCHANGED <<vars, read>>

\* confirmTransaction, which does not look at the outcome.
Confirmed ==
    /\ pc = "wait" /\ wire = Nothing
    /\ IF queue = <<>> THEN Ends
       ELSE pc' = "send" /\ read' = [read EXCEPT !.acted = TRUE] /\ UNCHANGED queue
    /\ UNCHANGED <<vars, wire>>

\* Any call of the cycle; also no bot, or no decision.
Throws ==
    /\ pc # "idle"
    /\ pc' = "idle" /\ queue' = <<>>
    /\ read' = IF wire = Nothing THEN Unread ELSE read
    /\ UNCHANGED <<vars, wire>>

-----------------------------------------------------------------------------
(* The transaction.                                                        *)

Lands == wire' = Nothing /\ UNCHANGED cycleVars

LandOpen ==
    /\ wire # Nothing /\ wire.kind = "open"
    /\ Open(wire.market, wire.ask)
    /\ Lands

\* apply_open declines: the market is held, or the balance does not cover it.
LandDeclined ==
    /\ wire # Nothing /\ wire.kind = "open"
    /\ Permitted(RollDay(bot), wire.ask)
    /\ LET b == RollDay(bot)
           stake == PlanStake(b, wire.ask)
       IN  \/ InMarket(b, wire.market)
           \/ ~Covers(b, stake, Fee(stake, Leverage(wire.ask)))
    /\ Heartbeat
    /\ Lands

\* precheck_open rejects it, and the transaction fails.
LandRejected ==
    /\ wire # Nothing /\ wire.kind = "open"
    /\ ~Permitted(RollDay(bot), wire.ask)
    /\ Lands
    /\ UNCHANGED vars

LandClose ==
    /\ wire # Nothing /\ wire.kind = "close"
    /\ IF InMarket(bot, wire.market) THEN CloseByOperator(wire.market) ELSE Heartbeat
    /\ Lands

LandBeat ==
    /\ wire = Beat
    /\ Heartbeat
    /\ Lands

\* Never executed, or executed on a stale feed, which does nothing.
Dropped ==
    /\ wire # Nothing
    /\ Lands
    /\ UNCHANGED vars

-----------------------------------------------------------------------------
\* The read account cools down with the account.
Cools ==
    /\ cooling
    /\ CooledDown
    /\ read' = [read EXCEPT !.cooling = FALSE]
    /\ UNCHANGED <<pc, queue, wire>>

World ==
    /\ Midnight \/ \E m \in Markets : Tick(m) \/ Publish(m)
    /\ UNCHANGED operatorVars

Cycle == Begin \/ Decide \/ Submit \/ Confirmed \/ Throws
Landing == LandOpen \/ LandDeclined \/ LandRejected \/ LandClose \/ LandBeat \/ Dropped

OperatorNext == Cycle \/ Landing \/ Cools \/ World

\* Days end, the worker goes on cycling, a transaction is executed or expires,
\* and neither the heartbeats nor the reads before them fail every day.
OperatorSpec ==
    /\ OperatorInit /\ [][OperatorNext]_allVars
    /\ WF_allVars(Midnight /\ UNCHANGED operatorVars)
    /\ WF_allVars(Cycle) /\ WF_allVars(Landing)
    /\ SF_allVars(Submit)
    /\ SF_allVars(LandBeat)

\* The crank works: feeds print and their prints are folded.
CrankWorks ==
    \A m \in Markets :
        /\ WF_allVars(Publish(m) /\ UNCHANGED operatorVars)
        /\ WF_allVars(Tick(m) /\ UNCHANGED operatorVars)

-----------------------------------------------------------------------------
(***************************************************************************)
(* The floor mirrors the program (lib/arena/llm/floor.ts): an open that it *)
(* passed is rejected only because the kill switch tripped since the       *)
(* account was read, or for the cooldown of an earlier transaction of the  *)
(* same decision.  It never meets the daily cap: opens of one decision     *)
(* draw down a budget, and midnights only lower the count.                 *)
(***************************************************************************)
FloorMirrors ==
    [][LandRejected => RollDay(bot).halted \/ (cooling /\ read.acted)]_allVars

\* Why, inductively: what is left to send is held against an account that has not
\* less room than the one that was read.
Sendable(t) == t.kind = "open" => t.ask.sure /\ t.ask.stop # 0

Pending == Opens(queue) + (IF wire # Nothing /\ wire.kind = "open" THEN 1 ELSE 0)

Trades == IF newDay THEN 0 ELSE bot.tradesToday

FloorInv ==
    /\ pc = "think" => Trades <= read.trades
    /\ Pending # 0 => ~read.cooling /\ Trades + Pending <= MaxTrades
    /\ \A i \in DOMAIN queue : Sendable(queue[i])
    /\ wire # Nothing => Sendable(wire)
    /\ pc \in {"think", "send"} \/ wire # Nothing =>
            (cooling => read.cooling \/ read.acted)

(***************************************************************************)
(* A halted bot is released, although it may decide to do nothing for ever *)
(* and no crank ticks: the cycle after midnight sends a heartbeat          *)
(* (lib/arena/llm/loop.ts, the deadlock of gpt-v1).                        *)
(***************************************************************************)
HaltsEnd == bot.halted ~> ~bot.halted

(***************************************************************************)
(* While the crank works no position lasts for ever, whatever operator and *)
(* prices do (max_hold_ticks, paper_llm.rs:382-387).                       *)
(***************************************************************************)
PositionsLeave == CrankWorks => \A m \in Markets : []<>~InMarket(bot, m)
=============================================================================
