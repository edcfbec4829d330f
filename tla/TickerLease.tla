---------------------------- MODULE TickerLease ----------------------------
(***************************************************************************)
(* The database lease that elects one ticker among the server processes    *)
(* (lib/copy/ticker-lease.ts and its near-copies for autopilot, whales and *)
(* the arena crank) and the loop that lives under it (lib/copy/ticker.ts). *)
(*                                                                         *)
(* The loop re-checks the lease only when Recheck time units have passed;  *)
(* in between, the holder keeps ticking without asking the database.  The  *)
(* loops of autopilot, whales and the crank ask on every iteration, which  *)
(* is Recheck = 0.                                                         *)
(*                                                                         *)
(* Time is relative: every clock the code compares is kept as an age that  *)
(* saturates at Forever, so the model is finite without bounding time.     *)
(***************************************************************************)
EXTENDS Integers

CONSTANTS
    Procs,      \* server processes that run the ticker
    Nobody,     \* holder column of an absent row, or of a process that died
    TTL,        \* LEASE_TTL_SECONDS
    Recheck,    \* LEASE_RECHECK_MS
    MaxNap,     \* the longest sleep of the loop (IDLE_GAP_MS, LEASE_RECHECK_MS)
    MaxIter,    \* the longest iteration: lease query plus engine tick
    MaxCrashes  \* bound on the crashes of one behaviour

ASSUME TickerLeaseAssumption ==
    /\ Nobody \notin Procs
    /\ TTL \in Nat /\ Recheck \in Nat /\ MaxNap \in Nat
    /\ MaxIter \in Nat /\ MaxCrashes \in Nat
    /\ Recheck <= MaxNap

VARIABLES
    holder,     \* copy_ticker_lease.holder
    beatAge,    \* time since copy_ticker_lease.heartbeat_at
    pc,         \* where each process is in its loop
    nap,        \* time left of the sleep
    busy,       \* time since the loop head of this iteration (nowMs)
    lastCheck,  \* time since lastLeaseCheckMs
    wasHolder,  \* processes whose local wasHolder is true
    stale,      \* history: processes whose engineState predates a tick of another
    crashes     \* crashes so far

vars == <<holder, beatAge, pc, nap, busy, lastCheck, wasHolder, stale, crashes>>

Forever == TTL + 1
Saturated(age) == IF age < Forever THEN age ELSE Forever
Older(age) == Saturated(age + 1)

TypeOK ==
    /\ holder \in Procs \cup {Nobody}
    /\ beatAge \in 0..Forever
    /\ pc \in [Procs -> {"down", "asleep", "checking", "ticking"}]
    /\ nap \in [Procs -> 0..MaxNap]
    /\ busy \in [Procs -> 0..MaxIter]
    /\ lastCheck \in [Procs -> 0..Forever]
    /\ wasHolder \subseteq Procs
    /\ stale \subseteq Procs
    /\ crashes \in 0..MaxCrashes

\* Every process boots into its start-up sleep; lastLeaseCheckMs = 0.
Init ==
    /\ holder = Nobody
    /\ beatAge = Forever
    /\ pc = [p \in Procs |-> "asleep"]
    /\ nap = [p \in Procs |-> 0]
    /\ busy = [p \in Procs |-> 0]
    /\ lastCheck = [p \in Procs |-> Forever]
    /\ wasHolder = {}
    /\ stale = {}
    /\ crashes = 0

-----------------------------------------------------------------------------
(* The compare-and-set upsert of acquireCopyTickerLease.                   *)

\* Mutations: a TTL compared with the wrong constant, and an
\* upsert without the expiry clause.
LeaseFreeTooSoon(p) == holder = p \/ beatAge > Recheck
LeaseNeverExpires(p) == holder = p

LeaseFree(p) == holder = p \/ beatAge > TTL

Upsert(p) ==
    /\ LeaseFree(p)
    /\ holder' = p
    /\ beatAge' = 0

-----------------------------------------------------------------------------
(* The loop.                                                               *)

\* if (nowMs - lastLeaseCheckMs >= LEASE_RECHECK_MS)
CheckDue(p) == lastCheck[p] >= Recheck

\* Start the engine tick: from here on every other process's engine state is
\* behind what this tick does.
BeginTick(p, fresh) ==
    /\ pc' = [pc EXCEPT ![p] = "ticking"]
    /\ stale' = IF fresh \/ p \notin stale THEN Procs \ {p} ELSE Procs

\* Loop head, lease beat due: issue the upsert.
IssueCheck(p) ==
    /\ pc[p] = "asleep" /\ nap[p] = 0 /\ CheckDue(p)
    /\ pc' = [pc EXCEPT ![p] = "checking"]
    /\ busy' = [busy EXCEPT ![p] = 0]
    /\ UNCHANGED <<holder, beatAge, nap, lastCheck, wasHolder, stale, crashes>>

\* Loop head between beats: the holder cranks on, anybody else dozes.
TickBetweenBeats(p) ==
    /\ pc[p] = "asleep" /\ nap[p] = 0 /\ ~CheckDue(p)
    /\ busy' = [busy EXCEPT ![p] = 0]
    /\ IF p \in wasHolder
       THEN BeginTick(p, FALSE) /\ nap' = nap
       ELSE nap' = [nap EXCEPT ![p] = Recheck] /\ UNCHANGED <<pc, stale>>
    /\ UNCHANGED <<holder, beatAge, lastCheck, wasHolder, crashes>>

\* The upsert returned a row: tick, on a new engineState if this is a takeover.
CheckGranted(p) ==
    /\ pc[p] = "checking"
    /\ Upsert(p)
    /\ lastCheck' = [lastCheck EXCEPT ![p] = Saturated(busy[p])]
    /\ wasHolder' = wasHolder \cup {p}
    /\ BeginTick(p, p \notin wasHolder)
    /\ UNCHANGED <<nap, busy, crashes>>

\* Mutation: a stand-down that keeps wasHolder.
StandDownKeepsRole(p) ==
    /\ pc' = [pc EXCEPT ![p] = "asleep"]
    /\ nap' = [nap EXCEPT ![p] = Recheck]
    /\ UNCHANGED <<wasHolder, stale>>

\* holder = false: forget the role and the engine state, sleep.
StandDown(p) ==
    /\ pc' = [pc EXCEPT ![p] = "asleep"]
    /\ nap' = [nap EXCEPT ![p] = Recheck]
    /\ wasHolder' = wasHolder \ {p}
    /\ stale' = IF p \in wasHolder THEN stale \ {p} ELSE stale

CheckDenied(p) ==
    /\ pc[p] = "checking"
    /\ ~LeaseFree(p)
    /\ lastCheck' = [lastCheck EXCEPT ![p] = Saturated(busy[p])]
    /\ StandDown(p)
    /\ UNCHANGED <<holder, beatAge, busy, crashes>>

\* The query threw: before the upsert ran, or after it was applied.
CheckThrew(p) ==
    /\ pc[p] = "checking"
    /\ Upsert(p) \/ UNCHANGED <<holder, beatAge>>
    /\ StandDown(p)
    /\ UNCHANGED <<busy, lastCheck, crashes>>

\* The tick returned or threw; sleep(idle ? IDLE_GAP_MS : TICK_GAP_MS).
EndTick(p) ==
    /\ pc[p] = "ticking"
    /\ pc' = [pc EXCEPT ![p] = "asleep"]
    /\ \E gap \in {0, MaxNap} : nap' = [nap EXCEPT ![p] = gap]
    /\ UNCHANGED <<holder, beatAge, busy, lastCheck, wasHolder, stale, crashes>>

-----------------------------------------------------------------------------
(* The environment: time, crashes and restarts.                            *)

\* Time passes only while nobody is past a deadline: sleeps end on time and
\* an iteration lasts at most MaxIter.
Advance ==
    /\ \A p \in Procs :
          /\ pc[p] = "asleep" => nap[p] > 0
          /\ pc[p] \in {"checking", "ticking"} => busy[p] < MaxIter
    /\ beatAge' = Older(beatAge)
    /\ nap' = [p \in Procs |-> IF pc[p] = "asleep" THEN nap[p] - 1 ELSE nap[p]]
    /\ busy' = [p \in Procs |->
                  IF pc[p] \in {"checking", "ticking"} THEN busy[p] + 1 ELSE busy[p]]
    /\ lastCheck' = [p \in Procs |-> Older(lastCheck[p])]
    /\ UNCHANGED <<holder, pc, wasHolder, stale, crashes>>

\* HOLDER carries a fresh uuid per boot, so nobody ever matches the row of a
\* dead process: it can only expire.
Crash(p) ==
    /\ pc[p] # "down"
    /\ crashes < MaxCrashes
    /\ crashes' = crashes + 1
    /\ pc' = [pc EXCEPT ![p] = "down"]
    /\ holder' = IF holder = p THEN Nobody ELSE holder
    /\ wasHolder' = wasHolder \ {p}
    /\ stale' = stale \ {p}
    /\ UNCHANGED <<beatAge, nap, busy, lastCheck>>

Restart(p) ==
    /\ pc[p] = "down"
    /\ pc' = [pc EXCEPT ![p] = "asleep"]
    /\ nap' = [nap EXCEPT ![p] = 0]
    /\ lastCheck' = [lastCheck EXCEPT ![p] = Forever]
    /\ stale' = stale \ {p}
    /\ UNCHANGED <<holder, beatAge, busy, wasHolder, crashes>>

-----------------------------------------------------------------------------
LoopStep(p) ==
    \/ IssueCheck(p)
    \/ TickBetweenBeats(p)
    \/ CheckGranted(p)
    \/ CheckDenied(p)
    \/ CheckThrew(p)
    \/ EndTick(p)

Next ==
    \/ Advance
    \/ \E p \in Procs : LoopStep(p) \/ Crash(p) \/ Restart(p)

Spec == Init /\ [][Next]_vars

\* Time passes, loops run, dead processes are restarted, and a lease query
\* that can succeed again and again is not answered by an error every time.
Fairness ==
    /\ WF_vars(Advance)
    /\ \A p \in Procs :
          /\ WF_vars(LoopStep(p))
          /\ WF_vars(Restart(p))
          /\ SF_vars(CheckGranted(p))

FairSpec == Spec /\ Fairness

-----------------------------------------------------------------------------
(* What the timing has to satisfy.  The code enforces neither: the engine's *)
(* calls carry no timeouts.                                                *)

\* A tick begun just before the next beat ends before the lease expires.
TicksFit == Recheck + MaxIter <= TTL

\* Even with the longest sleep and the slowest lease query after such a tick.
GapsFit == Recheck + MaxIter + MaxNap + MaxIter <= TTL

(***************************************************************************)
(* Two processes are never inside tickCopyEngine at the same time, although *)
(* the holder ticks between beats without asking the database ("exactly    *)
(* one process ticks", lib/copy/ticker.ts:4).                              *)
(***************************************************************************)
OneTicker ==
    \A p, q \in Procs : pc[p] = "ticking" /\ pc[q] = "ticking" => p = q

(***************************************************************************)
(* No tick runs on an engineState created before another process ticked:   *)
(* its diff baselines would describe the book before that process's copies *)
(* ("stale baselines are toxic", lib/copy/ticker.ts:96).                   *)
(***************************************************************************)
BaselinesFresh == \A p \in Procs : pc[p] = "ticking" => p \notin stale

(***************************************************************************)
(* Take-over: whoever dies, holding the lease or not, some process ticks   *)
(* again, always (lib/copy/ticker.ts, the idle processes keep polling).    *)
(***************************************************************************)
SomeoneTicks == []<>(\E p \in Procs : pc[p] = "ticking")
=============================================================================
