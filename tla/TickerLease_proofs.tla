------------------------- MODULE TickerLease_proofs -------------------------
(***************************************************************************)
(* Mutual exclusion of the lease-guarded tickers for every number of       *)
(* processes, every lease length and every timing that fits.               *)
(***************************************************************************)
EXTENDS TickerLease, TLAPS

-----------------------------------------------------------------------------
(***************************************************************************)
(* TypeOK is an invariant of the lease and its loop.                       *)
(***************************************************************************)
THEOREM TypeCorrect == Spec => []TypeOK
<1> USE TickerLeaseAssumption DEF TypeOK, Forever, Saturated, Older
<1>1. Init => TypeOK
  BY DEF Init
<1>2. TypeOK /\ [Next]_vars => TypeOK'
  <2> SUFFICES ASSUME TypeOK, [Next]_vars
               PROVE  TypeOK'
    OBVIOUS
  <2>1. CASE Advance
    BY <2>1 DEF Advance
  <2>2. ASSUME NEW p \in Procs, IssueCheck(p) PROVE TypeOK'
    BY <2>2 DEF IssueCheck
  <2>3. ASSUME NEW p \in Procs, TickBetweenBeats(p) PROVE TypeOK'
    BY <2>3 DEF TickBetweenBeats, BeginTick
  <2>4. ASSUME NEW p \in Procs, CheckGranted(p) PROVE TypeOK'
    BY <2>4 DEF CheckGranted, BeginTick, Upsert
  <2>5. ASSUME NEW p \in Procs, CheckDenied(p) PROVE TypeOK'
    BY <2>5 DEF CheckDenied, StandDown
  <2>6. ASSUME NEW p \in Procs, CheckThrew(p) PROVE TypeOK'
    BY <2>6 DEF CheckThrew, StandDown, Upsert
  <2>7. ASSUME NEW p \in Procs, EndTick(p) PROVE TypeOK'
    BY <2>7 DEF EndTick
  <2>8. ASSUME NEW p \in Procs, Crash(p) PROVE TypeOK'
    BY <2>8 DEF Crash
  <2>9. ASSUME NEW p \in Procs, Restart(p) PROVE TypeOK'
    BY <2>9 DEF Restart
  <2>10. CASE UNCHANGED vars
    BY <2>10 DEF vars
  <2> QED
    BY <2>1, <2>2, <2>3, <2>4, <2>5, <2>6, <2>7, <2>8, <2>9, <2>10
    DEF Next, LoopStep
<1> QED
  BY <1>1, <1>2, PTL DEF Spec

-----------------------------------------------------------------------------
(* The inductive invariant.                                                *)

\* Believing to be the holder after a beat younger than the TTL is being it.
RoleIsLease ==
    \A p \in Procs :
        p \in wasHolder /\ lastCheck[p] <= TTL => holder = p /\ beatAge <= lastCheck[p]

\* A tick began with a check, or less than Recheck after one.
TickTiming ==
    \A p \in Procs :
        pc[p] = "ticking" => p \in wasHolder /\ lastCheck[p] <= Recheck + busy[p]

LeaseInv == TypeOK /\ RoleIsLease /\ TickTiming

LEMMA LeaseInvInit == Init => LeaseInv
BY TickerLeaseAssumption
   DEF Init, LeaseInv, TypeOK, RoleIsLease, TickTiming, Forever, Saturated

LEMMA LeaseInvStep == LeaseInv /\ TypeOK' /\ [Next]_vars => LeaseInv'
<1> USE TickerLeaseAssumption
<1> SUFFICES ASSUME LeaseInv, TypeOK', [Next]_vars
             PROVE  RoleIsLease' /\ TickTiming'
  BY DEF LeaseInv
<1> USE DEF LeaseInv, TypeOK, RoleIsLease, TickTiming, Forever, Saturated
<1>1. CASE Advance
  BY <1>1 DEF Advance, Older
<1>2. ASSUME NEW p \in Procs, IssueCheck(p) PROVE RoleIsLease' /\ TickTiming'
  BY <1>2 DEF IssueCheck
<1>3. ASSUME NEW p \in Procs, TickBetweenBeats(p) PROVE RoleIsLease' /\ TickTiming'
  BY <1>3 DEF TickBetweenBeats, BeginTick, CheckDue
<1>4. ASSUME NEW p \in Procs, CheckGranted(p) PROVE RoleIsLease' /\ TickTiming'
  BY <1>4 DEF CheckGranted, BeginTick, Upsert, LeaseFree
<1>5. ASSUME NEW p \in Procs, CheckDenied(p) PROVE RoleIsLease' /\ TickTiming'
  BY <1>5 DEF CheckDenied, StandDown
<1>6. ASSUME NEW p \in Procs, CheckThrew(p) PROVE RoleIsLease' /\ TickTiming'
  BY <1>6 DEF CheckThrew, StandDown, Upsert, LeaseFree
<1>7. ASSUME NEW p \in Procs, EndTick(p) PROVE RoleIsLease' /\ TickTiming'
  BY <1>7 DEF EndTick
<1>8. ASSUME NEW p \in Procs, Crash(p) PROVE RoleIsLease' /\ TickTiming'
  BY <1>8 DEF Crash
<1>9. ASSUME NEW p \in Procs, Restart(p) PROVE RoleIsLease' /\ TickTiming'
  BY <1>9 DEF Restart
<1>10. CASE UNCHANGED vars
  BY <1>10 DEF vars
<1> QED
  BY <1>1, <1>2, <1>3, <1>4, <1>5, <1>6, <1>7, <1>8, <1>9, <1>10 DEF Next, LoopStep

-----------------------------------------------------------------------------
(***************************************************************************)
(* If an iteration that starts just before the next beat ends before the   *)
(* lease expires, no two processes ever tick at the same time.             *)
(***************************************************************************)
THEOREM MutualExclusion == TicksFit => (Spec => []OneTicker)
<1> SUFFICES ASSUME TicksFit PROVE Spec => []OneTicker
  OBVIOUS
<1>1. LeaseInv => OneTicker
  <2> SUFFICES ASSUME LeaseInv,
                      NEW p \in Procs, NEW q \in Procs,
                      pc[p] = "ticking", pc[q] = "ticking"
               PROVE  p = q
    BY DEF OneTicker
  <2>1. \A r \in Procs : pc[r] = "ticking" => holder = r
    BY TickerLeaseAssumption
    DEF LeaseInv, TypeOK, RoleIsLease, TickTiming, TicksFit, Forever
  <2> QED
    BY <2>1
<1> QED
  BY <1>1, TypeCorrect, LeaseInvInit, LeaseInvStep, PTL DEF Spec

-----------------------------------------------------------------------------
(* Engine states are recreated at every take-over.                         *)

\* The age of the last check that a live holder can reach, by where it is.
CheckAge ==
    \A p \in wasHolder :
        /\ pc[p] # "down"
        /\ pc[p] = "asleep" => lastCheck[p] + nap[p] <= Recheck + MaxIter + MaxNap
        /\ pc[p] = "checking" => lastCheck[p] <= Recheck + MaxIter + MaxNap + busy[p]

\* An engine state in use by a process with a live lease is its own.
OwnBaselines == \A p \in wasHolder : lastCheck[p] <= TTL => p \notin stale

BaselineInv == LeaseInv /\ CheckAge /\ OwnBaselines

LEMMA BaselineInvStep ==
    GapsFit /\ BaselineInv /\ LeaseInv' /\ [Next]_vars => BaselineInv'
<1> USE TickerLeaseAssumption
<1> SUFFICES ASSUME GapsFit, BaselineInv, LeaseInv', [Next]_vars
             PROVE  CheckAge' /\ OwnBaselines'
  BY DEF BaselineInv
<1> USE DEF BaselineInv, LeaseInv, TypeOK, RoleIsLease, TickTiming, Forever,
            Saturated, CheckAge, OwnBaselines, GapsFit
<1>1. CASE Advance
  BY <1>1 DEF Advance, Older
<1>2. ASSUME NEW p \in Procs, IssueCheck(p) PROVE CheckAge' /\ OwnBaselines'
  BY <1>2 DEF IssueCheck
<1>3. ASSUME NEW p \in Procs, TickBetweenBeats(p) PROVE CheckAge' /\ OwnBaselines'
  BY <1>3 DEF TickBetweenBeats, BeginTick, CheckDue
<1>4. ASSUME NEW p \in Procs, CheckGranted(p) PROVE CheckAge' /\ OwnBaselines'
  BY <1>4 DEF CheckGranted, BeginTick, Upsert, LeaseFree
<1>5. ASSUME NEW p \in Procs, CheckDenied(p) PROVE CheckAge' /\ OwnBaselines'
  BY <1>5 DEF CheckDenied, StandDown
<1>6. ASSUME NEW p \in Procs, CheckThrew(p) PROVE CheckAge' /\ OwnBaselines'
  BY <1>6 DEF CheckThrew, StandDown
<1>7. ASSUME NEW p \in Procs, EndTick(p) PROVE CheckAge' /\ OwnBaselines'
  BY <1>7 DEF EndTick
<1>8. ASSUME NEW p \in Procs, Crash(p) PROVE CheckAge' /\ OwnBaselines'
  BY <1>8 DEF Crash
<1>9. ASSUME NEW p \in Procs, Restart(p) PROVE CheckAge' /\ OwnBaselines'
  BY <1>9 DEF Restart
<1>10. CASE UNCHANGED vars
  BY <1>10 DEF vars
<1> QED
  BY <1>1, <1>2, <1>3, <1>4, <1>5, <1>6, <1>7, <1>8, <1>9, <1>10 DEF Next, LoopStep

(***************************************************************************)
(* If moreover the longest gap between two lease checks of a live holder   *)
(* fits in the lease, every tick runs on baselines of its own process.     *)
(***************************************************************************)
THEOREM FreshBaselines == GapsFit => (Spec => []BaselinesFresh)
<1> SUFFICES ASSUME GapsFit PROVE Spec => []BaselinesFresh
  OBVIOUS
<1>1. Init => BaselineInv
  BY LeaseInvInit DEF Init, BaselineInv, CheckAge, OwnBaselines
<1>2. BaselineInv => BaselinesFresh
  BY TickerLeaseAssumption
  DEF BaselineInv, LeaseInv, TypeOK, TickTiming, OwnBaselines, BaselinesFresh,
      GapsFit, Forever
<1> QED
  BY <1>1, <1>2, TypeCorrect, LeaseInvInit, LeaseInvStep, BaselineInvStep, PTL
  DEF Spec
=============================================================================
