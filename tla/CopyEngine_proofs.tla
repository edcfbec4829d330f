-------------------------- MODULE CopyEngine_proofs --------------------------
(***************************************************************************)
(* Proofs about CopyEngine, for any subscriptions, targets, source keys,   *)
(* markets and limits.                                                     *)
(***************************************************************************)
EXTENDS CopyEngine, TLAPS, FiniteSetTheorems

\* Next, spelled out for the proofs by cases.
LEMMA NextCases ==
  ASSUME Next
  PROVE
    \/ LoadWatchSet
    \/ \E t \in Targets : Fetch(t)
    \/ \E t \in Targets : FetchFails(t)
    \/ BeginClosePass
    \/ \E r \in Rows : SendClose(r)
    \/ \E r \in Rows : CloseThrows(r)
    \/ \E r \in Rows : ConfirmClose(r)
    \/ BeginOpenPass
    \/ \E r \in Rows : Accept(r)
    \/ \E r \in Rows : Skip(r)
    \/ \E r \in Rows : RecordOpen(r)
    \/ \E r \in Rows : SendOpen(r)
    \/ \E r \in Rows : OpenThrows(r)
    \/ \E r \in Rows : ConfirmOpen(r)
    \/ AdvanceBaselines
    \/ NewEngine
    \/ \E k \in Keys : SourceOpens(k)
    \/ \E k \in Keys : SourceCloses(k)
    \/ \E k \in Keys : SourceAges(k)
    \/ \E i \in Refreshers, t \in Whales : RefreshReads(i, t)
    \/ \E i \in Refreshers : RefreshMerges(i)
    \/ \E i \in Refreshers : RefreshWrites(i)
    \/ \E s \in Subs : PauseOrResume(s)
    \/ \E r \in Rows : OpenDecided(r)
    \/ \E r \in Rows : CloseDecided(r)
    \/ \E r \in Rows : ClosesOtherwise(r)
    \/ \E r \in Rows : Sweep(r)
    \/ \E r \in Rows : DayPasses(r)
  BY DEF Next, TickStep, ClosePass, OpenPass, Around

-----------------------------------------------------------------------------
(* The daily cap: counting rows.                                           *)

\* The rows Spent counts.
Counted(s) == {r \in RowsOf(s) \cap recent : status[r] # "abandoned"}

LEMMA RowsFinite == IsFiniteSet(Rows)
  <1> DEFINE row == [p \in Subs \X Keys |-> [sub |-> p[1], key |-> p[2]]]
  <1>1. IsFiniteSet(Subs \X Keys)
    BY FS_Product, CopyEngineAssumption DEF CopyEngineAssumption
  <1>2. row \in [Subs \X Keys -> [sub : Subs, key : Keys]]  OBVIOUS
  <1>3. \A r \in [sub : Subs, key : Keys] : \E p \in Subs \X Keys : row[p] = r
    <2> TAKE r \in [sub : Subs, key : Keys]
    <2>1. <<r.sub, r.key>> \in Subs \X Keys  OBVIOUS
    <2>2. row[<<r.sub, r.key>>] = r  BY <2>1
    <2> QED BY <2>1, <2>2
  <1>4. row \in Surjection(Subs \X Keys, [sub : Subs, key : Keys])
    BY <1>2, <1>3 DEF Surjection
  <1> HIDE DEF row
  <1>5. IsFiniteSet([sub : Subs, key : Keys])  BY <1>1, <1>4, FS_Surjection
  <1>6. Rows \in SUBSET [sub : Subs, key : Keys]  BY DEF Rows
  <1> QED BY <1>5, <1>6, FS_Subset

LEMMA CountedFinite ==
  ASSUME NEW s, NEW S \in SUBSET RowsOf(s)
  PROVE  IsFiniteSet(S) /\ Cardinality(S) \in Nat
  <1>1. S \in SUBSET Rows  BY DEF RowsOf
  <1>2. IsFiniteSet(S)  BY <1>1, RowsFinite, FS_Subset
  <1> QED BY <1>2, FS_CardinalityType

LEMMA OneMore ==
  ASSUME NEW S, IsFiniteSet(S), NEW x, NEW T \in SUBSET (S \cup {x})
  PROVE  Cardinality(T) <= Cardinality(S) + 1
  <1>1. IsFiniteSet(S \cup {x})  BY FS_AddElement
  <1>2. Cardinality(S \cup {x}) = IF x \in S THEN Cardinality(S) ELSE Cardinality(S) + 1
    BY FS_AddElement
  <1>3. Cardinality(T) <= Cardinality(S \cup {x}) /\ IsFiniteSet(T)  BY <1>1, FS_Subset
  <1>4. Cardinality(S) \in Nat /\ Cardinality(T) \in Nat  BY <1>3, FS_CardinalityType
  <1> QED BY <1>2, <1>3, <1>4

LEMMA SpentType == ASSUME NEW s PROVE Spent(s) \in Nat /\ Spent(s)' \in Nat
  <1>1. Spent(s) = Cardinality(Counted(s))  BY DEF Spent, Counted
  <1>2. Counted(s) \in SUBSET RowsOf(s) /\ Counted(s)' \in SUBSET RowsOf(s)
    BY DEF Counted, RowsOf
  <1>3. Spent(s)' = Cardinality(Counted(s)')  BY DEF Spent, Counted, RowsOf
  <1> QED BY <1>1, <1>2, <1>3, CountedFinite

\* A step by which no row starts to count keeps within the cap.
LEMMA CapKept ==
  ASSUME CapLeft, cur \in SUBSET Rows,
         \A r \in Rows : r \in recent' /\ status'[r] # "abandoned" =>
                           r \in recent /\ status[r] # "abandoned",
         pc' = "record" => pc = "record" /\ cur' = cur
  PROVE  CapLeft'
  <1>1. ASSUME NEW s PROVE Spent(s)' <= Spent(s)
    <2>1. Counted(s) \in SUBSET RowsOf(s)  BY DEF Counted
    <2>2. Counted(s)' \in SUBSET Counted(s)  BY DEF Counted, RowsOf
    <2>3. Cardinality(Counted(s)') <= Cardinality(Counted(s))
      BY <2>1, <2>2, CountedFinite, FS_Subset
    <2> QED BY <2>3 DEF Spent, Counted
  <1>2. DailyCap \in Nat  BY CopyEngineAssumption DEF CopyEngineAssumption
  <1>3. \A s \in Subs : Spent(s)' <= DailyCap
    BY <1>1, <1>2, SpentType DEF CapLeft
  <1>4. ASSUME pc' = "record", NEW r \in cur' PROVE Spent(r.sub)' + 1 <= DailyCap
    <2>1. Spent(r.sub) + 1 <= DailyCap  BY <1>4 DEF CapLeft
    <2> QED BY <1>1, <1>2, <2>1, SpentType
  <1> QED BY <1>3, <1>4 DEF CapLeft

-----------------------------------------------------------------------------
(* Every step keeps the invariant.                                         *)

LEMMA InitInv == Init => CopyInv
  <1> SUFFICES ASSUME Init PROVE CopyInv
    OBVIOUS
  <1>1. TypeOK  BY CopyEngineAssumption
    DEF CopyEngineAssumption, Init, NoTick, TypeOK, Statuses, Fates, Rows
  <1>2. LedgerRemembers /\ OrphansKnown
    BY DEF Init, NoTick, LedgerRemembers, OrphansKnown
  <1>3. BaselinesCover /\ BookAtBootIsBaseline
    BY DEF Init, NoTick, BaselinesCover, BookAtBootIsBaseline
  <1>4. ASSUME NEW s \in Subs PROVE Spent(s) <= DailyCap
    <2>1. Spent(s) = Cardinality({})  BY DEF Init, Spent
    <2> QED BY <2>1, FS_EmptySet, CopyEngineAssumption DEF CopyEngineAssumption
  <1> QED BY <1>1, <1>2, <1>3, <1>4 DEF CopyInv, CapLeft, Init, NoTick

LEMMA LoadWatchSetInv ==
  ASSUME CopyInv, LoadWatchSet
  PROVE  CopyInv'
  <1> USE CopyEngineAssumption
          DEF CopyEngineAssumption, CopyInv, TypeOK, LoadWatchSet, OpenAutoCloseBets, Target,
              sourceVars, cacheVars, rowVars, venueVars, historyVars, passVars, tickVars, stateVars
  <1>1. TypeOK'  BY DEF Statuses, Fates, Rows
  <1>2. LedgerRemembers'  BY DEF LedgerRemembers
  <1>3. OrphansKnown'  BY DEF OrphansKnown, Excused, View, Target
  <1>4. BaselinesCover' /\ BookAtBootIsBaseline'  BY DEF BaselinesCover, BookAtBootIsBaseline
  <1>5. CapLeft'  BY CapKept
  <1> QED BY <1>1, <1>2, <1>3, <1>4, <1>5

LEMMA FetchInv ==
  ASSUME CopyInv, NEW t \in Targets, Fetch(t)
  PROVE  CopyInv'
  <1> USE CopyEngineAssumption
          DEF CopyEngineAssumption, CopyInv, TypeOK, Fetch, View, Target,
              sourceVars, cacheVars, rowVars, venueVars, historyVars, passVars, tickVars, stateVars
  <1>1. TypeOK'  BY DEF Statuses, Fates, Rows
  <1>2. LedgerRemembers'  BY DEF LedgerRemembers
  <1>3. OrphansKnown'  BY DEF Rows, OrphansKnown, Excused, View, Target
  <1>4. BaselinesCover' /\ BookAtBootIsBaseline'  BY DEF BaselinesCover, BookAtBootIsBaseline
  <1>5. CapLeft'  BY CapKept
  <1> QED BY <1>1, <1>2, <1>3, <1>4, <1>5

LEMMA FetchFailsInv ==
  ASSUME CopyInv, NEW t \in Targets, FetchFails(t)
  PROVE  CopyInv'
  <1> USE CopyEngineAssumption
          DEF CopyEngineAssumption, CopyInv, TypeOK, FetchFails,
              sourceVars, cacheVars, rowVars, venueVars, historyVars, passVars, tickVars, stateVars
  <1>1. TypeOK'  BY DEF Statuses, Fates, Rows
  <1>2. LedgerRemembers'  BY DEF LedgerRemembers
  <1>3. OrphansKnown'  BY DEF OrphansKnown, Excused, View, Target
  <1>4. BaselinesCover' /\ BookAtBootIsBaseline'  BY DEF BaselinesCover, BookAtBootIsBaseline
  <1>5. CapLeft'  BY CapKept
  <1> QED BY <1>1, <1>2, <1>3, <1>4, <1>5

LEMMA BeginClosePassInv ==
  ASSUME CopyInv, BeginClosePass
  PROVE  CopyInv'
  <1> USE CopyEngineAssumption
          DEF CopyEngineAssumption, CopyInv, TypeOK, BeginClosePass, Target,
              sourceVars, cacheVars, rowVars, venueVars, historyVars, passVars, tickVars, stateVars
  <1>1. TypeOK'  BY DEF Statuses, Fates, Rows
  <1>2. LedgerRemembers'  BY DEF LedgerRemembers
  <1>3. OrphansKnown'  BY DEF OrphansKnown, Excused, View, Target
  <1>4. BaselinesCover' /\ BookAtBootIsBaseline'  BY DEF BaselinesCover, BookAtBootIsBaseline
  <1>5. CapLeft'  BY CapKept
  <1> QED BY <1>1, <1>2, <1>3, <1>4, <1>5

LEMMA SendCloseInv ==
  ASSUME CopyInv, NEW r \in Rows, SendClose(r)
  PROVE  CopyInv'
  <1> USE CopyEngineAssumption
          DEF CopyEngineAssumption, CopyInv, TypeOK, SendClose,
              sourceVars, cacheVars, rowVars, venueVars, historyVars, passVars, tickVars, stateVars
  <1>1. TypeOK'  BY DEF Statuses, Fates, Rows
  <1>2. LedgerRemembers'  BY DEF LedgerRemembers
  <1>3. OrphansKnown'  BY DEF OrphansKnown, Excused, View, Target
  <1>4. BaselinesCover' /\ BookAtBootIsBaseline'  BY DEF BaselinesCover, BookAtBootIsBaseline
  <1>5. CapLeft'  BY CapKept
  <1> QED BY <1>1, <1>2, <1>3, <1>4, <1>5

LEMMA CloseThrowsInv ==
  ASSUME CopyInv, NEW r \in Rows, CloseThrows(r)
  PROVE  CopyInv'
  <1> USE CopyEngineAssumption
          DEF CopyEngineAssumption, CopyInv, TypeOK, CloseThrows,
              sourceVars, cacheVars, rowVars, venueVars, historyVars, passVars, tickVars, stateVars
  <1>1. TypeOK'  BY DEF Statuses, Fates, Rows
  <1>2. LedgerRemembers'  BY DEF LedgerRemembers
  <1>3. OrphansKnown'  BY DEF OrphansKnown, Excused, View, Target
  <1>4. BaselinesCover' /\ BookAtBootIsBaseline'  BY DEF BaselinesCover, BookAtBootIsBaseline
  <1>5. CapLeft'  BY CapKept
  <1> QED BY <1>1, <1>2, <1>3, <1>4, <1>5

LEMMA ConfirmCloseInv ==
  ASSUME CopyInv, NEW r \in Rows, ConfirmClose(r)
  PROVE  CopyInv'
  <1> USE CopyEngineAssumption
          DEF CopyEngineAssumption, CopyInv, TypeOK, ConfirmClose,
              sourceVars, cacheVars, rowVars, venueVars, historyVars, passVars, tickVars, stateVars
  <1>1. TypeOK'  BY DEF Statuses, Fates, Rows
  <1>2. LedgerRemembers'  BY DEF LedgerRemembers
  <1>3. OrphansKnown'  BY DEF OrphansKnown, Excused, View, Target
  <1>4. BaselinesCover' /\ BookAtBootIsBaseline'  BY DEF BaselinesCover, BookAtBootIsBaseline
  <1>5. CapLeft'  BY CapKept
  <1> QED BY <1>1, <1>2, <1>3, <1>4, <1>5

LEMMA BeginOpenPassInv ==
  ASSUME CopyInv, BeginOpenPass
  PROVE  CopyInv'
  <1> USE CopyEngineAssumption
          DEF CopyEngineAssumption, CopyInv, TypeOK, BeginOpenPass, Offered, Fresh,
              sourceVars, cacheVars, rowVars, venueVars, historyVars, passVars, tickVars, stateVars
  <1>1. TypeOK'  BY DEF Statuses, Fates, Rows
  <1>2. LedgerRemembers'  BY DEF LedgerRemembers
  <1>3. OrphansKnown'  BY DEF OrphansKnown, Excused, View, Target
  <1>4. BaselinesCover' /\ BookAtBootIsBaseline'  BY DEF BaselinesCover, BookAtBootIsBaseline
  <1>5. CapLeft'  BY CapKept
  <1> QED BY <1>1, <1>2, <1>3, <1>4, <1>5

LEMMA AcceptInv ==
  ASSUME CopyInv, NEW r \in Rows, Accept(r)
  PROVE  CopyInv'
  <1> USE CopyEngineAssumption
          DEF CopyEngineAssumption, CopyInv, TypeOK, Accept, ReadWallet, HeldIn, HasCopied,
              sourceVars, cacheVars, rowVars, venueVars, historyVars, passVars, tickVars, stateVars
  <1>1. TypeOK'  BY DEF Statuses, Fates, Rows
  <1>2. LedgerRemembers'  BY DEF LedgerRemembers
  <1>3. OrphansKnown'  BY DEF OrphansKnown, Excused, View, Target
  <1>4. BaselinesCover' /\ BookAtBootIsBaseline'  BY DEF BaselinesCover, BookAtBootIsBaseline
  <1>5. CapLeft'
    <2>1. \A s : Spent(s)' = Spent(s)  BY DEF Spent, RowsOf
    <2> QED BY <2>1 DEF CapLeft, Rows
  <1> QED BY <1>1, <1>2, <1>3, <1>4, <1>5

LEMMA SkipInv ==
  ASSUME CopyInv, NEW r \in Rows, Skip(r)
  PROVE  CopyInv'
  <1> USE CopyEngineAssumption
          DEF CopyEngineAssumption, CopyInv, TypeOK, Skip, ReadWallet, HeldIn,
              sourceVars, cacheVars, rowVars, venueVars, historyVars, passVars, tickVars, stateVars
  <1>1. TypeOK'  BY DEF Statuses, Fates, Rows
  <1>2. LedgerRemembers'  BY DEF LedgerRemembers
  <1>3. OrphansKnown'  BY DEF OrphansKnown, Excused, View, Target
  <1>4. BaselinesCover' /\ BookAtBootIsBaseline'  BY DEF BaselinesCover, BookAtBootIsBaseline
  <1>5. CapLeft'  BY CapKept
  <1> QED BY <1>1, <1>2, <1>3, <1>4, <1>5

LEMMA RecordOpenInv ==
  ASSUME CopyInv, NEW r \in Rows, RecordOpen(r)
  PROVE  CopyInv'
  <1> USE CopyEngineAssumption
          DEF CopyEngineAssumption, CopyInv, TypeOK, RecordOpen,
              sourceVars, cacheVars, rowVars, venueVars, historyVars, passVars, tickVars, stateVars
  <1>1. TypeOK'  BY DEF Statuses, Fates, Rows
  <1>2. LedgerRemembers'  BY DEF LedgerRemembers
  <1>3. OrphansKnown'
    <2>1. r.key \notin book => r \in orphaned'  OBVIOUS
    <2>2. r.key \notin View(Target(r)) /\ r.key \in book => r \in hidden'
      BY DEF View, Target
    <2>3. ASSUME r.key \notin View(Target(r)) PROVE r \in Excused'
      <3>1. Target(r) \in Targets /\ r.key \in Keys /\ SourceOf[r.key] = Target(r)
        BY DEF Target, Rows
      <3>2. r.key \in book => Target(r) \in Whales
        BY <2>3, <3>1 DEF View
      <3> QED BY <2>1, <2>2, <2>3, <3>2 DEF Excused
    <2>4. \A t : View(t)' = View(t)  BY DEF View
    <2>5. Excused \subseteq Excused'  BY DEF Excused
    <2> QED BY <2>1, <2>3, <2>4, <2>5 DEF OrphansKnown
  <1>4. BaselinesCover' /\ BookAtBootIsBaseline'  BY DEF BaselinesCover, BookAtBootIsBaseline
  <1>5. CapLeft'
    <2>1. pc' # "record"  OBVIOUS
    <2>2. ASSUME NEW s \in Subs PROVE Spent(s)' <= DailyCap
      <3>1. CASE s = r.sub
        <4>1. Counted(s) \in SUBSET RowsOf(s) /\ Counted(s)' \in SUBSET (Counted(s) \cup {r})
          BY DEF Counted, RowsOf
        <4>2. IsFiniteSet(Counted(s))  BY <4>1, CountedFinite
        <4>3. Cardinality(Counted(s)') <= Cardinality(Counted(s)) + 1
          BY <4>1, <4>2, OneMore
        <4>4. Spent(s)' <= Spent(s) + 1  BY <4>3 DEF Spent, Counted
        <4>5. Spent(s) + 1 <= DailyCap  BY <3>1 DEF CapLeft
        <4> QED BY <4>4, <4>5, SpentType
      <3>2. CASE s # r.sub
        <4>1. Counted(s)' = Counted(s)  BY <3>2 DEF Counted, RowsOf
        <4>2. Spent(s)' = Spent(s)  BY <4>1 DEF Spent, Counted
        <4> QED BY <4>2 DEF CapLeft
      <3> QED BY <3>1, <3>2
    <2> QED BY <2>1, <2>2 DEF CapLeft
  <1> QED BY <1>1, <1>2, <1>3, <1>4, <1>5

LEMMA SendOpenInv ==
  ASSUME CopyInv, NEW r \in Rows, SendOpen(r)
  PROVE  CopyInv'
  <1> USE CopyEngineAssumption
          DEF CopyEngineAssumption, CopyInv, TypeOK, SendOpen,
              sourceVars, cacheVars, rowVars, venueVars, historyVars, passVars, tickVars, stateVars
  <1>1. TypeOK'  BY DEF Statuses, Fates, Rows
  <1>2. LedgerRemembers'  BY DEF LedgerRemembers
  <1>3. OrphansKnown'  BY DEF OrphansKnown, Excused, View, Target
  <1>4. BaselinesCover' /\ BookAtBootIsBaseline'  BY DEF BaselinesCover, BookAtBootIsBaseline
  <1>5. CapLeft'  BY CapKept
  <1> QED BY <1>1, <1>2, <1>3, <1>4, <1>5

LEMMA OpenThrowsInv ==
  ASSUME CopyInv, NEW r \in Rows, OpenThrows(r)
  PROVE  CopyInv'
  <1> USE CopyEngineAssumption
          DEF CopyEngineAssumption, CopyInv, TypeOK, OpenThrows,
              sourceVars, cacheVars, rowVars, venueVars, historyVars, passVars, tickVars, stateVars
  <1>1. TypeOK'  BY DEF Statuses, Fates, Rows
  <1>2. LedgerRemembers'  BY DEF LedgerRemembers
  <1>3. OrphansKnown'  BY DEF OrphansKnown, Excused, View, Target
  <1>4. BaselinesCover' /\ BookAtBootIsBaseline'  BY DEF BaselinesCover, BookAtBootIsBaseline
  <1>5. CapLeft'  BY CapKept
  <1> QED BY <1>1, <1>2, <1>3, <1>4, <1>5

LEMMA ConfirmOpenInv ==
  ASSUME CopyInv, NEW r \in Rows, ConfirmOpen(r)
  PROVE  CopyInv'
  <1> USE CopyEngineAssumption
          DEF CopyEngineAssumption, CopyInv, TypeOK, ConfirmOpen,
              sourceVars, cacheVars, rowVars, venueVars, historyVars, passVars, tickVars, stateVars
  <1>1. TypeOK'  BY DEF Statuses, Fates, Rows
  <1>2. LedgerRemembers'  BY DEF LedgerRemembers
  <1>3. OrphansKnown'  BY DEF OrphansKnown, Excused, View, Target
  <1>4. BaselinesCover' /\ BookAtBootIsBaseline'  BY DEF BaselinesCover, BookAtBootIsBaseline
  <1>5. CapLeft'  BY CapKept
  <1> QED BY <1>1, <1>2, <1>3, <1>4, <1>5

LEMMA AdvanceBaselinesInv ==
  ASSUME CopyInv, AdvanceBaselines
  PROVE  CopyInv'
  <1> USE CopyEngineAssumption
          DEF CopyEngineAssumption, CopyInv, TypeOK, AdvanceBaselines, EndOfTick,
              sourceVars, cacheVars, rowVars, venueVars, historyVars, passVars, tickVars, stateVars
  <1>1. TypeOK'  BY DEF Statuses, Fates, Rows
  <1>2. LedgerRemembers'  BY DEF LedgerRemembers
  <1>3. OrphansKnown'  BY DEF OrphansKnown, Excused, View, Target
  <1>4. BaselinesCover' /\ BookAtBootIsBaseline'  BY DEF BaselinesCover, BookAtBootIsBaseline
  <1>5. CapLeft'  BY CapKept
  <1> QED BY <1>1, <1>2, <1>3, <1>4, <1>5

LEMMA NewEngineInv ==
  ASSUME CopyInv, NewEngine
  PROVE  CopyInv'
  <1> USE CopyEngineAssumption
          DEF CopyEngineAssumption, CopyInv, TypeOK, NewEngine, EndOfTick,
              sourceVars, cacheVars, rowVars, venueVars, historyVars, passVars, tickVars, stateVars
  <1>1. TypeOK'  BY DEF Statuses, Fates, Rows
  <1>2. LedgerRemembers'  BY DEF LedgerRemembers
  <1>3. OrphansKnown'  BY DEF OrphansKnown, Excused, View, Target
  <1>4. BaselinesCover' /\ BookAtBootIsBaseline'  BY DEF BaselinesCover, BookAtBootIsBaseline
  <1>5. CapLeft'  BY CapKept
  <1> QED BY <1>1, <1>2, <1>3, <1>4, <1>5

LEMMA SourceOpensInv ==
  ASSUME CopyInv, NEW k \in Keys, SourceOpens(k)
  PROVE  CopyInv'
  <1> USE CopyEngineAssumption
          DEF CopyEngineAssumption, CopyInv, TypeOK, SourceOpens,
              sourceVars, cacheVars, rowVars, venueVars, historyVars, passVars, tickVars, stateVars
  <1>1. TypeOK'  BY DEF Statuses, Fates, Rows
  <1>2. LedgerRemembers'  BY DEF LedgerRemembers
  <1>3. OrphansKnown'  BY DEF OrphansKnown, Excused, View, Target
  <1>4. BaselinesCover' /\ BookAtBootIsBaseline'  BY DEF BaselinesCover, BookAtBootIsBaseline
  <1>5. CapLeft'  BY CapKept
  <1> QED BY <1>1, <1>2, <1>3, <1>4, <1>5

LEMMA SourceClosesInv ==
  ASSUME CopyInv, NEW k \in Keys, SourceCloses(k)
  PROVE  CopyInv'
  <1> USE CopyEngineAssumption
          DEF CopyEngineAssumption, CopyInv, TypeOK, SourceCloses,
              sourceVars, cacheVars, rowVars, venueVars, historyVars, passVars, tickVars, stateVars
  <1>1. TypeOK'  BY DEF Statuses, Fates, Rows
  <1>2. LedgerRemembers'  BY DEF LedgerRemembers
  <1>3. OrphansKnown'  BY DEF OrphansKnown, Excused, View, Target
  <1>4. BaselinesCover' /\ BookAtBootIsBaseline'  BY DEF BaselinesCover, BookAtBootIsBaseline
  <1>5. CapLeft'  BY CapKept
  <1> QED BY <1>1, <1>2, <1>3, <1>4, <1>5

LEMMA SourceAgesInv ==
  ASSUME CopyInv, NEW k \in Keys, SourceAges(k)
  PROVE  CopyInv'
  <1> USE CopyEngineAssumption
          DEF CopyEngineAssumption, CopyInv, TypeOK, SourceAges,
              sourceVars, cacheVars, rowVars, venueVars, historyVars, passVars, tickVars, stateVars
  <1>1. TypeOK'  BY DEF Statuses, Fates, Rows
  <1>2. LedgerRemembers'  BY DEF LedgerRemembers
  <1>3. OrphansKnown'  BY DEF OrphansKnown, Excused, View, Target
  <1>4. BaselinesCover' /\ BookAtBootIsBaseline'  BY DEF BaselinesCover, BookAtBootIsBaseline
  <1>5. CapLeft'  BY CapKept
  <1> QED BY <1>1, <1>2, <1>3, <1>4, <1>5

LEMMA RefreshReadsInv ==
  ASSUME CopyInv, NEW i \in Refreshers, NEW t \in Whales, RefreshReads(i, t)
  PROVE  CopyInv'
  <1> USE CopyEngineAssumption
          DEF CopyEngineAssumption, CopyInv, TypeOK, RefreshReads,
              sourceVars, cacheVars, rowVars, venueVars, historyVars, passVars, tickVars, stateVars
  <1>1. TypeOK'  BY DEF Statuses, Fates, Rows
  <1>2. LedgerRemembers'  BY DEF LedgerRemembers
  <1>3. OrphansKnown'  BY DEF OrphansKnown, Excused, View, Target
  <1>4. BaselinesCover' /\ BookAtBootIsBaseline'  BY DEF BaselinesCover, BookAtBootIsBaseline
  <1>5. CapLeft'  BY CapKept
  <1> QED BY <1>1, <1>2, <1>3, <1>4, <1>5

LEMMA RefreshMergesInv ==
  ASSUME CopyInv, NEW i \in Refreshers, RefreshMerges(i)
  PROVE  CopyInv'
  <1> USE CopyEngineAssumption
          DEF CopyEngineAssumption, CopyInv, TypeOK, RefreshMerges,
              sourceVars, cacheVars, rowVars, venueVars, historyVars, passVars, tickVars, stateVars
  <1>1. TypeOK'  BY DEF Statuses, Fates, Rows
  <1>2. LedgerRemembers'  BY DEF LedgerRemembers
  <1>3. OrphansKnown'  BY DEF OrphansKnown, Excused, View, Target
  <1>4. BaselinesCover' /\ BookAtBootIsBaseline'  BY DEF BaselinesCover, BookAtBootIsBaseline
  <1>5. CapLeft'  BY CapKept
  <1> QED BY <1>1, <1>2, <1>3, <1>4, <1>5

LEMMA RefreshWritesInv ==
  ASSUME CopyInv, NEW i \in Refreshers, RefreshWrites(i)
  PROVE  CopyInv'
  <1> USE CopyEngineAssumption
          DEF CopyEngineAssumption, CopyInv, TypeOK, RefreshWrites,
              sourceVars, cacheVars, rowVars, venueVars, historyVars, passVars, tickVars, stateVars
  <1>1. TypeOK'  BY DEF Statuses, Fates, Rows
  <1>2. LedgerRemembers'  BY DEF LedgerRemembers
  <1>3. OrphansKnown'  BY DEF OrphansKnown, Excused, View, Target
  <1>4. BaselinesCover' /\ BookAtBootIsBaseline'  BY DEF BaselinesCover, BookAtBootIsBaseline
  <1>5. CapLeft'  BY CapKept
  <1> QED BY <1>1, <1>2, <1>3, <1>4, <1>5

LEMMA PauseOrResumeInv ==
  ASSUME CopyInv, NEW s \in Subs, PauseOrResume(s)
  PROVE  CopyInv'
  <1> USE CopyEngineAssumption
          DEF CopyEngineAssumption, CopyInv, TypeOK, PauseOrResume,
              sourceVars, cacheVars, rowVars, venueVars, historyVars, passVars, tickVars, stateVars
  <1>1. TypeOK'  BY DEF Statuses, Fates, Rows
  <1>2. LedgerRemembers'  BY DEF LedgerRemembers
  <1>3. OrphansKnown'  BY DEF OrphansKnown, Excused, View, Target
  <1>4. BaselinesCover' /\ BookAtBootIsBaseline'  BY DEF BaselinesCover, BookAtBootIsBaseline
  <1>5. CapLeft'  BY CapKept
  <1> QED BY <1>1, <1>2, <1>3, <1>4, <1>5

LEMMA OpenDecidedInv ==
  ASSUME CopyInv, NEW r \in Rows, OpenDecided(r)
  PROVE  CopyInv'
  <1> USE CopyEngineAssumption
          DEF CopyEngineAssumption, CopyInv, TypeOK, OpenDecided,
              sourceVars, cacheVars, rowVars, venueVars, historyVars, passVars, tickVars, stateVars
  <1>1. TypeOK'  BY DEF Statuses, Fates, Rows
  <1>2. LedgerRemembers'  BY DEF LedgerRemembers
  <1>3. OrphansKnown'  BY DEF OrphansKnown, Excused, View, Target
  <1>4. BaselinesCover' /\ BookAtBootIsBaseline'  BY DEF BaselinesCover, BookAtBootIsBaseline
  <1>5. CapLeft'  BY CapKept
  <1> QED BY <1>1, <1>2, <1>3, <1>4, <1>5

LEMMA CloseDecidedInv ==
  ASSUME CopyInv, NEW r \in Rows, CloseDecided(r)
  PROVE  CopyInv'
  <1> USE CopyEngineAssumption
          DEF CopyEngineAssumption, CopyInv, TypeOK, CloseDecided, Merged,
              sourceVars, cacheVars, rowVars, venueVars, historyVars, passVars, tickVars, stateVars
  <1>1. TypeOK'
    <2>1. held' \subseteq Rows  OBVIOUS
    <2>2. closeTx' \in [Rows -> Fates]  BY DEF Fates
    <2> QED BY <2>1, <2>2 DEF Statuses, Rows
  <1>2. LedgerRemembers'  BY DEF LedgerRemembers
  <1>3. OrphansKnown'  BY DEF OrphansKnown, Excused, View, Target
  <1>4. BaselinesCover' /\ BookAtBootIsBaseline'  BY DEF BaselinesCover, BookAtBootIsBaseline
  <1>5. CapLeft'  BY CapKept
  <1> QED BY <1>1, <1>2, <1>3, <1>4, <1>5

LEMMA ClosesOtherwiseInv ==
  ASSUME CopyInv, NEW r \in Rows, ClosesOtherwise(r)
  PROVE  CopyInv'
  <1> USE CopyEngineAssumption
          DEF CopyEngineAssumption, CopyInv, TypeOK, ClosesOtherwise, Merged,
              sourceVars, cacheVars, rowVars, venueVars, historyVars, passVars, tickVars, stateVars
  <1>1. TypeOK'  BY DEF Statuses, Fates, Rows
  <1>2. LedgerRemembers'  BY DEF LedgerRemembers
  <1>3. OrphansKnown'  BY DEF OrphansKnown, Excused, View, Target
  <1>4. BaselinesCover' /\ BookAtBootIsBaseline'  BY DEF BaselinesCover, BookAtBootIsBaseline
  <1>5. CapLeft'  BY CapKept
  <1> QED BY <1>1, <1>2, <1>3, <1>4, <1>5

LEMMA SweepInv ==
  ASSUME CopyInv, NEW r \in Rows, Sweep(r)
  PROVE  CopyInv'
  <1> USE CopyEngineAssumption
          DEF CopyEngineAssumption, CopyInv, TypeOK, Sweep,
              sourceVars, cacheVars, rowVars, venueVars, historyVars, passVars, tickVars, stateVars
  <1>1. TypeOK'  BY DEF Statuses, Fates, Rows
  <1>2. LedgerRemembers'  BY DEF LedgerRemembers
  <1>3. OrphansKnown'  BY DEF OrphansKnown, Excused, View, Target
  <1>4. BaselinesCover' /\ BookAtBootIsBaseline'  BY DEF BaselinesCover, BookAtBootIsBaseline
  <1>5. CapLeft'  BY CapKept
  <1> QED BY <1>1, <1>2, <1>3, <1>4, <1>5

LEMMA DayPassesInv ==
  ASSUME CopyInv, NEW r \in Rows, DayPasses(r)
  PROVE  CopyInv'
  <1> USE CopyEngineAssumption
          DEF CopyEngineAssumption, CopyInv, TypeOK, DayPasses,
              sourceVars, cacheVars, rowVars, venueVars, historyVars, passVars, tickVars, stateVars
  <1>1. TypeOK'  BY DEF Statuses, Fates, Rows
  <1>2. LedgerRemembers'  BY DEF LedgerRemembers
  <1>3. OrphansKnown'  BY DEF OrphansKnown, Excused, View, Target
  <1>4. BaselinesCover' /\ BookAtBootIsBaseline'  BY DEF BaselinesCover, BookAtBootIsBaseline
  <1>5. CapLeft'  BY CapKept
  <1> QED BY <1>1, <1>2, <1>3, <1>4, <1>5

LEMMA StepInv == CopyInv /\ [Next]_vars => CopyInv'
  <1>1. ASSUME CopyInv, UNCHANGED vars PROVE CopyInv'
    <2> USE <1>1 DEF CopyInv, vars, sourceVars, cacheVars, rowVars, venueVars, historyVars, passVars,
                     tickVars, stateVars
    <2>1. TypeOK'  BY DEF TypeOK
    <2>2. LedgerRemembers'  BY DEF LedgerRemembers
    <2>3. OrphansKnown'  BY DEF OrphansKnown, Excused, View, Target
    <2>4. BaselinesCover' /\ BookAtBootIsBaseline'  BY DEF BaselinesCover, BookAtBootIsBaseline
    <2>5. CapLeft'  BY CapKept DEF TypeOK
    <2> QED BY <2>1, <2>2, <2>3, <2>4, <2>5
  <1> QED BY <1>1, NextCases,
         LoadWatchSetInv, FetchInv, FetchFailsInv, BeginClosePassInv, SendCloseInv,
         CloseThrowsInv, ConfirmCloseInv, BeginOpenPassInv, AcceptInv, SkipInv,
         RecordOpenInv, SendOpenInv, OpenThrowsInv, ConfirmOpenInv, AdvanceBaselinesInv,
         NewEngineInv, SourceOpensInv, SourceClosesInv, SourceAgesInv, RefreshReadsInv,
         RefreshMergesInv, RefreshWritesInv, PauseOrResumeInv,
         OpenDecidedInv, CloseDecidedInv, ClosesOtherwiseInv, SweepInv, DayPassesInv

\* The inductive invariant of the engine: what the ledger, the orphans, the
\* baselines and the cap have to do with each other (lib/copy/engine.ts).
THEOREM InductiveInvariant == Spec => []CopyInv
  BY InitInv, StepInv, PTL DEF Spec

\* Every behaviour of the engine and its surroundings is type correct.
THEOREM TypeCorrect == Spec => []TypeOK
  BY InductiveInvariant, PTL DEF CopyInv

\* One bet per subscription and source position, ever: hasCopiedSourcePosition
\* remembers what the attempted set of a dead engine forgot.
THEOREM CopiedOnce == Spec => []OneAttempt
  <1>1. CopyInv => OneAttempt
    BY DEF CopyInv, LedgerRemembers, OneAttempt
  <1> QED BY <1>1, InductiveInvariant, PTL

\* The engine sends a close only for a copy whose source position was gone, or
\* that a refresh took off the live cache of its whale.
THEOREM ClosesOrphansOnly == Spec => OnlyOrphansAreClosed
  <1>1. CopyInv /\ [Next]_vars =>
          [\A r \in Rows : SendClose(r) =>
               r \in orphaned \/ (Target(r) \in Whales /\ r \in hidden)]_vars
    BY DEF CopyInv, OrphansKnown, Excused, SendClose
  <1> QED BY <1>1, InductiveInvariant, PTL DEF Spec, OnlyOrphansAreClosed

\* What was open when the engine started is never copied without a timestamp.
THEOREM BootBookNotCopied == Spec => []BookAtBootIsBaseline
  BY InductiveInvariant, PTL DEF CopyInv

\* The guard's sum does not see the lost confirms, and sees all other stakes.
LEMMA AtStakeCovered ==
  ASSUME TypeOK, CapLeft, NEW s \in Subs
  PROVE  Cardinality(AtStake(s)) <= DailyCap + Cardinality(LostConfirms(s))
  <1>1. AtStake(s) \in SUBSET RowsOf(s) /\ LostConfirms(s) \in SUBSET RowsOf(s)
        /\ Counted(s) \in SUBSET RowsOf(s)
    BY DEF AtStake, LostConfirms, Counted
  <1>2. IsFiniteSet(Counted(s)) /\ IsFiniteSet(LostConfirms(s)) /\ IsFiniteSet(AtStake(s))
    BY <1>1, CountedFinite
  <1>3. AtStake(s) \subseteq Counted(s) \cup LostConfirms(s)
    BY DEF AtStake, LostConfirms, Counted
  <1>4. IsFiniteSet(Counted(s) \cup LostConfirms(s))
        /\ Cardinality(Counted(s) \cup LostConfirms(s))
             = Cardinality(Counted(s)) + Cardinality(LostConfirms(s))
                 - Cardinality(Counted(s) \cap LostConfirms(s))
    BY <1>2, FS_Union
  <1>5. Cardinality(AtStake(s)) <= Cardinality(Counted(s) \cup LostConfirms(s))
    BY <1>3, <1>4, FS_Subset
  <1>6. IsFiniteSet(Counted(s) \cap LostConfirms(s))  BY <1>2, FS_Intersection
  <1>7. Cardinality(Counted(s)) <= DailyCap
    BY DEF CapLeft, Spent, Counted
  <1>8. /\ Cardinality(AtStake(s)) \in Nat /\ Cardinality(Counted(s)) \in Nat
        /\ Cardinality(LostConfirms(s)) \in Nat
        /\ Cardinality(Counted(s) \cap LostConfirms(s)) \in Nat
        /\ DailyCap \in Nat
    BY <1>2, <1>6, FS_CardinalityType, CopyEngineAssumption DEF CopyEngineAssumption
  <1> HIDE DEF CapLeft
  <1> QED BY <1>4, <1>5, <1>7, <1>8

\* The stakes that a subscription has at stake in a rolling day stay within its
\* cap, up to the bets whose confirm was lost.
THEOREM CapKeeps == Spec => []WithinDailyCap
  <1>1. CopyInv => WithinDailyCap
    BY AtStakeCovered DEF CopyInv, WithinDailyCap
  <1> QED BY <1>1, InductiveInvariant, PTL
=============================================================================
