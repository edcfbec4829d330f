-------------------------- MODULE FlashTail_proofs --------------------------
(***************************************************************************)
(* Proofs about FlashTail, for any number of bets, closes, slots, wallets  *)
(* and any batch size.                                                     *)
(***************************************************************************)
EXTENDS FlashTail, TLAPS

LEMMA InitInv == Init => LedgerInv
  BY FlashTailAssumption
  DEF FlashTailAssumption, Init, LedgerInv, TypeOK, OpenersInOrder, ClosersInOrder, OpensDecided,
      VerifiedMeansLanded, SweepMemory, ChainProceedsAreReal, Bets, Closes,
      Statuses, Fates, Sources, Transactions

\* Next, spelled out for the proofs by cases.
LEMMA NextCases ==
  ASSUME Next
  PROVE
    \/ \E b \in Bets : Record(b)
    \/ \E b \in Bets : SendOpen(b)
    \/ \E b \in Bets : ConfirmOpen(b)
    \/ \E b \in Bets : InsertOpenFill(b)
    \/ \E b \in Bets, i \in Closes : SendClose(b, i)
    \/ \E b \in Bets, i \in Closes : LoadForClose(b, i)
    \/ \E b \in Bets, i \in Closes : ConfirmClose(b, i)
    \/ \E b \in Bets, i \in Closes : InsertCloseFill(b, i)
    \/ \E b \in Bets : OpenResolves(b)
    \/ \E b \in Bets : DiesOutside(b)
    \/ \E b \in Bets : Grow(b)
    \/ \E b \in Bets, i \in Closes : CloseResolves(b, i)
    \/ SweepBegin
    \/ \E row \in Transactions : VerifyOpenFailed(row)
    \/ \E row \in Transactions : VerifyOpenLanded(row)
    \/ \E row \in Transactions : VerifyCloseFailed(row)
    \/ \E row \in Transactions : VerifyCloseLanded(row)
    \/ \E row \in Transactions : VerifyCloseOpaque(row)
    \/ \E row \in Transactions : VerifyLater(row)
    \/ ListCandidates
    \/ \E w \in Wallets : ReadWallet(w)
    \/ \E w \in Wallets : WalletUnreadable(w)
    \/ \E b \in Bets : MarkClosedExternal(b)
    \/ SweepEnds
  BY DEF Next, OpenStep, CloseStep, VenueStep, SweepStep, VerifyRow

LEMMA RecordInv ==
  ASSUME LedgerInv, NEW b \in Bets, Record(b)
  PROVE  LedgerInv'
  <1> USE FlashTailAssumption
          DEF FlashTailAssumption, LedgerInv, TypeOK, Record,
              rowVars, clientVars, venueVars, sweepVars
  <1>1. TypeOK'  BY DEF Statuses
  <1>2. OpenersInOrder'  BY DEF OpenersInOrder
  <1>3. ClosersInOrder'  BY DEF ClosersInOrder
  <1>4. OpensDecided'  BY DEF OpensDecided
  <1>5. VerifiedMeansLanded'  BY DEF VerifiedMeansLanded
  <1>6. SweepMemory'  BY DEF SweepMemory
  <1>7. ChainProceedsAreReal'  BY DEF ChainProceedsAreReal
  <1> QED BY <1>1, <1>2, <1>3, <1>4, <1>5, <1>6, <1>7

LEMMA SendOpenInv ==
  ASSUME LedgerInv, NEW b \in Bets, SendOpen(b)
  PROVE  LedgerInv'
  <1> USE FlashTailAssumption
          DEF FlashTailAssumption, LedgerInv, TypeOK, SendOpen,
              rowVars, clientVars, venueVars, sweepVars
  <1>1. TypeOK'  BY DEF Fates
  <1>2. OpenersInOrder'  BY DEF OpenersInOrder
  <1>3. ClosersInOrder'  BY DEF ClosersInOrder
  <1>4. OpensDecided'  BY DEF OpensDecided, OpenersInOrder
  <1>5. VerifiedMeansLanded'  BY DEF VerifiedMeansLanded, OpenersInOrder
  <1>6. SweepMemory'  BY DEF SweepMemory, OpenersInOrder
  <1>7. ChainProceedsAreReal'  BY DEF ChainProceedsAreReal
  <1> QED BY <1>1, <1>2, <1>3, <1>4, <1>5, <1>6, <1>7

LEMMA ConfirmOpenInv ==
  ASSUME LedgerInv, NEW b \in Bets, ConfirmOpen(b)
  PROVE  LedgerInv'
  <1> USE FlashTailAssumption
          DEF FlashTailAssumption, LedgerInv, TypeOK, ConfirmOpen,
              rowVars, clientVars, venueVars, sweepVars
  <1>1. TypeOK'  BY DEF Statuses
  <1>2. OpenersInOrder'  BY DEF OpenersInOrder
  <1>3. ClosersInOrder'  BY DEF ClosersInOrder
  <1>4. OpensDecided'  BY DEF OpensDecided
  <1>5. VerifiedMeansLanded'  BY DEF VerifiedMeansLanded
  <1>6. SweepMemory'  BY DEF SweepMemory
  <1>7. ChainProceedsAreReal'  BY DEF ChainProceedsAreReal
  <1> QED BY <1>1, <1>2, <1>3, <1>4, <1>5, <1>6, <1>7

LEMMA InsertOpenFillInv ==
  ASSUME LedgerInv, NEW b \in Bets, InsertOpenFill(b)
  PROVE  LedgerInv'
  <1> USE FlashTailAssumption
          DEF FlashTailAssumption, LedgerInv, TypeOK, InsertOpenFill, Open,
              rowVars, clientVars, venueVars, sweepVars
  <1>1. TypeOK'  BY DEF Transactions
  <1>2. OpenersInOrder'  BY DEF OpenersInOrder
  <1>3. ClosersInOrder'  BY DEF ClosersInOrder
  <1>4. OpensDecided'  BY DEF OpensDecided
  <1>5. VerifiedMeansLanded'  BY DEF VerifiedMeansLanded
  <1>6. SweepMemory'  BY DEF SweepMemory
  <1>7. ChainProceedsAreReal'  BY DEF ChainProceedsAreReal
  <1> QED BY <1>1, <1>2, <1>3, <1>4, <1>5, <1>6, <1>7

LEMMA SendCloseInv ==
  ASSUME LedgerInv, NEW b \in Bets, NEW i \in Closes, SendClose(b, i)
  PROVE  LedgerInv'
  <1> USE FlashTailAssumption
          DEF FlashTailAssumption, LedgerInv, TypeOK, SendClose, SlotLive,
              rowVars, clientVars, venueVars, sweepVars
  <1>1. TypeOK'  BY DEF Fates
  <1>2. OpenersInOrder'  BY DEF OpenersInOrder
  <1>3. ClosersInOrder'  BY DEF ClosersInOrder
  <1>4. OpensDecided'  BY DEF OpensDecided
  <1>5. VerifiedMeansLanded'  BY DEF VerifiedMeansLanded
  <1>6. SweepMemory'  BY DEF SweepMemory
  <1>7. ChainProceedsAreReal'  BY DEF ChainProceedsAreReal, ClosersInOrder, Closes
  <1> QED BY <1>1, <1>2, <1>3, <1>4, <1>5, <1>6, <1>7

LEMMA LoadForCloseInv ==
  ASSUME LedgerInv, NEW b \in Bets, NEW i \in Closes, LoadForClose(b, i)
  PROVE  LedgerInv'
  <1> USE FlashTailAssumption
          DEF FlashTailAssumption, LedgerInv, TypeOK, LoadForClose,
              rowVars, clientVars, venueVars, sweepVars
  <1>1. TypeOK'  OBVIOUS
  <1>2. OpenersInOrder'  BY DEF OpenersInOrder
  <1>3. ClosersInOrder'  BY DEF ClosersInOrder
  <1>4. OpensDecided'  BY DEF OpensDecided
  <1>5. VerifiedMeansLanded'  BY DEF VerifiedMeansLanded
  <1>6. SweepMemory'  BY DEF SweepMemory
  <1>7. ChainProceedsAreReal'  BY DEF ChainProceedsAreReal
  <1> QED BY <1>1, <1>2, <1>3, <1>4, <1>5, <1>6, <1>7

LEMMA ConfirmCloseInv ==
  ASSUME LedgerInv, NEW b \in Bets, NEW i \in Closes, ConfirmClose(b, i)
  PROVE  LedgerInv'
  <1> USE FlashTailAssumption
          DEF FlashTailAssumption, LedgerInv, TypeOK, ConfirmClose,
              rowVars, clientVars, venueVars, sweepVars
  <1>1. TypeOK'  BY DEF Statuses, Sources, Closes
  <1>2. OpenersInOrder'  BY DEF OpenersInOrder
  <1>3. ClosersInOrder'  BY DEF ClosersInOrder
  <1>4. OpensDecided'  BY DEF OpensDecided
  <1>5. VerifiedMeansLanded'  BY DEF VerifiedMeansLanded
  <1>6. SweepMemory'  BY DEF SweepMemory
  <1>7. ChainProceedsAreReal'  BY DEF ChainProceedsAreReal
  <1> QED BY <1>1, <1>2, <1>3, <1>4, <1>5, <1>6, <1>7

LEMMA InsertCloseFillInv ==
  ASSUME LedgerInv, NEW b \in Bets, NEW i \in Closes, InsertCloseFill(b, i)
  PROVE  LedgerInv'
  <1> USE FlashTailAssumption
          DEF FlashTailAssumption, LedgerInv, TypeOK, InsertCloseFill, Close,
              rowVars, clientVars, venueVars, sweepVars
  <1>1. TypeOK'  BY DEF Transactions, Closes
  <1>2. OpenersInOrder'  BY DEF OpenersInOrder
  <1>3. ClosersInOrder'  BY DEF ClosersInOrder
  <1>4. OpensDecided'  BY DEF OpensDecided
  <1>5. VerifiedMeansLanded'  BY DEF VerifiedMeansLanded
  <1>6. SweepMemory'  BY DEF SweepMemory
  <1>7. ChainProceedsAreReal'  BY DEF ChainProceedsAreReal
  <1> QED BY <1>1, <1>2, <1>3, <1>4, <1>5, <1>6, <1>7

LEMMA OpenResolvesInv ==
  ASSUME LedgerInv, NEW b \in Bets, OpenResolves(b)
  PROVE  LedgerInv'
  <1> USE FlashTailAssumption
          DEF FlashTailAssumption, LedgerInv, TypeOK, OpenResolves,
              rowVars, clientVars, venueVars, sweepVars
  <1>1. TypeOK'  BY DEF Fates
  <1>2. OpenersInOrder'  BY DEF OpenersInOrder
  <1>3. ClosersInOrder'  BY DEF ClosersInOrder
  <1>4. OpensDecided'  BY DEF OpensDecided
  <1>5. VerifiedMeansLanded'  BY DEF VerifiedMeansLanded
  <1>6. SweepMemory'  BY DEF SweepMemory
  <1>7. ChainProceedsAreReal'  BY DEF ChainProceedsAreReal
  <1> QED BY <1>1, <1>2, <1>3, <1>4, <1>5, <1>6, <1>7

LEMMA DiesOutsideInv ==
  ASSUME LedgerInv, NEW b \in Bets, DiesOutside(b)
  PROVE  LedgerInv'
  <1> USE FlashTailAssumption
          DEF FlashTailAssumption, LedgerInv, TypeOK, DiesOutside, Merged,
              rowVars, clientVars, venueVars, sweepVars
  <1>1. TypeOK'  OBVIOUS
  <1>2. OpenersInOrder'  BY DEF OpenersInOrder
  <1>3. ClosersInOrder'  BY DEF ClosersInOrder
  <1>4. OpensDecided'  BY DEF OpensDecided
  <1>5. VerifiedMeansLanded'  BY DEF VerifiedMeansLanded
  <1>6. SweepMemory'  BY DEF SweepMemory
  <1>7. ChainProceedsAreReal'  BY DEF ChainProceedsAreReal
  <1> QED BY <1>1, <1>2, <1>3, <1>4, <1>5, <1>6, <1>7

LEMMA GrowInv ==
  ASSUME LedgerInv, NEW b \in Bets, Grow(b)
  PROVE  LedgerInv'
  <1> USE FlashTailAssumption
          DEF FlashTailAssumption, LedgerInv, TypeOK, Grow,
              rowVars, clientVars, venueVars, sweepVars
  <1>1. TypeOK'
    <2>1. \A n \in 0..3 : n < 3 => n + 1 \in 0..3  OBVIOUS
    <2>2. age' \in [Bets -> 0..3]  BY <2>1
    <2> QED BY <2>2
  <1>2. OpenersInOrder'  BY DEF OpenersInOrder
  <1>3. ClosersInOrder'  BY DEF ClosersInOrder
  <1>4. OpensDecided'  BY DEF OpensDecided
  <1>5. VerifiedMeansLanded'  BY DEF VerifiedMeansLanded
  <1>6. SweepMemory'  BY DEF SweepMemory
  <1>7. ChainProceedsAreReal'  BY DEF ChainProceedsAreReal
  <1> QED BY <1>1, <1>2, <1>3, <1>4, <1>5, <1>6, <1>7

LEMMA CloseResolvesInv ==
  ASSUME LedgerInv, NEW b \in Bets, NEW i \in Closes, CloseResolves(b, i)
  PROVE  LedgerInv'
  <1> USE FlashTailAssumption
          DEF FlashTailAssumption, LedgerInv, TypeOK, CloseResolves, Merged, SlotLive,
              rowVars, clientVars, venueVars, sweepVars
  <1>0. PICK fate \in Fates :
            /\ closeTx' = [closeTx EXCEPT ![b][i] = fate]
            /\ closeTx[b][i] = "flight" /\ fate # "none"
    BY DEF Fates
  <1>1. TypeOK'  BY <1>0
  <1>2. OpenersInOrder'  BY DEF OpenersInOrder
  <1>3. ClosersInOrder'  BY <1>0 DEF ClosersInOrder
  <1>4. OpensDecided'  BY DEF OpensDecided
  <1>5. VerifiedMeansLanded'  BY DEF VerifiedMeansLanded
  <1>6. SweepMemory'  BY DEF SweepMemory
  <1>7. ChainProceedsAreReal'  BY <1>0 DEF ChainProceedsAreReal, Closes
  <1> QED BY <1>1, <1>2, <1>3, <1>4, <1>5, <1>6, <1>7

LEMMA SweepBeginInv ==
  ASSUME LedgerInv, SweepBegin
  PROVE  LedgerInv'
  <1> USE FlashTailAssumption
          DEF FlashTailAssumption, LedgerInv, TypeOK, SweepBegin, StalePending, Unverified, NewestOf, Open, Close,
              rowVars, clientVars, venueVars, sweepVars
  <1>1. TypeOK'  BY DEF Statuses, Transactions
  <1>2. OpenersInOrder'  BY DEF OpenersInOrder
  <1>3. ClosersInOrder'  BY DEF ClosersInOrder
  <1>4. OpensDecided'  BY DEF OpensDecided
  <1>5. VerifiedMeansLanded'  BY DEF VerifiedMeansLanded
  <1>6. SweepMemory'  BY DEF SweepMemory
  <1>7. ChainProceedsAreReal'  BY DEF ChainProceedsAreReal
  <1> QED BY <1>1, <1>2, <1>3, <1>4, <1>5, <1>6, <1>7

LEMMA VerifyOpenFailedInv ==
  ASSUME LedgerInv, NEW row \in Transactions, VerifyOpenFailed(row)
  PROVE  LedgerInv'
  <1> USE FlashTailAssumption
          DEF FlashTailAssumption, LedgerInv, TypeOK, VerifyOpenFailed, NextRow, CasRow, OpenRefuted,
              rowVars, clientVars, venueVars, sweepVars
  <1>1. TypeOK'  BY DEF Statuses, Transactions
  <1>2. OpenersInOrder'  BY DEF OpenersInOrder
  <1>3. ClosersInOrder'  BY DEF ClosersInOrder
  <1>4. OpensDecided'  BY DEF OpensDecided, OpenersInOrder, Transactions
  <1>5. VerifiedMeansLanded'  BY DEF VerifiedMeansLanded, Transactions
  <1>6. SweepMemory'  BY DEF SweepMemory, Transactions
  <1>7. ChainProceedsAreReal'  BY DEF ChainProceedsAreReal
  <1> QED BY <1>1, <1>2, <1>3, <1>4, <1>5, <1>6, <1>7

LEMMA VerifyOpenLandedInv ==
  ASSUME LedgerInv, NEW row \in Transactions, VerifyOpenLanded(row)
  PROVE  LedgerInv'
  <1> USE FlashTailAssumption
          DEF FlashTailAssumption, LedgerInv, TypeOK, VerifyOpenLanded, NextRow,
              rowVars, clientVars, venueVars, sweepVars
  <1>1. TypeOK'  BY DEF Transactions
  <1>2. OpenersInOrder'  BY DEF OpenersInOrder
  <1>3. ClosersInOrder'  BY DEF ClosersInOrder
  <1>4. OpensDecided'  BY DEF OpensDecided
  <1>5. VerifiedMeansLanded'  BY DEF VerifiedMeansLanded
  <1>6. SweepMemory'  BY DEF SweepMemory, Transactions
  <1>7. ChainProceedsAreReal'  BY DEF ChainProceedsAreReal
  <1> QED BY <1>1, <1>2, <1>3, <1>4, <1>5, <1>6, <1>7

LEMMA VerifyCloseFailedInv ==
  ASSUME LedgerInv, NEW row \in Transactions, VerifyCloseFailed(row)
  PROVE  LedgerInv'
  <1> USE FlashTailAssumption
          DEF FlashTailAssumption, LedgerInv, TypeOK, VerifyCloseFailed, NextRow,
              rowVars, clientVars, venueVars, sweepVars
  <1>0. row.bet \in Bets /\ row.sig \in 0..MaxCloses /\ row.sig \in Closes
    BY DEF Transactions, Closes
  <1>a. status[row.bet] = "closed" /\ closeSig[row.bet] = row.sig
    BY DEF SweepMemory
  <1>b. proceeds[row.bet] # "chain"
    BY <1>0, <1>a DEF ChainProceedsAreReal
  <1>1. TypeOK'
    <2>1. 0 \in 0..MaxCloses  OBVIOUS
    <2>2. closeSig' \in [Bets -> 0..MaxCloses]  BY <1>a, <2>1
    <2>3. proceeds' \in [Bets -> Sources] /\ amount' \in [Bets -> Sources]
      BY <1>a DEF Sources
    <2> QED BY <1>0, <1>a, <2>2, <2>3 DEF Statuses
  <1>2. OpenersInOrder'  BY <1>0, <1>a DEF OpenersInOrder
  <1>3. ClosersInOrder'  BY DEF ClosersInOrder
  <1>4. OpensDecided'  BY <1>0, <1>a DEF OpensDecided
  <1>5. VerifiedMeansLanded'
    BY <1>0, <1>a, <1>b DEF VerifiedMeansLanded
  <1>6. SweepMemory'
    <2>1. ASSUME NEW r \in queue', r.sig > 0
          PROVE  r.bet # row.bet
      <3>1. r \in Transactions /\ r # row /\ r \in queue  BY <2>1
      <3>2. closeSig[r.bet] = r.sig  BY <2>1, <3>1 DEF SweepMemory
      <3>3. r = Close(r.bet, r.sig) /\ row = Close(row.bet, row.sig)
        BY <3>1 DEF Transactions, Close
      <3> HIDE DEF VerifyCloseFailed, LedgerInv, TypeOK
      <3> QED BY <1>a, <3>1, <3>2, <3>3
    <2> QED BY <1>0, <1>a, <2>1 DEF SweepMemory, Transactions
  <1>7. ChainProceedsAreReal'  BY <1>0, <1>a DEF ChainProceedsAreReal
  <1> QED BY <1>1, <1>2, <1>3, <1>4, <1>5, <1>6, <1>7

LEMMA VerifyCloseLandedInv ==
  ASSUME LedgerInv, NEW row \in Transactions, VerifyCloseLanded(row)
  PROVE  LedgerInv'
  <1> USE FlashTailAssumption
          DEF FlashTailAssumption, LedgerInv, TypeOK, VerifyCloseLanded, NextRow, CloseProven, StampChain,
              rowVars, clientVars, venueVars, sweepVars
  <1>0. row.bet \in Bets /\ row.sig \in 0..MaxCloses /\ row.sig \in Closes
    BY DEF Transactions, Closes
  <1>a. status[row.bet] = "closed"  BY DEF SweepMemory
  <1>1. TypeOK'
    <2>1. proceeds' \in [Bets -> Sources] /\ amount' \in [Bets -> Sources]
      BY <1>a DEF Sources
    <2>2. closeSig' \in [Bets -> 0..MaxCloses] /\ verified' \subseteq Bets
      BY <1>0, <1>a
    <2> QED BY <2>1, <2>2
  <1>2. OpenersInOrder'  BY DEF OpenersInOrder
  <1>3. ClosersInOrder'  BY DEF ClosersInOrder
  <1>4. OpensDecided'  BY DEF OpensDecided
  <1>5. VerifiedMeansLanded'  BY DEF VerifiedMeansLanded, Transactions, SweepMemory
  <1>6. SweepMemory'  BY DEF SweepMemory, Transactions
  <1>7. ChainProceedsAreReal'  BY <1>0 DEF ChainProceedsAreReal
  <1> QED BY <1>1, <1>2, <1>3, <1>4, <1>5, <1>6, <1>7

LEMMA VerifyCloseOpaqueInv ==
  ASSUME LedgerInv, NEW row \in Transactions, VerifyCloseOpaque(row)
  PROVE  LedgerInv'
  <1> USE FlashTailAssumption
          DEF FlashTailAssumption, LedgerInv, TypeOK, VerifyCloseOpaque, NextRow, CloseProven, StampChain,
              rowVars, clientVars, venueVars, sweepVars
  <1>0. row.bet \in Bets /\ row.sig \in 0..MaxCloses /\ row.sig \in Closes
    BY DEF Transactions, Closes
  <1>a. status[row.bet] = "closed"  BY DEF SweepMemory
  <1>1. TypeOK'
    <2>1. proceeds' \in [Bets -> Sources] /\ amount' \in [Bets -> Sources]
      BY <1>a DEF Sources
    <2>2. closeSig' \in [Bets -> 0..MaxCloses] /\ verified' \subseteq Bets
      BY <1>0, <1>a
    <2> QED BY <2>1, <2>2
  <1>2. OpenersInOrder'  BY DEF OpenersInOrder
  <1>3. ClosersInOrder'  BY DEF ClosersInOrder
  <1>4. OpensDecided'  BY DEF OpensDecided
  <1>5. VerifiedMeansLanded'  BY DEF VerifiedMeansLanded, Transactions, SweepMemory
  <1>6. SweepMemory'  BY DEF SweepMemory, Transactions
  <1>7. ChainProceedsAreReal'
    <2>1. row = Close(row.bet, row.sig)  BY DEF Close, Transactions
    <2> QED BY <1>0, <2>1 DEF ChainProceedsAreReal
  <1> QED BY <1>1, <1>2, <1>3, <1>4, <1>5, <1>6, <1>7

LEMMA VerifyLaterInv ==
  ASSUME LedgerInv, NEW row \in Transactions, VerifyLater(row)
  PROVE  LedgerInv'
  <1> USE FlashTailAssumption
          DEF FlashTailAssumption, LedgerInv, TypeOK, VerifyLater, NextRow,
              rowVars, clientVars, venueVars, sweepVars
  <1>1. TypeOK'  OBVIOUS
  <1>2. OpenersInOrder'  BY DEF OpenersInOrder
  <1>3. ClosersInOrder'  BY DEF ClosersInOrder
  <1>4. OpensDecided'  BY DEF OpensDecided
  <1>5. VerifiedMeansLanded'  BY DEF VerifiedMeansLanded
  <1>6. SweepMemory'  BY DEF SweepMemory, Transactions
  <1>7. ChainProceedsAreReal'  BY DEF ChainProceedsAreReal
  <1> QED BY <1>1, <1>2, <1>3, <1>4, <1>5, <1>6, <1>7

LEMMA ListCandidatesInv ==
  ASSUME LedgerInv, ListCandidates
  PROVE  LedgerInv'
  <1> USE FlashTailAssumption
          DEF FlashTailAssumption, LedgerInv, TypeOK, ListCandidates, ListedLive,
              rowVars, clientVars, venueVars, sweepVars
  <1>1. TypeOK'  OBVIOUS
  <1>2. OpenersInOrder'  BY DEF OpenersInOrder
  <1>3. ClosersInOrder'  BY DEF ClosersInOrder
  <1>4. OpensDecided'  BY DEF OpensDecided
  <1>5. VerifiedMeansLanded'  BY DEF VerifiedMeansLanded
  <1>6. SweepMemory'  BY DEF SweepMemory, VerifiedMeansLanded
  <1>7. ChainProceedsAreReal'  BY DEF ChainProceedsAreReal
  <1> QED BY <1>1, <1>2, <1>3, <1>4, <1>5, <1>6, <1>7

LEMMA ReadWalletInv ==
  ASSUME LedgerInv, NEW w \in Wallets, ReadWallet(w)
  PROVE  LedgerInv'
  <1> USE FlashTailAssumption
          DEF FlashTailAssumption, LedgerInv, TypeOK, ReadWallet, SlotLive, Merged,
              rowVars, clientVars, venueVars, sweepVars
  <1>1. TypeOK'  OBVIOUS
  <1>2. OpenersInOrder'  BY DEF OpenersInOrder
  <1>3. ClosersInOrder'  BY DEF ClosersInOrder
  <1>4. OpensDecided'  BY DEF OpensDecided
  <1>5. VerifiedMeansLanded'  BY DEF VerifiedMeansLanded
  <1>6. SweepMemory'  BY DEF SweepMemory
  <1>7. ChainProceedsAreReal'  BY DEF ChainProceedsAreReal
  <1> QED BY <1>1, <1>2, <1>3, <1>4, <1>5, <1>6, <1>7

LEMMA WalletUnreadableInv ==
  ASSUME LedgerInv, NEW w \in Wallets, WalletUnreadable(w)
  PROVE  LedgerInv'
  <1> USE FlashTailAssumption
          DEF FlashTailAssumption, LedgerInv, TypeOK, WalletUnreadable,
              rowVars, clientVars, venueVars, sweepVars
  <1>1. TypeOK'  OBVIOUS
  <1>2. OpenersInOrder'  BY DEF OpenersInOrder
  <1>3. ClosersInOrder'  BY DEF ClosersInOrder
  <1>4. OpensDecided'  BY DEF OpensDecided
  <1>5. VerifiedMeansLanded'  BY DEF VerifiedMeansLanded
  <1>6. SweepMemory'  BY DEF SweepMemory
  <1>7. ChainProceedsAreReal'  BY DEF ChainProceedsAreReal
  <1> QED BY <1>1, <1>2, <1>3, <1>4, <1>5, <1>6, <1>7

LEMMA MarkClosedExternalInv ==
  ASSUME LedgerInv, NEW b \in Bets, MarkClosedExternal(b)
  PROVE  LedgerInv'
  <1> USE FlashTailAssumption
          DEF FlashTailAssumption, LedgerInv, TypeOK, MarkClosedExternal, CasRow,
              rowVars, clientVars, venueVars, sweepVars
  <1>1. TypeOK'  BY DEF Statuses
  <1>2. OpenersInOrder'  BY DEF OpenersInOrder
  <1>3. ClosersInOrder'  BY DEF ClosersInOrder
  <1>4. OpensDecided'  BY DEF OpensDecided, SweepMemory
  <1>5. VerifiedMeansLanded'  BY DEF VerifiedMeansLanded
  <1>6. SweepMemory'  BY DEF SweepMemory
  <1>7. ChainProceedsAreReal'  BY DEF ChainProceedsAreReal
  <1> QED BY <1>1, <1>2, <1>3, <1>4, <1>5, <1>6, <1>7

LEMMA SweepEndsInv ==
  ASSUME LedgerInv, SweepEnds
  PROVE  LedgerInv'
  <1> USE FlashTailAssumption
          DEF FlashTailAssumption, LedgerInv, TypeOK, SweepEnds,
              rowVars, clientVars, venueVars, sweepVars
  <1>1. TypeOK'  OBVIOUS
  <1>2. OpenersInOrder'  BY DEF OpenersInOrder
  <1>3. ClosersInOrder'  BY DEF ClosersInOrder
  <1>4. OpensDecided'  BY DEF OpensDecided
  <1>5. VerifiedMeansLanded'  BY DEF VerifiedMeansLanded
  <1>6. SweepMemory'  BY DEF SweepMemory
  <1>7. ChainProceedsAreReal'  BY DEF ChainProceedsAreReal
  <1> QED BY <1>1, <1>2, <1>3, <1>4, <1>5, <1>6, <1>7


LEMMA StepInv == LedgerInv /\ [Next]_vars => LedgerInv'
  <1>1. CASE UNCHANGED vars
    BY <1>1
    DEF LedgerInv, TypeOK, OpenersInOrder, ClosersInOrder, OpensDecided,
        VerifiedMeansLanded, SweepMemory, ChainProceedsAreReal, vars,
        rowVars, clientVars, venueVars, sweepVars
  <1>2. ASSUME LedgerInv, Next  PROVE LedgerInv'
    BY <1>2,
       NextCases, RecordInv, SendOpenInv, ConfirmOpenInv,
       InsertOpenFillInv, SendCloseInv, LoadForCloseInv, ConfirmCloseInv,
       InsertCloseFillInv, OpenResolvesInv, DiesOutsideInv, GrowInv,
       CloseResolvesInv, SweepBeginInv, VerifyOpenFailedInv,
       VerifyOpenLandedInv, VerifyCloseFailedInv, VerifyCloseLandedInv,
       VerifyCloseOpaqueInv,
       VerifyLaterInv, ListCandidatesInv, ReadWalletInv,
       WalletUnreadableInv, MarkClosedExternalInv, SweepEndsInv
  <1> QED BY <1>1, <1>2

THEOREM InductiveInvariant == Spec => []LedgerInv
  BY InitInv, StepInv, PTL DEF Spec

-----------------------------------------------------------------------------
(***************************************************************************)
(* Every variable keeps its type.                                          *)
(***************************************************************************)
THEOREM TypeCorrect == Spec => []TypeOK
  <1>1. LedgerInv => TypeOK  BY DEF LedgerInv
  <1> QED BY <1>1, InductiveInvariant, PTL

(***************************************************************************)
(* No exposure behind a row that is failed or closed-external, for any     *)
(* merging of positions and any interleaving of clients and sweep.         *)
(***************************************************************************)
THEOREM DeadRows == Spec => []DeadRowsHoldNothing
  <1>1. LedgerInv => DeadRowsHoldNothing
    BY DEF LedgerInv, TypeOK, OpensDecided, DeadRowsHoldNothing
  <1> QED BY <1>1, InductiveInvariant, PTL

(***************************************************************************)
(* Proceeds stamped as chain truth are of the close the row names, that    *)
(* close landed, and they are what it paid unless it does not show that.   *)
(***************************************************************************)
THEOREM ChainProceeds == Spec => []ChainProceedsAreReal
  <1>1. LedgerInv => ChainProceedsAreReal  BY DEF LedgerInv
  <1> QED BY <1>1, InductiveInvariant, PTL

-----------------------------------------------------------------------------
(* What one step does to one row.                                          *)
StatusChange(b) ==
  \/ status'[b] = status[b]
  \/ status[b] = "none" /\ status'[b] = "pending"
  \/ status[b] = "pending" /\ status'[b] \in {"confirmed", "abandoned"}
  \/ status[b] = "confirmed" /\ status'[b] = "closed"
  \/ status[b] = "confirmed" /\ status'[b] \in {"failed", "closed-external"}
  \/ /\ status[b] = "closed" /\ status'[b] = "confirmed"
     /\ closeTx[b][closeSig[b]] = "failed"

LEMMA StatusStep ==
  ASSUME LedgerInv, [Next]_vars, NEW b \in Bets
  PROVE  StatusChange(b)
  <1> USE DEF LedgerInv, TypeOK, StatusChange
  <1>1. CASE UNCHANGED status  BY <1>1
  <1>2. ASSUME NEW c \in Bets, Record(c)  PROVE StatusChange(b)
    BY <1>2 DEF Record
  <1>3. ASSUME NEW c \in Bets, ConfirmOpen(c)  PROVE StatusChange(b)
    BY <1>3 DEF ConfirmOpen
  <1>4. ASSUME NEW c \in Bets, NEW i \in Closes, ConfirmClose(c, i)
        PROVE  StatusChange(b)
    BY <1>4 DEF ConfirmClose
  <1>5. CASE SweepBegin
    BY <1>5 DEF SweepBegin, StalePending
  <1>6. ASSUME NEW row \in Transactions, VerifyOpenFailed(row)
        PROVE  StatusChange(b)
    BY <1>6 DEF VerifyOpenFailed, CasRow, Transactions
  <1>7. ASSUME NEW row \in Transactions, VerifyCloseFailed(row)
        PROVE  StatusChange(b)
    <2>1. row.bet \in Bets /\ row.sig > 0 /\ closeTx[row.bet][row.sig] = "failed"
      BY <1>7 DEF VerifyCloseFailed, Transactions
    <2>2. status[row.bet] = "closed" /\ closeSig[row.bet] = row.sig
      BY <1>7, <2>1 DEF VerifyCloseFailed, NextRow, SweepMemory
    <2>3. status' = [status EXCEPT ![row.bet] = "confirmed"]
      BY <1>7, <2>2 DEF VerifyCloseFailed
    <2> QED BY <2>1, <2>2, <2>3
  <1>8. ASSUME NEW c \in Bets, MarkClosedExternal(c)  PROVE StatusChange(b)
    BY <1>8 DEF MarkClosedExternal, CasRow
  <1>9. UNCHANGED status
        \/ (\E c \in Bets : Record(c) \/ ConfirmOpen(c) \/ MarkClosedExternal(c))
        \/ (\E c \in Bets, i \in Closes : ConfirmClose(c, i))
        \/ SweepBegin
        \/ (\E row \in Transactions : VerifyOpenFailed(row) \/ VerifyCloseFailed(row))
    BY NextCases
    DEF vars, rowVars, SendOpen, InsertOpenFill, SendClose, LoadForClose,
        InsertCloseFill, OpenResolves, DiesOutside, Grow, CloseResolves,
        VerifyOpenLanded, VerifyCloseLanded, VerifyCloseOpaque,
        StampChain, VerifyLater, ListCandidates,
        ReadWallet, WalletUnreadable, SweepEnds
  <1> QED BY <1>1, <1>2, <1>3, <1>4, <1>5, <1>6, <1>7, <1>8, <1>9

(***************************************************************************)
(* Dead rows stay dead, and only a failed close reopens a closed row.      *)
(***************************************************************************)
THEOREM DeadRowsStayDead == Spec => TerminalStays
  <1> DEFINE Stays ==
        \A b \in Bets :
          /\ status[b] \in {"failed", "abandoned", "closed-external"} =>
                status'[b] = status[b]
          /\ status[b] = "closed" /\ status'[b] # "closed" =>
                status'[b] = "confirmed" /\ closeTx[b][closeSig[b]] = "failed"
  <1>1. LedgerInv /\ [Next]_vars => Stays
    BY StatusStep DEF StatusChange
  <1>2. LedgerInv /\ [Next]_vars => [Stays]_vars
    BY <1>1
  <1> HIDE DEF Stays
  <1>3. Spec => [][Stays]_vars
    BY <1>2, InductiveInvariant, PTL DEF Spec
  <1> QED BY <1>3 DEF Stays, TerminalStays

-----------------------------------------------------------------------------
(* FlashTail implements Receipts.                                          *)

\* A step that changes no row, or none in a way that a receipt shows.
LEMMA SameReceipts ==
  ASSUME \A b \in Bets :
            \/ status'[b] = status[b]
            \/ /\ status[b] \in {"pending", "confirmed", "closed", "abandoned"}
               /\ status'[b] \in {"pending", "confirmed", "closed", "abandoned"}
  PROVE  receipt' = receipt
  BY DEF receipt

\* A step that voids the receipt of one bet that holds nothing.
LEMMA VoidStep ==
  ASSUME TypeOK, UNCHANGED held, NEW b \in Bets, b \notin held,
         status[b] = "confirmed",
         NEW dead \in {"failed", "closed-external"},
         status' = [status EXCEPT ![b] = dead]
  PROVE  Ledger!Void(b)
  BY DEF TypeOK, receipt, Ledger!Void

LEMMA ReceiptsStep ==
  ASSUME LedgerInv, Next
  PROVE  [Ledger!Next]_<<receipt, held>>
  <1> DEFINE Goal == [Ledger!Next]_<<receipt, held>>
  <1> SUFFICES Goal  OBVIOUS
  <1> USE DEF LedgerInv
  <1>1. CASE UNCHANGED <<status, held>>
    <2>1. receipt' = receipt  BY <1>1 DEF receipt
    <2> QED BY <1>1, <2>1
  <1>2. ASSUME NEW b \in Bets, Record(b)  PROVE Goal
    <2>1. Ledger!Issue(b)
      BY <1>2 DEF TypeOK, Record, venueVars, receipt, Ledger!Issue
    <2> QED BY <2>1 DEF Ledger!Next
  <1>3. CASE UNCHANGED held
             /\ \A b \in Bets :
                   \/ status'[b] = status[b]
                   \/ /\ status[b] \in {"pending", "confirmed", "closed", "abandoned"}
                      /\ status'[b] \in {"pending", "confirmed", "closed", "abandoned"}
    BY <1>3, SameReceipts
  <1>4. ASSUME NEW b \in Bets, OpenResolves(b)  PROVE Goal
    <2>1. receipt' = receipt /\ receipt[b] = "issued"
      BY <1>4 DEF OpenResolves, rowVars, receipt, TypeOK, Statuses,
                  OpenersInOrder, OpensDecided
    <2>2. Ledger!Fill(b) \/ UNCHANGED held
      BY <1>4, <2>1 DEF OpenResolves, Ledger!Fill
    <2> QED BY <2>1, <2>2 DEF Ledger!Next
  <1>5. ASSUME NEW b \in Bets, held' = held \ Merged(b), UNCHANGED status
        PROVE  Goal
    <2>1. receipt' = receipt  BY <1>5 DEF receipt
    <2>2. Merged(b) \in SUBSET Bets  BY DEF Merged, TypeOK
    <2> QED BY <1>5, <2>1, <2>2 DEF Ledger!Next, Ledger!Flatten
  <1>6. ASSUME NEW b \in Bets, b \notin held, UNCHANGED held,
               NEW dead \in {"failed", "closed-external"}, status[b] = "confirmed",
               status' = [status EXCEPT ![b] = dead]
        PROVE  Goal
    BY <1>6, VoidStep DEF Ledger!Next
  <1> HIDE DEF Goal
  <1>7. ASSUME NEW b \in Bets, ConfirmOpen(b)  PROVE Goal
    BY <1>3, <1>7 DEF ConfirmOpen, venueVars, TypeOK
  <1>8. ASSUME NEW b \in Bets, NEW i \in Closes, ConfirmClose(b, i)  PROVE Goal
    BY <1>3, <1>8 DEF ConfirmClose, venueVars, TypeOK
  <1>9. CASE SweepBegin
    BY <1>3, <1>9 DEF SweepBegin, StalePending, venueVars, TypeOK
  <1>10. ASSUME NEW row \in Transactions, VerifyCloseFailed(row)  PROVE Goal
    BY <1>3, <1>10 DEF VerifyCloseFailed, venueVars, TypeOK, Transactions
  <1>11. ASSUME NEW row \in Transactions, VerifyOpenFailed(row)  PROVE Goal
    <2>1. row.bet \in Bets /\ row.bet \notin held
      BY <1>11 DEF VerifyOpenFailed, OpenRefuted, OpensDecided, Transactions
    <2> QED BY <1>1, <1>6, <1>11, <2>1 DEF VerifyOpenFailed, CasRow, venueVars
  <1>12. ASSUME NEW b \in Bets, MarkClosedExternal(b)  PROVE Goal
    BY <1>1, <1>6, <1>12 DEF MarkClosedExternal, CasRow, venueVars, SweepMemory
  <1>13. ASSUME NEW b \in Bets, DiesOutside(b)  PROVE Goal
    BY <1>5, <1>13 DEF DiesOutside, rowVars
  <1>14. ASSUME NEW b \in Bets, NEW i \in Closes, CloseResolves(b, i)  PROVE Goal
    BY <1>1, <1>5, <1>14 DEF CloseResolves, rowVars
  <1>15. \/ UNCHANGED <<status, held>>
         \/ \E b \in Bets : \/ Record(b) \/ ConfirmOpen(b) \/ OpenResolves(b)
                            \/ MarkClosedExternal(b) \/ DiesOutside(b)
         \/ \E b \in Bets, i \in Closes : ConfirmClose(b, i) \/ CloseResolves(b, i)
         \/ SweepBegin
         \/ \E row \in Transactions : VerifyOpenFailed(row) \/ VerifyCloseFailed(row)
    BY NextCases
    DEF rowVars, venueVars, SendOpen, InsertOpenFill, SendClose, LoadForClose,
        InsertCloseFill, Grow, VerifyOpenLanded, VerifyCloseLanded, VerifyCloseOpaque,
        StampChain, VerifyLater,
        ListCandidates, ReadWallet, WalletUnreadable, SweepEnds
  <1> QED BY <1>1, <1>2, <1>4, <1>7, <1>8, <1>9, <1>10, <1>11, <1>12, <1>13,
             <1>14, <1>15

(***************************************************************************)
(* The ledger implements its abstract promise: receipts come before        *)
(* exposure, and void receipts never have any.                             *)
(***************************************************************************)
THEOREM ImplementsReceipts == Spec => LedgerPromise
  <1>1. Init => Ledger!Init
    BY DEF Init, receipt, Ledger!Init
  <1>2. LedgerInv /\ [Next]_vars => [Ledger!Next]_<<receipt, held>>
    <2>1. UNCHANGED vars => UNCHANGED <<receipt, held>>
      BY DEF vars, rowVars, venueVars, receipt
    <2> QED BY <2>1, ReceiptsStep
  <1> QED BY <1>1, <1>2, InductiveInvariant, PTL
             DEF Spec, LedgerPromise, Ledger!Spec
=============================================================================
