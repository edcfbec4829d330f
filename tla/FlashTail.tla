----------------------------- MODULE FlashTail -----------------------------
(***************************************************************************)
(* The life of flash-tail bets: rows written by clients (lib/bets/         *)
(* flash-tail.ts), transactions that land, fail or vanish on the venue,    *)
(* and the reconcile sweep that compares the two (lib/bets/                *)
(* flash-reconcile.ts).  Clients are the copy engine, the autopilot, the   *)
(* HTTP routes and the browser: all record, send and confirm in this order *)
(* and may stop anywhere, so no client ever has to take its next step.  A  *)
(* compare-and-set that misses changes nothing and ends its client: it is  *)
(* not a step here.                                                        *)
(*                                                                         *)
(* The venue merges positions per (owner, market, side), a slot: closing a *)
(* slot closes every bet merged into it.  Bets are numbered in the order   *)
(* of createdAt.                                                           *)
(***************************************************************************)
EXTENDS Integers, FiniteSets

CONSTANTS
    NumBets,    \* bound on the rows of one behaviour
    SlotOf,     \* SlotOf[b]: the slot bet b trades in
    WalletOf,   \* WalletOf[b]: meta.walletAddress
    MaxCloses,  \* bound on the close transactions sent for one bet
    Closable,   \* bound: the bets for which closes are sent at all
    Batch,      \* BATCH and LIVENESS_BATCH: rows one sweep looks at
    Opaque      \* closes whose transaction does not show the owner's USDC account

Bets == 1..NumBets
Closes == 1..MaxCloses

ASSUME FlashTailAssumption ==
    NumBets \in Nat /\ MaxCloses \in Nat /\ Batch \in Nat

VARIABLES
    status,      \* bets.status ("none": no row yet)
    closeSig,    \* meta.closeSignature: which close the row names, 0 is null
    proceeds,    \* meta.proceedsSource
    amount,      \* where bets.proceedsUsdc comes from
    verified,    \* rows whose meta.reconciledAt is set
    age,         \* createdAt against the cut-offs of the sweep, see Grow
    fills,       \* the fills rows, by the transaction they are for
    opener,      \* the client that opens b
    closer,      \* closer[b][i]: the client of the i-th close of b
    sawVerified, \* closes whose client loaded the row with reconciledAt set
    openTx,      \* fate of the open transaction
    closeTx,     \* closeTx[b][i]: fate of that close
    held,        \* bets whose exposure is part of a live venue position
    sweepPc,     \* where the reconcile sweep is
    queue,       \* transactions it still has to verify, from the rows as it read them
    candidates,  \* rows it still has to look up on the venue
    gone         \* rows it found without a position and is about to expire

rowVars == <<status, closeSig, proceeds, amount, verified>>
clientVars == <<opener, closer, sawVerified>>
venueVars == <<openTx, closeTx, held>>
sweepVars == <<sweepPc, queue, candidates, gone>>
vars == <<rowVars, age, fills, clientVars, venueVars, sweepVars>>

Statuses == {"none", "pending", "confirmed", "closed", "closed-external",
             "failed", "abandoned"}
Fates == {"none", "flight", "landed", "failed", "dropped"}
Sources == {"none", "estimate", "chain"}

\* Transactions: sig = 0 is the open of the bet, sig = i > 0 its i-th close.
Transactions == [bet : Bets, sig : 0..MaxCloses]
Open(b) == [bet |-> b, sig |-> 0]
Close(b, i) == [bet |-> b, sig |-> i]

TypeOK ==
    /\ status \in [Bets -> Statuses]
    /\ closeSig \in [Bets -> 0..MaxCloses]
    /\ proceeds \in [Bets -> Sources]
    /\ amount \in [Bets -> Sources]
    /\ verified \subseteq Bets
    /\ age \in [Bets -> 0..3]
    /\ fills \subseteq Transactions
    /\ opener \in [Bets -> {"idle", "recorded", "sent", "flipped", "done"}]
    /\ closer \in [Bets -> [Closes -> {"idle", "sent", "loaded", "flipped", "done"}]]
    /\ sawVerified \subseteq Bets \X Closes
    /\ openTx \in [Bets -> Fates]
    /\ closeTx \in [Bets -> [Closes -> Fates]]
    /\ held \subseteq Bets
    /\ sweepPc \in {"idle", "verify", "expire"}
    /\ queue \subseteq Transactions
    /\ candidates \subseteq Bets
    /\ gone \subseteq Bets

Init ==
    /\ status = [b \in Bets |-> "none"]
    /\ closeSig = [b \in Bets |-> 0]
    /\ proceeds = [b \in Bets |-> "none"]
    /\ amount = [b \in Bets |-> "none"]
    /\ verified = {}
    /\ age = [b \in Bets |-> 0]
    /\ fills = {}
    /\ opener = [b \in Bets |-> "idle"]
    /\ closer = [b \in Bets |-> [i \in Closes |-> "idle"]]
    /\ sawVerified = {}
    /\ openTx = [b \in Bets |-> "none"]
    /\ closeTx = [b \in Bets |-> [i \in Closes |-> "none"]]
    /\ held = {}
    /\ sweepPc = "idle"
    /\ queue = {}
    /\ candidates = {}
    /\ gone = {}

Merged(b) == {c \in held : SlotOf[c] = SlotOf[b]}
SlotLive(b) == Merged(b) # {}

-----------------------------------------------------------------------------
(* Opening: recordFlashTailOpen, send, confirmFlashTailOpen.               *)

Record(b) ==
    /\ status[b] = "none"
    /\ \A c \in Bets : c < b => status[c] # "none"
    /\ status' = [status EXCEPT ![b] = "pending"]
    /\ opener' = [opener EXCEPT ![b] = "recorded"]
    /\ UNCHANGED <<closeSig, proceeds, amount, verified, age, fills, closer,
                   sawVerified, venueVars, sweepVars>>

\* The transaction was built before the row: past the first cut-off its
\* blockhash is dead and it cannot land any more.
SendOpen(b) ==
    /\ opener[b] = "recorded"
    /\ age[b] = 0
    /\ opener' = [opener EXCEPT ![b] = "sent"]
    /\ openTx' = [openTx EXCEPT ![b] = "flight"]
    /\ UNCHANGED <<rowVars, age, fills, closer, sawVerified, closeTx, held,
                   sweepVars>>

\* CAS pending -> confirmed.
ConfirmOpen(b) ==
    /\ opener[b] = "sent"
    /\ status[b] = "pending"
    /\ status' = [status EXCEPT ![b] = "confirmed"]
    /\ opener' = [opener EXCEPT ![b] = "flipped"]
    /\ UNCHANGED <<closeSig, proceeds, amount, verified, age, fills, closer,
                   sawVerified, venueVars, sweepVars>>

InsertOpenFill(b) ==
    /\ opener[b] = "flipped"
    /\ fills' = fills \cup {Open(b)}
    /\ opener' = [opener EXCEPT ![b] = "done"]
    /\ UNCHANGED <<rowVars, age, closer, sawVerified, venueVars,
                   sweepVars>>

-----------------------------------------------------------------------------
(* Closing: send, confirmFlashTailClose.                                   *)

\* Whoever closes picked the bet while it was confirmed, any time ago; the
\* venue refuses to build a close for a slot without a position.
SendClose(b, i) ==
    /\ b \in Closable
    /\ closer[b][i] = "idle"
    /\ \A j \in Closes : j < i => closer[b][j] # "idle"
    /\ status[b] \notin {"none", "pending", "abandoned"}
    /\ SlotLive(b)
    /\ closer' = [closer EXCEPT ![b][i] = "sent"]
    /\ closeTx' = [closeTx EXCEPT ![b][i] = "flight"]
    /\ UNCHANGED <<rowVars, age, fills, opener, sawVerified, openTx, held,
                   sweepVars>>

LoadForClose(b, i) ==
    /\ closer[b][i] = "sent"
    /\ status[b] = "confirmed"
    /\ closer' = [closer EXCEPT ![b][i] = "loaded"]
    /\ sawVerified' = IF b \in verified THEN sawVerified \cup {<<b, i>>}
                                        ELSE sawVerified
    /\ UNCHANGED <<rowVars, age, fills, opener, venueVars, sweepVars>>

\* Mutation: the status predicate left out of the WHERE.
ConfirmCloseNoCas(b, i) ==
    /\ closer[b][i] = "loaded"
    /\ status' = [status EXCEPT ![b] = "closed"]
    /\ closeSig' = [closeSig EXCEPT ![b] = i]
    /\ proceeds' = [proceeds EXCEPT ![b] = "estimate"]
    /\ amount' = [amount EXCEPT ![b] = "estimate"]
    /\ verified' = IF <<b, i>> \in sawVerified THEN verified \cup {b}
                                               ELSE verified \ {b}
    /\ closer' = [closer EXCEPT ![b][i] = "flipped"]
    /\ UNCHANGED <<age, fills, opener, sawVerified, venueVars, sweepVars>>

\* CAS confirmed -> closed; meta is the loaded one plus the close fields, so
\* a reconciledAt written since the load is overwritten.
ConfirmClose(b, i) ==
    /\ closer[b][i] = "loaded"
    /\ status[b] = "confirmed"
    /\ status' = [status EXCEPT ![b] = "closed"]
    /\ closeSig' = [closeSig EXCEPT ![b] = i]
    /\ proceeds' = [proceeds EXCEPT ![b] = "estimate"]
    /\ amount' = [amount EXCEPT ![b] = "estimate"]
    /\ verified' = IF <<b, i>> \in sawVerified THEN verified \cup {b}
                                               ELSE verified \ {b}
    /\ closer' = [closer EXCEPT ![b][i] = "flipped"]
    /\ UNCHANGED <<age, fills, opener, sawVerified, venueVars, sweepVars>>

InsertCloseFill(b, i) ==
    /\ closer[b][i] = "flipped"
    /\ fills' = fills \cup {Close(b, i)}
    /\ closer' = [closer EXCEPT ![b][i] = "done"]
    /\ UNCHANGED <<rowVars, age, opener, sawVerified, venueVars,
                   sweepVars>>

-----------------------------------------------------------------------------
(* The venue.                                                              *)

OpenResolves(b) ==
    /\ openTx[b] = "flight"
    /\ \E fate \in {"landed", "failed", "dropped"} :
          /\ openTx' = [openTx EXCEPT ![b] = fate]
          /\ held' = IF fate = "landed" THEN held \cup {b} ELSE held
    /\ UNCHANGED <<rowVars, age, fills, clientVars, closeTx, sweepVars>>

CloseResolves(b, i) ==
    /\ closeTx[b][i] = "flight"
    /\ \/ /\ SlotLive(b)
          /\ closeTx' = [closeTx EXCEPT ![b][i] = "landed"]
          /\ held' = held \ Merged(b)
       \/ /\ \E fate \in {"failed", "dropped"} :
                closeTx' = [closeTx EXCEPT ![b][i] = fate]
          /\ UNCHANGED held
    /\ UNCHANGED <<rowVars, age, fills, clientVars, openTx, sweepVars>>

\* A liquidation, a trigger order or the user closing elsewhere.
DiesOutside(b) ==
    /\ b \in held
    /\ held' = held \ Merged(b)
    /\ UNCHANGED <<rowVars, age, fills, clientVars, openTx, closeTx, sweepVars>>

\* The cut-offs a row passes: 1 after STALE_PENDING_MS, 2 after
\* EXTERNAL_CLOSE_MIN_AGE_MS, 3 after OPEN_SIG_MAX_AGE_MS.  Older rows pass
\* them first; an open transaction is decided well before the first.
Grow(b) ==
    /\ status[b] # "none"
    /\ age[b] < 3
    /\ openTx[b] # "flight"
    /\ \A c \in Bets : c < b => age[c] > age[b]
    /\ age' = [age EXCEPT ![b] = @ + 1]
    /\ UNCHANGED <<rowVars, fills, clientVars, venueVars, sweepVars>>

-----------------------------------------------------------------------------
(* The sweep: runFlashReconcileSweep.                                      *)

StalePending == {b \in Bets : status[b] = "pending" /\ age[b] >= 1}

\* Rows of listBetsToReconcile, as the sweep snapshots them.
Unverified ==
    {Close(b, closeSig[b]) :
        b \in {c \in Bets : status[c] = "closed" /\ proceeds[c] = "estimate"}}
    \cup
    {Open(b) :
        b \in {c \in Bets : status[c] = "confirmed" /\ c \notin verified}}

\* ORDER BY createdAt DESC LIMIT BATCH.
NewestOf(rows) ==
    {r \in rows : Cardinality({s \in rows : s.bet > r.bet}) < Batch}

SweepBegin ==
    /\ sweepPc = "idle"
    /\ status' = [b \in Bets |-> IF b \in StalePending THEN "abandoned" ELSE status[b]]
    /\ queue' = NewestOf(Unverified)
    /\ sweepPc' = "verify"
    /\ UNCHANGED <<closeSig, proceeds, amount, verified, age, fills, clientVars,
                   venueVars, candidates, gone>>

\* The rows are verified newest first.
NextRow(row) == row \in queue /\ \A r \in queue : r.bet <= row.bet

\* The update of a status-guarded row: nothing happens when the guard misses.
CasRow(b, from, to) ==
    status' = IF status[b] = from THEN [status EXCEPT ![b] = to] ELSE status

\* Mutations: the age cut-off dropped, so that not visible yet
\* counts as never landed; and no cut-off at all, so that a dropped transaction
\* is looked up for ever.
OpenRefutedEarly(b) == openTx[b] # "landed"
OpenRefutedByErrorOnly(b) == openTx[b] = "failed"

\* getTransaction shows an error, or shows nothing for too long.
OpenRefuted(b) == openTx[b] = "failed" \/ (openTx[b] # "landed" /\ age[b] = 3)

\* The deletion and the update of applyChainTruth are one step.
VerifyOpenFailed(row) ==
    /\ sweepPc = "verify" /\ NextRow(row) /\ row.sig = 0
    /\ OpenRefuted(row.bet)
    /\ fills' = fills \ {row}
    /\ CasRow(row.bet, "confirmed", "failed")
    /\ verified' = IF status[row.bet] = "confirmed" THEN verified \cup {row.bet}
                                                    ELSE verified
    /\ queue' = queue \ {row}
    /\ UNCHANGED <<closeSig, proceeds, amount, age, clientVars, venueVars,
                   sweepPc, candidates, gone>>

\* The price and the source of the fills row are updated as well, when a USDC
\* delta can be derived.
VerifyOpenLanded(row) ==
    /\ sweepPc = "verify" /\ NextRow(row) /\ row.sig = 0
    /\ openTx[row.bet] = "landed"
    /\ verified' = IF status[row.bet] = "confirmed" THEN verified \cup {row.bet}
                                                    ELSE verified
    /\ queue' = queue \ {row}
    /\ UNCHANGED <<status, closeSig, proceeds, amount, age, fills, clientVars,
                   venueVars, sweepPc, candidates, gone>>

VerifyCloseFailed(row) ==
    /\ sweepPc = "verify" /\ NextRow(row) /\ row.sig > 0
    /\ closeTx[row.bet][row.sig] = "failed"
    /\ fills' = fills \ {row}
    /\ IF status[row.bet] = "closed"
       THEN /\ status' = [status EXCEPT ![row.bet] = "confirmed"]
            /\ closeSig' = [closeSig EXCEPT ![row.bet] = 0]
            /\ proceeds' = [proceeds EXCEPT ![row.bet] = "none"]
            /\ amount' = [amount EXCEPT ![row.bet] = "none"]
       ELSE UNCHANGED <<status, closeSig, proceeds, amount>>
    /\ queue' = queue \ {row}
    /\ UNCHANGED <<verified, age, clientVars, venueVars, sweepPc,
                   candidates, gone>>

\* Mutation: any transaction that is found counts as landed.
CloseFound(row) == closeTx[row.bet][row.sig] \in {"landed", "failed"}

CloseProven(row) == closeTx[row.bet][row.sig] = "landed"

\* The update writes back the meta the sweep has read, stamped as verified.
StampChain(row) ==
    /\ proceeds' = [proceeds EXCEPT ![row.bet] = "chain"]
    /\ closeSig' = [closeSig EXCEPT ![row.bet] = row.sig]
    /\ verified' = verified \cup {row.bet}

VerifyCloseLanded(row) ==
    /\ sweepPc = "verify" /\ NextRow(row) /\ row.sig > 0
    /\ CloseProven(row)
    /\ row \notin Opaque
    /\ IF status[row.bet] = "closed"
       THEN /\ StampChain(row)
            /\ amount' = [amount EXCEPT ![row.bet] = "chain"]
       ELSE UNCHANGED <<proceeds, closeSig, verified, amount>>
    /\ queue' = queue \ {row}
    /\ UNCHANGED <<status, age, fills, clientVars, venueVars, sweepPc,
                   candidates, gone>>

\* It landed, but no proceeds can be derived from it: the row is stamped all
\* the same and keeps the estimate of the client; the fill keeps its price.
VerifyCloseOpaque(row) ==
    /\ sweepPc = "verify" /\ NextRow(row) /\ row.sig > 0
    /\ CloseProven(row)
    /\ row \in Opaque
    /\ IF status[row.bet] = "closed"
       THEN StampChain(row)
       ELSE UNCHANGED <<proceeds, closeSig, verified>>
    /\ queue' = queue \ {row}
    /\ UNCHANGED <<status, amount, age, fills, clientVars, venueVars, sweepPc,
                   candidates, gone>>

\* getTransaction threw, or the transaction is not visible (yet).
VerifyLater(row) ==
    /\ sweepPc = "verify" /\ NextRow(row)
    /\ queue' = queue \ {row}
    /\ UNCHANGED <<rowVars, age, fills, clientVars, venueVars, sweepPc,
                   candidates, gone>>

\* Rows of listLivenessCandidates: only chain-verified opens.
ListedLive == {b \in Bets : status[b] = "confirmed" /\ b \in verified /\ age[b] >= 2}

\* A random sample of at most LIVENESS_BATCH of them.
ListCandidates ==
    /\ sweepPc = "verify" /\ queue = {}
    /\ \E S \in SUBSET ListedLive :
          /\ Cardinality(S) <= Batch
          /\ Cardinality(S) < Batch => S = ListedLive
          /\ candidates' = S
    /\ sweepPc' = "expire"
    /\ UNCHANGED <<rowVars, age, fills, clientVars, venueVars, queue, gone>>

\* positionsOf, once per wallet and sweep: the slots it does not show are gone.
ReadWallet(w) ==
    LET mine == {b \in candidates : WalletOf[b] = w} IN
    /\ sweepPc = "expire"
    /\ mine # {}
    /\ candidates' = candidates \ mine
    /\ gone' = gone \cup {b \in mine : ~SlotLive(b)}
    /\ UNCHANGED <<rowVars, age, fills, clientVars, venueVars, sweepPc, queue>>

\* Mutation: a failed read taken for an empty wallet.
WalletUnreadableIsFlat(w) ==
    LET mine == {b \in candidates : WalletOf[b] = w} IN
    /\ sweepPc = "expire"
    /\ mine # {}
    /\ candidates' = candidates \ mine
    /\ gone' = gone \cup mine
    /\ UNCHANGED <<rowVars, age, fills, clientVars, venueVars, sweepPc, queue>>

\* The read threw: unreadable is not dead.
WalletUnreadable(w) ==
    LET mine == {b \in candidates : WalletOf[b] = w} IN
    /\ sweepPc = "expire"
    /\ mine # {}
    /\ candidates' = candidates \ mine
    /\ UNCHANGED <<rowVars, age, fills, clientVars, venueVars, sweepPc, queue,
                   gone>>

MarkClosedExternal(b) ==
    /\ sweepPc = "expire"
    /\ b \in gone
    /\ CasRow(b, "confirmed", "closed-external")
    /\ gone' = gone \ {b}
    /\ UNCHANGED <<closeSig, proceeds, amount, verified, age, fills, clientVars,
                   venueVars, sweepPc, queue, candidates>>

\* The sweep is through, ran out of its time box, or its process died.
SweepEnds ==
    /\ sweepPc # "idle"
    /\ sweepPc' = "idle"
    /\ queue' = {}
    /\ candidates' = {}
    /\ gone' = {}
    /\ UNCHANGED <<rowVars, age, fills, clientVars, venueVars>>

-----------------------------------------------------------------------------
Wallets == {WalletOf[b] : b \in Bets}

OpenStep(b) ==
    \/ Record(b)
    \/ SendOpen(b)
    \/ ConfirmOpen(b)
    \/ InsertOpenFill(b)

CloseStep(b, i) ==
    \/ SendClose(b, i)
    \/ LoadForClose(b, i)
    \/ ConfirmClose(b, i)
    \/ InsertCloseFill(b, i)

VenueStep ==
    \/ \E b \in Bets : OpenResolves(b) \/ DiesOutside(b) \/ Grow(b)
    \/ \E b \in Bets, i \in Closes : CloseResolves(b, i)

VerifyRow(row) ==
    \/ VerifyOpenFailed(row)
    \/ VerifyOpenLanded(row)
    \/ VerifyCloseFailed(row)
    \/ VerifyCloseLanded(row)
    \/ VerifyCloseOpaque(row)

SweepStep ==
    \/ SweepBegin
    \/ \E row \in Transactions : VerifyRow(row) \/ VerifyLater(row)
    \/ ListCandidates
    \/ \E w \in Wallets : ReadWallet(w) \/ WalletUnreadable(w)
    \/ \E b \in Bets : MarkClosedExternal(b)
    \/ SweepEnds

Next ==
    \/ \E b \in Bets : OpenStep(b)
    \/ \E b \in Bets, i \in Closes : CloseStep(b, i)
    \/ VenueStep
    \/ SweepStep

Spec == Init /\ [][Next]_vars

\* The whale ticker starts a sweep every minute, transactions are decided and
\* rows grow old.  A look-up that is repeated sweep after sweep is not answered
\* by an error, a crash or the end of the time box every time.  No client has
\* to take another step.
Fairness ==
    /\ WF_vars(SweepBegin)
    /\ WF_vars(SweepEnds)
    /\ SF_vars(ListCandidates)
    /\ \A b \in Bets :
          /\ WF_vars(Grow(b))
          /\ WF_vars(OpenResolves(b))
          /\ SF_vars(MarkClosedExternal(b))
          /\ \A i \in Closes : WF_vars(CloseResolves(b, i))
    /\ \A row \in Transactions : SF_vars(VerifyRow(row))
    /\ \A w \in Wallets : SF_vars(ReadWallet(w))

FairSpec == Spec /\ Fairness

-----------------------------------------------------------------------------
(***************************************************************************)
(* A row that was declared dead has no exposure behind it: "failed" means  *)
(* the open never landed, "closed-external" that the position is gone.     *)
(* Nobody would close that exposure: every closer looks for confirmed rows *)
(* (lib/bets/flash-reconcile.ts:392, unreadable is not dead).              *)
(***************************************************************************)
DeadRowsHoldNothing ==
    \A b \in Bets : status[b] \in {"failed", "closed-external"} => b \notin held

(***************************************************************************)
(* Proceeds stamped as chain truth belong to a close that landed, and to   *)
(* the one the row names, however many closes were sent for the bet; and   *)
(* they are what that transaction paid, unless it does not show it         *)
(* (lib/bets/flash-reconcile.ts:252): then the stamp is on an estimate.    *)
(***************************************************************************)
ChainProceedsAreReal ==
    \A b \in Bets : proceeds[b] = "chain" =>
        /\ closeSig[b] # 0
        /\ closeTx[b][closeSig[b]] = "landed"
        /\ amount[b] = "chain" \/ Close(b, closeSig[b]) \in Opaque

(***************************************************************************)
(* Dead rows stay dead, whatever confirm of a slow client comes in after   *)
(* the sweep; a closed row is only ever reopened because its close failed. *)
(***************************************************************************)
TerminalStays ==
    [][\A b \in Bets :
        /\ status[b] \in {"failed", "abandoned", "closed-external"} =>
              status'[b] = status[b]
        /\ status[b] = "closed" /\ status'[b] # "closed" =>
              status'[b] = "confirmed" /\ closeTx[b][closeSig[b]] = "failed"]_vars

\* What the ledger promises in terms of Receipts.
receipt == [b \in Bets |->
    CASE status[b] = "none" -> "none"
      [] status[b] \in {"failed", "closed-external"} -> "void"
      [] OTHER -> "issued"]

Ledger == INSTANCE Receipts WITH live <- held

(***************************************************************************)
(* The ledger implements Receipts: receipt before exposure, and no exposure *)
(* after the receipt was declared void.                                    *)
(***************************************************************************)
LedgerPromise == Ledger!Spec

\* The row of b says what the venue says.
Agrees(b) ==
    /\ status[b] # "pending"
    /\ status[b] = "confirmed" =>
          /\ openTx[b] \notin {"failed", "dropped"}
          /\ b \in verified => SlotLive(b)
    /\ status[b] = "closed" => closeTx[b][closeSig[b]] # "failed"

(***************************************************************************)
(* The sweep repairs every row again and again: a row that was reserved    *)
(* and never sent, whose open vanished, whose position was liquidated or   *)
(* whose close failed does not stay wrong, even if its client is gone.     *)
(***************************************************************************)
RowsSettle == \A b \in Bets : []<>Agrees(b)

(***************************************************************************)
(* Exposure is never behind an abandoned row: an open that landed but      *)
(* whose confirm was lost "stays pending for the reconcile sweep"          *)
(* (lib/copy/engine.ts:492), which would have to find it there.            *)
(***************************************************************************)
LandedOpenKeepsItsRow == \A b \in held : status[b] # "abandoned"

-----------------------------------------------------------------------------
(* What the proofs need besides: why the code may conclude what it does.   *)

\* A client sends once, after its row exists, and confirms after it sent.
OpenersInOrder ==
    \A b \in Bets :
        /\ status[b] = "none" => opener[b] = "idle"
        /\ status[b] \notin {"none", "pending", "abandoned"} =>
              opener[b] \in {"flipped", "done"}
        /\ opener[b] \in {"idle", "recorded"} => openTx[b] = "none"
        /\ age[b] > 0 => openTx[b] # "flight"

ClosersInOrder ==
    \A b \in Bets, i \in Closes : closer[b][i] = "idle" => closeTx[b][i] = "none"

\* What is known about the open of a bet, from where it is in the ledger.
OpensDecided ==
    \A b \in Bets :
        /\ b \in held => openTx[b] = "landed"
        /\ status[b] = "failed" => openTx[b] \notin {"flight", "landed"}
        /\ status[b] = "closed-external" => openTx[b] = "landed" /\ b \notin held

\* reconciledAt on a row that may be confirmed again proves its open.
VerifiedMeansLanded ==
    /\ \A b \in verified :
          \/ openTx[b] = "landed"
          \/ status[b] = "failed"
          \/ status[b] = "closed" /\ proceeds[b] = "chain"
    /\ \A b \in Bets, i \in Closes : <<b, i>> \in sawVerified => openTx[b] = "landed"

\* What the sweep remembers stays true until it acts on it.
SweepMemory ==
    /\ \A row \in queue : row.sig > 0 =>
          status[row.bet] = "closed" /\ closeSig[row.bet] = row.sig
    /\ \A b \in candidates : openTx[b] = "landed"
    /\ \A b \in gone : openTx[b] = "landed" /\ b \notin held

LedgerInv ==
    /\ TypeOK
    /\ OpenersInOrder
    /\ ClosersInOrder
    /\ OpensDecided
    /\ VerifiedMeansLanded
    /\ SweepMemory
    /\ ChainProceedsAreReal
=============================================================================
