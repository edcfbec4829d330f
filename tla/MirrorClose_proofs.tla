-------------------------- MODULE MirrorClose_proofs --------------------------
(***************************************************************************)
(* Proofs about MirrorClose, for any bets, sources and numbers of pending  *)
(* timeouts; of the kinds of sources only where it says so.                *)
(***************************************************************************)
EXTENDS MirrorClose, TLAPS

\* The records of sweeps, and what holds of that of a monitor.
SweepRecs == [pc : {"idle", "list", "read"}, bets : SUBSET Bets, todo : SUBSET Sources,
              orphans : SUBSET Bets]
SweepOK(m) ==
    /\ running[m] = (sweep[m].pc # "idle")
    /\ sweep[m].orphans \subseteq sweep[m].bets
    /\ sweep[m].pc # "read" => sweep[m].bets = {}

\* Next, spelled out for the proofs by cases.
LEMMA NextCases ==
  ASSUME Next
  PROVE
    \/ \E m \in Monitors : Fire(m)
    \/ \E m \in Monitors : List(m)
    \/ \E m \in Monitors, a \in Sources : Read(m, a)
    \/ \E m \in Monitors, a \in Sources : ReadFails(m, a)
    \/ \E m \in Monitors, b \in Bets : CloseFollower(m, b)
    \/ \E m \in Monitors, b \in Bets : CloseFails(m, b)
    \/ \E m \in Monitors : SweepThrows(m)
    \/ \E m \in Monitors : EndSweep(m)
    \/ \E a \in Sources : OpenPosition(a)
    \/ \E a \in Sources : GrowPosition(a)
    \/ \E a \in Sources : ClosePosition(a)
    \/ OtherEvent
    \/ \E a \in Sources : SocketCloses(a)
    \/ \E a \in Sources : SocketOpens(a)
    \/ \E b \in Bets : UserCloses(b)
    \/ StopMonitor
    \/ MonitorDies
    \/ \E a \in Sources, b \in Bets : Copy(b, a)
  BY DEF Next, SweepStep, SourceStep

\* A record without bets.
LEMMA EmptySweeps ==
  /\ NoSweep \in SweepRecs /\ NoSweep.pc = "idle" /\ NoSweep.bets = {} /\ NoSweep.orphans = {}
  /\ ToList \in SweepRecs /\ ToList.pc = "list" /\ ToList.bets = {} /\ ToList.orphans = {}
  BY DEF SweepRecs, NoSweep, ToList

-----------------------------------------------------------------------------
(* Every step keeps the invariant.                                         *)

LEMMA InitInv == Init => MirrorInv
  <1> SUFFICES ASSUME Init PROVE MirrorInv
    OBVIOUS
  <1>1. TypeOK
    <2> USE MirrorCloseAssumption DEF MirrorCloseAssumption, Init
    <2>1. /\ open \in [Sources -> BOOLEAN] /\ socket \in [Sources -> BOOLEAN]
          /\ opened \in [Sources -> 0..MaxOpens]
          /\ \A a \in Sources : open[a] => opened[a] > 0
      OBVIOUS
    <2>2. bid \in [Bets -> Ids]  BY DEF Ids
    <2>3. timers \in [Monitors -> 0..MaxTimers] /\ unseen \in BOOLEAN
      <3>1. 0 \in 0..MaxTimers  OBVIOUS
      <3> QED BY <3>1
    <2>4. /\ handle \in [Monitors -> BOOLEAN] /\ running \in [Monitors -> BOOLEAN]
          /\ again \in [Monitors -> BOOLEAN]
      OBVIOUS
    <2>5. sweep \in [Monitors -> SweepRecs] /\ \A m \in Monitors : SweepOK(m)
      BY EmptySweeps DEF SweepOK
    <2>6. /\ kind \in [Sources -> Kinds] /\ price \in [Sources -> Prices] /\ gone \subseteq Bets
          /\ status \in [Bets -> {"none", "confirmed", "closed", "mirrored"}]
          /\ source \in [Bets -> Sources \cup {"none"}] /\ copied \in [Bets -> 0..MaxOpens]
      OBVIOUS
    <2> HIDE MirrorCloseAssumption DEF MirrorCloseAssumption, Init
    <2> QED BY <2>1, <2>2, <2>3, <2>4, <2>5, <2>6 DEF TypeOK, SweepRecs, SweepOK
  <1>2. CopiesFollow /\ ListedWereConfirmed
    BY DEF Init, NoSweep, CopiesFollow, ListedWereConfirmed
  <1>3. OrphansWereGone /\ OnlyOrphansAreClosed
    BY DEF Init, NoSweep, OrphansWereGone, OnlyOrphansAreClosed
  <1>4. HandleIsPending /\ NoEventIsLost  BY DEF Init, HandleIsPending, NoEventIsLost, Monitors
  <1> QED BY <1>1, <1>2, <1>3, <1>4 DEF MirrorInv

\* A step of a monitor's reconcile: what is to be shown of it.
LEMMA ReconcileStep ==
  ASSUME MirrorInv, NEW m \in Monitors, NEW rec \in SweepRecs,
         sweep' = [sweep EXCEPT ![m] = rec],
         rec.orphans \subseteq rec.bets, rec.pc # "read" => rec.bets = {},
         \A b \in rec.bets : status[b] # "none",
         "hyperliquid" \notin Kinds => \A b \in rec.orphans : status[b] = "confirmed" => b \in gone,
         timers' \in [Monitors -> 0..MaxTimers], handle' \in [Monitors -> BOOLEAN],
         again' \in [Monitors -> BOOLEAN], unseen' \in BOOLEAN,
         running' = [running EXCEPT ![m] = (rec.pc # "idle")],
         status' \in [Bets -> {"none", "confirmed", "closed", "mirrored"}],
         \A b \in Bets : \/ status'[b] = status[b]
                         \/ status'[b] = "mirrored" /\ status[b] = "confirmed"
                            /\ b \in sweep[m].orphans,
         HandleIsPending', NoEventIsLost',
         UNCHANGED <<sourceVars, socket, source, copied, bid, gone>>
  PROVE  MirrorInv'
  <1> USE DEF MirrorInv, sourceVars
  <1>1. /\ sweep \in [Monitors -> SweepRecs] /\ running \in [Monitors -> BOOLEAN]
        /\ \A n \in Monitors : SweepOK(n)
    BY DEF TypeOK, SweepRecs, SweepOK
  <1>2. /\ sweep' \in [Monitors -> SweepRecs] /\ running' \in [Monitors -> BOOLEAN]
        /\ sweep'[m] = rec /\ running'[m] = (rec.pc # "idle")
        /\ \A n \in Monitors \ {m} : sweep'[n] = sweep[n] /\ running'[n] = running[n]
    BY <1>1
  <1>3. \A n \in Monitors : SweepOK(n)'  BY <1>1, <1>2 DEF SweepOK
  <1>4. TypeOK'  BY <1>2, <1>3 DEF TypeOK, SweepRecs, SweepOK
  <1>5. \A n \in Monitors : sweep[n].bets \subseteq Bets /\ sweep[n].orphans \subseteq Bets
    BY <1>1 DEF SweepRecs, SweepOK
  <1>6. CopiesFollow'  BY DEF CopiesFollow, Follows
  <1>7. ListedWereConfirmed'
    <2> SUFFICES ASSUME NEW n \in Monitors, NEW b \in sweep'[n].bets PROVE status'[b] # "none"
      BY DEF ListedWereConfirmed
    <2>1. b \in Bets /\ status[b] # "none"
      BY <1>2, <1>5 DEF ListedWereConfirmed, SweepRecs
    <2> QED BY <2>1
  <1>8. ASSUME "hyperliquid" \notin Kinds PROVE OrphansWereGone' /\ OnlyOrphansAreClosed'
    <2>1. ASSUME NEW n \in Monitors, NEW b \in sweep'[n].orphans, status'[b] = "confirmed"
          PROVE  b \in gone
      <3>1. b \in Bets  BY <1>2, <1>5 DEF SweepRecs
      <3>2. status[b] = "confirmed"  BY <2>1, <3>1
      <3> QED BY <1>2, <1>8, <3>2 DEF OrphansWereGone
    <2>2. ASSUME NEW b \in Bets, status'[b] = "mirrored" PROVE b \in gone
      BY <1>8, <2>2 DEF OrphansWereGone, OnlyOrphansAreClosed
    <2> QED BY <2>1, <2>2 DEF OrphansWereGone, OnlyOrphansAreClosed
  <1> QED BY <1>4, <1>6, <1>7, <1>8

\* What the invariant says of a monitor before a step.
LEMMA MonitorTypes ==
  ASSUME MirrorInv, NEW m \in Monitors
  PROVE  /\ sweep[m] \in SweepRecs /\ SweepOK(m)
         /\ sweep[m].bets \subseteq Bets /\ \A b \in sweep[m].bets : status[b] # "none"
         /\ "hyperliquid" \notin Kinds =>
               \A b \in sweep[m].orphans : status[b] = "confirmed" => b \in gone
         /\ timers \in [Monitors -> 0..MaxTimers] /\ handle \in [Monitors -> BOOLEAN]
         /\ running \in [Monitors -> BOOLEAN] /\ again \in [Monitors -> BOOLEAN]
         /\ unseen \in BOOLEAN
         /\ status \in [Bets -> {"none", "confirmed", "closed", "mirrored"}]
         /\ running = [running EXCEPT ![m] = (sweep[m].pc # "idle")]
         /\ HandleIsPending /\ NoEventIsLost
         /\ source \in [Bets -> Sources \cup {"none"}]
  BY DEF MirrorInv, TypeOK, SweepRecs, SweepOK, ListedWereConfirmed, OrphansWereGone

LEMMA FireInv ==
  ASSUME MirrorInv, NEW m \in Monitors, Fire(m)
  PROVE  MirrorInv'
  <1> USE MonitorTypes, EmptySweeps
  <1> DEFINE rec == IF running[m] THEN sweep[m] ELSE ToList
  <1>1. /\ rec \in SweepRecs /\ rec.orphans \subseteq rec.bets
        /\ rec.pc # "read" => rec.bets = {}
        /\ \A b \in rec.bets : status[b] # "none"
        /\ "hyperliquid" \notin Kinds =>
              \A b \in rec.orphans : status[b] = "confirmed" => b \in gone
        /\ rec.pc # "idle" /\ (~running[m] => rec.pc = "list")
    BY DEF SweepOK
  <1>2. sweep' = [sweep EXCEPT ![m] = rec]  BY DEF Fire
  <1>3. sweep'[m] = rec /\ \A n \in Monitors \ {m} : sweep'[n] = sweep[n]
    BY <1>1, <1>2 DEF MirrorInv, TypeOK, SweepRecs
  <1> HIDE DEF rec
  <1>4. /\ timers' \in [Monitors -> 0..MaxTimers] /\ handle' \in [Monitors -> BOOLEAN]
        /\ again' \in [Monitors -> BOOLEAN] /\ unseen' \in BOOLEAN
    BY MirrorCloseAssumption DEF Fire, MirrorCloseAssumption
  <1>5. running' = [running EXCEPT ![m] = (rec.pc # "idle")]  BY <1>1 DEF Fire
  <1>6. HandleIsPending'
    <2> SUFFICES ASSUME NEW n \in Monitors, handle'[n] PROVE timers'[n] > 0
      BY DEF HandleIsPending
    <2>1. n # m /\ handle[n]  BY DEF Fire
    <2> QED BY <2>1 DEF Fire, HandleIsPending
  <1>7. NoEventIsLost'
    <2>1. CASE m = "now"  BY <1>1, <1>3, <2>1 DEF Fire, NoEventIsLost
    <2>2. CASE m # "now"
      <3>1. "now" \in Monitors  BY DEF Monitors
      <3>2. timers'["now"] = timers["now"] /\ again'["now"] = again["now"]
            /\ sweep'["now"] = sweep["now"] /\ unseen' = unseen
        BY <1>3, <2>2, <3>1 DEF Fire
      <3> QED BY <3>2 DEF NoEventIsLost
    <2> QED BY <2>1, <2>2
  <1>8. UNCHANGED <<status, sourceVars, socket, source, copied, bid, gone>>
    BY DEF Fire, betVars
  <1> QED BY <1>1, <1>2, <1>4, <1>5, <1>6, <1>7, <1>8, ReconcileStep

LEMMA ListInv ==
  ASSUME MirrorInv, NEW m \in Monitors, List(m)
  PROVE  MirrorInv'
  <1> USE MonitorTypes
  <1> DEFINE rec == [pc |-> "read", bets |-> Confirmed, orphans |-> {},
                     todo |-> {source[b] : b \in Confirmed}]
  <1>1. Confirmed \subseteq Bets /\ {source[b] : b \in Confirmed} \subseteq Sources
        /\ \A b \in Confirmed : status[b] # "none"
    BY DEF MirrorInv, CopiesFollow, Confirmed
  <1>2. /\ rec \in SweepRecs /\ rec.orphans = {} /\ rec.bets = Confirmed /\ rec.pc = "read"
    BY <1>1 DEF SweepRecs
  <1>3. sweep' = [sweep EXCEPT ![m] = rec]  BY DEF List
  <1> HIDE DEF rec
  <1>4. running' = [running EXCEPT ![m] = (rec.pc # "idle")]
    BY <1>2 DEF List, debounceVars, SweepOK
  <1>5. UNCHANGED <<timers, handle, again, status, sourceVars, socket, source, copied, bid, gone>>
    BY DEF List, debounceVars, betVars
  <1>6. unseen' \in BOOLEAN /\ HandleIsPending'
    BY <1>5 DEF List, Looks, HandleIsPending
  <1>7. NoEventIsLost'
    <2>1. CASE m = "now"  BY <2>1 DEF List, Looks, NoEventIsLost
    <2>2. CASE m # "now"
      <3>1. "now" \in Monitors  BY DEF Monitors
      <3>2. sweep'["now"] = sweep["now"] /\ unseen' = unseen
        BY <1>3, <2>2, <3>1 DEF List, Looks, MirrorInv, TypeOK
      <3> QED BY <1>5, <3>2 DEF NoEventIsLost
    <2> QED BY <2>1, <2>2
  <1> QED BY <1>1, <1>2, <1>3, <1>4, <1>5, <1>6, <1>7, ReconcileStep

\* A source is done with, and bets of it were found to be orphans.
LEMMA GoesInv ==
  ASSUME MirrorInv, NEW m \in Monitors, NEW a \in Sources, NEW found \in SUBSET sweep[m].bets,
         Goes(m, a, found),
         "hyperliquid" \notin Kinds => \A b \in found : status[b] = "confirmed" => b \in gone
  PROVE  MirrorInv'
  <1> USE MonitorTypes
  <1> DEFINE rec == [sweep[m] EXCEPT !.todo = @ \ {a}, !.orphans = found]
  <1>1. /\ rec \in SweepRecs /\ rec.orphans = found /\ rec.bets = sweep[m].bets
        /\ rec.pc = "read"
    BY DEF SweepRecs, Goes
  <1>2. sweep' = [sweep EXCEPT ![m] = rec]  BY DEF Goes
  <1> HIDE DEF rec
  <1>3. running' = [running EXCEPT ![m] = (rec.pc # "idle")]
    BY <1>1 DEF Goes, debounceVars, SweepOK
  <1>4. UNCHANGED <<timers, handle, again, unseen, status, sourceVars, socket, source, copied,
                    bid, gone>>
    BY DEF Goes, debounceVars, betVars
  <1>5. HandleIsPending'  BY <1>4 DEF HandleIsPending
  <1>6. sweep'["now"].pc = sweep["now"].pc
    BY <1>1, <1>2 DEF Goes, MirrorInv, TypeOK, Monitors
  <1>7. NoEventIsLost'  BY <1>4, <1>6 DEF NoEventIsLost
  <1>8. /\ rec.orphans \subseteq rec.bets /\ (rec.pc # "read" => rec.bets = {})
        /\ \A b \in rec.bets : status[b] # "none"
        /\ "hyperliquid" \notin Kinds =>
              \A b \in rec.orphans : status[b] = "confirmed" => b \in gone
    BY <1>1
  <1>9. /\ timers' \in [Monitors -> 0..MaxTimers] /\ handle' \in [Monitors -> BOOLEAN]
        /\ again' \in [Monitors -> BOOLEAN] /\ unseen' \in BOOLEAN
        /\ status' \in [Bets -> {"none", "confirmed", "closed", "mirrored"}]
        /\ \A b \in Bets : status'[b] = status[b]
    BY <1>4
  <1> HIDE MonitorTypes
  <1> QED BY <1>1, <1>2, <1>3, <1>4, <1>5, <1>7, <1>8, <1>9, ReconcileStep

LEMMA ReadInv ==
  ASSUME MirrorInv, NEW m \in Monitors, NEW a \in Sources, Read(m, a)
  PROVE  MirrorInv'
  <1> DEFINE found == {b \in BetsOf(m, a) : ~StillOpen(b)}
  <1>1. found \in SUBSET sweep[m].bets  BY DEF BetsOf
  <1>2. ASSUME "hyperliquid" \notin Kinds, NEW b \in found, status[b] = "confirmed"
        PROVE  b \in gone
    <2>1. b \in Bets /\ source[b] = a /\ ~StillOpen(b)  BY MonitorTypes DEF BetsOf
    <2>2. kind[a] # "hyperliquid"  BY <1>2 DEF MirrorInv, TypeOK
    <2> QED BY <1>2, <2>1, <2>2 DEF MirrorInv, CopiesFollow, Follows, StillOpen
  <1>3. Goes(m, a, found)  BY DEF Read
  <1> HIDE DEF found
  <1> QED BY <1>1, <1>2, <1>3, GoesInv

LEMMA ReadFailsInv ==
  ASSUME MirrorInv, NEW m \in Monitors, NEW a \in Sources, ReadFails(m, a)
  PROVE  MirrorInv'
  BY GoesInv DEF ReadFails

\* A follower is closed, or not; either way the sweep is done with it.
LEMMA OrphanDone ==
  ASSUME MirrorInv, NEW m \in Monitors, NEW b \in Bets, CloseFollower(m, b) \/ CloseFails(m, b)
  PROVE  MirrorInv'
  <1> USE MonitorTypes
  <1> DEFINE rec == [sweep[m] EXCEPT !.orphans = @ \ {b}]
  <1>1. /\ rec \in SweepRecs /\ rec.orphans = sweep[m].orphans \ {b}
        /\ rec.bets = sweep[m].bets /\ rec.pc = sweep[m].pc
    BY DEF SweepRecs
  <1>2. sweep' = [sweep EXCEPT ![m] = rec]  BY DEF CloseFollower, CloseFails
  <1> HIDE DEF rec
  <1>3. running' = [running EXCEPT ![m] = (rec.pc # "idle")]
    BY <1>1 DEF CloseFollower, CloseFails, debounceVars
  <1>4. UNCHANGED <<timers, handle, again, unseen, sourceVars, socket, source, copied, bid, gone>>
    BY DEF CloseFollower, CloseFails, debounceVars, betVars
  <1>5. HandleIsPending'  BY <1>4 DEF HandleIsPending
  <1>6. sweep'["now"].pc = sweep["now"].pc  BY <1>1, <1>2 DEF MirrorInv, TypeOK, Monitors
  <1>7. NoEventIsLost'  BY <1>4, <1>6 DEF NoEventIsLost
  <1>8. /\ status' \in [Bets -> {"none", "confirmed", "closed", "mirrored"}]
        /\ \A c \in Bets : \/ status'[c] = status[c]
                           \/ status'[c] = "mirrored" /\ status[c] = "confirmed"
                              /\ c \in sweep[m].orphans
    BY DEF CloseFollower, CloseFails, betVars
  <1>9. /\ rec.orphans \subseteq rec.bets /\ (rec.pc # "read" => rec.bets = {})
        /\ "hyperliquid" \notin Kinds =>
              \A c \in rec.orphans : status[c] = "confirmed" => c \in gone
    BY <1>1 DEF SweepOK
  <1>10. /\ timers' \in [Monitors -> 0..MaxTimers] /\ handle' \in [Monitors -> BOOLEAN]
         /\ again' \in [Monitors -> BOOLEAN] /\ unseen' \in BOOLEAN
         /\ \A c \in rec.bets : status[c] # "none"
    BY <1>1, <1>4
  <1> HIDE MonitorTypes
  <1> QED BY <1>1, <1>2, <1>3, <1>4, <1>5, <1>7, <1>8, <1>9, <1>10, ReconcileStep

\* The end of a reconcile, with or without a look at what was heard.
LEMMA FinallyInv ==
  ASSUME MirrorInv, NEW m \in Monitors, Finally(m),
         \/ Looks(m)
         \/ UNCHANGED unseen /\ sweep[m].pc = "read",
         UNCHANGED <<sourceVars, socket, betVars, gone>>
  PROVE  MirrorInv'
  <1> USE MonitorTypes, EmptySweeps
  <1> DEFINE rec == IF again[m] THEN ToList ELSE NoSweep
  <1>1. /\ rec \in SweepRecs /\ rec.orphans = {} /\ rec.bets = {}
        /\ rec.pc = IF again[m] THEN "list" ELSE "idle"
    OBVIOUS
  <1>2. sweep' = [sweep EXCEPT ![m] = rec]  BY DEF Finally
  <1> HIDE DEF rec
  <1>3. running' = [running EXCEPT ![m] = (rec.pc # "idle")]
    <2>1. again[m] \in BOOLEAN  OBVIOUS
    <2>2. again[m] = (rec.pc # "idle")  BY <1>1, <2>1
    <2> QED BY <2>2 DEF Finally
  <1>4. /\ timers' \in [Monitors -> 0..MaxTimers] /\ handle' \in [Monitors -> BOOLEAN]
        /\ again' \in [Monitors -> BOOLEAN] /\ unseen' \in BOOLEAN
    BY DEF Finally, Looks
  <1>5. HandleIsPending'  BY DEF Finally, HandleIsPending
  <1>6. NoEventIsLost'
    <2>1. "now" \in Monitors  BY DEF Monitors
    <2>2. CASE m = "now"
      <3>1. sweep'["now"].pc = IF again["now"] THEN "list" ELSE "idle"
        BY <1>1, <1>2, <2>2 DEF MirrorInv, TypeOK
      <3>2. unseen' => unseen /\ sweep["now"].pc = "read"  BY <2>2 DEF Looks
      <3> QED BY <3>1, <3>2 DEF Finally, NoEventIsLost
    <2>3. CASE m # "now"
      <3>1. /\ sweep'["now"] = sweep["now"] /\ again'["now"] = again["now"]
            /\ timers' = timers /\ unseen' = unseen
        BY <1>2, <2>1, <2>3 DEF Finally, Looks, MirrorInv, TypeOK
      <3> QED BY <3>1 DEF NoEventIsLost
    <2> QED BY <2>2, <2>3
  <1>7. UNCHANGED <<status, sourceVars, socket, source, copied, bid, gone>>  BY DEF betVars
  <1> QED BY <1>1, <1>2, <1>3, <1>4, <1>5, <1>6, <1>7, ReconcileStep

LEMMA OpenPositionInv ==
  ASSUME MirrorInv, NEW a \in Sources, OpenPosition(a)
  PROVE  MirrorInv'
  <1> USE MirrorCloseAssumption
          DEF MirrorCloseAssumption, MirrorInv, TypeOK, OpenPosition, Event, Trigger,
              sourceVars, betVars, debounceVars
  <1>1. TypeOK'
    <2>1. open' \in [Sources -> BOOLEAN]  OBVIOUS
    <2>2. opened' \in [Sources -> 0..MaxOpens]  OBVIOUS
    <2>3. \A x \in Sources : open'[x] => opened'[x] > 0  OBVIOUS
    <2>4. price' \in [Sources -> Prices]  OBVIOUS
    <2>5. timers' \in [Monitors -> 0..MaxTimers]  BY DEF Monitors
    <2>6. /\ handle' \in [Monitors -> BOOLEAN] /\ again' \in [Monitors -> BOOLEAN]
          /\ unseen' \in BOOLEAN
      OBVIOUS
    <2> QED BY <2>1, <2>2, <2>3, <2>4, <2>5, <2>6
  <1>2. CopiesFollow'  BY DEF CopiesFollow, Follows
  <1>3. ListedWereConfirmed'  BY DEF ListedWereConfirmed
  <1>4. ASSUME "hyperliquid" \notin Kinds PROVE OrphansWereGone' /\ OnlyOrphansAreClosed'
    BY <1>4 DEF OrphansWereGone, OnlyOrphansAreClosed, ListedWereConfirmed
  <1>5. HandleIsPending' /\ NoEventIsLost'  BY DEF HandleIsPending, NoEventIsLost, Monitors
  <1> QED BY <1>1, <1>2, <1>3, <1>4, <1>5

LEMMA GrowPositionInv ==
  ASSUME MirrorInv, NEW a \in Sources, GrowPosition(a)
  PROVE  MirrorInv'
  <1> USE MirrorCloseAssumption
          DEF MirrorCloseAssumption, MirrorInv, TypeOK, GrowPosition, Event, Trigger,
              sourceVars, betVars, debounceVars
  <1>1. TypeOK'
    <2>1. price' \in [Sources -> Prices]  OBVIOUS
    <2>2. timers' \in [Monitors -> 0..MaxTimers]  BY DEF Monitors
    <2>3. /\ handle' \in [Monitors -> BOOLEAN] /\ again' \in [Monitors -> BOOLEAN]
          /\ unseen' \in BOOLEAN
      OBVIOUS
    <2> QED BY <2>1, <2>2, <2>3
  <1>2. CopiesFollow'  BY DEF CopiesFollow, Follows
  <1>3. ListedWereConfirmed'  BY DEF ListedWereConfirmed
  <1>4. ASSUME "hyperliquid" \notin Kinds PROVE OrphansWereGone' /\ OnlyOrphansAreClosed'
    BY <1>4 DEF OrphansWereGone, OnlyOrphansAreClosed, ListedWereConfirmed
  <1>5. HandleIsPending' /\ NoEventIsLost'  BY DEF HandleIsPending, NoEventIsLost, Monitors
  <1> QED BY <1>1, <1>2, <1>3, <1>4, <1>5

LEMMA ClosePositionInv ==
  ASSUME MirrorInv, NEW a \in Sources, ClosePosition(a)
  PROVE  MirrorInv'
  <1> USE MirrorCloseAssumption
          DEF MirrorCloseAssumption, MirrorInv, TypeOK, ClosePosition, Event, Trigger,
              Confirmed, sourceVars, betVars, debounceVars
  <1>1. TypeOK'
    <2>1. open' \in [Sources -> BOOLEAN]  OBVIOUS
    <2>2. \A x \in Sources : open'[x] => opened'[x] > 0  OBVIOUS
    <2>3. gone' \subseteq Bets  OBVIOUS
    <2>4. timers' \in [Monitors -> 0..MaxTimers]  BY DEF Monitors
    <2>5. /\ handle' \in [Monitors -> BOOLEAN] /\ again' \in [Monitors -> BOOLEAN]
          /\ unseen' \in BOOLEAN
      OBVIOUS
    <2> QED BY <2>1, <2>2, <2>3, <2>4, <2>5
  <1>2. CopiesFollow'  BY DEF CopiesFollow, Follows
  <1>3. ListedWereConfirmed'  BY DEF ListedWereConfirmed
  <1>4. ASSUME "hyperliquid" \notin Kinds PROVE OrphansWereGone' /\ OnlyOrphansAreClosed'
    BY <1>4 DEF OrphansWereGone, OnlyOrphansAreClosed, ListedWereConfirmed
  <1>5. HandleIsPending' /\ NoEventIsLost'  BY DEF HandleIsPending, NoEventIsLost, Monitors
  <1> QED BY <1>1, <1>2, <1>3, <1>4, <1>5

LEMMA OtherEventInv ==
  ASSUME MirrorInv, OtherEvent
  PROVE  MirrorInv'
  <1> USE MirrorCloseAssumption
          DEF MirrorCloseAssumption, MirrorInv, TypeOK, OtherEvent, Trigger,
              sourceVars, betVars, debounceVars
  <1>1. TypeOK'
    <2>1. timers' \in [Monitors -> 0..MaxTimers]  BY DEF Monitors
    <2>2. /\ handle' \in [Monitors -> BOOLEAN] /\ again' \in [Monitors -> BOOLEAN]
          /\ unseen' \in BOOLEAN
      OBVIOUS
    <2> QED BY <2>1, <2>2
  <1>2. CopiesFollow'  BY DEF CopiesFollow, Follows
  <1>3. ListedWereConfirmed'  BY DEF ListedWereConfirmed
  <1>4. ASSUME "hyperliquid" \notin Kinds PROVE OrphansWereGone' /\ OnlyOrphansAreClosed'
    BY <1>4 DEF OrphansWereGone, OnlyOrphansAreClosed, ListedWereConfirmed
  <1>5. HandleIsPending' /\ NoEventIsLost'  BY DEF HandleIsPending, NoEventIsLost, Monitors
  <1> QED BY <1>1, <1>2, <1>3, <1>4, <1>5

LEMMA SocketClosesInv ==
  ASSUME MirrorInv, NEW a \in Sources, SocketCloses(a)
  PROVE  MirrorInv'
  <1> USE MirrorCloseAssumption
          DEF MirrorCloseAssumption, MirrorInv, TypeOK, SocketCloses,
              sourceVars, betVars, debounceVars
  <1>1. TypeOK'  OBVIOUS
  <1>2. CopiesFollow'  BY DEF CopiesFollow, Follows
  <1>3. ListedWereConfirmed'  BY DEF ListedWereConfirmed
  <1>4. ASSUME "hyperliquid" \notin Kinds PROVE OrphansWereGone' /\ OnlyOrphansAreClosed'
    BY <1>4 DEF OrphansWereGone, OnlyOrphansAreClosed, ListedWereConfirmed
  <1>5. HandleIsPending' /\ NoEventIsLost'  BY DEF HandleIsPending, NoEventIsLost, Monitors
  <1> QED BY <1>1, <1>2, <1>3, <1>4, <1>5

LEMMA SocketOpensInv ==
  ASSUME MirrorInv, NEW a \in Sources, SocketOpens(a)
  PROVE  MirrorInv'
  <1> USE MirrorCloseAssumption
          DEF MirrorCloseAssumption, MirrorInv, TypeOK, SocketOpens, Trigger,
              sourceVars, betVars, debounceVars
  <1>1. TypeOK'
    <2>1. socket' \in [Sources -> BOOLEAN]  OBVIOUS
    <2>2. timers' \in [Monitors -> 0..MaxTimers]  BY DEF Monitors
    <2>3. /\ handle' \in [Monitors -> BOOLEAN] /\ again' \in [Monitors -> BOOLEAN]
          /\ unseen' \in BOOLEAN
      OBVIOUS
    <2> QED BY <2>1, <2>2, <2>3
  <1>2. CopiesFollow'  BY DEF CopiesFollow, Follows
  <1>3. ListedWereConfirmed'  BY DEF ListedWereConfirmed
  <1>4. ASSUME "hyperliquid" \notin Kinds PROVE OrphansWereGone' /\ OnlyOrphansAreClosed'
    BY <1>4 DEF OrphansWereGone, OnlyOrphansAreClosed, ListedWereConfirmed
  <1>5. HandleIsPending' /\ NoEventIsLost'  BY DEF HandleIsPending, NoEventIsLost, Monitors
  <1> QED BY <1>1, <1>2, <1>3, <1>4, <1>5

LEMMA UserClosesInv ==
  ASSUME MirrorInv, NEW b \in Bets, UserCloses(b)
  PROVE  MirrorInv'
  <1> USE MirrorCloseAssumption
          DEF MirrorCloseAssumption, MirrorInv, TypeOK, UserCloses,
              sourceVars, betVars, debounceVars
  <1>1. TypeOK'  OBVIOUS
  <1>2. CopiesFollow'  BY DEF CopiesFollow, Follows
  <1>3. ListedWereConfirmed'  BY DEF ListedWereConfirmed
  <1>4. ASSUME "hyperliquid" \notin Kinds PROVE OrphansWereGone' /\ OnlyOrphansAreClosed'
    BY <1>4 DEF OrphansWereGone, OnlyOrphansAreClosed, ListedWereConfirmed
  <1>5. HandleIsPending' /\ NoEventIsLost'  BY DEF HandleIsPending, NoEventIsLost, Monitors
  <1> QED BY <1>1, <1>2, <1>3, <1>4, <1>5

\* What is shifted keeps its type.
LEMMA ShiftTypes ==
  ASSUME NEW S, NEW f \in [Monitors -> S], NEW idle \in S
  PROVE  /\ NowIs(f, idle) \in [Monitors -> S] /\ NowWas(f, idle) \in [Monitors -> S]
         /\ [m \in Monitors |-> idle] \in [Monitors -> S]
  BY DEF NowIs, NowWas, Monitors

\* A new monitor: it starts with nothing; the one stopped takes along what it had begun.
LEMMA MonitorGoesInv ==
  ASSUME MirrorInv, StopMonitor \/ MonitorDies
  PROVE  MirrorInv'
  <1> DEFINE Starts(n) == /\ sweep'[n] = NoSweep /\ ~running'[n] /\ ~handle'[n]
             Keeps(n, k) == /\ sweep'[n] = sweep[k] /\ running'[n] = running[k]
                            /\ timers'[n] = timers[k] /\ (handle'[n] => handle[k])
  <1>1. /\ sweep \in [Monitors -> SweepRecs] /\ running \in [Monitors -> BOOLEAN]
        /\ timers \in [Monitors -> 0..MaxTimers] /\ handle \in [Monitors -> BOOLEAN]
        /\ again \in [Monitors -> BOOLEAN] /\ \A n \in Monitors : SweepOK(n)
    BY DEF MirrorInv, TypeOK, SweepRecs, SweepOK
  <1>2. /\ sweep' \in [Monitors -> SweepRecs] /\ running' \in [Monitors -> BOOLEAN]
        /\ handle' \in [Monitors -> BOOLEAN] /\ again' \in [Monitors -> BOOLEAN]
    <2>1. NowIs(sweep, NoSweep) \in [Monitors -> SweepRecs]
          /\ NowWas(sweep, NoSweep) \in [Monitors -> SweepRecs]
      BY <1>1, EmptySweeps, ShiftTypes
    <2>2. \A f \in [Monitors -> BOOLEAN] :
            NowIs(f, FALSE) \in [Monitors -> BOOLEAN] /\ NowWas(f, FALSE) \in [Monitors -> BOOLEAN]
      BY ShiftTypes
    <2>3. [m \in Monitors |-> FALSE] \in [Monitors -> BOOLEAN]  OBVIOUS
    <2> QED BY <1>1, <2>1, <2>2, <2>3 DEF StopMonitor, MonitorDies
  <1>3. timers' \in [Monitors -> 0..MaxTimers]
    <2>1. 0 \in 0..MaxTimers  BY MirrorCloseAssumption DEF MirrorCloseAssumption
    <2>2. NowIs(timers, 0) \in [Monitors -> 0..MaxTimers]
          /\ NowWas(timers, 0) \in [Monitors -> 0..MaxTimers]
      BY <1>1, <2>1, ShiftTypes
    <2> QED BY <2>2 DEF StopMonitor, MonitorDies
  <1>4. \A n \in Monitors : Starts(n) \/ \E k \in Monitors : Keeps(n, k)
    <2>1. CASE StopMonitor
      <3>1. Starts("now") /\ Keeps("old", "now")
        BY <2>1, <1>1 DEF StopMonitor, NowWas, Monitors
      <3> QED BY <3>1 DEF Monitors
    <2>2. CASE MonitorDies
      <3>1. Starts("now") /\ Keeps("old", "old")
        BY <2>2, <1>1 DEF MonitorDies, NowIs, Monitors
      <3> QED BY <3>1 DEF Monitors
    <2> QED BY <2>1, <2>2
  <1>5. /\ unseen' = FALSE /\ socket' \in [Sources -> BOOLEAN]
        /\ UNCHANGED <<sourceVars, betVars, gone>>
    BY DEF StopMonitor, MonitorDies
  <1> HIDE DEF Starts, Keeps
  <1>6. \A n \in Monitors : SweepOK(n)'
    BY <1>1, <1>2, <1>4, EmptySweeps DEF Starts, Keeps, SweepOK
  <1>7. TypeOK'
    BY <1>2, <1>3, <1>5, <1>6 DEF MirrorInv, TypeOK, SweepRecs, SweepOK, sourceVars, betVars
  <1>8. CopiesFollow'  BY <1>5 DEF MirrorInv, CopiesFollow, Follows, sourceVars, betVars
  <1>9. ListedWereConfirmed'
    BY <1>4, <1>5, EmptySweeps DEF MirrorInv, ListedWereConfirmed, Starts, Keeps, betVars
  <1>10. ASSUME "hyperliquid" \notin Kinds PROVE OrphansWereGone' /\ OnlyOrphansAreClosed'
    BY <1>4, <1>5, <1>10, EmptySweeps
    DEF MirrorInv, OrphansWereGone, OnlyOrphansAreClosed, Starts, Keeps, betVars
  <1>11. HandleIsPending'  BY <1>4 DEF MirrorInv, HandleIsPending, Starts, Keeps
  <1>12. NoEventIsLost'  BY <1>5 DEF NoEventIsLost
  <1> QED BY <1>7, <1>8, <1>9, <1>10, <1>11, <1>12 DEF MirrorInv

LEMMA CopyInv ==
  ASSUME MirrorInv, NEW a \in Sources, NEW b \in Bets, Copy(b, a)
  PROVE  MirrorInv'
  <1>a. opened[a] \in 0..MaxOpens /\ MaxOpens \in Nat
    BY MirrorCloseAssumption DEF MirrorInv, TypeOK, MirrorCloseAssumption
  <1>b. PICK t \in 1..opened[a] :
           /\ copied' = [copied EXCEPT ![b] = t]
           /\ IF kind[a] = "leader" THEN open[a] /\ t = opened[a] /\ bid' = bid
                                   ELSE bid' = [bid EXCEPT ![b] = ByTime(t)]
           /\ gone' = IF open[a] /\ opened[a] = t THEN gone ELSE gone \cup {b}
    BY DEF Copy
  <1>c. t \in 1..MaxOpens  BY <1>a, <1>b
  <1>1. /\ t \in 0..MaxOpens /\ copied' = [copied EXCEPT ![b] = t]
        /\ kind[a] = "leader" => open[a] /\ t = opened[a] /\ bid' = bid
        /\ kind[a] # "leader" => bid' = [bid EXCEPT ![b] = ByTime(t)] /\ ByTime(t) \in Ids
    BY <1>a, <1>b, <1>c DEF Ids
  <1> USE MirrorCloseAssumption
          DEF MirrorCloseAssumption, MirrorInv, TypeOK, Copy,
              sourceVars, betVars, debounceVars
  <1>2. copied'[b] = t  BY <1>1
  <1>3. TypeOK'
    <2>1. copied' \in [Bets -> 0..MaxOpens] /\ bid' \in [Bets -> Ids]  BY <1>1
    <2>2. gone' \subseteq Bets  OBVIOUS
    <2>3. /\ status' \in [Bets -> {"none", "confirmed", "closed", "mirrored"}]
          /\ source' \in [Bets -> Sources \cup {"none"}]
      OBVIOUS
    <2> QED BY <2>1, <2>2, <2>3
  <1>4. CopiesFollow'
    <2> SUFFICES ASSUME NEW c \in Bets, status'[c] = "confirmed", c \notin gone'
                 PROVE  source'[c] \in Sources /\ Follows(c)'
      BY <1>3 DEF CopiesFollow
    <2>1. CASE c = b
      <3>1. source'[b] = a /\ open[a] /\ opened[a] = t  BY <1>b, <2>1
      <3>2. kind[a] = "pacifica" => bid'[b] = ByTime(t)  BY <1>1
      <3> QED BY <1>2, <2>1, <3>1, <3>2 DEF Follows
    <2>2. CASE c # b
      BY <1>1, <2>2 DEF CopiesFollow, Follows
    <2> QED BY <2>1, <2>2
  <1>5. ListedWereConfirmed'  BY DEF ListedWereConfirmed
  <1>6. ASSUME "hyperliquid" \notin Kinds PROVE OrphansWereGone' /\ OnlyOrphansAreClosed'
    BY <1>6 DEF OrphansWereGone, OnlyOrphansAreClosed, ListedWereConfirmed
  <1>7. HandleIsPending' /\ NoEventIsLost'  BY DEF HandleIsPending, NoEventIsLost, Monitors
  <1> QED BY <1>3, <1>4, <1>5, <1>6, <1>7

LEMMA StepInv == MirrorInv /\ [Next]_vars => MirrorInv'
  <1>1. ASSUME MirrorInv, UNCHANGED vars PROVE MirrorInv'
    BY <1>1 DEF MirrorInv, vars, sourceVars, betVars, debounceVars, TypeOK, CopiesFollow,
       Follows, ListedWereConfirmed, OrphansWereGone, OnlyOrphansAreClosed,
       HandleIsPending, NoEventIsLost
  <1>2. ASSUME MirrorInv, NEW m \in Monitors, SweepThrows(m) \/ EndSweep(m) PROVE MirrorInv'
    BY <1>2, FinallyInv DEF SweepThrows, EndSweep
  <1> QED BY <1>1, <1>2, NextCases, FireInv, ListInv, ReadInv, ReadFailsInv, OrphanDone,
         OpenPositionInv, GrowPositionInv, ClosePositionInv, OtherEventInv, SocketClosesInv,
         SocketOpensInv, UserClosesInv, MonitorGoesInv, CopyInv

\* The inductive invariant of the monitor and the mirror sweep
\* (lib/whales/source-monitor.ts, lib/bets/mirror-close.ts).
THEOREM InductiveInvariant == Spec => []MirrorInv
  BY InitInv, StepInv, PTL DEF Spec

\* Every behaviour of sources, monitor and sweep is type correct.
THEOREM TypeCorrect == Spec => []TypeOK
  BY InductiveInvariant, PTL DEF MirrorInv

\* No event is forgotten before a sweep has begun after it, whatever the kinds of the
\* sources: timeouts that are forgotten fire, a sweep that is disturbed runs again.
THEOREM EventsAreHeard == Spec => []NoEventIsLost
  BY InductiveInvariant, PTL DEF MirrorInv

\* The sweep closes only bets whose copied position was gone, where ids are formed by
\* the open time on both sides: for Pacifica whales, leaders and bots.
THEOREM ClosesOrphansOnly ==
  ASSUME "hyperliquid" \notin Kinds
  PROVE  Spec => []OnlyOrphansAreClosed
  <1>1. MirrorInv => OnlyOrphansAreClosed  BY DEF MirrorInv
  <1> QED BY <1>1, InductiveInvariant, PTL
=============================================================================
