----------------------------- MODULE ArenaBot_proofs -----------------------------
(***************************************************************************)
(* Proofs about ArenaBot, for any markets, prices, gaps between prints,    *)
(* and parameters that init_config and init_bot accept.                    *)
(***************************************************************************)
EXTENDS ArenaBot, FiniteSetTheorems, WellFoundedInduction, TLAPS

-----------------------------------------------------------------------------
(* Finite sets.                                                            *)

\* Of the subsets of a finite set that are bad, one has no smaller bad one.
LEMMA SmallestSubset ==
  ASSUME NEW S, IsFiniteSet(S), NEW bad \in SUBSET SUBSET S, bad # {}
  PROVE  \E T \in bad : \A U \in SUBSET T : U # T => U \notin bad
  <1>1. IsWellFoundedOn(StrictSubsetOrdering(S), SUBSET S)
    BY FS_StrictSubsetOrderingWellFounded, FS_FiniteSubsetsOfFinite
  <1>2. PICK T \in bad : \A U \in bad : <<U, T>> \notin StrictSubsetOrdering(S)
    BY <1>1, WFMin
  <1>3. ASSUME NEW U \in SUBSET T, U # T, U \in bad PROVE FALSE
    <2>1. <<U, T>> \in StrictSubsetOrdering(S)
      BY <1>3 DEF StrictSubsetOrdering
    <2> QED BY <1>2, <1>3, <2>1
  <1> QED BY <1>2, <1>3

\* Min of a finite set of integers is one of them, and the least.
LEMMA LeastElement ==
  ASSUME NEW S \in SUBSET Int, IsFiniteSet(S), S # {}
  PROVE  Min(S) \in S /\ \A y \in S : Min(S) <= y
  <1> DEFINE Upto(x) == {y \in S : y <= x}
             bad == {T \in SUBSET S : \E x \in S : T = Upto(x)}
  <1>1. bad \in SUBSET SUBSET S /\ bad # {}
    <2>1. PICK x \in S : TRUE  OBVIOUS
    <2>2. Upto(x) \in bad  BY <2>1
    <2> QED BY <2>2
  <1>2. PICK T \in bad : \A U \in SUBSET T : U # T => U \notin bad
    <2> HIDE DEF bad
    <2> QED BY <1>1, SmallestSubset
  <1>3. PICK x \in S : T = Upto(x)  BY <1>2
  <1>4. ASSUME NEW y \in S PROVE x <= y
    <2> SUFFICES ASSUME y < x PROVE FALSE
      OBVIOUS
    <2>0. ASSUME NEW z \in Upto(y) PROVE z \in T
      <3>1. z \in S /\ z <= y /\ z \in Int /\ y \in Int /\ x \in Int  BY <1>3, <2>0
      <3>2. z <= x  BY <3>1
      <3> QED BY <1>3, <3>1, <3>2
    <2>1. Upto(y) \in SUBSET T  BY <2>0
    <2>2. x \in T /\ x \notin Upto(y)  BY <1>3
    <2>3. Upto(y) \in bad  OBVIOUS
    <2> QED BY <1>2, <2>1, <2>2, <2>3
  <1> QED BY <1>3, <1>4 DEF Min

\* Max of a finite set of integers is one of them, and the greatest.
LEMMA GreatestElement ==
  ASSUME NEW S \in SUBSET Int, IsFiniteSet(S), S # {}
  PROVE  Max(S) \in S /\ \A y \in S : y <= Max(S)
  <1> DEFINE From(x) == {y \in S : y >= x}
             bad == {T \in SUBSET S : \E x \in S : T = From(x)}
  <1>1. bad \in SUBSET SUBSET S /\ bad # {}
    <2>1. PICK x \in S : TRUE  OBVIOUS
    <2>2. From(x) \in bad  BY <2>1
    <2> QED BY <2>2
  <1>2. PICK T \in bad : \A U \in SUBSET T : U # T => U \notin bad
    <2> HIDE DEF bad
    <2> QED BY <1>1, SmallestSubset
  <1>3. PICK x \in S : T = From(x)  BY <1>2
  <1>4. ASSUME NEW y \in S PROVE x >= y
    <2> SUFFICES ASSUME y > x PROVE FALSE
      OBVIOUS
    <2>0. ASSUME NEW z \in From(y) PROVE z \in T
      <3>1. z \in S /\ z >= y /\ z \in Int /\ y \in Int /\ x \in Int  BY <1>3, <2>0
      <3>2. z >= x  BY <3>1
      <3> QED BY <1>3, <3>1, <3>2
    <2>1. From(y) \in SUBSET T  BY <2>0
    <2>2. x \in T /\ x \notin From(y)  BY <1>3
    <2>3. From(y) \in bad  OBVIOUS
    <2> QED BY <1>2, <2>1, <2>2, <2>3
  <1>5. \E z \in S : \A y \in S : z >= y  BY <1>4
  <1>6. Max(S) \in S /\ \A y \in S : Max(S) >= y  BY <1>5 DEF Max
  <1> QED BY <1>6

-----------------------------------------------------------------------------
(* Numbers.                                                                *)

\* The larger and the smaller of two.
LEMMA MaxOfTwo ==
  ASSUME NEW a \in Int, NEW b \in Int
  PROVE  Max({a, b}) = IF a >= b THEN a ELSE b
  BY DEF Max

LEMMA MinOfTwo ==
  ASSUME NEW a \in Int, NEW b \in Int
  PROVE  Min({a, b}) = IF a <= b THEN a ELSE b
  BY DEF Min

\* Max is the element that is not below any other, and so for Min.
LEMMA MaxIs ==
  ASSUME NEW S \in SUBSET Int, NEW x \in S, \A y \in S : y <= x
  PROVE  Max(S) = x
  <1>1. \E z \in S : \A y \in S : z >= y  OBVIOUS
  <1>2. Max(S) \in S /\ \A y \in S : Max(S) >= y  BY <1>1 DEF Max
  <1>3. Max(S) \in Int /\ x \in Int /\ Max(S) >= x /\ Max(S) <= x  BY <1>2
  <1> QED BY <1>3

LEMMA MinIs ==
  ASSUME NEW S \in SUBSET Int, NEW x \in S, \A y \in S : x <= y
  PROVE  Min(S) = x
  <1>1. \E z \in S : \A y \in S : z <= y  OBVIOUS
  <1>2. Min(S) \in S /\ \A y \in S : Min(S) <= y  BY <1>1 DEF Min
  <1>3. Min(S) \in Int /\ x \in Int /\ Min(S) <= x /\ Min(S) >= x  BY <1>2
  <1> QED BY <1>3

\* What division returns.
LEMMA DivSpec ==
  ASSUME NEW a \in Int, NEW d \in Nat \ {0}
  PROVE  /\ a \div d \in Int /\ a % d \in 0..(d - 1)
         /\ a = d * (a \div d) + (a % d)
  OBVIOUS

LEMMA DivNat == ASSUME NEW a \in Nat, NEW d \in Nat \ {0} PROVE a \div d \in Nat
  <1> DEFINE q == a \div d  r == a % d
  <1>1. q \in Int /\ r \in 0..(d - 1) /\ a = d * q + r  BY DivSpec
  <1> HIDE DEF q, r
  <1>2. ASSUME q < 0 PROVE FALSE
    <2>1. d * q <= -d  BY <1>1, <1>2
    <2> QED BY <1>1, <2>1
  <1>3. q \in Nat  BY <1>1, <1>2
  <1> QED BY <1>3 DEF q

LEMMA TimesNat == ASSUME NEW a \in Nat, NEW b \in Nat PROVE a * b \in Nat
  OBVIOUS

LEMMA MulDivNat ==
  ASSUME NEW a \in Nat, NEW n \in Nat, NEW d \in Nat \ {0}
  PROVE  MulDiv(a, n, d) \in Nat
  BY TimesNat, DivNat DEF MulDiv

\* A proper fraction of a positive amount is below it.
LEMMA MulDivBelow ==
  ASSUME NEW a \in Nat \ {0}, NEW d \in Nat \ {0}, NEW n \in 0..(d - 1)
  PROVE  MulDiv(a, n, d) < a
  <1> DEFINE q == MulDiv(a, n, d)
             r == (a * n) % d
  <1>1. q \in Nat /\ a * n \in Nat  BY MulDivNat, TimesNat
  <1>2. a * n = d * q + r /\ r \in 0..(d - 1)  BY <1>1, DivSpec DEF MulDiv
  <1> HIDE DEF q, r
  <1>3. a * n <= a * d - a
    <2>1. a * n <= a * (d - 1)  OBVIOUS
    <2>2. a * (d - 1) = a * d - a  OBVIOUS
    <2> QED BY <2>1, <2>2
  <1>4. ASSUME q >= a PROVE FALSE
    <2>1. d * q >= d * a /\ d * a = a * d  BY <1>1, <1>4
    <2>2. d * q \in Int /\ a * d \in Int  BY <1>1
    <2> QED BY <1>1, <1>2, <1>3, <2>1, <2>2
  <1>5. q < a  BY <1>1, <1>4
  <1> QED BY <1>5 DEF q

-----------------------------------------------------------------------------
(* What the helpers of the account return.                                 *)

LEMMA HaircutType ==
  ASSUME NEW mark \in Nat \ {0}, NEW up \in BOOLEAN
  PROVE  Haircut(mark, up) \in Nat \ {0}
  <1>1. MulDiv(mark, SpreadBps, BPS) \in Nat /\ MulDiv(mark, SpreadBps, BPS) < mark
    BY MulDivNat, MulDivBelow, ArenaBotAssumption DEF ArenaBotAssumption
  <1> QED BY <1>1 DEF Haircut

LEMMA FeeType == ASSUME NEW stake \in Nat PROVE Fee(stake) \in Nat
  BY TimesNat, MulDivNat, ArenaBotAssumption DEF Fee, ArenaBotAssumption

LEMMA NewPositionType ==
  ASSUME NEW m \in Markets, NEW side \in Sides, NEW price \in Nat \ {0}, NEW stake \in Nat,
         NEW ts \in Nat
  PROVE  LET p == NewPosition(m, side, price, stake, ts)
         IN  p \in Position /\ p.stake = stake /\ p.market = m /\ p.since = ts /\ p.ticks = 0
  <1> DEFINE long == side = "long"
             entry == Haircut(price, long)
             margin == MulDiv(entry, BPS - MaintBufferBps, Leverage * BPS)
             liq == IF long THEN Max({0, entry - margin}) ELSE entry + margin
  <1>1. entry \in Nat \ {0}  BY HaircutType
  <1>2. BPS - MaintBufferBps \in Nat /\ Leverage * BPS \in Nat \ {0}
    BY ArenaBotAssumption DEF ArenaBotAssumption
  <1> HIDE DEF entry
  <1>3. margin \in Nat  BY <1>1, <1>2, MulDivNat
  <1> HIDE DEF margin
  <1>4. liq \in Nat
    <2>1. entry - margin \in Int  BY <1>1, <1>3
    <2>2. Max({0, entry - margin}) \in Nat  BY <2>1, MaxOfTwo
    <2> QED BY <1>1, <1>3, <2>2
  <1>5. NewPosition(m, side, price, stake, ts) =
          [market |-> m, long |-> long, entry |-> entry, stake |-> stake, ticks |-> 0,
           since |-> ts, liq |-> liq]
    BY DEF NewPosition, entry, margin
  <1> HIDE DEF liq
  <1> QED BY <1>1, <1>4, <1>5 DEF Position

-----------------------------------------------------------------------------
(* What a step of the program does to the account.                         *)

Bots == [balance : Nat, pnl : Int, spent : Nat, slots : [Slots -> Position \cup {Free}]]

Good(b) == b \in Bots /\ b.balance + Locked(b) = StartBalance + b.pnl - b.spent

LEMMA StakeType == ASSUME NEW p \in Position \cup {Free} PROVE Stake(p) \in Nat
  BY DEF Stake, Position

LEMMA LockedType == ASSUME NEW b \in Bots PROVE Locked(b) \in Nat
  <1>1. \A s \in Slots : Stake(b.slots[s]) \in Nat  BY StakeType DEF Bots
  <1> QED BY <1>1 DEF Locked, Slots

\* Replacing what one slot holds changes the locked stakes by the difference.
LEMMA LockedSwap ==
  ASSUME NEW b \in Bots, NEW s \in Slots, NEW p \in Position \cup {Free}, NEW c \in Bots,
         c.slots = [b.slots EXCEPT ![s] = p]
  PROVE  Locked(c) = Locked(b) - Stake(b.slots[s]) + Stake(p)
  <1>1. \A t \in Slots : Stake(b.slots[t]) \in Nat  BY StakeType DEF Bots
  <1>2. Stake(p) \in Nat  BY StakeType
  <1>3. \A t \in Slots : c.slots[t] = IF t = s THEN p ELSE b.slots[t]  BY DEF Bots
  <1>4. \A t \in Slots : Stake(c.slots[t]) = IF t = s THEN Stake(p) ELSE Stake(b.slots[t])
    BY <1>3
  <1>5. s = 1 \/ s = 2 \/ s = 3 \/ s = 4  BY DEF Slots
  <1>6. 1 \in Slots /\ 2 \in Slots /\ 3 \in Slots /\ 4 \in Slots  BY DEF Slots
  <1>7. /\ Stake(b.slots[1]) \in Nat /\ Stake(b.slots[2]) \in Nat
        /\ Stake(b.slots[3]) \in Nat /\ Stake(b.slots[4]) \in Nat
    BY <1>1, <1>6
  <1>8. CASE s = 1
    <2>1. /\ Stake(c.slots[1]) = Stake(p) /\ Stake(c.slots[2]) = Stake(b.slots[2])
          /\ Stake(c.slots[3]) = Stake(b.slots[3]) /\ Stake(c.slots[4]) = Stake(b.slots[4])
      BY <1>4, <1>6, <1>8
    <2> QED BY <1>2, <1>7, <1>8, <2>1 DEF Locked
  <1>9. CASE s = 2
    <2>1. /\ Stake(c.slots[1]) = Stake(b.slots[1]) /\ Stake(c.slots[2]) = Stake(p)
          /\ Stake(c.slots[3]) = Stake(b.slots[3]) /\ Stake(c.slots[4]) = Stake(b.slots[4])
      BY <1>4, <1>6, <1>9
    <2> QED BY <1>2, <1>7, <1>9, <2>1 DEF Locked
  <1>10. CASE s = 3
    <2>1. /\ Stake(c.slots[1]) = Stake(b.slots[1]) /\ Stake(c.slots[2]) = Stake(b.slots[2])
          /\ Stake(c.slots[3]) = Stake(p) /\ Stake(c.slots[4]) = Stake(b.slots[4])
      BY <1>4, <1>6, <1>10
    <2> QED BY <1>2, <1>7, <1>10, <2>1 DEF Locked
  <1>11. CASE s = 4
    <2>1. /\ Stake(c.slots[1]) = Stake(b.slots[1]) /\ Stake(c.slots[2]) = Stake(b.slots[2])
          /\ Stake(c.slots[3]) = Stake(b.slots[3]) /\ Stake(c.slots[4]) = Stake(p)
      BY <1>4, <1>6, <1>11
    <2> QED BY <1>2, <1>7, <1>11, <2>1 DEF Locked
  <1> QED BY <1>5, <1>8, <1>9, <1>10, <1>11

\* Moving money between cash, stakes, results and fees keeps the books, if what
\* moves adds up.
LEMMA BooksKept ==
  ASSUME NEW b, Good(b), NEW c \in Bots, NEW s \in Slots, NEW p \in Position \cup {Free},
         c.slots = [b.slots EXCEPT ![s] = p],
         (c.balance - b.balance) + (Stake(p) - Stake(b.slots[s]))
            = (c.pnl - b.pnl) - (c.spent - b.spent)
  PROVE  Good(c)
  <1>1. b \in Bots /\ b.slots[s] \in Position \cup {Free}  BY DEF Good, Bots
  <1>2. Locked(c) = Locked(b) - Stake(b.slots[s]) + Stake(p)  BY <1>1, LockedSwap
  <1>3. Stake(b.slots[s]) \in Nat /\ Stake(p) \in Nat  BY <1>1, StakeType
  <1>4. Locked(b) \in Nat  BY <1>1, LockedType
  <1>5. /\ b.balance \in Int /\ b.pnl \in Int /\ b.spent \in Int
        /\ c.balance \in Int /\ c.pnl \in Int /\ c.spent \in Int /\ StartBalance \in Int
    BY <1>1, ArenaBotAssumption DEF Bots, ArenaBotAssumption
  <1>6. b.balance + Locked(b) = StartBalance + b.pnl - b.spent  BY DEF Good
  <1> QED BY <1>2, <1>3, <1>4, <1>5, <1>6 DEF Good

LEMMA CloseGood ==
  ASSUME NEW b, Good(b), NEW s \in Slots, b.slots[s] # Free, NEW credit \in Nat
  PROVE  Good(Close(b, s, credit))
         /\ Close(b, s, credit).slots = [b.slots EXCEPT ![s] = Free]
  <1> DEFINE c == Close(b, s, credit)
  <1>1. b \in Bots /\ b.slots[s] \in Position /\ b.slots \in [Slots -> Position \cup {Free}]
    BY DEF Good, Bots
  <1>2. b.slots[s].stake \in Nat /\ Stake(b.slots[s]) = b.slots[s].stake /\ Stake(Free) = 0
    BY <1>1 DEF Position, Stake
  <1>3. b.balance \in Nat /\ b.pnl \in Int /\ b.spent \in Nat  BY <1>1 DEF Bots
  <1>4. /\ c.balance = b.balance + credit /\ c.spent = b.spent
        /\ c.pnl = b.pnl + credit - b.slots[s].stake
        /\ c.slots = [b.slots EXCEPT ![s] = Free]
    BY <1>1 DEF Close, Bots
  <1>5. c \in Bots
    <2>1. b.balance + credit \in Nat /\ b.pnl + credit - b.slots[s].stake \in Int
      BY <1>2, <1>3
    <2>2. [b.slots EXCEPT ![s] = Free] \in [Slots -> Position \cup {Free}]  BY <1>1
    <2> QED BY <1>1, <2>1, <2>2 DEF Close, Bots
  <1> HIDE DEF c
  <1>6. (c.balance - b.balance) + (Stake(Free) - Stake(b.slots[s]))
            = (c.pnl - b.pnl) - (c.spent - b.spent)
    BY <1>2, <1>3, <1>4
  <1>7. Good(c)  BY <1>4, <1>5, <1>6, BooksKept
  <1> QED BY <1>4, <1>7 DEF c

LEMMA CloseAtGood ==
  ASSUME NEW b, Good(b), NEW s \in Slots, b.slots[s] # Free, NEW mark \in Nat \ {0}
  PROVE  Good(CloseAt(b, s, mark)) /\ CloseAt(b, s, mark).slots = [b.slots EXCEPT ![s] = Free]
  <1> DEFINE p == b.slots[s]
             exit == Haircut(mark, ~p.long)
             move == p.stake * Leverage * (exit - p.entry)
             raw == DivTrunc(move, p.entry)
             credit == Max({0, p.stake + (IF p.long THEN raw ELSE -raw) - Fee(p.stake)})
  <1>1. p.stake \in Nat /\ p.entry \in Nat \ {0} /\ p.long \in BOOLEAN
    BY DEF Good, Bots, Position
  <1>2. exit \in Nat  BY <1>1, HaircutType
  <1>3. Leverage \in Nat  BY ArenaBotAssumption DEF ArenaBotAssumption
  <1>4. Fee(p.stake) \in Nat  BY <1>1, FeeType
  <1>5. CloseAt(b, s, mark) = Close(b, s, credit)  BY DEF CloseAt
  <1> HIDE DEF p, exit
  <1>6. move \in Int  BY <1>1, <1>2, <1>3
  <1> HIDE DEF move
  <1>7. raw \in Int
    <2>1. move \div p.entry \in Int /\ (-move) \div p.entry \in Int /\ -move \in Int
      BY <1>1, <1>6, DivSpec
    <2> QED BY <2>1 DEF DivTrunc
  <1> HIDE DEF raw
  <1>8. credit \in Nat
    <2>1. p.stake + (IF p.long THEN raw ELSE -raw) - Fee(p.stake) \in Int
      BY <1>1, <1>4, <1>7
    <2> QED BY <2>1, MaxOfTwo
  <1> HIDE DEF credit
  <1> QED BY <1>5, <1>8, CloseGood

\* What a slot may hold after maintenance for m, that held p before.
Worn(p, q, m) ==
    q # Free => /\ p # Free /\ q.market = p.market /\ q.since = p.since
                /\ q.ticks <= p.ticks + (IF p.market = m THEN 1 ELSE 0)

\* c comes from b by a look at slot s for m.
Looked(b, c, s, m) ==
    /\ Good(c) /\ Worn(b.slots[s], c.slots[s], m)
    /\ \A t \in Slots \ {s} : c.slots[t] = b.slots[t]

LEMMA MaintainSlotGood ==
  ASSUME NEW b, Good(b), NEW s \in Slots, NEW m \in Markets, NEW mark \in Nat \ {0}
  PROVE  Looked(b, MaintainSlot(b, s, m, mark), s, m)
  <1> DEFINE c == MaintainSlot(b, s, m, mark)
             p == b.slots[s]
             old == [p EXCEPT !.ticks = @ + 1]
             aged == [b EXCEPT !.slots[s].ticks = @ + 1]
  <1>1. b \in Bots /\ b.slots \in [Slots -> Position \cup {Free}] /\ p \in Position \cup {Free}
    BY DEF Good, Bots
  <1>2. CASE ~Holds(b, s, m)
    <2>1. c = b  BY <1>2 DEF MaintainSlot
    <2>2. p # Free => p.ticks \in Nat  BY <1>1 DEF Position
    <2> QED BY <2>1, <2>2 DEF Worn, Looked
  <1>3. CASE Holds(b, s, m)
    <2>1. p \in Position /\ p # Free /\ p.market = m  BY <1>1, <1>3 DEF Holds
    <2>2. /\ old \in Position /\ old.ticks = p.ticks + 1 /\ old.market = p.market
          /\ old.since = p.since /\ old.stake = p.stake /\ p.ticks \in Nat
      BY <2>1 DEF Position
    <2>3. old # Free /\ Stake(old) = Stake(p)
      BY <2>1, <2>2, ArenaBotAssumption DEF ArenaBotAssumption, Stake
    <2>4. /\ aged = [b EXCEPT !.slots = [b.slots EXCEPT ![s] = old]]
          /\ aged.slots = [b.slots EXCEPT ![s] = old] /\ aged.slots[s] = old
          /\ aged.balance = b.balance /\ aged.pnl = b.pnl /\ aged.spent = b.spent
      BY <1>1 DEF Bots
    <2> HIDE DEF old, p
    <2>5. aged \in Bots
      <3>1. [b.slots EXCEPT ![s] = old] \in [Slots -> Position \cup {Free}]  BY <1>1, <2>2
      <3> HIDE DEF aged
      <3> QED BY <1>1, <2>4, <3>1 DEF Bots
    <2> HIDE DEF aged
    <2>6. Good(aged)
      <3>1. /\ b.balance \in Int /\ b.pnl \in Int /\ b.spent \in Int /\ Stake(p) \in Int
        BY <1>1, StakeType DEF Bots
      <3>2. (aged.balance - b.balance) + (Stake(old) - Stake(p))
                = (aged.pnl - b.pnl) - (aged.spent - b.spent)
        BY <2>3, <2>4, <3>1
      <3>3. Stake(b.slots[s]) = Stake(p)  BY DEF p
      <3>4. (aged.balance - b.balance) + (Stake(old) - Stake(b.slots[s]))
                = (aged.pnl - b.pnl) - (aged.spent - b.spent)
        BY <3>2, <3>3
      <3>5. old \in Position \cup {Free} /\ aged.slots = [b.slots EXCEPT ![s] = old]
        BY <2>2, <2>4
      <3> QED BY <2>5, <3>4, <3>5, BooksKept
    <2>7. c \in {Close(b, s, 0), CloseAt(b, s, mark), CloseAt(aged, s, mark), aged}
      <3> DEFINE choice == IF aged.slots[s].ticks >= MaxHoldTicks
                           THEN CloseAt(aged, s, mark) ELSE aged
      <3>1. c = CASE ~Holds(b, s, m) -> b
                  [] Holds(b, s, m) /\ Liquidated(p, mark) -> Close(b, s, 0)
                  [] Holds(b, s, m) /\ ~Liquidated(p, mark) /\ Favorable(p, mark) ->
                        CloseAt(b, s, mark)
                  [] OTHER -> choice
        BY DEF MaintainSlot, p, aged
      <3>2. choice \in {CloseAt(aged, s, mark), aged}  OBVIOUS
      <3> HIDE DEF c, choice
      <3> QED BY <1>3, <3>1, <3>2
    <2> HIDE DEF c
    <2>8. ASSUME c.slots = [b.slots EXCEPT ![s] = Free], Good(c)
          PROVE  Looked(b, c, s, m)
      BY <1>1, <2>8 DEF Worn, Looked, p
    <2> SUFFICES Looked(b, c, s, m)
      BY DEF c
    <2>9. CASE c = Close(b, s, 0)  BY <2>1, <2>8, <2>9, CloseGood DEF p
    <2>10. CASE c = CloseAt(b, s, mark)  BY <2>1, <2>8, <2>10, CloseAtGood DEF p
    <2>11. CASE c = CloseAt(aged, s, mark)
      <3>0. aged.slots[s] # Free  BY <2>3, <2>4
      <3>1. /\ Good(CloseAt(aged, s, mark))
            /\ CloseAt(aged, s, mark).slots = [aged.slots EXCEPT ![s] = Free]
        BY <2>6, <3>0, CloseAtGood
      <3>2. [aged.slots EXCEPT ![s] = Free] = [b.slots EXCEPT ![s] = Free]  BY <1>1, <2>4
      <3> QED BY <2>8, <2>11, <3>1, <3>2
    <2>12. CASE c = aged
      <3>1. Worn(p, old, m)  BY <2>1, <2>2 DEF Worn
      <3> QED BY <1>1, <2>4, <2>6, <2>12, <3>1 DEF p, Looked
    <2> QED BY <2>7, <2>9, <2>10, <2>11, <2>12
  <1> QED BY <1>2, <1>3

\* Each slot is looked at once.
LEMMA MaintainGood ==
  ASSUME NEW b, Good(b), NEW m \in Markets, NEW mark \in Nat \ {0}
  PROVE  Good(Maintain(b, m, mark))
         /\ \A s \in Slots : Worn(b.slots[s], Maintain(b, m, mark).slots[s], m)
  <1> DEFINE c1 == MaintainSlot(b, 1, m, mark)
             c2 == MaintainSlot(c1, 2, m, mark)
             c3 == MaintainSlot(c2, 3, m, mark)
             c4 == MaintainSlot(c3, 4, m, mark)
  <1>1. 1 \in Slots /\ 2 \in Slots /\ 3 \in Slots /\ 4 \in Slots  BY DEF Slots
  <1>2. Looked(b, c1, 1, m)
    BY <1>1, MaintainSlotGood
  <1> HIDE DEF c1
  <1>3. Looked(c1, c2, 2, m)
    BY <1>1, <1>2, MaintainSlotGood DEF Looked
  <1> HIDE DEF c2
  <1>4. Looked(c2, c3, 3, m)
    BY <1>1, <1>3, MaintainSlotGood DEF Looked
  <1> HIDE DEF c3
  <1>5. Looked(c3, c4, 4, m)
    BY <1>1, <1>4, MaintainSlotGood DEF Looked
  <1> HIDE DEF c4
  <1>6. c4 = Maintain(b, m, mark)  BY DEF Maintain, c1, c2, c3, c4
  <1>7. /\ c4.slots[1] = c1.slots[1] /\ c4.slots[2] = c2.slots[2] /\ c1.slots[2] = b.slots[2]
        /\ c4.slots[3] = c3.slots[3] /\ c2.slots[3] = b.slots[3] /\ c3.slots[4] = b.slots[4]
    BY <1>1, <1>2, <1>3, <1>4, <1>5 DEF Looked
  <1>8. \A s \in Slots : Worn(b.slots[s], c4.slots[s], m)
    BY <1>1, <1>2, <1>3, <1>4, <1>5, <1>7 DEF Slots, Looked
  <1> QED BY <1>5, <1>6, <1>8 DEF Looked

\* An open takes the stake and the fee, and fills a slot that was free.
LEMMA OpenedGood ==
  ASSUME NEW b, Good(b), NEW m \in Markets, NEW side \in Sides, NEW price \in Nat \ {0},
         NEW ts \in Nat, NEW c \in Opened(b, m, side, price, ts)
  PROVE  Good(c) /\ \A s \in Slots : c.slots[s] # b.slots[s] =>
            c.slots[s].market = m /\ c.slots[s].since = ts /\ c.slots[s].ticks = 0
  <1> DEFINE stake == MulDiv(b.balance, StakeFracBps, BPS)
             new == NewPosition(m, side, price, stake, ts)
  <1>1. PICK s \in Slots : /\ FirstFree(b, s) /\ Covers(b, stake)
                           /\ c = [Charge(b, stake) EXCEPT !.slots[s] = new]
    BY DEF Opened
  <1>2. b \in Bots /\ b.balance \in Nat /\ b.pnl \in Int /\ b.spent \in Nat
        /\ b.slots \in [Slots -> Position \cup {Free}]
    BY DEF Good, Bots
  <1>3. stake \in Nat  BY <1>2, MulDivNat, ArenaBotAssumption DEF ArenaBotAssumption
  <1> HIDE DEF stake
  <1>4. Fee(stake) \in Nat  BY <1>3, FeeType
  <1>5. new \in Position /\ new.stake = stake /\ new.market = m /\ new.since = ts /\ new.ticks = 0
    BY <1>3, NewPositionType
  <1> HIDE DEF new
  <1>6. b.slots[s] = Free /\ new # Free
    BY <1>1, <1>5, ArenaBotAssumption DEF FirstFree, ArenaBotAssumption
  <1>7. b.balance >= stake + Fee(stake)  BY <1>1 DEF Covers
  <1>8. /\ c.balance = b.balance - (stake + Fee(stake)) /\ c.spent = b.spent + Fee(stake)
        /\ c.pnl = b.pnl /\ c.slots = [b.slots EXCEPT ![s] = new]
    BY <1>1, <1>2 DEF Charge, Bots
  <1>9. c \in Bots
    <2>1. b.balance - (stake + Fee(stake)) \in Nat /\ b.spent + Fee(stake) \in Nat
      BY <1>2, <1>3, <1>4, <1>7
    <2>2. [b.slots EXCEPT ![s] = new] \in [Slots -> Position \cup {Free}]  BY <1>2, <1>5
    <2> QED BY <1>1, <1>2, <2>1, <2>2 DEF Charge, Bots
  <1>10. Good(c)
    <2>1. Stake(new) = stake /\ Stake(b.slots[s]) = 0  BY <1>5, <1>6 DEF Stake
    <2>2. (c.balance - b.balance) + (Stake(new) - Stake(b.slots[s]))
              = (c.pnl - b.pnl) - (c.spent - b.spent)
      BY <1>2, <1>3, <1>4, <1>8, <2>1
    <2> QED BY <1>5, <1>8, <1>9, <2>2, BooksKept
  <1>11. \A t \in Slots : c.slots[t] # b.slots[t] => c.slots[t] = new  BY <1>2, <1>8
  <1> QED BY <1>5, <1>10, <1>11

LEMMA FollowedGood ==
  ASSUME NEW b, Good(b), NEW m \in Markets, NEW sides \in SUBSET Sides,
         NEW price \in Nat \ {0}, NEW ts \in Nat, NEW c \in Followed(b, m, sides, price, ts)
  PROVE  Good(c) /\ \A s \in Slots : c.slots[s] # b.slots[s] =>
            c.slots[s].market = m /\ c.slots[s].since = ts /\ c.slots[s].ticks = 0
  <1>1. CASE c = b  BY <1>1
  <1>2. CASE \E side \in sides : c \in Opened(b, m, side, price, ts)
    BY <1>2, OpenedGood
  <1> QED BY <1>1, <1>2 DEF Followed

-----------------------------------------------------------------------------
(* The grid of buckets.                                                    *)

OnGrid(s) == \E k \in Int : s = BucketSecs * k

\* The bucket of a time starts on the grid, and the time is in it.
LEMMA BucketStartSpec ==
  ASSUME NEW t \in Nat
  PROVE  /\ BucketStart(t) \in Nat /\ OnGrid(BucketStart(t))
         /\ BucketStart(t) <= t /\ t < BucketStart(t) + BucketSecs
  <1>1. BucketSecs \in Nat \ {0}  BY ArenaBotAssumption DEF ArenaBotAssumption
  <1> DEFINE q == t \div BucketSecs  r == t % BucketSecs
  <1>2. q \in Nat /\ r \in 0..(BucketSecs - 1) /\ t = BucketSecs * q + r
    <2>1. q \in Nat  BY <1>1, DivNat
    <2>2. r \in 0..(BucketSecs - 1) /\ t = BucketSecs * q + r  BY <1>1, DivSpec
    <2> QED BY <2>1, <2>2
  <1>3. BucketStart(t) = t - r  BY DEF BucketStart
  <1> HIDE DEF q, r
  <1>4. BucketSecs * q \in Nat  BY <1>1, <1>2, TimesNat
  <1>5. BucketStart(t) = BucketSecs * q  BY <1>1, <1>2, <1>3, <1>4
  <1>6. BucketStart(t) <= t /\ t < BucketStart(t) + BucketSecs
    BY <1>1, <1>2, <1>4, <1>5
  <1>7. OnGrid(BucketStart(t))  BY <1>2, <1>5 DEF OnGrid
  <1> QED BY <1>4, <1>5, <1>6, <1>7

\* Starts of different buckets are a bucket apart.
LEMMA GridApart ==
  ASSUME NEW s, NEW u, OnGrid(s), OnGrid(u), s < u
  PROVE  s + BucketSecs <= u
  <1>1. BucketSecs \in Nat \ {0}  BY ArenaBotAssumption DEF ArenaBotAssumption
  <1>2. PICK k \in Int : s = BucketSecs * k  BY DEF OnGrid
  <1>3. PICK l \in Int : u = BucketSecs * l  BY DEF OnGrid
  <1>4. k < l
    <2> SUFFICES ASSUME l <= k PROVE FALSE
      OBVIOUS
    <2>1. BucketSecs * l <= BucketSecs * k  BY <1>1
    <2>2. BucketSecs * l \in Int /\ BucketSecs * k \in Int  BY <1>1
    <2> QED BY <1>2, <1>3, <2>1, <2>2
  <1>5. BucketSecs * (k + 1) <= BucketSecs * l  BY <1>1, <1>4
  <1>6. BucketSecs * (k + 1) = BucketSecs * k + BucketSecs  BY <1>1
  <1> QED BY <1>2, <1>3, <1>5, <1>6

LEMMA GridShift ==
  ASSUME NEW s, OnGrid(s), NEW i \in Int
  PROVE  s \in Int /\ s - i * BucketSecs \in Int /\ OnGrid(s - i * BucketSecs)
         /\ s + i * BucketSecs \in Int /\ OnGrid(s + i * BucketSecs)
  <1>1. BucketSecs \in Nat \ {0}  BY ArenaBotAssumption DEF ArenaBotAssumption
  <1>2. PICK k \in Int : s = BucketSecs * k  BY DEF OnGrid
  <1>3. s - i * BucketSecs = BucketSecs * (k - i) /\ s + i * BucketSecs = BucketSecs * (k + i)
    BY <1>1, <1>2
  <1>4. k - i \in Int /\ k + i \in Int  OBVIOUS
  <1>5. s \in Int /\ i * BucketSecs \in Int  BY <1>1, <1>2
  <1> QED BY <1>3, <1>4, <1>5 DEF OnGrid

\* The bucket that a time is in is the only one.
LEMMA BucketIs ==
  ASSUME NEW s, OnGrid(s), NEW t \in Nat, s <= t, t < s + BucketSecs
  PROVE  BucketStart(t) = s
  <1>1. BucketSecs \in Nat /\ s \in Int  BY GridShift, ArenaBotAssumption DEF ArenaBotAssumption
  <1>2. /\ BucketStart(t) \in Nat /\ OnGrid(BucketStart(t))
        /\ BucketStart(t) <= t /\ t < BucketStart(t) + BucketSecs
    BY BucketStartSpec
  <1>3. ASSUME BucketStart(t) < s PROVE FALSE  BY <1>1, <1>2, <1>3, GridApart
  <1>4. ASSUME s < BucketStart(t) PROVE FALSE  BY <1>1, <1>2, <1>4, GridApart
  <1> QED BY <1>1, <1>2, <1>3, <1>4

LEMMA BucketMonotone ==
  ASSUME NEW t \in Nat, NEW u \in Nat, t <= u
  PROVE  BucketStart(t) <= BucketStart(u)
  <1>1. /\ BucketStart(t) \in Nat /\ BucketStart(u) \in Nat
        /\ BucketStart(t) <= t /\ u < BucketStart(u) + BucketSecs
        /\ OnGrid(BucketStart(t)) /\ OnGrid(BucketStart(u))
    BY BucketStartSpec
  <1>2. BucketSecs \in Nat  BY ArenaBotAssumption DEF ArenaBotAssumption
  <1>3. ASSUME BucketStart(u) < BucketStart(t) PROVE FALSE
    BY <1>1, <1>2, <1>3, GridApart
  <1> QED BY <1>1, <1>3

-----------------------------------------------------------------------------
(* Around the ring.                                                        *)

LEMMA ModIs ==
  ASSUME NEW n \in Nat \ {0}, NEW x \in 0..(2 * n - 1)
  PROVE  x % n = IF x < n THEN x ELSE x - n
  <1> DEFINE q == x \div n  r == x % n
  <1>1. q \in Nat /\ r \in 0..(n - 1) /\ x = n * q + r
    <2>1. x \in Nat  OBVIOUS
    <2>2. q \in Nat  BY <2>1, DivNat
    <2>3. r \in 0..(n - 1) /\ x = n * q + r  BY <2>1, DivSpec
    <2> QED BY <2>2, <2>3
  <1> HIDE DEF q, r
  <1>2. ASSUME q >= 2 PROVE FALSE
    <2>1. n * q >= n * 2  BY <1>1, <1>2
    <2>2. n * q \in Nat  BY <1>1, TimesNat
    <2> QED BY <1>1, <2>1, <2>2
  <1>3. q = 0 \/ q = 1  BY <1>1, <1>2
  <1>4. CASE q = 0
    <2>1. n * q = 0  BY <1>4
    <2> QED BY <1>1, <2>1 DEF r
  <1>5. CASE q = 1
    <2>1. n * q = n  BY <1>5
    <2> QED BY <1>1, <2>1 DEF r
  <1> QED BY <1>3, <1>4, <1>5

\* The slot i before the head.
LEMMA BackIs ==
  ASSUME NEW h \in 0..(RingLen - 1), NEW i \in 0..(RingLen - 1)
  PROVE  /\ BackFrom(h, i) \in 0..(RingLen - 1)
         /\ BackFrom(h, i) = IF i <= h THEN h - i ELSE h - i + RingLen
  <1>1. RingLen \in Nat \ {0}  BY ArenaBotAssumption DEF ArenaBotAssumption
  <1> DEFINE x == h + RingLen - i
  <1>2. x \in 0..(2 * RingLen - 1)  BY <1>1
  <1>3. BackFrom(h, i) = x % RingLen  BY DEF BackFrom
  <1> HIDE DEF x
  <1>4. x % RingLen = IF x < RingLen THEN x ELSE x - RingLen  BY <1>1, <1>2, ModIs
  <1> QED BY <1>1, <1>3, <1>4 DEF x

\* Only the head is no slot before it.
LEMMA BackApart ==
  ASSUME NEW h \in 0..(RingLen - 1), NEW i \in 0..(RingLen - 1)
  PROVE  BackFrom(h, 0) = h /\ (BackFrom(h, i) = h => i = 0)
  <1>1. RingLen \in Nat \ {0}  BY ArenaBotAssumption DEF ArenaBotAssumption
  <1>2. 0 \in 0..(RingLen - 1)  BY <1>1
  <1>3. BackFrom(h, 0) = IF 0 <= h THEN h - 0 ELSE h - 0 + RingLen  BY <1>2, BackIs
  <1>4. BackFrom(h, i) = IF i <= h THEN h - i ELSE h - i + RingLen  BY BackIs
  <1> QED BY <1>1, <1>3, <1>4

\* How many steps until a head that left h comes by i (RollForward).
Turn(h, i) == IF i > h THEN i - h ELSE i - h + RingLen

\* After steps of the head: the slots it left behind are those less than steps before
\* it, the others are where they were.
LEMMA TurnBack ==
  ASSUME NEW h \in 0..(RingLen - 1), NEW steps \in 1..RingLen, NEW i \in 0..(RingLen - 1)
  PROVE  LET h2 == (h + steps) % RingLen
         IN  /\ h2 \in 0..(RingLen - 1)
             /\ i < steps => Turn(h, BackFrom(h2, i)) = steps - i
             /\ i >= steps => /\ Turn(h, BackFrom(h2, i)) > steps
                              /\ BackFrom(h2, i) = BackFrom(h, i - steps)
  <1> DEFINE h2 == (h + steps) % RingLen
  <1>1. RingLen \in Nat \ {0}  BY ArenaBotAssumption DEF ArenaBotAssumption
  <1> DEFINE x == h + steps
  <1>2. x \in 0..(2 * RingLen - 1) /\ h2 = x % RingLen /\ x = h + steps  BY <1>1
  <1> HIDE DEF x, h2
  <1>3. h2 = IF h + steps < RingLen THEN h + steps ELSE h + steps - RingLen
    <2>1. x % RingLen = IF x < RingLen THEN x ELSE x - RingLen  BY <1>1, <1>2, ModIs
    <2> QED BY <1>1, <1>2, <2>1
  <1>4. h2 \in 0..(RingLen - 1)  BY <1>1, <1>3
  <1>5. BackFrom(h2, i) = IF i <= h2 THEN h2 - i ELSE h2 - i + RingLen  BY <1>4, BackIs
  <1>6. i < steps => Turn(h, BackFrom(h2, i)) = steps - i  BY <1>1, <1>3, <1>5 DEF Turn
  <1>7. ASSUME i >= steps
        PROVE  Turn(h, BackFrom(h2, i)) > steps /\ BackFrom(h2, i) = BackFrom(h, i - steps)
    <2>1. i - steps \in 0..(RingLen - 1)  BY <1>1, <1>7
    <2>2. BackFrom(h, i - steps) = IF i - steps <= h THEN h - (i - steps)
                                   ELSE h - (i - steps) + RingLen
      BY <2>1, BackIs
    <2> QED BY <1>1, <1>3, <1>5, <1>7, <2>2 DEF Turn
  <1> QED BY <1>4, <1>6, <1>7 DEF h2

-----------------------------------------------------------------------------
(* What the prints say of a bucket.                                        *)

Prints == [price : Prices, ts : Nat, way : Nat]

LEMMA PrintTypes ==
  ASSUME NEW p \in Prints
  PROVE  p.price \in Nat \ {0} /\ p.ts \in Nat /\ p.way \in Nat
  <1>1. p.price \in Prices /\ p.ts \in Nat /\ p.way \in Nat  BY DEF Prints
  <1>2. Prices \subseteq Nat \ {0}  BY ArenaBotAssumption DEF ArenaBotAssumption
  <1> QED BY <1>1, <1>2

\* The first print is at StartTime; time goes on and the way grows.
History(past) ==
    /\ past \in Seq(Prints)
    /\ past # <<>> => past[1].ts = StartTime
    /\ \A i, j \in 1..Len(past) : i < j => /\ past[i].ts < past[j].ts
                                           /\ past[i].way <= past[j].way

\* The bucket of the prints of seen.
Bucket(past, seen, s) ==
    [high |-> Max({past[j].price : j \in seen}), low |-> Min({past[j].price : j \in seen}),
     close |-> past[Max(seen)].price, start |-> s,
     path |-> past[Max(seen)].way - past[Min(seen)].way]

\* A set of indices, and the prices at them, have extremes.
LEMMA Extremes ==
  ASSUME NEW n \in Nat, NEW S \in SUBSET (1..n), S # {}
  PROVE  /\ Max(S) \in S /\ \A y \in S : y <= Max(S)
         /\ Min(S) \in S /\ \A y \in S : Min(S) <= y
  <1>1. IsFiniteSet(1..n)  BY FS_Interval
  <1>2. IsFiniteSet(S)  BY <1>1, FS_Subset
  <1>3. S \in SUBSET Int  OBVIOUS
  <1> QED BY <1>2, <1>3, GreatestElement, LeastElement

LEMMA PriceExtremes ==
  ASSUME NEW past \in Seq(Prints), NEW S \in SUBSET (1..Len(past)), S # {}
  PROVE  LET P == {past[j].price : j \in S}
         IN  /\ P \in SUBSET (Nat \ {0}) /\ P \in SUBSET Int
             /\ Max(P) \in P /\ \A y \in P : y <= Max(P)
             /\ Min(P) \in P /\ \A y \in P : Min(P) <= y
  <1> DEFINE P == {past[j].price : j \in S}
  <1>1. IsFiniteSet(1..Len(past))  BY FS_Interval
  <1>2. IsFiniteSet(S)  BY <1>1, FS_Subset
  <1>3. IsFiniteSet(P)
    <2> DEFINE f == [j \in S |-> past[j].price]
    <2>1. f \in Surjection(S, P)  BY DEF Surjection
    <2> HIDE DEF P, f
    <2> QED BY <1>2, <2>1, FS_Surjection
  <1>4. \A j \in S : past[j] \in Prints  OBVIOUS
  <1>5. \A j \in S : past[j].price \in Nat \ {0}
    BY <1>4, ArenaBotAssumption DEF Prints, ArenaBotAssumption
  <1>6. P \in SUBSET (Nat \ {0}) /\ P # {}  BY <1>5
  <1> HIDE DEF P
  <1>7. P \in SUBSET Int  BY <1>6
  <1>8. Max(P) \in P /\ \A y \in P : y <= Max(P)  BY <1>3, <1>6, <1>7, GreatestElement
  <1>9. Min(P) \in P /\ \A y \in P : Min(P) <= y  BY <1>3, <1>6, <1>7, LeastElement
  <1> QED BY <1>6, <1>7, <1>8, <1>9 DEF P

\* The last of a set of indices that ends with n.
LEMMA LastIs ==
  ASSUME NEW n \in Nat, NEW S \in SUBSET (1..n), n \in S
  PROVE  Max(S) = n
  <1>1. S \in SUBSET Int /\ \A y \in S : y <= n  OBVIOUS
  <1> QED BY <1>1, MaxIs

LEMMA HitIs ==
  ASSUME NEW h, NEW l, NEW c, NEW s, NEW w, NEW price
  PROVE  Hit([high |-> h, low |-> l, close |-> c, start |-> s, path |-> w], price)
            = [high |-> Max({h, price}), low |-> Min({l, price}), close |-> price,
               start |-> s, path |-> w + Distance(price, c)]
  <1> DEFINE b == [high |-> h, low |-> l, close |-> c, start |-> s, path |-> w]
             top == Max({h, price})
             bottom == Min({l, price})
             far == w + Distance(price, c)
  <1>1. b.high = h /\ b.low = l /\ b.close = c /\ b.path = w  OBVIOUS
  <1>2. Hit(b, price) = [b EXCEPT !.high = top, !.low = bottom, !.close = price, !.path = far]
    <2> HIDE DEF b
    <2> QED BY <1>1 DEF Hit
  <1> HIDE DEF top, bottom, far
  <1> DEFINE R(x, y, z, path) == [high |-> x, low |-> y, close |-> z, start |-> s, path |-> path]
  <1>3. [R(h, l, c, w) EXCEPT !.high = top] = R(top, l, c, w)  OBVIOUS
  <1>4. [R(top, l, c, w) EXCEPT !.low = bottom] = R(top, bottom, c, w)  OBVIOUS
  <1>5. [R(top, bottom, c, w) EXCEPT !.close = price] = R(top, bottom, price, w)  OBVIOUS
  <1>6. [R(top, bottom, price, w) EXCEPT !.path = far] = R(top, bottom, price, far)  OBVIOUS
  <1>7. b = R(h, l, c, w)  OBVIOUS
  <1> HIDE DEF R, b
  <1>8. Hit(b, price) = R(top, bottom, price, far)
    BY <1>2, <1>3, <1>4, <1>5, <1>6, <1>7
  <1> QED BY <1>8 DEF R, b, top, bottom, far

LEMMA DistanceType ==
  ASSUME NEW a \in Nat, NEW b \in Nat
  PROVE  Distance(a, b) \in Nat
  BY DEF Distance

\* Folding a print into a bucket adds it to those it stands for.
LEMMA HitGrows ==
  ASSUME NEW past \in Seq(Prints), NEW p \in Prints, NEW s,
         NEW seen \in SUBSET (1..Len(past)), Len(past) \in seen,
         p.way = past[Len(past)].way + Distance(p.price, past[Len(past)].price)
  PROVE  Hit(Bucket(past, seen, s), p.price)
            = Bucket(Append(past, p), seen \cup {Len(past) + 1}, s)
  <1> DEFINE n == Len(past)
             longer == Append(past, p)
             all == seen \cup {n + 1}
             P == {past[j].price : j \in seen}
             Q == {longer[j].price : j \in all}
             b == Bucket(past, seen, s)
  <1>1. n \in Nat /\ n \in 1..n /\ Len(longer) = n + 1 /\ all \in SUBSET (1..(n + 1))
    <2>1. n \in Nat /\ Len(longer) = n + 1  OBVIOUS
    <2>2. n \in 1..n /\ seen \in SUBSET (1..n)  OBVIOUS
    <2> HIDE DEF n, longer
    <2> QED BY <2>1, <2>2
  <1>2. \A j \in seen : longer[j] = past[j]  OBVIOUS
  <1>3. longer[n + 1] = p  OBVIOUS
  <1>4. Q = P \cup {p.price}  BY <1>2, <1>3
  <1>5. /\ P \in SUBSET Int /\ Max(P) \in P /\ \A y \in P : y <= Max(P)
        /\ Min(P) \in P /\ \A y \in P : Min(P) <= y
    BY PriceExtremes
  <1>6. p.price \in Nat /\ p.price \in Int /\ p.way \in Nat  BY PrintTypes
  <1>7. past[n].price \in Nat /\ past[n].way \in Nat
    <2>1. past[n] \in Prints  BY <1>1
    <2> HIDE DEF n
    <2> QED BY <2>1, PrintTypes
  <1>8. Max(seen) = n /\ Max(all) = n + 1  BY <1>1, LastIs
  <1>9. Min(seen) \in seen /\ Min(all) = Min(seen)
    <2>1. Min(seen) \in seen /\ \A y \in seen : Min(seen) <= y  BY <1>1, Extremes
    <2>2. all \in SUBSET Int /\ \A y \in all : Min(seen) <= y
      <3>1. Min(seen) <= n + 1  BY <1>1, <2>1
      <3> QED BY <1>1, <2>1, <3>1
    <2> QED BY <2>1, <2>2, MinIs
  <1>10. past[Min(seen)].way \in Nat /\ longer[Min(seen)] = past[Min(seen)]
    <2>0. Min(seen) \in 1..Len(past)  BY <1>9
    <2>1. past[Min(seen)] \in Prints  BY <2>0
    <2>2. past[Min(seen)].way \in Nat  BY <2>1, PrintTypes
    <2> HIDE DEF longer
    <2> QED BY <1>2, <1>9, <2>2
  <1>11. Distance(p.price, past[n].price) \in Int
    <2> DEFINE q == past[n].price
    <2>1. q \in Nat  BY <1>7
    <2> HIDE DEF q
    <2>2. Distance(p.price, q) \in Nat  BY <1>6, <2>1, DistanceType
    <2> QED BY <2>2 DEF q
  <1> HIDE DEF P, Q, all, longer
  <1>12. Max({Max(P), p.price}) = Max(Q) /\ Min({Min(P), p.price}) = Min(Q)
    <2>1. Q \in SUBSET Int /\ Max(P) \in Int /\ Min(P) \in Int  BY <1>4, <1>5, <1>6
    <2>2. ASSUME Max(P) >= p.price PROVE Max({Max(P), p.price}) = Max(Q)
      <3>1. Max({Max(P), p.price}) = Max(P)  BY <1>6, <2>1, <2>2, MaxOfTwo
      <3>2. Max(P) \in Q /\ \A y \in Q : y <= Max(P)  BY <1>4, <1>5, <1>6, <2>1, <2>2
      <3>3. Max(Q) = Max(P)  BY <2>1, <3>2, MaxIs
      <3> QED BY <3>1, <3>3
    <2>3. ASSUME Max(P) < p.price PROVE Max({Max(P), p.price}) = Max(Q)
      <3>1. Max({Max(P), p.price}) = p.price  BY <1>6, <2>1, <2>3, MaxOfTwo
      <3>2. p.price \in Q /\ \A y \in Q : y <= p.price
        <4>1. \A y \in P : y <= Max(P) /\ y \in Int  BY <1>5
        <4> QED BY <1>4, <1>6, <2>1, <2>3, <4>1
      <3>3. Max(Q) = p.price  BY <2>1, <3>2, MaxIs
      <3> QED BY <3>1, <3>3
    <2>4. ASSUME Min(P) <= p.price PROVE Min({Min(P), p.price}) = Min(Q)
      <3>1. Min({Min(P), p.price}) = Min(P)  BY <1>6, <2>1, <2>4, MinOfTwo
      <3>2. Min(P) \in Q /\ \A y \in Q : Min(P) <= y  BY <1>4, <1>5, <1>6, <2>1, <2>4
      <3>3. Min(Q) = Min(P)  BY <2>1, <3>2, MinIs
      <3> QED BY <3>1, <3>3
    <2>5. ASSUME Min(P) > p.price PROVE Min({Min(P), p.price}) = Min(Q)
      <3>1. Min({Min(P), p.price}) = p.price  BY <1>6, <2>1, <2>5, MinOfTwo
      <3>2. p.price \in Q /\ \A y \in Q : p.price <= y
        <4>1. \A y \in P : Min(P) <= y /\ y \in Int  BY <1>5
        <4> QED BY <1>4, <1>6, <2>1, <2>5, <4>1
      <3>3. Min(Q) = p.price  BY <2>1, <3>2, MinIs
      <3> QED BY <3>1, <3>3
    <2> QED BY <1>6, <2>1, <2>2, <2>3, <2>4, <2>5
  <1>13. b = [high |-> Max(P), low |-> Min(P), close |-> past[n].price, start |-> s,
              path |-> past[n].way - past[Min(seen)].way]
    BY <1>8 DEF Bucket, P
  <1>14. Bucket(longer, all, s)
            = [high |-> Max(Q), low |-> Min(Q), close |-> p.price, start |-> s,
               path |-> p.way - past[Min(seen)].way]
    BY <1>3, <1>8, <1>9, <1>10 DEF Bucket, Q, longer
  <1>15. p.way - past[Min(seen)].way
            = past[n].way - past[Min(seen)].way + Distance(p.price, past[n].price)
    BY <1>6, <1>7, <1>10, <1>11
  <1> HIDE DEF b
  <1>16. Hit(b, p.price) = Bucket(longer, all, s)
    BY <1>12, <1>13, <1>14, <1>15, HitIs
  <1> QED BY <1>16 DEF b, all, longer

\* What a print of a history is.
LEMMA HistoryTypes ==
  ASSUME NEW past, History(past), NEW j \in 1..Len(past)
  PROVE  /\ past[j] \in Prints /\ past[j].ts \in Nat /\ past[j].price \in Nat \ {0}
         /\ past[j].way \in Nat /\ Len(past) \in Nat /\ DOMAIN past = 1..Len(past)
         /\ past # <<>> /\ past[1].ts = StartTime /\ StartTime \in Nat /\ 1 \in 1..Len(past)
         /\ past[1].ts <= past[j].ts /\ past[j].ts <= past[Len(past)].ts
         /\ Len(past) \in 1..Len(past)
  <1>1. past \in Seq(Prints) /\ past # <<>>  BY DEF History
  <1>2. past[j] \in Prints  BY <1>1
  <1>3. past[j].ts \in Nat /\ past[j].price \in Nat \ {0} /\ past[j].way \in Nat
    BY <1>2, ArenaBotAssumption DEF Prints, ArenaBotAssumption
  <1>4. StartTime \in Nat  BY ArenaBotAssumption DEF ArenaBotAssumption
  <1>5. Len(past) \in Nat /\ DOMAIN past = 1..Len(past) /\ 1 \in 1..Len(past)
        /\ Len(past) \in 1..Len(past)
    BY <1>1
  <1>6. past[1].ts <= past[j].ts
    <2>1. 1 < j => past[1].ts < past[j].ts  BY <1>5 DEF History
    <2>2. past[1].ts \in Nat  BY <1>1, <1>4 DEF History
    <2> QED BY <1>3, <1>5, <2>1, <2>2
  <1>7. past[j].ts <= past[Len(past)].ts
    <2>1. j < Len(past) => past[j].ts < past[Len(past)].ts  BY <1>5 DEF History
    <2>2. past[Len(past)] \in Prints  BY <1>1, <1>5
    <2>3. past[Len(past)].ts \in Nat  BY <2>2 DEF Prints
    <2> QED BY <1>3, <1>5, <2>1, <2>3
  <1> QED BY <1>1, <1>2, <1>3, <1>4, <1>5, <1>6, <1>7 DEF History

\* From the first bucket on, a bucket has prints to say what it was.
LEMMA SeenSome ==
  ASSUME NEW past, History(past), past # <<>>, NEW s, OnGrid(s), FirstBucket(past) <= s
  PROVE  Seen(past, s) \in SUBSET (1..Len(past)) /\ Seen(past, s) # {}
  <1>1. Len(past) \in Nat /\ 1 \in 1..Len(past)  BY DEF History
  <1>2. past[1].ts \in Nat /\ DOMAIN past = 1..Len(past)  BY <1>1, HistoryTypes
  <1>3. Within(past, s) \in SUBSET (1..Len(past)) /\ Before(past, s) \in SUBSET (1..Len(past))
    BY <1>2 DEF Within, Before
  <1>4. Before(past, s) # {} => Max(Before(past, s)) \in Before(past, s)
    BY <1>1, <1>3, Extremes
  <1>5. Seen(past, s) \in SUBSET (1..Len(past))  BY <1>3, <1>4 DEF Seen
  <1>6. CASE s = FirstBucket(past)
    <2>1. 1 \in Within(past, s)  BY <1>1, <1>2, <1>6 DEF Within, FirstBucket
    <2> QED BY <1>5, <2>1 DEF Seen
  <1>7. CASE s # FirstBucket(past)
    <2>1. /\ FirstBucket(past) \in Nat /\ OnGrid(FirstBucket(past))
          /\ past[1].ts < FirstBucket(past) + BucketSecs
      BY <1>2, BucketStartSpec DEF FirstBucket
    <2>2. s \in Int /\ BucketSecs \in Nat
      BY GridShift, ArenaBotAssumption DEF ArenaBotAssumption
    <2>3. FirstBucket(past) + BucketSecs <= s  BY <1>7, <2>1, <2>2, GridApart
    <2>4. past[1].ts < s  BY <1>2, <2>1, <2>2, <2>3
    <2>5. 1 \in Before(past, s)  BY <1>1, <1>2, <2>4 DEF Before
    <2> QED BY <1>5, <2>5 DEF Seen
  <1> QED BY <1>6, <1>7

LEMMA TrueIsBucket ==
  ASSUME NEW past, NEW s, s \in Int, FirstBucket(past) \in Int, FirstBucket(past) <= s
  PROVE  TrueBucket(past, s) = Bucket(past, Seen(past, s), s)
  <1>1. ~(s < FirstBucket(past))  OBVIOUS
  <1> QED BY <1>1 DEF TrueBucket, Bucket

\* The last print is in the last bucket, which closes at it.
LEMMA LastBucket ==
  ASSUME NEW past, History(past), past # <<>>
  PROVE  LET n == Len(past)
             s == BucketStart(past[n].ts)
         IN  /\ n \in Seen(past, s) /\ Seen(past, s) \in SUBSET (1..n)
             /\ TrueBucket(past, s) = Bucket(past, Seen(past, s), s)
             /\ TrueBucket(past, s).close = past[n].price /\ TrueBucket(past, s).start = s
             /\ FirstBucket(past) \in Nat /\ FirstBucket(past) <= s /\ s \in Nat /\ OnGrid(s)
             /\ FirstBucket(past) >= BucketSecs
  <1> DEFINE n == Len(past)
             s == BucketStart(past[n].ts)
  <1>1. n \in Nat /\ n \in 1..n /\ 1 \in 1..n  BY DEF History
  <1>2. past[n].ts \in Nat /\ past[1].ts \in Nat /\ past[1].ts <= past[n].ts
        /\ DOMAIN past = 1..n /\ past[1].ts = StartTime
    BY <1>1, HistoryTypes
  <1>3. FirstBucket(past) \in Nat /\ FirstBucket(past) <= s /\ s \in Nat /\ OnGrid(s)
    BY <1>2, BucketStartSpec, BucketMonotone DEF FirstBucket
  <1>4. FirstBucket(past) >= BucketSecs
    <2>1. BucketSecs \in Nat \ {0} /\ StartTime >= BucketSecs
      BY ArenaBotAssumption DEF ArenaBotAssumption
    <2>2. OnGrid(BucketSecs) /\ OnGrid(FirstBucket(past))
      <3>1. BucketSecs = BucketSecs * 1  BY <2>1
      <3>2. OnGrid(BucketSecs)  BY <3>1 DEF OnGrid
      <3> QED BY <1>2, <3>2, BucketStartSpec DEF FirstBucket
    <2>3. past[1].ts < FirstBucket(past) + BucketSecs  BY <1>2, BucketStartSpec DEF FirstBucket
    <2>4. ASSUME FirstBucket(past) < BucketSecs PROVE FALSE
      BY <1>2, <1>3, <2>1, <2>2, <2>3, <2>4, GridApart
    <2> QED BY <1>3, <2>1, <2>4
  <1>5. Seen(past, s) \in SUBSET (1..n)  BY <1>3, SeenSome
  <1>6. n \in Seen(past, s)  BY <1>1, <1>2 DEF Seen, Within
  <1>7. TrueBucket(past, s) = Bucket(past, Seen(past, s), s)  BY <1>3, TrueIsBucket
  <1>8. Max(Seen(past, s)) = n  BY <1>1, <1>5, <1>6, LastIs
  <1> QED BY <1>1, <1>3, <1>4, <1>5, <1>6, <1>7, <1>8 DEF Bucket

-----------------------------------------------------------------------------
(* A print that is newer.                                                  *)

\* p is what a tick appends to past.
Follows(past, p) ==
    /\ p \in Prints
    /\ past = <<>> => p.ts = StartTime /\ p.way = 0
    /\ past # <<>> =>
          /\ past[Len(past)].ts < p.ts
          /\ p.way = past[Len(past)].way + Distance(p.price, past[Len(past)].price)

LEMMA HistoryGrows ==
  ASSUME NEW past, History(past), NEW p, Follows(past, p)
  PROVE  History(Append(past, p))
  <1> DEFINE n == Len(past)
             longer == Append(past, p)
  <1>1. past \in Seq(Prints) /\ p \in Prints /\ n \in Nat  BY DEF History, Follows
  <1>2. longer \in Seq(Prints) /\ Len(longer) = n + 1 /\ longer[n + 1] = p
        /\ \A j \in 1..n : longer[j] = past[j]
    BY <1>1
  <1>3. longer[1].ts = StartTime
    <2>1. CASE past = <<>>  BY <1>2, <2>1 DEF Follows
    <2>2. CASE past # <<>>
      <3>1. 1 \in 1..n  BY <1>1, <2>2
      <3> QED BY <1>2, <2>2, <3>1 DEF History
    <2> QED BY <2>1, <2>2
  <1> HIDE DEF longer
  <1>4. ASSUME NEW i \in 1..(n + 1), NEW j \in 1..(n + 1), i < j
        PROVE  longer[i].ts < longer[j].ts /\ longer[i].way <= longer[j].way
    <2>1. i \in 1..n  BY <1>1, <1>4
    <2>2. CASE j \in 1..n  BY <1>2, <1>4, <2>1, <2>2 DEF History
    <2>3. CASE j = n + 1
      <3>1. /\ past[i].ts \in Nat /\ past[i].ts <= past[n].ts /\ past # <<>>
            /\ past[i].way \in Nat /\ past[i].price \in Nat
        BY <2>1, HistoryTypes
      <3>2. /\ past[n].ts \in Nat /\ past[n].way \in Nat /\ past[n].price \in Nat /\ n \in 1..n
        BY <2>1, HistoryTypes
      <3>3. past[i].way <= past[n].way
        <4>1. i < n => past[i].way <= past[n].way  BY <2>1, <3>2 DEF History
        <4> QED BY <2>1, <3>1, <3>2, <4>1
      <3>4. p.ts \in Nat /\ p.way \in Nat /\ p.price \in Nat  BY <1>1, PrintTypes
      <3>5. past[n].ts < p.ts /\ p.way = past[n].way + Distance(p.price, past[n].price)
        BY <3>1 DEF Follows
      <3>6. Distance(p.price, past[n].price) \in Nat  BY <3>2, <3>4, DistanceType
      <3>7. longer[i] = past[i] /\ longer[j] = p  BY <1>2, <2>1, <2>3
      <3>8. past[i].ts < p.ts  BY <3>1, <3>2, <3>4, <3>5
      <3>9. past[i].way <= p.way  BY <3>1, <3>2, <3>3, <3>4, <3>5, <3>6
      <3> QED BY <3>7, <3>8, <3>9
    <2> QED BY <1>1, <2>2, <2>3
  <1>5. History(longer)
    <2>1. Len(longer) = n + 1  BY <1>2
    <2> QED BY <1>2, <1>3, <1>4, <2>1 DEF History
  <1> QED BY <1>5 DEF longer

\* A newer print says nothing of buckets before its own.
LEMMA OlderUnchanged ==
  ASSUME NEW past, History(past), past # <<>>, NEW p, Follows(past, p),
         NEW s, OnGrid(s), s < BucketStart(p.ts)
  PROVE  TrueBucket(Append(past, p), s) = TrueBucket(past, s)
  <1> DEFINE n == Len(past)
             longer == Append(past, p)
  <1>1. past \in Seq(Prints) /\ p \in Prints /\ n \in Nat /\ 1 \in 1..n
    BY DEF History, Follows
  <1>2. longer \in Seq(Prints) /\ Len(longer) = n + 1 /\ longer[n + 1] = p
        /\ \A j \in 1..n : longer[j] = past[j]
    BY <1>1
  <1>3. DOMAIN longer = 1..(n + 1) /\ DOMAIN past = 1..n  BY <1>1, <1>2
  <1> HIDE DEF longer
  <1>4. p.ts \in Nat /\ BucketStart(p.ts) \in Nat /\ BucketStart(p.ts) <= p.ts /\ s \in Int
    BY <1>1, BucketStartSpec, GridShift DEF Prints
  <1>5. FirstBucket(longer) = FirstBucket(past)  BY <1>1, <1>2 DEF FirstBucket
  <1>6. Within(longer, s) = Within(past, s)
    <2>1. \A j \in 1..(n + 1) : j \in 1..n \/ j = n + 1  BY <1>1
    <2>2. \A j \in 1..n : j \in 1..(n + 1)  BY <1>1
    <2>3. BucketStart(longer[n + 1].ts) # s  BY <1>2, <1>4
    <2>4. \A j \in 1..n : longer[j] = past[j]  BY <1>2
    <2> QED BY <1>3, <2>1, <2>2, <2>3, <2>4 DEF Within
  <1>7. Before(longer, s) = Before(past, s)
    <2>1. \A j \in 1..(n + 1) : j \in 1..n \/ j = n + 1  BY <1>1
    <2>2. \A j \in 1..n : j \in 1..(n + 1)  BY <1>1
    <2>3. ~(longer[n + 1].ts < s)  BY <1>2, <1>4
    <2>4. \A j \in 1..n : longer[j] = past[j]  BY <1>2
    <2> QED BY <1>3, <2>1, <2>2, <2>3, <2>4 DEF Before
  <1>8. Seen(longer, s) = Seen(past, s)  BY <1>6, <1>7 DEF Seen
  <1>9. CASE s < FirstBucket(past)  BY <1>5, <1>9 DEF TrueBucket, longer
  <1>10. CASE ~(s < FirstBucket(past))
    <2>1. FirstBucket(past) \in Nat  BY LastBucket
    <2>2. FirstBucket(past) <= s  BY <1>4, <1>10, <2>1
    <2>3. /\ TrueBucket(longer, s) = Bucket(longer, Seen(past, s), s)
          /\ TrueBucket(past, s) = Bucket(past, Seen(past, s), s)
      BY <1>4, <1>5, <1>8, <2>1, <2>2, TrueIsBucket
    <2>4. Seen(past, s) \in SUBSET (1..n) /\ Seen(past, s) # {}  BY <2>2, SeenSome
    <2>5. Max(Seen(past, s)) \in Seen(past, s) /\ Min(Seen(past, s)) \in Seen(past, s)
      BY <1>1, <2>4, Extremes
    <2>6. \A j \in Seen(past, s) : longer[j] = past[j]  BY <1>2, <2>4
    <2>7. {longer[j].price : j \in Seen(past, s)} = {past[j].price : j \in Seen(past, s)}
      BY <2>6
    <2> QED BY <2>3, <2>5, <2>6, <2>7 DEF Bucket, longer
  <1> QED BY <1>9, <1>10

\* The prints that say what a bucket after the last one was.
LEMMA SeenAfter ==
  ASSUME NEW past, History(past), past # <<>>, NEW p, Follows(past, p), NEW s, OnGrid(s),
         BucketStart(past[Len(past)].ts) < s, s <= BucketStart(p.ts)
  PROVE  Seen(Append(past, p), s) = IF s = BucketStart(p.ts) THEN {Len(past), Len(past) + 1}
                                    ELSE {Len(past)}
  <1> DEFINE n == Len(past)
             longer == Append(past, p)
             last == BucketStart(past[n].ts)
  <1>1. past \in Seq(Prints) /\ p \in Prints /\ n \in Nat /\ 1 \in 1..n /\ n \in 1..n
    BY DEF History, Follows
  <1>2. longer \in Seq(Prints) /\ Len(longer) = n + 1 /\ longer[n + 1] = p
        /\ \A j \in 1..n : longer[j] = past[j]
    BY <1>1
  <1>3. DOMAIN longer = 1..(n + 1)  BY <1>1, <1>2
  <1> HIDE DEF longer
  <1>4. p.ts \in Nat /\ BucketStart(p.ts) \in Nat /\ BucketStart(p.ts) <= p.ts /\ s \in Int
    <2>1. p.ts \in Nat  BY <1>1, PrintTypes
    <2>2. s \in Int  BY GridShift
    <2> QED BY <2>1, <2>2, BucketStartSpec
  <1>5. /\ past[n].ts \in Nat /\ last \in Nat /\ OnGrid(last)
        /\ past[n].ts < last + BucketSecs
    BY <1>1, HistoryTypes, BucketStartSpec
  <1>6. BucketSecs \in Nat  BY ArenaBotAssumption DEF ArenaBotAssumption
  <1>7. last + BucketSecs <= s  BY <1>5, GridApart
  <1>8. \A j \in 1..n : longer[j].ts < s /\ BucketStart(longer[j].ts) # s
    <2> TAKE j \in 1..n
    <2>1. past[j].ts \in Nat /\ past[j].ts <= past[n].ts  BY HistoryTypes
    <2>2. BucketStart(past[j].ts) \in Nat /\ BucketStart(past[j].ts) <= last
      BY <1>5, <2>1, BucketMonotone, BucketStartSpec
    <2> QED BY <1>2, <1>4, <1>5, <1>6, <1>7, <2>1, <2>2
  <1>9. ~(longer[n + 1].ts < s)  BY <1>2, <1>4
  <1>10. \A j \in 1..(n + 1) : j \in 1..n \/ j = n + 1  BY <1>1
  <1>11. \A j \in 1..n : j \in 1..(n + 1)  BY <1>1
  <1>12. n + 1 \in 1..(n + 1)  BY <1>1
  <1>13. Before(longer, s) = 1..n
    BY <1>3, <1>8, <1>9, <1>10, <1>11 DEF Before
  <1>14. Within(longer, s) = IF s = BucketStart(p.ts) THEN {n + 1} ELSE {}
    BY <1>2, <1>3, <1>8, <1>10, <1>12 DEF Within
  <1>15. Max(1..n) = n /\ 1..n # {}  BY <1>1, LastIs
  <1>16. Seen(longer, s) = Within(longer, s) \cup {n}  BY <1>13, <1>15 DEF Seen
  <1> QED BY <1>14, <1>16 DEF longer

LEMMA OfOne == ASSUME NEW x \in Int PROVE Max({x}) = x /\ Min({x}) = x
  BY DEF Max, Min

LEMMA FlatBucket ==
  ASSUME NEW past \in Seq(Prints), NEW j \in 1..Len(past), NEW s
  PROVE  Bucket(past, {j}, s) = Flat(past[j].price, s)
  <1>1. past[j] \in Prints  OBVIOUS
  <1>2. past[j].price \in Int /\ past[j].way \in Nat  BY <1>1, PrintTypes
  <1>3. Max({j}) = j /\ Min({j}) = j  BY OfOne
  <1>4. Max({past[j].price}) = past[j].price /\ Min({past[j].price}) = past[j].price
    BY <1>2, OfOne
  <1>5. {past[i].price : i \in {j}} = {past[j].price}  OBVIOUS
  <1>6. past[j].way - past[j].way = 0  BY <1>2
  <1> QED BY <1>3, <1>4, <1>5, <1>6 DEF Bucket, Flat

\* A skipped bucket is flat.
LEMMA Skipped ==
  ASSUME NEW past, History(past), past # <<>>, NEW p, Follows(past, p), NEW s, OnGrid(s),
         BucketStart(past[Len(past)].ts) < s, s < BucketStart(p.ts)
  PROVE  TrueBucket(Append(past, p), s) = Flat(past[Len(past)].price, s)
  <1> DEFINE n == Len(past)
             longer == Append(past, p)
  <1>1. past \in Seq(Prints) /\ p \in Prints /\ n \in Nat /\ n \in 1..n /\ 1 \in 1..n
    BY DEF History, Follows
  <1>2. longer \in Seq(Prints) /\ n \in 1..Len(longer) /\ longer[n] = past[n]
        /\ longer[1] = past[1]
    BY <1>1
  <1>3. s \in Int /\ BucketStart(p.ts) \in Nat  BY <1>1, GridShift, BucketStartSpec DEF Prints
  <1>4. Seen(longer, s) = {n}  BY <1>3, SeenAfter
  <1>5. FirstBucket(longer) = FirstBucket(past)  BY <1>2 DEF FirstBucket
  <1>6. FirstBucket(past) \in Nat /\ FirstBucket(past) <= BucketStart(past[n].ts)
        /\ BucketStart(past[n].ts) \in Nat
    BY LastBucket
  <1> HIDE DEF longer
  <1>7. TrueBucket(longer, s) = Bucket(longer, {n}, s)
    <2>1. Seen(longer, s) = {n}  BY <1>4 DEF longer
    <2>2. FirstBucket(longer) \in Int /\ FirstBucket(longer) <= s  BY <1>3, <1>5, <1>6
    <2> QED BY <1>3, <2>1, <2>2, TrueIsBucket
  <1>8. TrueBucket(longer, s) = Flat(past[n].price, s)  BY <1>2, <1>7, FlatBucket
  <1> QED BY <1>8 DEF longer

\* The bucket of the new print: a flat one that is hit, or the last one that is hit.
LEMMA NewBucket ==
  ASSUME NEW past, History(past), past # <<>>, NEW p, Follows(past, p)
  PROVE  LET n == Len(past)
             last == BucketStart(past[n].ts)
             new == BucketStart(p.ts)
             old == IF last = new THEN TrueBucket(past, last) ELSE Flat(past[n].price, new)
         IN  last <= new /\ TrueBucket(Append(past, p), new) = Hit(old, p.price)
  <1> DEFINE n == Len(past)
             longer == Append(past, p)
             last == BucketStart(past[n].ts)
             new == BucketStart(p.ts)
             old == IF last = new THEN TrueBucket(past, last) ELSE Flat(past[n].price, new)
             seen == IF last = new THEN Seen(past, last) ELSE {n}
  <1>1. past \in Seq(Prints) /\ p \in Prints /\ n \in Nat /\ n \in 1..n /\ 1 \in 1..n
    BY DEF History, Follows
  <1>2. longer \in Seq(Prints) /\ Len(longer) = n + 1 /\ longer[n + 1] = p
        /\ \A j \in 1..n : longer[j] = past[j]
    BY <1>1
  <1>3. DOMAIN longer = 1..(n + 1) /\ DOMAIN past = 1..n  BY <1>1, <1>2
  <1> HIDE DEF longer
  <1>4. /\ p.ts \in Nat /\ new \in Nat /\ OnGrid(new) /\ new <= p.ts
        /\ past[n].ts \in Nat /\ past[n].ts < p.ts
    BY <1>1, BucketStartSpec, HistoryTypes, PrintTypes DEF Follows
  <1>5. last <= new /\ last \in Nat
    <2>1. last \in Nat  BY <1>4, BucketStartSpec
    <2>2. past[n].ts <= p.ts  BY <1>4
    <2>3. last <= new  BY <1>4, <2>2, BucketMonotone
    <2> QED BY <2>1, <2>3
  <1>6. /\ n \in Seen(past, last) /\ Seen(past, last) \in SUBSET (1..n)
        /\ TrueBucket(past, last) = Bucket(past, Seen(past, last), last)
        /\ FirstBucket(past) \in Nat /\ FirstBucket(past) <= last
    BY LastBucket
  <1>7. FirstBucket(longer) = FirstBucket(past)  BY <1>1, <1>2 DEF FirstBucket
  <1>8. TrueBucket(longer, new) = Bucket(longer, Seen(longer, new), new)
    BY <1>5, <1>6, <1>7, <1>4, TrueIsBucket
  <1>9. old = Bucket(past, seen, new) /\ n \in seen /\ seen \in SUBSET (1..n)
    BY <1>1, <1>6, FlatBucket
  <1>10. Seen(longer, new) = seen \cup {n + 1}
    <2>1. CASE last = new
      <3>1. \A j \in 1..(n + 1) : j \in 1..n \/ j = n + 1  BY <1>1
      <3>2. \A j \in 1..n : j \in 1..(n + 1)  BY <1>1
      <3>3. n + 1 \in 1..(n + 1)  BY <1>1
      <3>4. Within(longer, new) = Within(past, new) \cup {n + 1}
        BY <1>2, <1>3, <3>1, <3>2, <3>3 DEF Within
      <3>5. ~(longer[n + 1].ts < new)  BY <1>2, <1>4
      <3>6. Before(longer, new) = Before(past, new)
        BY <1>2, <1>3, <3>1, <3>2, <3>5 DEF Before
      <3> QED BY <2>1, <3>4, <3>6 DEF Seen
    <2>2. CASE last # new
      <3>1. last < new  BY <1>4, <1>5, <2>2
      <3>2. Seen(longer, new) = {n, n + 1}  BY <1>4, <3>1, SeenAfter DEF longer
      <3> QED BY <2>2, <3>2
    <2> QED BY <2>1, <2>2
  <1>11. p.way = past[n].way + Distance(p.price, past[n].price)  BY DEF Follows
  <1> HIDE DEF old, seen, new, last
  <1>12. Hit(old, p.price) = Bucket(longer, seen \cup {n + 1}, new)
    BY <1>1, <1>9, <1>11, HitGrows DEF longer
  <1> QED BY <1>5, <1>8, <1>10, <1>12 DEF longer, old, new, last

\* A first print opens the bucket it is in; there is none before.
LEMMA FirstPrint ==
  ASSUME NEW p \in Prints, NEW s, OnGrid(s), s <= BucketStart(p.ts)
  PROVE  TrueBucket(<<p>>, s) = IF s = BucketStart(p.ts) THEN Hit(Flat(p.price, s), p.price)
                                ELSE Blank
  <1> DEFINE past == <<p>>
             new == BucketStart(p.ts)
  <1>1. past \in Seq(Prints) /\ Len(past) = 1 /\ DOMAIN past = {1} /\ past[1] = p
        /\ 1 \in 1..Len(past)
    OBVIOUS
  <1> HIDE DEF past
  <1>2. p.ts \in Nat /\ new \in Nat /\ OnGrid(new) /\ new <= p.ts /\ s \in Int
    BY BucketStartSpec, GridShift DEF Prints
  <1>3. FirstBucket(past) = new  BY <1>1 DEF FirstBucket
  <1>4. CASE s # new
    <2>1. s < FirstBucket(past)  BY <1>2, <1>3, <1>4
    <2> QED BY <1>4, <2>1 DEF TrueBucket, past
  <1>5. CASE s = new
    <2>1. Within(past, s) = {1} /\ Before(past, s) = {}
      BY <1>1, <1>2, <1>5 DEF Within, Before
    <2>2. TrueBucket(past, s) = Bucket(past, {1}, s)
      BY <1>2, <1>3, <1>5, <2>1, TrueIsBucket DEF Seen
    <2>3. TrueBucket(past, s) = Flat(p.price, s)  BY <1>1, <2>2, FlatBucket
    <2>4. p.price \in Nat  BY PrintTypes
    <2> DEFINE x == p.price
    <2>5. Max({x, x}) = x /\ Min({x, x}) = x /\ Distance(x, x) = 0
      BY <2>4, MaxOfTwo, MinOfTwo DEF Distance
    <2> HIDE DEF x
    <2>6. Flat(x, s) = [high |-> x, low |-> x, close |-> x, start |-> s, path |-> 0]
      BY DEF Flat
    <2>7. Hit(Flat(x, s), x)
            = [high |-> Max({x, x}), low |-> Min({x, x}), close |-> x, start |-> s,
               path |-> 0 + Distance(x, x)]
      BY <2>6, HitIs
    <2>8. Hit(Flat(x, s), x) = Flat(x, s)  BY <2>5, <2>6, <2>7
    <2> QED BY <1>5, <2>3, <2>8 DEF past, x
  <1> QED BY <1>4, <1>5

-----------------------------------------------------------------------------
(* What folding a print does to the ring.                                  *)

Places == 0..(RingLen - 1)
MarketStates == [ring : [Places -> Buckets], head : Places, published : Nat]

LEMMA HitType == ASSUME NEW b \in Buckets, NEW price \in Nat PROVE Hit(b, price) \in Buckets
  <1>1. b.high \in Nat /\ b.low \in Nat /\ b.close \in Nat /\ b.path \in Nat
    BY DEF Buckets
  <1>2. Max({b.high, price}) \in Nat /\ Min({b.low, price}) \in Nat
    BY <1>1, MaxOfTwo, MinOfTwo
  <1>3. b.path + Distance(price, b.close) \in Nat
    <2>1. Distance(price, b.close) \in Nat  BY <1>1, DistanceType
    <2> QED BY <1>1, <2>1
  <1> QED BY <1>2, <1>3 DEF Hit, Buckets

LEMMA FlatType ==
  ASSUME NEW close \in Nat, NEW start \in Nat
  PROVE  Flat(close, start) \in Buckets
  BY DEF Flat, Buckets

\* Rolling is some steps of the head, fewer than all around only from the last bucket.
LEMMA RollSteps ==
  ASSUME NEW ms \in MarketStates, NEW target \in Nat, OnGrid(target),
         OnGrid(ms.ring[ms.head].start), ms.ring[ms.head].start < target
  PROVE  LET cur == ms.ring[ms.head]
         IN  \E steps \in 1..RingLen :
                /\ cur.start <= target - steps * BucketSecs
                /\ steps < RingLen => cur.start = target - steps * BucketSecs
                /\ RollForward(ms, target) =
                     [ms EXCEPT !.head = (ms.head + steps) % RingLen,
                                !.ring = [i \in Places |->
                                    IF Turn(ms.head, i) <= steps
                                    THEN Flat(cur.close, target - (steps - Turn(ms.head, i))
                                                                      * BucketSecs)
                                    ELSE ms.ring[i]]]
  <1> DEFINE cur == ms.ring[ms.head]
             all == target - RingLen * BucketSecs
             from == Max({cur.start, all})
             steps == (target - from) \div BucketSecs
  <1>1. RingLen \in Nat \ {0} /\ BucketSecs \in Nat \ {0}
    BY ArenaBotAssumption DEF ArenaBotAssumption
  <1>2. /\ ms.head \in Places /\ ms.ring \in [Places -> Buckets] /\ cur \in Buckets
        /\ cur.start \in Nat
    BY DEF MarketStates, Buckets
  <1>3. all \in Int /\ OnGrid(all)  BY <1>1, GridShift
  <1>4. from = IF cur.start >= all THEN cur.start ELSE all  BY <1>2, <1>3, MaxOfTwo
  <1>5. /\ from \in Int /\ OnGrid(from) /\ cur.start <= from /\ all <= from
        /\ from = cur.start \/ from = all
    BY <1>2, <1>3, <1>4
  <1>6. RingLen * BucketSecs \in Nat \ {0}  BY <1>1
  <1>7. from < target  BY <1>2, <1>5, <1>6
  <1>8. PICK k \in Int : target - from = BucketSecs * k
    <2>1. PICK l \in Int : target = BucketSecs * l  BY DEF OnGrid
    <2>2. PICK i \in Int : from = BucketSecs * i  BY <1>5 DEF OnGrid
    <2>3. BucketSecs * (l - i) = BucketSecs * l - BucketSecs * i  BY <1>1
    <2>4. l - i \in Int /\ target - from = BucketSecs * (l - i)  BY <2>1, <2>2, <2>3
    <2> QED BY <2>4
  <1> HIDE DEF from
  <1>9. steps = k
    <2> DEFINE r == (target - from) % BucketSecs
    <2>1. steps \in Int /\ r \in 0..(BucketSecs - 1) /\ target - from = BucketSecs * steps + r
      BY <1>1, <1>5, DivSpec
    <2> HIDE DEF steps, r
    <2>2. BucketSecs * k = BucketSecs * steps + r  BY <1>8, <2>1
    <2>3. ASSUME k >= steps + 1 PROVE FALSE
      <3>1. BucketSecs * k >= BucketSecs * (steps + 1)  BY <1>1, <2>1, <2>3
      <3>2. BucketSecs * (steps + 1) = BucketSecs * steps + BucketSecs  BY <1>1, <2>1
      <3>3. BucketSecs * steps \in Int  BY <1>1, <2>1
      <3> QED BY <1>1, <2>1, <2>2, <3>1, <3>2, <3>3
    <2>4. ASSUME k <= steps - 1 PROVE FALSE
      <3>1. BucketSecs * k <= BucketSecs * (steps - 1)  BY <1>1, <2>1, <2>4
      <3>2. BucketSecs * (steps - 1) = BucketSecs * steps - BucketSecs  BY <1>1, <2>1
      <3>3. BucketSecs * steps \in Int  BY <1>1, <2>1
      <3> QED BY <1>1, <2>1, <2>2, <3>1, <3>2, <3>3
    <2> QED BY <2>1, <2>3, <2>4
  <1>10. k \in 1..RingLen
    <2>1. ASSUME k <= 0 PROVE FALSE
      <3>1. BucketSecs * k <= 0  BY <1>1, <2>1
      <3> QED BY <1>5, <1>7, <1>8, <3>1
    <2>2. ASSUME k >= RingLen + 1 PROVE FALSE
      <3>1. BucketSecs * k >= BucketSecs * (RingLen + 1)  BY <1>1, <2>2
      <3>2. BucketSecs * (RingLen + 1) = RingLen * BucketSecs + BucketSecs  BY <1>1
      <3> QED BY <1>1, <1>5, <1>6, <1>8, <3>1, <3>2
    <2> QED BY <1>1, <2>1, <2>2
  <1>11. from = target - k * BucketSecs
    <2>1. k * BucketSecs = BucketSecs * k /\ BucketSecs * k \in Int  BY <1>1
    <2> QED BY <1>5, <1>8, <2>1
  <1>12. k < RingLen => from = cur.start
    <2> SUFFICES ASSUME k < RingLen, from = all PROVE FALSE
      BY <1>5
    <2>1. BucketSecs * k = BucketSecs * RingLen
      BY <1>1, <1>6, <1>8
    <2>2. BucketSecs * k < BucketSecs * RingLen  BY <1>1
    <2>3. BucketSecs * k \in Int  BY <1>1
    <2> QED BY <1>1, <2>1, <2>2, <2>3
  <1>13. \A i \in Places :
            from + Turn(ms.head, i) * BucketSecs
              = target - (k - Turn(ms.head, i)) * BucketSecs
    <2> TAKE i \in Places
    <2>1. Turn(ms.head, i) \in Int  BY <1>1, <1>2 DEF Turn, Places
    <2>2. (k - Turn(ms.head, i)) * BucketSecs
            = k * BucketSecs - Turn(ms.head, i) * BucketSecs
      BY <1>1, <2>1
    <2>3. k * BucketSecs \in Int /\ Turn(ms.head, i) * BucketSecs \in Int  BY <1>1, <2>1
    <2> QED BY <1>11, <2>2, <2>3
  <1>14. RollForward(ms, target) =
            [ms EXCEPT !.head = (ms.head + k) % RingLen,
                       !.ring = [i \in Places |->
                            IF Turn(ms.head, i) <= k
                            THEN Flat(cur.close, from + Turn(ms.head, i) * BucketSecs)
                            ELSE ms.ring[i]]]
    <2>1. DOMAIN ms.ring = Places  BY <1>2
    <2>2. RollForward(ms, target) =
            [ms EXCEPT !.head = (ms.head + steps) % RingLen,
                       !.ring = [i \in DOMAIN ms.ring |->
                            IF Turn(ms.head, i) <= steps
                            THEN Flat(cur.close, from + Turn(ms.head, i) * BucketSecs)
                            ELSE ms.ring[i]]]
      BY <1>2 DEF RollForward, Turn, from, MarketStates
    <2> HIDE DEF steps, cur
    <2> QED BY <1>9, <2>1, <2>2
  <1>15. RollForward(ms, target) =
            [ms EXCEPT !.head = (ms.head + k) % RingLen,
                       !.ring = [i \in Places |->
                            IF Turn(ms.head, i) <= k
                            THEN Flat(cur.close, target - (k - Turn(ms.head, i)) * BucketSecs)
                            ELSE ms.ring[i]]]
    <2> HIDE DEF cur
    <2> QED BY <1>13, <1>14
  <1> HIDE DEF cur
  <1>16. cur.start <= target - k * BucketSecs
         /\ (k < RingLen => cur.start = target - k * BucketSecs)
    BY <1>5, <1>11, <1>12
  <1> QED BY <1>10, <1>15, <1>16 DEF cur

\* A ring shows a history: typed, zeroed before the first print, and after it what all
\* prints say.
Kept(ms, past) ==
    /\ ms \in MarketStates /\ History(past)
    /\ past = <<>> => ms.published = 0 /\ \A i \in Places : ms.ring[i] = Blank
    /\ past # <<>> => ms.published = past[Len(past)].ts /\ Shows(ms, past)

\* What the ring says of the last bucket, and of those before it.
LEMMA ShownBuckets ==
  ASSUME NEW ms, NEW past, Kept(ms, past), past # <<>>
  PROVE  LET last == BucketStart(past[Len(past)].ts)
         IN  /\ \A i \in Places :
                   ms.ring[BackFrom(ms.head, i)] = TrueBucket(past, last - i * BucketSecs)
             /\ ms.ring[ms.head] = TrueBucket(past, last)
  <1> DEFINE last == BucketStart(past[Len(past)].ts)
  <1>1. \A i \in Places :
            ms.ring[BackFrom(ms.head, i)] = TrueBucket(past, last - i * BucketSecs)
    BY DEF Kept, Shows, BucketBack, Last, Places
  <1>2. 0 \in Places /\ ms.head \in Places
    BY ArenaBotAssumption DEF ArenaBotAssumption, Kept, MarketStates, Places
  <1>3. last \in Nat /\ BucketSecs \in Nat
    BY LastBucket, ArenaBotAssumption DEF Kept, ArenaBotAssumption
  <1> HIDE DEF last
  <1>4. BackFrom(ms.head, 0) = ms.head  BY <1>2, BackApart DEF Places
  <1>5. last - 0 * BucketSecs = last  BY <1>3
  <1>6. ms.ring[ms.head] = TrueBucket(past, last)  BY <1>1, <1>2, <1>4, <1>5
  <1> QED BY <1>1, <1>6 DEF last

\* A print of the bucket at the head.
LEMMA FoldSame ==
  ASSUME NEW ms, NEW past, Kept(ms, past), past # <<>>, NEW p, Follows(past, p),
         p.ts < BucketStart(past[Len(past)].ts) + BucketSecs
  PROVE  Kept(FoldPrice(ms, p.price, p.ts), Append(past, p))
  <1> DEFINE n == Len(past)
             longer == Append(past, p)
             last == BucketStart(past[n].ts)
             f == FoldPrice(ms, p.price, p.ts)
  <1>1. past \in Seq(Prints) /\ p \in Prints /\ n \in Nat /\ n \in 1..n
    BY DEF Kept, History, Follows
  <1>2. Len(longer) = n + 1 /\ longer[n + 1] = p /\ longer # <<>>  BY <1>1
  <1>3. /\ ms.ring \in [Places -> Buckets] /\ ms.head \in Places /\ ms.published \in Nat
        /\ ms \in MarketStates
    BY DEF Kept, MarketStates
  <1>4. /\ p.ts \in Nat /\ p.price \in Nat /\ last \in Nat /\ OnGrid(last)
        /\ last <= past[n].ts /\ past[n].ts < p.ts /\ past[n].ts \in Nat
        /\ BucketSecs \in Nat \ {0} /\ last >= BucketSecs
    <2>1. p.ts \in Nat /\ p.price \in Nat  BY <1>1, PrintTypes
    <2>2. past[n].ts \in Nat /\ past[n].ts < p.ts  BY <1>1, HistoryTypes DEF Kept, Follows
    <2>3. last \in Nat /\ OnGrid(last) /\ last <= past[n].ts  BY <2>2, BucketStartSpec
    <2>4. FirstBucket(past) \in Nat /\ FirstBucket(past) <= last
          /\ FirstBucket(past) >= BucketSecs
      BY LastBucket DEF Kept
    <2>5. BucketSecs \in Nat \ {0}  BY ArenaBotAssumption DEF ArenaBotAssumption
    <2> HIDE DEF last
    <2> QED BY <2>1, <2>2, <2>3, <2>4, <2>5
  <1>5. BucketStart(p.ts) = last  BY <1>4, BucketIs
  <1>6. ms.ring[ms.head] = TrueBucket(past, last) /\ ms.ring[ms.head].start = last
    BY ShownBuckets, LastBucket DEF Kept
  <1>7. f = [ms EXCEPT !.ring = [ms.ring EXCEPT ![ms.head] = Hit(@, p.price)],
                       !.published = p.ts]
    <2> HIDE DEF last
    <2>1. ms.ring[ms.head].start # 0 /\ p.ts < ms.ring[ms.head].start + BucketSecs
      BY <1>4, <1>6 DEF last
    <2> DEFINE rolled ==
                 CASE ms.ring[ms.head].start = 0 ->
                        [ms EXCEPT !.ring[ms.head] = Flat(p.price, BucketStart(p.ts))]
                   [] ms.ring[ms.head].start # 0 /\ p.ts < ms.ring[ms.head].start + BucketSecs
                        -> ms
                   [] OTHER -> RollForward(ms, BucketStart(p.ts))
    <2>2. rolled = ms  BY <2>1
    <2>3. f = [rolled EXCEPT !.ring[rolled.head] = Hit(@, p.price), !.published = p.ts]
      BY DEF FoldPrice
    <2> HIDE DEF f, rolled
    <2> QED BY <1>3, <2>2, <2>3 DEF MarketStates
  <1>8. Hit(ms.ring[ms.head], p.price) \in Buckets  BY <1>3, <1>4, HitType
  <1>9. [ms.ring EXCEPT ![ms.head] = Hit(@, p.price)] \in [Places -> Buckets]
    BY <1>3, <1>8
  <1>10. f \in MarketStates  BY <1>3, <1>4, <1>7, <1>9 DEF MarketStates
  <1>11. f.published = p.ts /\ f.head = ms.head
         /\ \A j \in Places : f.ring[j] = IF j = ms.head THEN Hit(ms.ring[j], p.price)
                                          ELSE ms.ring[j]
    BY <1>3, <1>7 DEF MarketStates
  <1>12. History(longer)  BY HistoryGrows DEF Kept
  <1> HIDE DEF f, longer, last
  <1>13. ASSUME NEW i \in Places
         PROVE  f.ring[BackFrom(f.head, i)] = TrueBucket(longer, last - i * BucketSecs)
    <2>1. BackFrom(ms.head, i) \in Places /\ BackFrom(ms.head, 0) = ms.head
          /\ (BackFrom(ms.head, i) = ms.head => i = 0)
      BY <1>3, BackIs, BackApart DEF Places
    <2>2. i \in Nat  BY ArenaBotAssumption DEF Places, ArenaBotAssumption
    <2>3. CASE i = 0
      <3>1. TrueBucket(longer, last) = Hit(TrueBucket(past, last), p.price)
        BY <1>5, NewBucket DEF Kept, longer, last
      <3>2. last - i * BucketSecs = last  BY <1>4, <2>3
      <3> QED BY <1>3, <1>6, <1>11, <2>1, <2>3, <3>1, <3>2
    <2>4. CASE i # 0
      <3>1. ms.ring[BackFrom(ms.head, i)] = TrueBucket(past, last - i * BucketSecs)
        BY ShownBuckets DEF last
      <3>2. last - i * BucketSecs < last
        <4>1. i * BucketSecs >= 1 * BucketSecs  BY <1>4, <2>2, <2>4
        <4>2. i * BucketSecs \in Nat  BY <1>4, <2>2
        <4> QED BY <1>4, <4>1, <4>2
      <3>3. OnGrid(last - i * BucketSecs)  BY <1>4, <2>2, GridShift
      <3>4. TrueBucket(longer, last - i * BucketSecs) = TrueBucket(past, last - i * BucketSecs)
        BY <1>5, <3>2, <3>3, OlderUnchanged DEF Kept, longer
      <3> QED BY <1>11, <2>1, <2>4, <3>1, <3>4
    <2> QED BY <2>3, <2>4
  <1>14. Shows(f, longer)
    BY <1>2, <1>5, <1>13 DEF Shows, BucketBack, Last, Places
  <1> QED BY <1>2, <1>10, <1>11, <1>12, <1>14 DEF Kept, f, longer

\* A print of a later bucket, however far ahead.
LEMMA FoldLater ==
  ASSUME NEW ms, NEW past, Kept(ms, past), past # <<>>, NEW p, Follows(past, p),
         p.ts >= BucketStart(past[Len(past)].ts) + BucketSecs
  PROVE  Kept(FoldPrice(ms, p.price, p.ts), Append(past, p))
  <1> DEFINE n == Len(past)
             longer == Append(past, p)
             last == BucketStart(past[n].ts)
             new == BucketStart(p.ts)
             f == FoldPrice(ms, p.price, p.ts)
             rolled == RollForward(ms, new)
  <1>1. past \in Seq(Prints) /\ p \in Prints /\ n \in Nat /\ n \in 1..n
    BY DEF Kept, History, Follows
  <1>2. Len(longer) = n + 1 /\ longer[n + 1] = p /\ longer # <<>>  BY <1>1
  <1>3. /\ ms.ring \in [Places -> Buckets] /\ ms.head \in Places /\ ms.published \in Nat
        /\ ms \in MarketStates /\ ms.ring[ms.head] \in Buckets
    BY DEF Kept, MarketStates
  <1>4. /\ p.ts \in Nat /\ p.price \in Nat /\ last \in Nat /\ OnGrid(last)
        /\ past[n].price \in Nat /\ new \in Nat /\ OnGrid(new) /\ new <= p.ts
        /\ BucketSecs \in Nat \ {0} /\ last >= BucketSecs /\ p.ts < new + BucketSecs
    <2>1. p.ts \in Nat /\ p.price \in Nat  BY <1>1, PrintTypes
    <2>2. past[n].ts \in Nat /\ past[n].price \in Nat  BY <1>1, HistoryTypes DEF Kept
    <2>3. last \in Nat /\ OnGrid(last)  BY <2>2, BucketStartSpec
    <2>4. new \in Nat /\ OnGrid(new) /\ new <= p.ts /\ p.ts < new + BucketSecs
      BY <2>1, BucketStartSpec
    <2>5. FirstBucket(past) \in Nat /\ FirstBucket(past) <= last
          /\ FirstBucket(past) >= BucketSecs
      BY LastBucket DEF Kept
    <2>6. BucketSecs \in Nat \ {0}  BY ArenaBotAssumption DEF ArenaBotAssumption
    <2> HIDE DEF last, new
    <2> QED BY <2>1, <2>2, <2>3, <2>4, <2>5, <2>6
  <1>5. last < new
    <2>1. new # last  BY <1>4
    <2>2. ASSUME new < last PROVE FALSE
      BY <1>4, <2>2
    <2> QED BY <1>4, <2>1, <2>2
  <1>6. ms.ring[ms.head] = TrueBucket(past, last) /\ ms.ring[ms.head].start = last
        /\ ms.ring[ms.head].close = past[n].price
    BY ShownBuckets, LastBucket DEF Kept
  <1> HIDE DEF last, new
  <1>7. PICK steps \in 1..RingLen :
            /\ last <= new - steps * BucketSecs
            /\ steps < RingLen => last = new - steps * BucketSecs
            /\ rolled = [ms EXCEPT !.head = (ms.head + steps) % RingLen,
                                   !.ring = [i \in Places |->
                                        IF Turn(ms.head, i) <= steps
                                        THEN Flat(past[n].price,
                                                  new - (steps - Turn(ms.head, i)) * BucketSecs)
                                        ELSE ms.ring[i]]]
    <2> DEFINE cur == ms.ring[ms.head]
    <2>1. OnGrid(cur.start) /\ cur.start < new  BY <1>4, <1>5, <1>6
    <2>2. \E steps \in 1..RingLen :
            /\ cur.start <= new - steps * BucketSecs
            /\ steps < RingLen => cur.start = new - steps * BucketSecs
            /\ rolled = [ms EXCEPT !.head = (ms.head + steps) % RingLen,
                                   !.ring = [i \in Places |->
                                        IF Turn(ms.head, i) <= steps
                                        THEN Flat(cur.close,
                                                  new - (steps - Turn(ms.head, i)) * BucketSecs)
                                        ELSE ms.ring[i]]]
      BY <1>3, <1>4, <2>1, RollSteps
    <2>3. cur.start = last /\ cur.close = past[n].price  BY <1>6
    <2> HIDE DEF cur, rolled, n
    <2> QED BY <2>2, <2>3
  <1> DEFINE head == (ms.head + steps) % RingLen
             ring == [i \in Places |->
                        IF Turn(ms.head, i) <= steps
                        THEN Flat(past[n].price, new - (steps - Turn(ms.head, i)) * BucketSecs)
                        ELSE ms.ring[i]]
  <1> HIDE DEF rolled
  <1>8. rolled = [ms EXCEPT !.head = head, !.ring = ring]  BY <1>7
  <1>9. RingLen \in Nat \ {0}  BY ArenaBotAssumption DEF ArenaBotAssumption
  <1>10. head \in Places  BY <1>3, TurnBack DEF Places
  <1> HIDE DEF head
  <1>11. ring \in [Places -> Buckets]
    <2> SUFFICES ASSUME NEW i \in Places, Turn(ms.head, i) <= steps
                 PROVE  Flat(past[n].price, new - (steps - Turn(ms.head, i)) * BucketSecs)
                            \in Buckets
      BY <1>3
    <2>1. Turn(ms.head, i) \in Nat  BY <1>3, <1>9 DEF Turn, Places
    <2>2. (steps - Turn(ms.head, i)) * BucketSecs <= steps * BucketSecs
          /\ (steps - Turn(ms.head, i)) * BucketSecs \in Int /\ steps * BucketSecs \in Int
      BY <1>4, <2>1
    <2>3. new - (steps - Turn(ms.head, i)) * BucketSecs \in Nat  BY <1>4, <1>7, <2>2
    <2> QED BY <1>4, <2>3, FlatType
  <1>12. /\ rolled.head = head /\ rolled.ring = ring
         /\ f = [ms EXCEPT !.head = head, !.ring = [ring EXCEPT ![head] = Hit(@, p.price)],
                           !.published = p.ts]
    <2>1. rolled.head = head /\ rolled.ring = ring  BY <1>3, <1>8 DEF MarketStates
    <2>2. f = [rolled EXCEPT !.ring[rolled.head] = Hit(@, p.price), !.published = p.ts]
      <3>1. ms.ring[ms.head].start # 0 /\ ~(p.ts < ms.ring[ms.head].start + BucketSecs)
        BY <1>4, <1>6 DEF last
      <3> DEFINE folded ==
                   CASE ms.ring[ms.head].start = 0 ->
                          [ms EXCEPT !.ring[ms.head] = Flat(p.price, BucketStart(p.ts))]
                     [] ms.ring[ms.head].start # 0
                          /\ p.ts < ms.ring[ms.head].start + BucketSecs -> ms
                     [] OTHER -> RollForward(ms, BucketStart(p.ts))
      <3>2. folded = rolled  BY <3>1 DEF rolled, new
      <3>3. f = [folded EXCEPT !.ring[folded.head] = Hit(@, p.price), !.published = p.ts]
        BY DEF FoldPrice
      <3> HIDE DEF f, folded
      <3> QED BY <3>2, <3>3
    <2> HIDE DEF f, ring
    <2>3. f = [rolled EXCEPT !.ring = [ring EXCEPT ![head] = Hit(@, p.price)],
                             !.published = p.ts]
      BY <2>1, <2>2
    <2> QED BY <1>3, <1>8, <2>1, <2>3 DEF MarketStates
  <1>13. \A i \in Places :
            ring[i] = IF Turn(ms.head, i) <= steps
                      THEN Flat(past[n].price, new - (steps - Turn(ms.head, i)) * BucketSecs)
                      ELSE ms.ring[i]
    OBVIOUS
  <1> HIDE DEF ring, f
  <1>14. Hit(ring[head], p.price) \in Buckets  BY <1>4, <1>10, <1>11, HitType
  <1>15. [ring EXCEPT ![head] = Hit(@, p.price)] \in [Places -> Buckets]
    BY <1>10, <1>11, <1>14
  <1>16. f \in MarketStates  BY <1>3, <1>4, <1>10, <1>12, <1>15 DEF MarketStates
  <1>17. f.published = p.ts /\ f.head = head
         /\ \A j \in Places : f.ring[j] = IF j = head THEN Hit(ring[j], p.price) ELSE ring[j]
    BY <1>3, <1>10, <1>11, <1>12 DEF MarketStates
  <1>18. History(longer)  BY HistoryGrows DEF Kept
  <1> HIDE DEF longer
  <1>19. ASSUME NEW i \in Places
         PROVE  f.ring[BackFrom(f.head, i)] = TrueBucket(longer, new - i * BucketSecs)
    <2>1. BackFrom(head, i) \in Places /\ BackFrom(head, 0) = head
          /\ (BackFrom(head, i) = head => i = 0)
      BY <1>10, BackIs, BackApart DEF Places
    <2>2. i \in Nat  BY <1>9 DEF Places
    <2>3. /\ i < steps => Turn(ms.head, BackFrom(head, i)) = steps - i
          /\ i >= steps => /\ Turn(ms.head, BackFrom(head, i)) > steps
                           /\ BackFrom(head, i) = BackFrom(ms.head, i - steps)
      BY <1>3, TurnBack DEF Places, head
    <2>4. i * BucketSecs \in Nat /\ steps * BucketSecs \in Nat  BY <1>4, <2>2
    <2>5. OnGrid(new - i * BucketSecs)  BY <1>4, <2>2, GridShift
    <2>6. i # 0 => new - i * BucketSecs < new
      <3>1. i # 0 => i * BucketSecs >= 1 * BucketSecs  BY <1>4, <2>2
      <3> QED BY <1>4, <2>4, <3>1
    <2>7. CASE i < steps
      <3>1. steps - (steps - i) = i /\ steps - i <= steps  BY <1>9, <2>2
      <3>2. ring[BackFrom(head, i)] = Flat(past[n].price, new - i * BucketSecs)
        BY <1>13, <2>1, <2>3, <2>7, <3>1
      <3>3. CASE i = 0
        <4>1. TrueBucket(longer, new) = Hit(Flat(past[n].price, new), p.price)
          BY <1>4, <1>5, NewBucket DEF Kept, longer, last, new
        <4>2. new - i * BucketSecs = new  BY <1>4, <3>3
        <4> QED BY <1>10, <1>17, <2>1, <3>2, <3>3, <4>1, <4>2
      <3>4. CASE i # 0
        <4>1. last < new - i * BucketSecs
          <5>1. (i + 1) * BucketSecs <= steps * BucketSecs  BY <1>4, <2>2, <2>7
          <5>2. (i + 1) * BucketSecs = i * BucketSecs + BucketSecs  BY <1>4, <2>2
          <5> QED BY <1>4, <1>7, <2>4, <5>1, <5>2
        <4>2. TrueBucket(longer, new - i * BucketSecs)
                = Flat(past[n].price, new - i * BucketSecs)
          BY <2>5, <2>6, <3>4, <4>1, Skipped DEF Kept, longer, last, new
        <4> QED BY <1>17, <2>1, <3>2, <3>4, <4>2
      <3> QED BY <3>3, <3>4
    <2>8. CASE i >= steps
      <3>1. steps < RingLen /\ i - steps \in Places /\ i # 0  BY <1>9, <2>2, <2>8 DEF Places
      <3>2. ring[BackFrom(head, i)] = ms.ring[BackFrom(ms.head, i - steps)]
        <4>1. Turn(ms.head, BackFrom(head, i)) \in Int
          BY <1>3, <1>9, <2>1 DEF Turn, Places
        <4> QED BY <1>13, <2>1, <2>3, <2>8, <4>1
      <3>3. ms.ring[BackFrom(ms.head, i - steps)]
              = TrueBucket(past, last - (i - steps) * BucketSecs)
        BY <3>1, ShownBuckets DEF last
      <3>4. last - (i - steps) * BucketSecs = new - i * BucketSecs
        <4>1. (i - steps) * BucketSecs = i * BucketSecs - steps * BucketSecs
          BY <1>4, <2>2
        <4> QED BY <1>4, <1>7, <2>4, <3>1, <4>1
      <3>5. TrueBucket(longer, new - i * BucketSecs) = TrueBucket(past, new - i * BucketSecs)
        BY <2>5, <2>6, <3>1, OlderUnchanged DEF Kept, longer, new
      <3> QED BY <1>17, <2>1, <3>1, <3>2, <3>3, <3>4, <3>5
    <2> QED BY <2>2, <2>7, <2>8
  <1>20. Shows(f, longer)
    BY <1>2, <1>19 DEF Shows, BucketBack, Last, Places, longer, new
  <1> QED BY <1>2, <1>16, <1>17, <1>18, <1>20 DEF Kept, f, longer

\* The first print.
LEMMA FoldFirst ==
  ASSUME NEW ms, Kept(ms, <<>>), NEW p, Follows(<<>>, p)
  PROVE  Kept(FoldPrice(ms, p.price, p.ts), <<p>>)
  <1> DEFINE past == <<p>>
             new == BucketStart(p.ts)
             f == FoldPrice(ms, p.price, p.ts)
             fresh == Hit(Flat(p.price, new), p.price)
  <1>1. p \in Prints /\ past # <<>> /\ Len(past) = 1 /\ past[1] = p  BY DEF Follows
  <1>2. /\ ms.ring \in [Places -> Buckets] /\ ms.head \in Places /\ ms.published \in Nat
        /\ ms \in MarketStates /\ \A i \in Places : ms.ring[i] = Blank
    BY DEF Kept, MarketStates
  <1>3. /\ p.ts \in Nat /\ p.price \in Nat /\ new \in Nat /\ OnGrid(new)
        /\ BucketSecs \in Nat \ {0}
    BY <1>1, BucketStartSpec, ArenaBotAssumption DEF Prints, ArenaBotAssumption
  <1>4. fresh \in Buckets  BY <1>3, FlatType, HitType
  <1>5. f = [ms EXCEPT !.ring = [ms.ring EXCEPT ![ms.head] = fresh], !.published = p.ts]
    <2>1. ms.ring[ms.head].start = 0  BY <1>2 DEF Blank
    <2>2. f = [[ms EXCEPT !.ring[ms.head] = Flat(p.price, new)]
                    EXCEPT !.ring[ms.head] = Hit(@, p.price), !.published = p.ts]
      BY <1>2, <2>1 DEF FoldPrice, MarketStates
    <2> HIDE DEF f, new
    <2> QED BY <1>2, <2>2 DEF MarketStates
  <1> HIDE DEF f, fresh, past
  <1>6. [ms.ring EXCEPT ![ms.head] = fresh] \in [Places -> Buckets]  BY <1>2, <1>4
  <1>7. f \in MarketStates  BY <1>2, <1>3, <1>5, <1>6 DEF MarketStates
  <1>8. f.published = p.ts /\ f.head = ms.head
        /\ \A j \in Places : f.ring[j] = IF j = ms.head THEN fresh ELSE Blank
    BY <1>2, <1>5 DEF MarketStates
  <1>9. History(past)
    <2>1. History(<<>>)  BY DEF Kept
    <2>2. History(Append(<<>>, p))  BY <2>1, HistoryGrows
    <2>3. Append(<<>>, p) = <<p>>  BY <1>1
    <2> QED BY <2>2, <2>3 DEF past
  <1>10. ASSUME NEW i \in Places
         PROVE  f.ring[BackFrom(f.head, i)] = TrueBucket(past, new - i * BucketSecs)
    <2>1. BackFrom(ms.head, i) \in Places /\ BackFrom(ms.head, 0) = ms.head
          /\ (BackFrom(ms.head, i) = ms.head => i = 0)
      BY <1>2, BackIs, BackApart DEF Places
    <2>2. i \in Nat  BY ArenaBotAssumption DEF Places, ArenaBotAssumption
    <2>3. OnGrid(new - i * BucketSecs) /\ new - i * BucketSecs \in Int
      BY <1>3, <2>2, GridShift
    <2>4. CASE i = 0
      <3>1. new - i * BucketSecs = new  BY <1>3, <2>4
      <3>2. TrueBucket(past, new) = fresh
        BY <1>1, <1>3, FirstPrint DEF past, fresh, new
      <3> QED BY <1>2, <1>8, <2>1, <2>4, <3>1, <3>2
    <2>5. CASE i # 0
      <3>1. i * BucketSecs >= 1 * BucketSecs /\ i * BucketSecs \in Nat
        BY <1>3, <2>2, <2>5
      <3>2. new - i * BucketSecs < new  BY <1>3, <3>1
      <3>3. TrueBucket(past, new - i * BucketSecs) = Blank
        BY <1>1, <1>3, <2>3, <3>2, FirstPrint DEF past, new
      <3> QED BY <1>2, <1>8, <2>1, <2>5, <3>3
    <2> QED BY <2>4, <2>5
  <1>11. Shows(f, past)
    BY <1>1, <1>10 DEF Shows, BucketBack, Last, Places, new
  <1> QED BY <1>1, <1>7, <1>8, <1>9, <1>11 DEF Kept, f, past

-----------------------------------------------------------------------------
(* The inductive invariant.                                                *)

\* A position has room to age at each visit that may come yet.
Roomy(p, left, published) ==
    p.ticks + 1 + left <= MaxVisits * (1 + published - p.since)

Paced ==
    \A s \in Slots : bot.slots[s] # Free =>
        LET m == bot.slots[s].market IN Roomy(bot.slots[s], visits[m], state[m].published)

ArenaInv ==
    /\ state \in [Markets -> MarketStates] /\ prints \in [Markets -> Seq(Prints)]
    /\ \A m \in Markets : Kept(state[m], prints[m]) /\ Len(prints[m]) <= MaxPrints
    /\ visits \in [Markets -> 0..MaxVisits]
    /\ \A m \in Markets : visits[m] > 0 => prints[m] # <<>>
    /\ Good(bot)
    /\ Paced

LEMMA FoldKeeps ==
  ASSUME NEW ms, NEW past, Kept(ms, past), NEW p, Follows(past, p)
  PROVE  Kept(FoldPrice(ms, p.price, p.ts), Append(past, p))
  <1>1. CASE past = <<>>
    <2>1. Append(past, p) = <<p>>  BY <1>1
    <2> QED BY <1>1, <2>1, FoldFirst
  <1>2. CASE past # <<>>
    <2>1. Len(past) \in 1..Len(past) /\ past \in Seq(Prints)  BY <1>2 DEF Kept, History
    <2>2. BucketStart(past[Len(past)].ts) + BucketSecs \in Int /\ p.ts \in Int
      BY <1>2, LastBucket, ArenaBotAssumption DEF Kept, Follows, Prints, ArenaBotAssumption
    <2>3. \/ p.ts < BucketStart(past[Len(past)].ts) + BucketSecs
          \/ p.ts >= BucketStart(past[Len(past)].ts) + BucketSecs
      BY <2>2
    <2> QED BY <1>2, <2>3, FoldSame, FoldLater
  <1> QED BY <1>1, <1>2

LEMMA InitInv == Init => ArenaInv
  <1> SUFFICES ASSUME Init PROVE ArenaInv
    OBVIOUS
  <1>1. /\ RingLen \in Nat \ {0} /\ StartBalance \in Nat /\ MaxPrints \in Nat
        /\ 0 \in Places
    BY ArenaBotAssumption DEF ArenaBotAssumption, Places
  <1>2. Blank \in Buckets  BY DEF Blank, Buckets
  <1>3. [ring |-> [i \in Places |-> Blank], head |-> 0, published |-> 0] \in MarketStates
    BY <1>1, <1>2 DEF MarketStates
  <1>4. state \in [Markets -> MarketStates] /\ prints \in [Markets -> Seq(Prints)]
    BY <1>3 DEF Init, Places
  <1>5. History(<<>>)  BY DEF History
  <1>6. \A m \in Markets : Kept(state[m], prints[m]) /\ Len(prints[m]) <= MaxPrints
    BY <1>1, <1>3, <1>4, <1>5 DEF Init, Kept, Places
  <1>7. \A s \in Slots : bot.slots[s] = Free  BY DEF Init
  <1>8. Good(bot)
    <2>1. bot \in Bots  BY <1>1 DEF Init, Bots
    <2>2. Locked(bot) = 0  BY <1>7 DEF Locked, Stake, Slots
    <2>3. bot.balance = StartBalance /\ bot.pnl = 0 /\ bot.spent = 0  BY DEF Init
    <2> QED BY <1>1, <2>1, <2>2, <2>3 DEF Good
  <1>9. Paced  BY <1>7 DEF Paced
  <1>10. visits = [m \in Markets |-> 0] /\ MaxVisits \in Nat
    BY ArenaBotAssumption DEF Init, ArenaBotAssumption
  <1>11. visits \in [Markets -> 0..MaxVisits]
         /\ \A m \in Markets : visits[m] > 0 => prints[m] # <<>>
    BY <1>10
  <1> QED BY <1>4, <1>6, <1>8, <1>9, <1>11 DEF ArenaInv

\* One second more is room for the visits of one more transaction.
LEMMA TimesStep ==
  ASSUME NEW v \in Nat, NEW a \in Nat, NEW b \in Nat, NEW c \in Nat, b > a
  PROVE  v * (1 + a - c) + v <= v * (1 + b - c)
  <1>1. b - (a + 1) \in Nat  OBVIOUS
  <1>2. v * (b - (a + 1)) \in Nat  BY <1>1, TimesNat
  <1>3. v * (1 + b - c) = v * (1 + a - c) + v + v * (b - (a + 1))  OBVIOUS
  <1>4. v * (1 + a - c) \in Int /\ v * (1 + b - c) \in Int  OBVIOUS
  <1> QED BY <1>2, <1>3, <1>4

LEMMA TickInv ==
  ASSUME ArenaInv, NEW m \in Markets, NEW price \in Prices, NEW gap \in Gaps,
         Tick(m, price, gap)
  PROVE  ArenaInv'
  <1> DEFINE past == prints[m]
             ts == IF past = <<>> THEN StartTime ELSE state[m].published + gap
             way == IF past = <<>> THEN 0
                    ELSE Last(past).way + Distance(price, Last(past).price)
             p == [price |-> price, ts |-> ts, way |-> way]
             ms == FoldPrice(state[m], price, ts)
  <1>1. /\ Len(past) < MaxPrints /\ ts > state[m].published
        /\ state' = [state EXCEPT ![m] = ms]
        /\ prints' = [prints EXCEPT ![m] = Append(past, p)]
        /\ bot' = bot /\ visits' = [n \in Markets |-> IF n = m THEN MaxVisits ELSE 0]
    BY DEF Tick, Newer
  <1>2. /\ price \in Nat \ {0} /\ gap \in Nat /\ StartTime \in Nat /\ MaxPrints \in Nat
    BY ArenaBotAssumption DEF ArenaBotAssumption
  <1>3. Kept(state[m], past) /\ past \in Seq(Prints) /\ state[m].published \in Nat
        /\ state[m] \in MarketStates
    BY DEF ArenaInv, MarketStates
  <1>4. ts \in Nat  BY <1>2, <1>3
  <1>5. way \in Nat
    <2>1. ASSUME past # <<>> PROVE Last(past).way \in Nat /\ Last(past).price \in Nat
      <3>1. Len(past) \in 1..Len(past)  BY <1>3, <2>1
      <3> QED BY <1>3, <3>1, HistoryTypes DEF Kept, Last
    <2> HIDE DEF past
    <2>2. CASE past = <<>>  BY <2>2
    <2>3. CASE past # <<>>
      <3>1. Distance(price, Last(past).price) \in Nat  BY <1>2, <2>1, <2>3, DistanceType
      <3>2. way = Last(past).way + Distance(price, Last(past).price)  BY <2>3
      <3> HIDE DEF way
      <3> QED BY <2>1, <2>3, <3>1, <3>2
    <2> QED BY <2>2, <2>3
  <1>6. Follows(past, p)
    <2>1. p \in Prints  BY <1>4, <1>5 DEF Prints
    <2>2. ASSUME past # <<>>
          PROVE  /\ past[Len(past)].ts < p.ts
                 /\ p.way = past[Len(past)].way + Distance(p.price, past[Len(past)].price)
      BY <1>1, <1>3, <2>2 DEF Kept, Last
    <2>3. past = <<>> => p.ts = StartTime /\ p.way = 0  OBVIOUS
    <2> HIDE DEF p, past
    <2> QED BY <2>1, <2>2, <2>3 DEF Follows
  <1>7. p.price = price /\ p.ts = ts  OBVIOUS
  <1> HIDE DEF p, ts, way
  <1>8. Kept(ms, Append(past, p))  BY <1>3, <1>6, <1>7, FoldKeeps
  <1> HIDE DEF ms
  <1>9. ms \in MarketStates /\ Append(past, p) \in Seq(Prints)
        /\ Len(Append(past, p)) = Len(past) + 1 /\ Len(past) \in Nat
    BY <1>3, <1>6, <1>8 DEF Kept, Follows
  <1>10. ms.published = ts
    <2>1. Append(past, p) # <<>> /\ Append(past, p)[Len(past) + 1] = p  BY <1>3, <1>6
    <2> QED BY <1>7, <1>8, <1>9, <2>1 DEF Kept
  <1>11. state' \in [Markets -> MarketStates] /\ prints' \in [Markets -> Seq(Prints)]
         /\ \A n \in Markets :
               Kept(state'[n], prints'[n]) /\ Len(prints'[n]) <= MaxPrints
    <2>1. state \in [Markets -> MarketStates] /\ prints \in [Markets -> Seq(Prints)]
      BY DEF ArenaInv
    <2>2. state'[m] = ms /\ prints'[m] = Append(past, p)  BY <1>1, <2>1
    <2>3. \A n \in Markets \ {m} : state'[n] = state[n] /\ prints'[n] = prints[n]
      BY <1>1, <2>1
    <2>4. Len(prints'[m]) <= MaxPrints  BY <1>1, <1>2, <1>9, <2>2
    <2> HIDE DEF past
    <2>5. \A n \in Markets : Kept(state'[n], prints'[n]) /\ Len(prints'[n]) <= MaxPrints
      BY <1>8, <2>2, <2>3, <2>4 DEF ArenaInv
    <2> QED BY <1>1, <1>9, <2>1, <2>5
  <1>12. \A n \in Markets : /\ state[n].published \in Nat /\ state'[n].published \in Nat
                            /\ state[n].published <= state'[n].published
    BY <1>1, <1>3, <1>4, <1>10 DEF ArenaInv, MarketStates
  <1>13. state'[m].published = ts  BY <1>1, <1>10 DEF ArenaInv
  <1>14. Good(bot) /\ bot.slots \in [Slots -> Position \cup {Free}]  BY DEF ArenaInv, Good, Bots
  <1>15. MaxVisits \in Nat \ {0} /\ visits \in [Markets -> 0..MaxVisits]
    BY ArenaBotAssumption DEF ArenaBotAssumption, ArenaInv
  <1>16. visits' \in [Markets -> 0..MaxVisits]
         /\ \A n \in Markets : visits'[n] > 0 => prints'[n] # <<>>
    <2>1. visits' \in [Markets -> 0..MaxVisits]  BY <1>1, <1>15
    <2>2. Append(past, p) # <<>>  BY <1>9
    <2>3. prints'[m] # <<>>  BY <1>1, <2>2 DEF ArenaInv
    <2>4. \A n \in Markets \ {m} : visits'[n] = 0  BY <1>1
    <2> QED BY <2>1, <2>3, <2>4
  <1>17. Paced'
    <2> SUFFICES ASSUME NEW s \in Slots, bot.slots[s] # Free
                 PROVE  LET n == bot.slots[s].market
                        IN  Roomy(bot.slots[s], visits'[n], state'[n].published)
      BY <1>1 DEF Paced
    <2> DEFINE q == bot.slots[s]
               n == bot.slots[s].market
    <2>1. q \in Position  BY <1>14
    <2>2. n \in Markets /\ q.ticks \in Nat /\ q.since \in Nat  BY <2>1 DEF Position
    <2>3. Roomy(q, visits[n], state[n].published)  BY DEF ArenaInv, Paced
    <2>4. visits[n] \in Nat  BY <1>15, <2>2
    <2>5. CASE n = m
      <3>1. visits'[n] = MaxVisits /\ state'[n].published = ts  BY <1>1, <1>13, <2>2, <2>5
      <3>2. q.ticks + 1 <= MaxVisits * (1 + state[n].published - q.since)
        <4>1. MaxVisits * (1 + state[n].published - q.since) \in Int
          BY <1>12, <1>15, <2>2
        <4> QED BY <2>2, <2>3, <2>4, <4>1 DEF Roomy
      <3>3. MaxVisits * (1 + state[n].published - q.since) + MaxVisits
                <= MaxVisits * (1 + ts - q.since)
        BY <1>1, <1>4, <1>12, <1>15, <2>2, <2>5, TimesStep
      <3>4. /\ MaxVisits * (1 + state[n].published - q.since) \in Int
            /\ MaxVisits * (1 + ts - q.since) \in Int
        BY <1>4, <1>12, <1>15, <2>2
      <3> HIDE DEF q, n
      <3>5. q.ticks + 1 + MaxVisits <= MaxVisits * (1 + ts - q.since)
        BY <1>15, <2>2, <3>2, <3>3, <3>4
      <3> QED BY <3>1, <3>5 DEF Roomy, q, n
    <2>6. CASE n # m
      <3>1. visits'[n] = 0 /\ state'[n] = state[n]  BY <1>1, <2>2, <2>6 DEF ArenaInv
      <3>2. MaxVisits * (1 + state[n].published - q.since) \in Int
        BY <1>12, <1>15, <2>2
      <3>3. q.ticks + 1 + 0 <= MaxVisits * (1 + state[n].published - q.since)
        BY <2>2, <2>3, <2>4, <3>2 DEF Roomy
      <3> QED BY <3>1, <3>3 DEF Roomy
    <2> QED BY <2>5, <2>6
  <1> QED BY <1>1, <1>11, <1>14, <1>16, <1>17 DEF ArenaInv

LEMMA VisitInv ==
  ASSUME ArenaInv, NEW m \in Markets, Visit(m)
  PROVE  ArenaInv'
  <1> DEFINE past == prints[m]
             price == Last(past).price
             ts == Last(past).ts
             kept == Maintain(bot, m, price)
             sides == Signal(CompleteCandles(state[m]))
  <1>1. /\ visits[m] > 0 /\ visits' = [visits EXCEPT ![m] = @ - 1]
        /\ bot' \in Followed(kept, m, sides, price, ts)
        /\ state' = state /\ prints' = prints
    BY DEF Visit
  <1>2. MaxVisits \in Nat \ {0} /\ visits \in [Markets -> 0..MaxVisits]
        /\ past # <<>> /\ Kept(state[m], past)
    BY <1>1, ArenaBotAssumption DEF ArenaBotAssumption, ArenaInv
  <1>3. price \in Nat \ {0} /\ ts \in Nat /\ state[m].published = ts
    <2>1. past \in Seq(Prints) /\ Len(past) \in 1..Len(past)  BY <1>2 DEF Kept, History
    <2>2. past[Len(past)] \in Prints  BY <2>1
    <2> QED BY <1>2, <2>2, ArenaBotAssumption DEF ArenaBotAssumption, Prints, Last, Kept
  <1>4. Good(bot) /\ bot.slots \in [Slots -> Position \cup {Free}]  BY DEF ArenaInv, Good, Bots
  <1> HIDE DEF price, ts
  <1>5. Good(kept) /\ \A s \in Slots : Worn(bot.slots[s], kept.slots[s], m)
    BY <1>3, <1>4, MaintainGood
  <1>6. sides \in SUBSET Sides  BY DEF Signal
  <1> HIDE DEF kept, sides
  <1>7. Good(bot') /\ \A s \in Slots : bot'.slots[s] # kept.slots[s] =>
          bot'.slots[s].market = m /\ bot'.slots[s].since = ts /\ bot'.slots[s].ticks = 0
    BY <1>1, <1>3, <1>5, <1>6, FollowedGood
  <1>8. /\ visits' \in [Markets -> 0..MaxVisits] /\ visits'[m] = visits[m] - 1
        /\ visits[m] \in 1..MaxVisits
        /\ \A n \in Markets \ {m} : visits'[n] = visits[n]
    BY <1>1, <1>2
  <1>9. \A n \in Markets : visits'[n] > 0 => prints'[n] # <<>>
    BY <1>1, <1>2, <1>8 DEF ArenaInv
  <1>10. Paced'
    <2> SUFFICES ASSUME NEW s \in Slots, bot'.slots[s] # Free
                 PROVE  LET n == bot'.slots[s].market
                        IN  Roomy(bot'.slots[s], visits'[n], state[n].published)
      BY <1>1 DEF Paced
    <2> DEFINE q == bot'.slots[s]
    <2>1. CASE q # kept.slots[s]
      <3>1. q.market = m /\ q.since = ts /\ q.ticks = 0  BY <1>7, <2>1
      <3>2. 0 + 1 + (visits[m] - 1) <= MaxVisits * (1 + ts - ts)  BY <1>2, <1>3, <1>8
      <3> HIDE DEF q
      <3>3. Roomy(q, visits'[m], state[m].published)  BY <1>3, <1>8, <3>1, <3>2 DEF Roomy
      <3> QED BY <3>1, <3>3 DEF q
    <2>2. CASE q = kept.slots[s]
      <3> DEFINE old == bot.slots[s]
                 n == old.market
      <3>1. /\ old # Free /\ q.market = n /\ q.since = old.since
            /\ q.ticks <= old.ticks + (IF n = m THEN 1 ELSE 0)
        BY <1>5, <2>2 DEF Worn
      <3>2. old \in Position /\ q \in Position
        BY <1>4, <1>5, <2>2, <3>1 DEF Good, Bots
      <3>3. n \in Markets /\ old.ticks \in Nat /\ old.since \in Nat /\ q.ticks \in Nat
        BY <3>2 DEF Position
      <3>4. Roomy(old, visits[n], state[n].published)  BY <3>1 DEF ArenaInv, Paced
      <3>5. state[n].published \in Nat  BY <3>3 DEF ArenaInv, MarketStates
      <3> DEFINE room == MaxVisits * (1 + state[n].published - old.since)
      <3>6. room \in Int  BY <1>2, <3>3, <3>5
      <3>7. visits[n] \in Nat /\ visits'[n] = visits[n] - (IF n = m THEN 1 ELSE 0)
        BY <1>2, <1>8, <3>3
      <3>8. old.ticks + 1 + visits[n] <= room  BY <3>4 DEF Roomy
      <3> HIDE DEF q, old, n, room
      <3>9. q.ticks + 1 + visits'[n] <= room
        BY <3>1, <3>3, <3>6, <3>7, <3>8
      <3>10. Roomy(q, visits'[n], state[n].published)  BY <3>1, <3>9 DEF Roomy, room
      <3> QED BY <3>1, <3>10 DEF q
    <2> QED BY <2>1, <2>2
  <1> QED BY <1>1, <1>7, <1>8, <1>9, <1>10 DEF ArenaInv

LEMMA StepInv == ArenaInv /\ [Next]_vars => ArenaInv'
  <1> SUFFICES ASSUME ArenaInv, [Next]_vars PROVE ArenaInv'
    OBVIOUS
  <1>1. CASE UNCHANGED vars  BY <1>1 DEF vars, ArenaInv, Paced
  <1>2. CASE IdleTick  BY <1>2 DEF IdleTick, vars, ArenaInv, Paced
  <1>3. CASE \E m \in Markets, price \in Prices, gap \in Gaps : Tick(m, price, gap)
    BY <1>3, TickInv
  <1>4. CASE \E m \in Markets : Visit(m)  BY <1>4, VisitInv
  <1> QED BY <1>1, <1>2, <1>3, <1>4 DEF Next

-----------------------------------------------------------------------------
(* The sum that PathOver is, by a recursion over the subsets of a finite   *)
(* set: the function it defines exists and is the only one.                *)

\* The element the recursion takes out first, and the recursion.
Pick(s) == CHOOSE x \in s : TRUE
Body(f, g, s) == IF s = {} THEN 0 ELSE f[Pick(s)].path + g[s \ {Pick(s)}]
IsSum(f, g, S) == g = [s \in SUBSET S |-> Body(f, g, s)]

\* The sum is the value, at S, of the function the recursion defines.
LEMMA SumDef ==
  ASSUME NEW f, NEW S
  PROVE PathOver(f, S) = (CHOOSE g : IsSum(f, g, S))[S]
  BY DEF PathOver, MapThenSumSet, MapThenFoldSet, IsSum, Body, Pick

\* The element taken out is one of the set; without it the set is smaller.
LEMMA PickIn ==
  ASSUME NEW s, s # {}
  PROVE  Pick(s) \in s /\ s \ {Pick(s)} \in SUBSET s /\ s \ {Pick(s)} # s
  BY DEF Pick

\* Two functions that obey the recursion agree where both are defined.
LEMMA SumUnique ==
  ASSUME NEW f, NEW S, IsFiniteSet(S), NEW T \in SUBSET S, NEW g, NEW h,
         IsSum(f, g, S), IsSum(f, h, T)
  PROVE  \A s \in SUBSET T : g[s] = h[s]
  <1> DEFINE bad == {s \in SUBSET T : g[s] # h[s]}
  <1> SUFFICES ASSUME bad # {} PROVE FALSE
    OBVIOUS
  <1>1. IsFiniteSet(T)  BY FS_Subset
  <1>2. PICK s \in bad : \A u \in SUBSET s : u # s => u \notin bad
    <2>1. bad \in SUBSET SUBSET T  OBVIOUS
    <2> HIDE DEF bad
    <2> QED BY <1>1, <2>1, SmallestSubset
  <1>3. g[s] = Body(f, g, s) /\ h[s] = Body(f, h, s)
    <2>1. s \in SUBSET T /\ s \in SUBSET S  BY <1>2
    <2> QED BY <2>1 DEF IsSum
  <1>4. CASE s = {}  BY <1>2, <1>3, <1>4 DEF Body
  <1>5. CASE s # {}
    <2>1. s \ {Pick(s)} \in SUBSET s /\ s \ {Pick(s)} # s  BY <1>5, PickIn
    <2>2. g[s \ {Pick(s)}] = h[s \ {Pick(s)}]  BY <1>2, <2>1
    <2> QED BY <1>2, <1>3, <1>5, <2>2 DEF Body
  <1> QED BY <1>4, <1>5

\* There is a function that obeys it.
LEMMA SumExists ==
  ASSUME NEW f, NEW S, IsFiniteSet(S)
  PROVE  \E g : IsSum(f, g, S)
  <1> DEFINE bad == {T \in SUBSET S : ~\E g : IsSum(f, g, T)}
  <1> SUFFICES ASSUME bad # {} PROVE FALSE
    OBVIOUS
  <1>1. PICK T \in bad : \A U \in SUBSET T : U # T => U \notin bad
    <2>1. bad \in SUBSET SUBSET S  OBVIOUS
    <2> HIDE DEF bad
    <2> QED BY <2>1, SmallestSubset
  <1>2. T \in SUBSET S /\ IsFiniteSet(T)  BY <1>1, FS_Subset
  <1>3. \A U \in SUBSET T : U # T => \E g : IsSum(f, g, U)  BY <1>1, <1>2
  <1> DEFINE below(U) == CHOOSE g : IsSum(f, g, U)
             sum(U) == below(U)[U]
             whole == [U \in SUBSET T |-> IF U # T THEN sum(U) ELSE
                          IF T = {} THEN 0 ELSE f[Pick(T)].path + sum(T \ {Pick(T)})]
  <1>4. \A U \in SUBSET T : U # T => IsSum(f, below(U), U)  BY <1>3
  <1>5. ASSUME NEW U \in SUBSET T, U # T PROVE whole[U] = Body(f, whole, U)
    <2>1. whole[U] = Body(f, below(U), U)
      <3>1. IsSum(f, below(U), U)  BY <1>4, <1>5
      <3>2. whole[U] = below(U)[U]  BY <1>5
      <3> HIDE DEF below, whole
      <3> QED BY <3>1, <3>2 DEF IsSum
    <2>2. CASE U = {}  BY <2>1, <2>2 DEF Body
    <2>3. CASE U # {}
      <3> DEFINE V == U \ {Pick(U)}
      <3>1. V \in SUBSET U /\ V # U  BY <2>3, PickIn
      <3>2. V \in SUBSET T /\ V # T  BY <3>1, <1>5
      <3>3. IsSum(f, below(U), U) /\ IsSum(f, below(V), V)  BY <1>4, <1>5, <3>2
      <3>4. IsFiniteSet(U)  BY <1>2, FS_Subset
      <3> HIDE DEF below
      <3>5. below(U)[V] = below(V)[V]  BY <3>1, <3>3, <3>4, SumUnique
      <3>6. whole[V] = below(V)[V]  BY <3>2
      <3> QED BY <2>1, <2>3, <3>5, <3>6 DEF Body
    <2> QED BY <2>2, <2>3
  <1>6. whole[T] = Body(f, whole, T)
    <2>1. CASE T = {}  BY <2>1 DEF Body
    <2>2. CASE T # {}
      <3>1. T \ {Pick(T)} \in SUBSET T /\ T \ {Pick(T)} # T  BY <2>2, PickIn
      <3> HIDE DEF below
      <3>2. whole[T \ {Pick(T)}] = sum(T \ {Pick(T)})  BY <3>1
      <3> QED BY <2>2, <3>2 DEF Body
    <2> QED BY <2>1, <2>2
  <1>7. IsSum(f, whole, T)
    <2> HIDE DEF below
    <2>1. \A U \in SUBSET T : whole[U] = Body(f, whole, U)  BY <1>5, <1>6
    <2>2. whole = [U \in SUBSET T |-> whole[U]]  OBVIOUS
    <2> HIDE DEF whole
    <2>3. [U \in SUBSET T |-> whole[U]] = [U \in SUBSET T |-> Body(f, whole, U)]  BY <2>1
    <2> QED BY <2>2, <2>3 DEF IsSum
  <1> QED BY <1>1, <1>7

\* So the sum obeys it, too.
LEMMA SumEquation ==
  ASSUME NEW f, NEW S, IsFiniteSet(S), S # {}
  PROVE  PathOver(f, S) = f[Pick(S)].path + PathOver(f, S \ {Pick(S)})
  <1> DEFINE R == S \ {Pick(S)}
             g == CHOOSE g : IsSum(f, g, S)
             h == CHOOSE h : IsSum(f, h, R)
  <1>1. R \in SUBSET S /\ IsFiniteSet(R)  BY FS_Subset
  <1>2. IsSum(f, g, S) /\ IsSum(f, h, R)  BY <1>1, SumExists
  <1>3. PathOver(f, S) = g[S] /\ PathOver(f, R) = h[R]  BY SumDef
  <1> HIDE DEF g, h
  <1>4. g[R] = h[R]  BY <1>1, <1>2, SumUnique
  <1>5. g[S] = f[Pick(S)].path + g[R]  BY <1>2 DEF IsSum, Body
  <1> QED BY <1>3, <1>4, <1>5

LEMMA SumEmpty == ASSUME NEW f PROVE PathOver(f, {}) = 0
  <1> DEFINE g == CHOOSE g : IsSum(f, g, {})
  <1>1. IsFiniteSet({})  BY FS_EmptySet
  <1>2. IsSum(f, g, {})  BY <1>1, SumExists
  <1>3. PathOver(f, {}) = g[{}]  BY SumDef
  <1> HIDE DEF g
  <1> QED BY <1>2, <1>3 DEF IsSum, Body

\* A sum of natural numbers is one.
LEMMA SumType ==
  ASSUME NEW f, NEW S, IsFiniteSet(S), \A x \in S : f[x].path \in Nat
  PROVE  PathOver(f, S) \in Nat
  <1> DEFINE bad == {T \in SUBSET S : PathOver(f, T) \notin Nat}
  <1> SUFFICES ASSUME bad # {} PROVE FALSE
    OBVIOUS
  <1>1. PICK T \in bad : \A U \in SUBSET T : U # T => U \notin bad
    <2>1. bad \in SUBSET SUBSET S  OBVIOUS
    <2> HIDE DEF bad
    <2> QED BY <2>1, SmallestSubset
  <1>2. T \in SUBSET S /\ IsFiniteSet(T) /\ PathOver(f, T) \notin Nat  BY <1>1, FS_Subset
  <1>3. CASE T = {}  BY <1>2, <1>3, SumEmpty
  <1>4. CASE T # {}
    <2>1. Pick(T) \in T /\ T \ {Pick(T)} \in SUBSET T /\ T \ {Pick(T)} # T  BY <1>4, PickIn
    <2>2. PathOver(f, T \ {Pick(T)}) \in Nat  BY <1>1, <1>2, <2>1
    <2>3. f[Pick(T)].path \in Nat  BY <1>2, <2>1
    <2> QED BY <1>2, <1>4, <2>2, <2>3, SumEquation
  <1> QED BY <1>3, <1>4

-----------------------------------------------------------------------------
(* The candles and the signal.                                             *)

Candles == [h : Nat \ {0}, l : Nat \ {0}, c : Nat \ {0}, path : Nat]

\* A bucket that trades may be decided on: nothing of it is zero.
Traded(b) == /\ b.high \in Nat \ {0} /\ b.low \in Nat \ {0} /\ b.close \in Nat \ {0}
             /\ b.path \in Nat

\* From the first bucket on, each is one.
LEMMA TrueIsTraded ==
  ASSUME NEW past, History(past), past # <<>>, NEW s, OnGrid(s), FirstBucket(past) <= s
  PROVE  Traded(TrueBucket(past, s)) /\ TrueBucket(past, s).start = s
  <1> DEFINE n == Len(past)
             seen == Seen(past, s)
             P == {past[j].price : j \in seen}
  <1>1. past \in Seq(Prints) /\ n \in Nat  BY DEF History
  <1>2. s \in Int /\ FirstBucket(past) \in Int  BY GridShift, LastBucket
  <1>3. TrueBucket(past, s) = Bucket(past, seen, s)  BY <1>2, TrueIsBucket
  <1>4. seen \in SUBSET (1..n) /\ seen # {}  BY SeenSome
  <1> HIDE DEF seen
  <1>5. P \in SUBSET (Nat \ {0}) /\ Max(P) \in P /\ Min(P) \in P  BY <1>1, <1>4, PriceExtremes
  <1>6. Max(P) \in Nat \ {0} /\ Min(P) \in Nat \ {0}  BY <1>5
  <1>7. /\ Max(seen) \in 1..n /\ Min(seen) \in 1..n /\ Min(seen) <= Max(seen)
    BY <1>1, <1>4, Extremes
  <1> DEFINE a == Min(seen)
             z == Max(seen)
  <1> HIDE DEF a, z, P
  <1>8. a \in 1..n /\ z \in 1..n /\ a <= z  BY <1>7 DEF a, z
  <1>9. past[z].price \in Nat \ {0} /\ past[z].way \in Nat /\ past[a].way \in Nat
    BY <1>8, HistoryTypes
  <1>10. past[z].way - past[a].way \in Nat
    <2>1. CASE a = z
      <3>1. past[z].way - past[a].way = 0  BY <1>9, <2>1
      <3> QED BY <3>1
    <2>2. CASE a < z
      <3>1. past[a].way <= past[z].way  BY <1>8, <2>2 DEF History
      <3> QED BY <1>9, <3>1
    <2> QED BY <1>1, <1>8, <2>1, <2>2
  <1>11. Bucket(past, seen, s) = [high |-> Max(P), low |-> Min(P), close |-> past[z].price,
                                  start |-> s, path |-> past[z].way - past[a].way]
    BY DEF Bucket, P, a, z
  <1> QED BY <1>3, <1>6, <1>9, <1>10, <1>11 DEF Traded

\* What a function gives on a finite set is finite, and has extremes.
LEMMA ImageExtremes ==
  ASSUME NEW S, IsFiniteSet(S), S # {}, NEW g, \A i \in S : g[i] \in Nat \ {0}
  PROVE  Max({g[i] : i \in S}) \in Nat \ {0} /\ Min({g[i] : i \in S}) \in Nat \ {0}
  <1> DEFINE T == {g[i] : i \in S}
             f == [i \in S |-> g[i]]
  <1>1. f \in Surjection(S, T)  BY DEF Surjection
  <1>2. T \in SUBSET Int /\ T # {} /\ T \in SUBSET (Nat \ {0})  OBVIOUS
  <1> HIDE DEF T, f
  <1>3. IsFiniteSet(T)  BY <1>1, FS_Surjection
  <1>4. Max(T) \in T /\ Min(T) \in T  BY <1>2, <1>3, GreatestElement, LeastElement
  <1>5. Max(T) \in Nat \ {0} /\ Min(T) \in Nat \ {0}  BY <1>2, <1>4
  <1> QED BY <1>5 DEF T

LEMMA CandleType ==
  ASSUME NEW back, NEW group, IsFiniteSet(group), NEW last \in group,
         \A i \in group : Traded(back[i])
  PROVE  Candle(back, group, last) \in Candles
  <1> DEFINE top == [i \in group |-> back[i].high]
             bottom == [i \in group |-> back[i].low]
  <1>1. {back[i].high : i \in group} = {top[i] : i \in group}
        /\ {back[i].low : i \in group} = {bottom[i] : i \in group}
    OBVIOUS
  <1>2. \A i \in group : top[i] \in Nat \ {0} /\ bottom[i] \in Nat \ {0}  BY DEF Traded
  <1> HIDE DEF top, bottom
  <1>3. Max({top[i] : i \in group}) \in Nat \ {0}  BY <1>2, ImageExtremes
  <1>4. Min({bottom[i] : i \in group}) \in Nat \ {0}  BY <1>2, ImageExtremes
  <1>5. PathOver(back, group) \in Nat
    <2>1. \A i \in group : back[i].path \in Nat  BY DEF Traded
    <2> QED BY <2>1, SumType
  <1>6. back[last].close \in Nat \ {0}  BY DEF Traded
  <1> QED BY <1>1, <1>3, <1>4, <1>5, <1>6 DEF Candle, Candles

LEMMA CandlesType ==
  ASSUME NEW back, \A i \in 1..Base : Traded(back[i])
  PROVE  CandlesOf(back) \in Seq(Candles) /\ Len(CandlesOf(back)) = MinCandles
  <1>1. ReadSpan \in Nat \ {0} /\ MinCandles \in Nat \ {0} /\ Base = ReadSpan * MinCandles
    BY ArenaBotAssumption DEF ArenaBotAssumption, Base
  <1> DEFINE First(k) == (MinCandles - k) * ReadSpan + 1
             Group(k) == First(k)..(First(k) + ReadSpan - 1)
  <1>2. ASSUME NEW k \in 1..MinCandles PROVE Candle(back, Group(k), First(k)) \in Candles
    <2> DEFINE j == MinCandles - k
               at == j * ReadSpan
               first == First(k)
    <2>1. j \in Nat /\ j <= MinCandles - 1  BY <1>1
    <2>2. at \in Nat /\ at <= (MinCandles - 1) * ReadSpan  BY <1>1, <2>1
    <2>3. (MinCandles - 1) * ReadSpan = Base - ReadSpan /\ Base \in Int  BY <1>1
    <2>4. first = at + 1  OBVIOUS
    <2> HIDE DEF j, at, first
    <2>5. first \in Int /\ first >= 1 /\ first + ReadSpan - 1 <= Base
      BY <1>1, <2>2, <2>3, <2>4
    <2>6. first..(first + ReadSpan - 1) \in SUBSET (1..Base)
          /\ first \in first..(first + ReadSpan - 1)
      BY <1>1, <2>3, <2>5
    <2>7. IsFiniteSet(first..(first + ReadSpan - 1))  BY <1>1, <2>5, FS_Interval
    <2>8. Candle(back, first..(first + ReadSpan - 1), first) \in Candles
      BY <2>6, <2>7, CandleType
    <2> QED BY <2>8 DEF first
  <1>3. CandlesOf(back) = [k \in 1..MinCandles |-> Candle(back, Group(k), First(k))]
    BY DEF CandlesOf
  <1> HIDE DEF Group, First
  <1>4. CandlesOf(back) \in [1..MinCandles -> Candles]  BY <1>2, <1>3
  <1> HIDE DEF CandlesOf
  <1> QED BY <1>1, <1>4

\* The program reads from the ring the candles that all prints make.
LEMMA CandlesAreTrue ==
  ASSUME NEW ms, NEW past, Kept(ms, past), past # <<>>
  PROVE  /\ CompleteCandles(ms) = TrueCandles(past)
         /\ \/ TrueCandles(past) = <<>>
            \/ TrueCandles(past) \in Seq(Candles) /\ Len(TrueCandles(past)) = MinCandles
  <1> DEFINE last == BucketStart(past[Len(past)].ts)
             read == [i \in 1..Base |-> ms.ring[BackFrom(ms.head, i)]]
             back == [i \in 1..Base |-> BucketBack(past, i)]
  <1>1. /\ ReadSpan \in Nat \ {0} /\ MinCandles \in Nat \ {0} /\ BucketSecs \in Nat \ {0}
        /\ RingLen \in Nat /\ Base < RingLen /\ Base = ReadSpan * MinCandles
    BY ArenaBotAssumption DEF ArenaBotAssumption, Base
  <1>2. Base \in Nat \ {0} /\ Base \in 1..Base
    <2>1. ReadSpan * MinCandles \in Nat \ {0}  BY <1>1
    <2> HIDE DEF Base
    <2> QED BY <1>1, <2>1
  <1>3. /\ History(past) /\ last \in Nat /\ OnGrid(last) /\ FirstBucket(past) \in Nat
        /\ FirstBucket(past) >= BucketSecs
    BY LastBucket DEF Kept
  <1>4. \A i \in 1..Base : BucketBack(past, i) = TrueBucket(past, last - i * BucketSecs)
    BY DEF BucketBack, Last
  <1>5. read = back
    <2>1. \A i \in 1..Base : i \in Places  BY <1>1, <1>2 DEF Places
    <2>2. \A i \in 1..Base : ms.ring[BackFrom(ms.head, i)] = BucketBack(past, i)
      BY <1>4, <2>1, ShownBuckets
    <2> QED BY <2>2
  <1>6. CompleteCandles(ms) = IF \A i \in 1..Base : back[i].start # 0
                              THEN CandlesOf(back) ELSE <<>>
    <2>1. CompleteCandles(ms) = IF \A i \in 1..Base : read[i].start # 0
                                THEN CandlesOf(read) ELSE <<>>
      BY DEF CompleteCandles
    <2> HIDE DEF read, back
    <2> QED BY <1>5, <2>1
  <1>7. TrueCandles(past) = IF last - Base * BucketSecs < FirstBucket(past)
                            THEN <<>> ELSE CandlesOf(back)
    BY DEF TrueCandles, Last
  <1>8. \A i \in 1..Base : back[i] = TrueBucket(past, last - i * BucketSecs)  BY <1>4
  <1> HIDE DEF back, read, last
  <1>9. CASE last - Base * BucketSecs < FirstBucket(past)
    <2> HIDE DEF Base
    <2>3. back[Base] = TrueBucket(past, last - Base * BucketSecs)  BY <1>2, <1>8
    <2>4. TrueBucket(past, last - Base * BucketSecs) = Blank  BY <1>9 DEF TrueBucket
    <2>1. back[Base].start = 0  BY <2>3, <2>4 DEF Blank
    <2>2. CompleteCandles(ms) = <<>>  BY <1>2, <1>6, <2>1
    <2> QED BY <1>7, <1>9, <2>2
  <1>10. CASE ~(last - Base * BucketSecs < FirstBucket(past))
    <2>1. ASSUME NEW i \in 1..Base PROVE Traded(back[i]) /\ back[i].start # 0
      <3>1. i \in Nat /\ i <= Base  BY <1>2
      <3>2. i * BucketSecs <= Base * BucketSecs /\ i * BucketSecs \in Int
            /\ Base * BucketSecs \in Int
        BY <1>1, <1>2, <3>1
      <3> DEFINE s == last - i * BucketSecs
      <3>3. OnGrid(s) /\ s \in Int  BY <1>3, <3>1, GridShift
      <3>4. FirstBucket(past) <= s  BY <1>3, <1>10, <3>2
      <3>5. back[i] = TrueBucket(past, s)  BY <1>8
      <3> HIDE DEF s
      <3>6. Traded(back[i]) /\ back[i].start = s  BY <1>3, <3>3, <3>4, <3>5, TrueIsTraded
      <3> QED BY <1>1, <1>3, <3>3, <3>4, <3>6
    <2>2. CompleteCandles(ms) = CandlesOf(back)  BY <1>6, <2>1
    <2>3. CandlesOf(back) \in Seq(Candles) /\ Len(CandlesOf(back)) = MinCandles
      BY <2>1, CandlesType
    <2> QED BY <1>7, <1>10, <2>2, <2>3
  <1> QED BY <1>9, <1>10

\* Both decide nothing without candles.
LEMMA NoSignal == Signal(<<>>) = {} /\ ReferenceSignal(<<>>) = {}
  <1>1. Len(<<>>) = 0 /\ MinCandles \in Nat \ {0}
    BY ArenaBotAssumption DEF ArenaBotAssumption
  <1>2. ~(Len(<<>>) >= MinCandles) /\ Len(<<>>) < MinCandles  BY <1>1
  <1>3. Signal(<<>>) = {}  BY <1>2 DEF Signal
  <1>4. ReferenceSignal(<<>>) = {}  BY <1>2 DEF ReferenceSignal
  <1> QED BY <1>3, <1>4
\* On whole candles the program and the reference decide the same.
LEMMA SignalSame ==
  ASSUME NEW c \in Seq(Candles), Len(c) = MinCandles
  PROVE  Signal(c) = ReferenceSignal(c)
  <1> DEFINE n == Len(c)
             prior == SubSeq(c, 1, n - 1)
             D == DOMAIN prior
             H == {prior[k].h : k \in D}
             L == {prior[k].l : k \in D}
             Highest == CHOOSE h \in H : \A k \in D : prior[k].h <= h
             Lowest == CHOOSE l \in L : \A k \in D : prior[k].l >= l
             paths == PathOver(prior, D)
             top == [k \in D |-> prior[k].h]
             bottom == [k \in D |-> prior[k].l]
  <1>1. /\ n \in Nat /\ n - 1 \in Nat \ {0} /\ n >= MinCandles /\ ~(n < MinCandles)
        /\ BPS \in Nat \ {0} /\ BreakoutBps \in Nat /\ ActivityMultBps \in Nat
        /\ TrendFilter \in BOOLEAN
    BY ArenaBotAssumption DEF ArenaBotAssumption
  <1>2. /\ prior \in Seq(Candles) /\ Len(prior) = n - 1 /\ D = 1..(n - 1)
        /\ \A k \in D : prior[k] \in Candles
    <2>1. \A k \in 1..(n - 1) : c[k] \in Candles  BY <1>1
    <2>2. prior = [k \in 1..(n - 1) |-> c[k]]  BY <1>1
    <2>3. prior \in [1..(n - 1) -> Candles]  BY <2>1, <2>2
    <2> QED BY <1>1, <2>3
  <1>3. c[1] \in Candles /\ c[n] \in Candles  BY <1>1
  <1> HIDE DEF prior, D
  <1>4. IsFiniteSet(D) /\ D # {}
    <2> HIDE DEF n
    <2>1. IsFiniteSet(1..(n - 1))  BY <1>1, FS_Interval
    <2>2. 1 \in 1..(n - 1)  BY <1>1
    <2> QED BY <1>2, <2>1, <2>2
  <1>5. \A k \in D : /\ prior[k].h \in Nat \ {0} /\ prior[k].l \in Nat \ {0}
                     /\ prior[k].path \in Nat
    BY <1>2 DEF Candles
  <1>6. H = {top[k] : k \in D} /\ L = {bottom[k] : k \in D}  OBVIOUS
  <1>7. Max(H) \in Nat \ {0} /\ Min(L) \in Nat \ {0}
    <2>1. \A k \in D : top[k] \in Nat \ {0} /\ bottom[k] \in Nat \ {0}  BY <1>5
    <2> HIDE DEF top, bottom, H, L
    <2>2. Max({top[k] : k \in D}) \in Nat \ {0}  BY <1>4, <2>1, ImageExtremes
    <2>3. Min({bottom[k] : k \in D}) \in Nat \ {0}  BY <1>4, <2>1, ImageExtremes
    <2> QED BY <1>6, <2>2, <2>3
  <1>8. IsFiniteSet(H) /\ IsFiniteSet(L)
    <2>1. top \in Surjection(D, {top[k] : k \in D})  BY DEF Surjection
    <2>2. bottom \in Surjection(D, {bottom[k] : k \in D})  BY DEF Surjection
    <2> HIDE DEF top, bottom, H, L
    <2>3. IsFiniteSet({top[k] : k \in D})  BY <1>4, <2>1, FS_Surjection
    <2>4. IsFiniteSet({bottom[k] : k \in D})  BY <1>4, <2>2, FS_Surjection
    <2> QED BY <1>6, <2>3, <2>4
  <1>9. H \in SUBSET Int /\ L \in SUBSET Int /\ H # {} /\ L # {}  BY <1>4, <1>5
  <1>10. Highest = Max(H)
    <2>1. Max(H) \in H /\ \A y \in H : y <= Max(H)  BY <1>8, <1>9, GreatestElement
    <2>2. \A k \in D : prior[k].h \in H  OBVIOUS
    <2> HIDE DEF H
    <2>3. Highest \in H /\ \A k \in D : prior[k].h <= Highest  BY <2>1, <2>2
    <2>4. PICK k \in D : prior[k].h = Max(H)  BY <2>1 DEF H
    <2> HIDE DEF Highest
    <2>5. Highest <= Max(H) /\ Max(H) <= Highest  BY <2>1, <2>3, <2>4
    <2>6. Highest \in Int /\ Max(H) \in Int  BY <1>9, <2>1, <2>3
    <2> QED BY <2>5, <2>6
  <1>11. Lowest = Min(L)
    <2>1. Min(L) \in L /\ \A y \in L : Min(L) <= y  BY <1>8, <1>9, LeastElement
    <2>2. \A k \in D : prior[k].l \in L  OBVIOUS
    <2> HIDE DEF L
    <2>3. Lowest \in L /\ \A k \in D : prior[k].l >= Lowest
      <3>1. \A k \in D : prior[k].l >= Min(L)  BY <1>9, <2>1, <2>2
      <3> QED BY <2>1, <3>1
    <2>4. PICK k \in D : prior[k].l = Min(L)  BY <2>1 DEF L
    <2> HIDE DEF Lowest
    <2>5. Lowest <= Min(L) /\ Min(L) <= Lowest
      <3>1. Min(L) >= Lowest  BY <2>3, <2>4
      <3>2. Min(L) <= Lowest  BY <2>1, <2>3
      <3>3. Lowest \in Int /\ Min(L) \in Int  BY <1>9, <2>1, <2>3
      <3> QED BY <3>1, <3>2, <3>3
    <2>6. Lowest \in Int /\ Min(L) \in Int  BY <1>9, <2>1, <2>3
    <2> QED BY <2>5, <2>6
  <1>12. paths \in Nat  BY <1>4, <1>5, SumType
  <1> DEFINE close == c[n].c
             first == c[1].c
             up == close * BPS >= Max(H) * (BPS + BreakoutBps)
             down == close * BPS <= Min(L) * (BPS - BreakoutBps)
             moved == c[n].path * Len(prior) * BPS
             wanted == ActivityMultBps * paths
  <1>13. close \in Nat \ {0} /\ first \in Nat \ {0} /\ c[n].path \in Nat
    BY <1>3 DEF Candles
  <1>14. moved \in Int /\ wanted \in Int
    <2> HIDE DEF paths
    <2>1. c[n].path * Len(prior) \in Int  BY <1>1, <1>2, <1>13
    <2>2. c[n].path * Len(prior) * BPS \in Int  BY <1>1, <2>1
    <2>3. ActivityMultBps * paths \in Int  BY <1>1, <1>12
    <2> QED BY <2>2, <2>3
  <1>15. Signal(c) =
           {side \in Sides :
              /\ BreakoutBps < BPS /\ n >= MinCandles
              /\ close # 0 /\ Max(H) # 0 /\ Min(L) # 0
              /\ IF side = "long" THEN up ELSE ~up /\ down
              /\ paths # 0
              /\ moved >= wanted
              /\ TrendFilter =>
                   (first # 0 /\ IF side = "long" THEN close > first ELSE close < first)}
    BY DEF Signal, Breaks, prior, D
  <1> DEFINE chosen == IF up THEN "long" ELSE IF down THEN "short" ELSE "null"
             against == IF chosen = "long" THEN close <= first ELSE close >= first
  <1>16. ReferenceSignal(c) =
           IF BreakoutBps >= BPS \/ n < MinCandles THEN {}
           ELSE IF \/ close <= 0 \/ chosen = "null" \/ paths <= 0 \/ moved < wanted
                   \/ TrendFilter /\ against
                THEN {} ELSE {chosen}
    <2> DEFINE side == IF close * BPS >= Highest * (BPS + BreakoutBps) THEN "long"
                       ELSE IF close * BPS <= Lowest * (BPS - BreakoutBps) THEN "short"
                       ELSE "null"
               bad == IF side = "long" THEN close <= first ELSE close >= first
    <2>1. ReferenceSignal(c) =
            IF BreakoutBps >= BPS \/ n < MinCandles THEN {}
            ELSE IF \/ close <= 0 \/ side = "null" \/ paths <= 0 \/ moved < wanted
                    \/ TrendFilter /\ bad
                 THEN {} ELSE {side}
      BY DEF ReferenceSignal, prior, D
    <2>2. side = chosen
      <3> HIDE DEF H, L, Highest, Lowest
      <3> QED BY <1>10, <1>11
    <2> HIDE DEF side, chosen
    <2> QED BY <2>1, <2>2
  <1>17. up \in BOOLEAN /\ down \in BOOLEAN  OBVIOUS
  <1> DEFINE high == Max(H)
             low == Min(L)
  <1>18. high \in Nat \ {0} /\ low \in Nat \ {0}  BY <1>7
  <1>19. Signal(c) =
           {side \in Sides :
              /\ BreakoutBps < BPS /\ paths # 0 /\ moved >= wanted
              /\ IF side = "long" THEN up ELSE ~up /\ down
              /\ TrendFilter => IF side = "long" THEN close > first ELSE close < first}
    <2> HIDE DEF close, first, up, down, moved, wanted, paths, H, L, n
    <2> QED BY <1>1, <1>7, <1>13, <1>15
  <1> HIDE DEF close, first, up, down, moved, wanted, paths, H, L, n
  <1>20. CASE BreakoutBps >= BPS
    BY <1>1, <1>16, <1>19, <1>20
  <1>21. CASE BreakoutBps < BPS
    <2>1. CASE up
      <3>1. chosen = "long" /\ (against <=> ~(close > first))  BY <1>13, <2>1
      <3> HIDE DEF chosen, against
      <3>2. ReferenceSignal(c) =
              IF paths # 0 /\ moved >= wanted /\ (TrendFilter => close > first)
              THEN {"long"} ELSE {}
        BY <1>1, <1>12, <1>13, <1>14, <1>16, <1>21, <3>1
      <3>3. Signal(c) =
              IF paths # 0 /\ moved >= wanted /\ (TrendFilter => close > first)
              THEN {"long"} ELSE {}
        BY <1>19, <1>21, <2>1 DEF Sides
      <3> QED BY <3>2, <3>3
    <2>2. CASE ~up /\ down
      <3>1. chosen = "short" /\ (against <=> ~(close < first))  BY <1>13, <2>2
      <3> HIDE DEF chosen, against
      <3>2. ReferenceSignal(c) =
              IF paths # 0 /\ moved >= wanted /\ (TrendFilter => close < first)
              THEN {"short"} ELSE {}
        BY <1>1, <1>12, <1>13, <1>14, <1>16, <1>21, <3>1
      <3>3. Signal(c) =
              IF paths # 0 /\ moved >= wanted /\ (TrendFilter => close < first)
              THEN {"short"} ELSE {}
        BY <1>19, <1>21, <2>2 DEF Sides
      <3> QED BY <3>2, <3>3
    <2>3. CASE ~up /\ ~down
      <3>1. ReferenceSignal(c) = {}  BY <1>16, <2>3
      <3>2. Signal(c) = {}  BY <1>19, <2>3 DEF Sides
      <3> QED BY <3>1, <3>2
    <2> QED BY <2>1, <2>2, <2>3
  <1> QED BY <1>1, <1>20, <1>21
-----------------------------------------------------------------------------
(* Theorems.                                                               *)

(***************************************************************************)
(* What ring, account and clock of a deterministic bot rest on, whatever   *)
(* prints come in which order (arena-program: lib.rs, tick).               *)
(***************************************************************************)
THEOREM InductiveInvariant == Spec => []ArenaInv
  BY InitInv, StepInv, PTL DEF Spec

(***************************************************************************)
(* No parameter that init_config and init_bot accept, and no sequence of   *)
(* prints, makes an unsigned subtraction panic, and no money appears or    *)
(* vanishes between opening and closing (paper.rs:67-139).                 *)
(***************************************************************************)
THEOREM AccountHolds == Spec => []AccountSound
  <1>1. ArenaInv => AccountSound
    <2> SUFFICES ASSUME ArenaInv PROVE AccountSound
      OBVIOUS
    <2>1. TypeOK
      BY DEF ArenaInv, TypeOK, MarketStates, Places, Good, Bots, Prints
    <2> QED BY <2>1 DEF ArenaInv, Good, AccountSound
  <1> QED BY <1>1, InductiveInvariant, PTL

(***************************************************************************)
(* The ring is the history, slot by slot, for every length of the ring and *)
(* of buckets and every sequence of gaps, those longer than the ring       *)
(* included (candles.rs:42-47).                                            *)
(***************************************************************************)
THEOREM RingRemembers == Spec => []RingIsHistory
  <1>1. ArenaInv => RingIsHistory  BY DEF ArenaInv, Kept, RingIsHistory
  <1> QED BY <1>1, InductiveInvariant, PTL

(***************************************************************************)
(* Ticking faster than the feed prints ages no position, however many      *)
(* ticks of however many markets there are: for each second of oracle time *)
(* it ages at most as often as one transaction can name its bot            *)
(* (lib.rs:176-185, :192).                                                 *)
(***************************************************************************)
THEOREM AgingPaced == Spec => []AgingIsPaced
  <1>1. ArenaInv => AgingIsPaced
    <2> SUFFICES ASSUME ArenaInv, NEW s \in Slots, bot.slots[s] # Free
                 PROVE  LET p == bot.slots[s]
                        IN  p.ticks < MaxVisits * (1 + state[p.market].published - p.since)
      BY DEF AgingIsPaced
    <2> DEFINE p == bot.slots[s]
               room == MaxVisits * (1 + state[p.market].published - p.since)
    <2>1. p \in Position  BY DEF ArenaInv, Good, Bots
    <2>2. p.ticks \in Nat /\ p.since \in Nat /\ p.market \in Markets
      BY <2>1 DEF Position
    <2>3. state[p.market].published \in Nat /\ visits[p.market] \in Nat
          /\ MaxVisits \in Nat
      BY <2>2, ArenaBotAssumption DEF ArenaInv, MarketStates, ArenaBotAssumption
    <2>4. room \in Int  BY <2>2, <2>3
    <2>5. p.ticks + 1 + visits[p.market] <= room  BY DEF ArenaInv, Paced, Roomy
    <2> HIDE DEF p, room
    <2>6. p.ticks < room  BY <2>2, <2>3, <2>4, <2>5
    <2> QED BY <2>6 DEF p, room
  <1> QED BY <1>1, InductiveInvariant, PTL

(***************************************************************************)
(* The program never trades on anything but what the TypeScript reference  *)
(* decides from the whole history: what it reads from the ring are whole   *)
(* candles, and on those both decide the same (strategy.rs:3-6,            *)
(* candles.rs:90-118).                                                     *)
(***************************************************************************)
THEOREM SignalAgrees == Spec => []SignalIsReference
  <1>1. ArenaInv => SignalIsReference
    <2> SUFFICES ASSUME ArenaInv, NEW m \in Markets, prints[m] # <<>>
                 PROVE  Signal(CompleteCandles(state[m]))
                            = ReferenceSignal(TrueCandles(prints[m]))
      BY DEF SignalIsReference
    <2> DEFINE c == TrueCandles(prints[m])
    <2>1. Kept(state[m], prints[m])  BY DEF ArenaInv
    <2>2. /\ CompleteCandles(state[m]) = c
          /\ c = <<>> \/ (c \in Seq(Candles) /\ Len(c) = MinCandles)
      BY <2>1, CandlesAreTrue
    <2> HIDE DEF c
    <2>3. Signal(c) = ReferenceSignal(c)
      <3>1. CASE c = <<>>  BY <3>1, NoSignal
      <3>2. CASE c \in Seq(Candles) /\ Len(c) = MinCandles  BY <3>2, SignalSame
      <3> QED BY <2>2, <3>1, <3>2
    <2> QED BY <2>2, <2>3 DEF c
  <1> QED BY <1>1, InductiveInvariant, PTL
=============================================================================
