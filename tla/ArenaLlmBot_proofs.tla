------------------------- MODULE ArenaLlmBot_proofs -------------------------
(***************************************************************************)
(* Proofs about ArenaLlmBot, for any markets, prices, decisions and floor  *)
(* parameters that init_config and init_llm_bot accept, and about          *)
(* LlmOperator, for whatever the model decides.                            *)
(***************************************************************************)
EXTENDS LlmOperator, FiniteSetTheorems, WellFoundedInduction, TLAPS

-----------------------------------------------------------------------------
(* Finite sets.                                                            *)

\* Of the subsets of a finite set that are bad, one has no smaller bad one.
LEMMA SmallestSubset ==
  ASSUME NEW S, IsFiniteSet(S), NEW bad \in SUBSET SUBSET S, bad # {}
  PROVE  \E T \in bad : \A U \in SUBSET T : U # T => U \notin bad
  <1>1. IsWellFoundedOn(StrictSubsetOrdering(S), SUBSET S)
    BY FS_StrictSubsetOrderingWellFounded, FS_FiniteSubsetsOfFinite
  <1>2. PICK T \in bad : \A U \in bad : <<U, T>> \notin StrictSubsetOrdering(S)
    BY <1>1, WFMin
  <1>3. ASSUME NEW U \in SUBSET T, U # T, U \in bad PROVE FALSE
    <2>1. <<U, T>> \in StrictSubsetOrdering(S)
      BY <1>3 DEF StrictSubsetOrdering
    <2> QED BY <1>2, <1>3, <2>1
  <1> QED BY <1>2, <1>3

\* Max of a finite set of integers is one of them, and the greatest.
LEMMA GreatestElement ==
  ASSUME NEW S \in SUBSET Int, IsFiniteSet(S), S # {}
  PROVE  Max(S) \in S /\ \A y \in S : y <= Max(S)
  <1> DEFINE From(x) == {y \in S : y >= x}
             bad == {T \in SUBSET S : \E x \in S : T = From(x)}
  <1>1. bad \in SUBSET SUBSET S /\ bad # {}
    <2>1. PICK x \in S : TRUE  OBVIOUS
    <2>2. From(x) \in bad  BY <2>1
    <2> QED BY <2>2
  <1>2. PICK T \in bad : \A U \in SUBSET T : U # T => U \notin bad
    <2> HIDE DEF bad
    <2> QED BY <1>1, SmallestSubset
  <1>3. PICK x \in S : T = From(x)  BY <1>2
  <1>4. ASSUME NEW y \in S PROVE x >= y
    <2> SUFFICES ASSUME y > x PROVE FALSE
      OBVIOUS
    <2>0. ASSUME NEW z \in From(y) PROVE z \in T
      <3>1. z \in S /\ z >= y /\ z \in Int /\ y \in Int /\ x \in Int  BY <1>3, <2>0
      <3>2. z >= x  BY <3>1
      <3> QED BY <1>3, <3>1, <3>2
    <2>1. From(y) \in SUBSET T  BY <2>0
    <2>2. x \in T /\ x \notin From(y)  BY <1>3
    <2>3. From(y) \in bad  OBVIOUS
    <2> QED BY <1>2, <2>1, <2>2, <2>3
  <1>5. \E z \in S : \A y \in S : z >= y  BY <1>4
  <1>6. Max(S) \in S /\ \A y \in S : Max(S) >= y  BY <1>5 DEF Max
  <1> QED BY <1>6

-----------------------------------------------------------------------------
(* Division.                                                               *)

LEMMA DivInt == ASSUME NEW a \in Int, NEW d \in Nat \ {0} PROVE a \div d \in Int
  OBVIOUS

LEMMA DivNat == ASSUME NEW a \in Nat, NEW d \in Nat \ {0} PROVE a \div d \in Nat
  <1>1. a \div d \in Int  BY DivInt
  <1>2. a = d * (a \div d) + (a % d) /\ a % d \in 0..(d - 1)  OBVIOUS
  <1>3. ASSUME a \div d < 0 PROVE FALSE
    <2>1. d * (a \div d) <= -d  BY <1>1, <1>3
    <2> QED BY <2>1, <1>2
  <1> QED BY <1>1, <1>3

LEMMA TimesNat == ASSUME NEW a \in Nat, NEW b \in Nat PROVE a * b \in Nat
  OBVIOUS

LEMMA MulDivNat ==
  ASSUME NEW a \in Nat, NEW n \in Nat, NEW d \in Nat \ {0}
  PROVE  MulDiv(a, n, d) \in Nat
  BY TimesNat, DivNat DEF MulDiv

\* A proper fraction of a positive amount is below it.
LEMMA MulDivBelow ==
  ASSUME NEW a \in Nat \ {0}, NEW d \in Nat \ {0}, NEW n \in 0..(d - 1)
  PROVE  MulDiv(a, n, d) < a
  <1> DEFINE q == MulDiv(a, n, d)
  <1>1. q \in Nat  BY MulDivNat
  <1>2. a * n \in Nat  BY TimesNat
  <1>3. a * n = d * q + ((a * n) % d) /\ (a * n) % d \in 0..(d - 1)
    BY <1>2 DEF MulDiv
  <1>4. a * n <= a * (d - 1)  OBVIOUS
  <1>5. a * (d - 1) = a * d - a  OBVIOUS
  <1>6. ASSUME q >= a PROVE FALSE
    <2>1. d * q >= d * a  BY <1>1, <1>6
    <2>2. d * a = a * d  OBVIOUS
    <2>3. d * q \in Int /\ a * d \in Int  BY <1>1
    <2> HIDE DEF q
    <2> QED BY <2>1, <2>2, <2>3, <1>1, <1>2, <1>3, <1>4, <1>5
  <1> QED BY <1>1, <1>6

-----------------------------------------------------------------------------
(* What the helpers return.                                                *)

LEMMA AtLeastNat == ASSUME NEW lo \in Nat, NEW n \in Int PROVE AtLeast(lo, n) \in Nat
  BY DEF AtLeast

LEMMA HaircutType ==
  ASSUME NEW mark \in Nat, NEW up \in BOOLEAN
  PROVE  Haircut(mark, up) \in Nat /\ (mark # 0 => Haircut(mark, up) # 0)
  <1>1. MulDiv(mark, SpreadBps, BPS) \in Nat
    BY MulDivNat, ArenaAssumption DEF ArenaAssumption
  <1>2. CASE mark = 0
    <2>1. MulDiv(mark, SpreadBps, BPS) = 0
      BY <1>2, ArenaAssumption DEF ArenaAssumption, MulDiv
    <2> QED BY <1>2, <2>1 DEF Haircut
  <1>3. CASE mark # 0
    <2>1. MulDiv(mark, SpreadBps, BPS) < mark
      BY <1>3, MulDivBelow, ArenaAssumption DEF ArenaAssumption
    <2> QED BY <1>1, <1>3, <2>1 DEF Haircut
  <1> QED BY <1>2, <1>3

LEMMA FeeType ==
  ASSUME NEW stake \in Nat, NEW lev \in Nat
  PROVE  Fee(stake, lev) \in Nat
  BY TimesNat, MulDivNat, ArenaAssumption DEF Fee, ArenaAssumption

LEMMA LeverageType ==
  ASSUME NEW ask \in AskFields PROVE Leverage(ask) \in Nat \ {0}
  BY ArenaAssumption DEF ArenaAssumption, AskFields, Leverage, AtMost, AtLeast

LEMMA StopBpsType ==
  ASSUME NEW ask \in AskFields PROVE StopBps(ask) \in Nat \ {0}
  BY ArenaAssumption DEF ArenaAssumption, AskFields, StopBps, AtMost, AtLeast

LEMMA PlanStakeType ==
  ASSUME NEW b \in Bots, NEW ask \in AskFields
  PROVE  PlanStake(b, ask) \in Nat
  <1> DEFINE risk == MulDiv(MulDiv(b.balance, MaxStakeFracBps, BPS), BPS,
                            AtLeast(1, Leverage(ask) * StopBps(ask)))
             frac == MulDiv(b.balance, AtMost(MaxStakeFracBps, ask.frac), BPS)
  <1>1. b.balance \in Nat  BY DEF Bots
  <1>2. Leverage(ask) * StopBps(ask) \in Nat  BY LeverageType, StopBpsType, TimesNat
  <1>3. AtLeast(1, Leverage(ask) * StopBps(ask)) \in Nat \ {0}  BY <1>2 DEF AtLeast
  <1>4. MulDiv(b.balance, MaxStakeFracBps, BPS) \in Nat
    BY <1>1, MulDivNat, ArenaAssumption DEF ArenaAssumption
  <1>5. risk \in Nat  BY <1>3, <1>4, MulDivNat, ArenaAssumption DEF ArenaAssumption
  <1>6. AtMost(MaxStakeFracBps, ask.frac) \in Nat
    BY ArenaAssumption DEF ArenaAssumption, AskFields, AtMost
  <1>7. frac \in Nat  BY <1>1, <1>6, MulDivNat, ArenaAssumption DEF ArenaAssumption
  <1> HIDE DEF risk, frac
  <1>8. PlanStake(b, ask) = AtMost(b.balance, IF RiskSizing THEN risk ELSE frac)
    BY DEF PlanStake, risk, frac
  <1> QED BY <1>1, <1>5, <1>7, <1>8 DEF AtMost

LEMMA MonusNat == ASSUME NEW a \in Nat, NEW b \in Nat PROVE Monus(a, b) \in Nat
  BY DEF Monus, AtLeast

LEMMA NewPositionType ==
  ASSUME TypeOK, NEW m \in Markets, NEW ask \in AskFields, NEW stake \in Nat
  PROVE  NewPosition(m, ask, stake) \in Position /\ NewPosition(m, ask, stake).stake = stake
         /\ NewPosition(m, ask, stake).market = m
  <1> DEFINE entry == Haircut(price[m], ask.long)
             margin == MulDiv(entry, BPS - MaintBufferBps, Leverage(ask) * BPS)
             risk == MulDiv(entry, StopBps(ask), BPS)
             gain == MulDiv(entry, ask.tp, BPS)
  <1>1. ask.long \in BOOLEAN /\ ask.tp \in Nat  BY DEF AskFields
  <1>2. price[m] \in Nat \ {0}  BY ArenaAssumption DEF ArenaAssumption, TypeOK
  <1>3. entry \in Nat \ {0}  BY <1>1, <1>2, HaircutType
  <1>4. Leverage(ask) \in Nat \ {0} /\ StopBps(ask) \in Nat  BY LeverageType, StopBpsType
  <1> HIDE DEF entry
  <1>5. Leverage(ask) * BPS \in Nat \ {0}
    BY <1>4, ArenaAssumption DEF ArenaAssumption
  <1>6. BPS - MaintBufferBps \in Nat /\ BPS \in Nat \ {0}
    BY ArenaAssumption DEF ArenaAssumption
  <1>7. margin \in Nat  BY <1>3, <1>5, <1>6, MulDivNat
  <1>8. risk \in Nat  BY <1>3, <1>4, <1>6, MulDivNat
  <1>9. gain \in Nat  BY <1>1, <1>3, <1>6, MulDivNat
  <1> HIDE DEF margin, risk, gain
  <1>10. /\ Monus(entry, margin) \in Nat /\ Monus(entry, risk) \in Nat
         /\ Monus(entry, gain) \in Nat
         /\ entry + margin \in Nat /\ entry + risk \in Nat /\ entry + gain \in Nat
    <2>1. entry \in Nat  BY <1>3
    <2>2. entry + margin \in Nat /\ entry + risk \in Nat /\ entry + gain \in Nat
      BY <2>1, <1>7, <1>8, <1>9
    <2> QED BY <2>1, <2>2, <1>7, <1>8, <1>9, MonusNat
  <1>11. NewPosition(m, ask, stake) =
           [market |-> m, long |-> ask.long, entry |-> entry, stake |-> stake,
            lev |-> Leverage(ask),
            liq |-> IF ask.long THEN Monus(entry, margin) ELSE entry + margin,
            stop |-> IF ask.long THEN Monus(entry, risk) ELSE entry + risk,
            tp |-> IF ask.tp = 0 THEN 0
                   ELSE IF ask.long THEN entry + gain ELSE Monus(entry, gain),
            ticks |-> 0]
    BY DEF NewPosition, entry, margin, risk, gain
  <1> QED BY <1>1, <1>3, <1>4, <1>10, <1>11 DEF Position

LEMMA CreditType ==
  ASSUME NEW p \in Position, NEW exit \in Nat
  PROVE  Credit(p, exit) \in Nat
  <1>1. p.stake \in Nat /\ p.lev \in Nat \ {0} /\ p.entry \in Nat \ {0} /\ p.long \in BOOLEAN
    BY DEF Position
  <1> DEFINE move == p.stake * p.lev * (exit - p.entry)
  <1>2. move \in Int  BY <1>1
  <1> HIDE DEF move
  <1>3. DivTrunc(move, p.entry) \in Int  BY <1>1, <1>2, DivInt DEF DivTrunc
  <1>4. Pnl(p, exit) \in Int  BY <1>1, <1>3 DEF Pnl, move
  <1>5. Fee(p.stake, p.lev) \in Nat  BY <1>1, FeeType
  <1>6. p.stake + Pnl(p, exit) - Fee(p.stake, p.lev) \in Int  BY <1>1, <1>4, <1>5
  <1> QED BY <1>6, AtLeastNat DEF Credit

LEMMA FundingType ==
  ASSUME NEW p \in Position, NEW secs \in Nat
  PROVE  Funding(p, secs) \in Nat
  <1>1. p.stake \in Nat /\ p.lev \in Nat  BY DEF Position
  <1>2. FundingBps \in Nat /\ BPS * HourSecs \in Nat \ {0}
    BY ArenaAssumption DEF ArenaAssumption
  <1>3. p.stake * p.lev * FundingBps * secs \in Nat  BY <1>1, <1>2, TimesNat
  <1> QED BY <1>2, <1>3, DivNat DEF Funding

-----------------------------------------------------------------------------
(* What a step of the program does to an account.                          *)

Balanced(b) == b.balance + Locked(b) = StartBalance + b.pnl - b.spent

Unique(b) ==
    \A s, t \in Slots :
        /\ b.slots[s] # Free /\ b.slots[t] # Free
        /\ b.slots[s].market = b.slots[t].market
        => s = t

Good(b) == b \in Bots /\ Balanced(b) /\ Unique(b)

\* c comes from b without opening anything, on the same day.
Worked(b, c) ==
    /\ c.tradesToday = b.tradesToday
    /\ b.halted => c.halted
    /\ \A s \in Slots : c.slots[s] # Free => b.slots[s] # Free

LEMMA StakeType ==
  ASSUME NEW p \in Position \cup {Free} PROVE Stake(p) \in Nat
  BY DEF Stake, Position

LEMMA EquityType == ASSUME NEW b \in Bots PROVE EquityAtCost(b) \in Nat
  <1>1. \A s \in Slots : b.slots[s] \in Position \cup {Free}  BY DEF Bots
  <1>2. Stake(b.slots[1]) \in Nat  BY <1>1, StakeType DEF Slots
  <1>3. Stake(b.slots[2]) \in Nat  BY <1>1, StakeType DEF Slots
  <1>4. Stake(b.slots[3]) \in Nat  BY <1>1, StakeType DEF Slots
  <1>5. Stake(b.slots[4]) \in Nat  BY <1>1, StakeType DEF Slots
  <1> QED BY <1>2, <1>3, <1>4, <1>5 DEF EquityAtCost, Locked, Bots

LEMMA RollGood ==
  ASSUME NEW b, Good(b), newDay \in BOOLEAN
  PROVE  /\ Good(RollDay(b))
         /\ newDay => RollDay(b).tradesToday = 0
         /\ ~newDay => RollDay(b) = b
         /\ RollDay(b).slots = b.slots /\ RollDay(b).balance = b.balance
  BY EquityType DEF Good, RollDay, Bots, Balanced, Unique, Locked

LEMMA CheckGood ==
  ASSUME NEW b, Good(b)
  PROVE  Good(CheckKillSwitch(b)) /\ Worked(b, CheckKillSwitch(b))
  BY DEF Good, CheckKillSwitch, Bots, Balanced, Unique, Locked, LossReached, Worked

\* Replacing what one slot holds changes the locked stakes by the difference.
LEMMA LockedSwap ==
  ASSUME NEW b \in Bots, NEW s \in Slots, NEW p \in Position \cup {Free}, NEW c \in Bots,
         c.slots = [b.slots EXCEPT ![s] = p]
  PROVE  Locked(c) = Locked(b) - Stake(b.slots[s]) + Stake(p)
  <1>1. \A t \in Slots : b.slots[t] \in Position \cup {Free}  BY DEF Bots
  <1>2. b.slots \in [Slots -> Position \cup {Free}]  BY DEF Bots
  <1>3. /\ Stake(b.slots[1]) \in Nat /\ Stake(b.slots[2]) \in Nat
        /\ Stake(b.slots[3]) \in Nat /\ Stake(b.slots[4]) \in Nat
    BY <1>1, StakeType DEF Slots
  <1>4. Stake(p) \in Nat  BY StakeType
  <1>5. CASE s = 1
    <2>1. c.slots[1] = p /\ c.slots[2] = b.slots[2] /\ c.slots[3] = b.slots[3]
          /\ c.slots[4] = b.slots[4]
      BY <1>2, <1>5 DEF Slots
    <2> QED BY <2>1, <1>3, <1>4, <1>5 DEF Locked
  <1>6. CASE s = 2
    <2>1. c.slots[1] = b.slots[1] /\ c.slots[2] = p /\ c.slots[3] = b.slots[3]
          /\ c.slots[4] = b.slots[4]
      BY <1>2, <1>6 DEF Slots
    <2> QED BY <2>1, <1>3, <1>4, <1>6 DEF Locked
  <1>7. CASE s = 3
    <2>1. c.slots[1] = b.slots[1] /\ c.slots[2] = b.slots[2] /\ c.slots[3] = p
          /\ c.slots[4] = b.slots[4]
      BY <1>2, <1>7 DEF Slots
    <2> QED BY <2>1, <1>3, <1>4, <1>7 DEF Locked
  <1>8. CASE s = 4
    <2>1. c.slots[1] = b.slots[1] /\ c.slots[2] = b.slots[2] /\ c.slots[3] = b.slots[3]
          /\ c.slots[4] = p
      BY <1>2, <1>8 DEF Slots
    <2> QED BY <2>1, <1>3, <1>4, <1>8 DEF Locked
  <1> QED BY <1>5, <1>6, <1>7, <1>8 DEF Slots

LEMMA LockedType == ASSUME NEW b \in Bots PROVE Locked(b) \in Int
  <1>1. \A s \in Slots : b.slots[s] \in Position \cup {Free}  BY DEF Bots
  <1>2. /\ Stake(b.slots[1]) \in Nat /\ Stake(b.slots[2]) \in Nat
        /\ Stake(b.slots[3]) \in Nat /\ Stake(b.slots[4]) \in Nat
    BY <1>1, StakeType DEF Slots
  <1> QED BY <1>2 DEF Locked

LEMMA CloseGood ==
  ASSUME NEW b, Good(b), NEW s \in Slots, b.slots[s] # Free, NEW credit \in Nat
  PROVE  Good(Close(b, s, credit)) /\ Worked(b, Close(b, s, credit))
  <1> DEFINE c == Close(b, s, credit)
  <1>1. b \in Bots /\ b.slots[s] \in Position  BY DEF Good, Bots
  <1>2. b.slots[s].stake \in Nat /\ Stake(b.slots[s]) = b.slots[s].stake /\ Stake(Free) = 0
    BY <1>1 DEF Position, Stake
  <1>3. c \in Bots
    <2>1. b.balance \in Nat /\ b.pnl \in Int /\ b.slots \in [Slots -> Position \cup {Free}]
      BY <1>1 DEF Bots
    <2>2. b.balance + credit \in Nat  BY <2>1
    <2>3. b.pnl + credit - b.slots[s].stake \in Int  BY <2>1, <1>2
    <2>4. [b.slots EXCEPT ![s] = Free] \in [Slots -> Position \cup {Free}]  BY <2>1
    <2> QED BY <1>1, <2>2, <2>3, <2>4 DEF Close, Bots
  <1>4. c.slots = [b.slots EXCEPT ![s] = Free]  BY <1>1 DEF Close, Bots
  <1>5. Locked(c) = Locked(b) - b.slots[s].stake
    <2>1. Locked(c) = Locked(b) - Stake(b.slots[s]) + Stake(Free)
      BY <1>1, <1>3, <1>4, LockedSwap
    <2> QED BY <2>1, <1>1, <1>2, LockedType
  <1>6. /\ c.balance = b.balance + credit
        /\ c.pnl = b.pnl + credit - b.slots[s].stake
        /\ c.spent = b.spent /\ c.tradesToday = b.tradesToday /\ c.halted = b.halted
    BY <1>1 DEF Close, Bots
  <1> HIDE DEF c
  <1>7. Balanced(c)
    <2>1. b.balance \in Int /\ b.pnl \in Int /\ b.spent \in Int /\ Locked(b) \in Int
      BY <1>1, LockedType DEF Bots
    <2>2. StartBalance \in Int  BY ArenaAssumption DEF ArenaAssumption
    <2> QED BY <1>2, <1>5, <1>6, <2>1, <2>2 DEF Balanced, Good
  <1>8. Unique(c)  BY <1>1, <1>4 DEF Unique, Good, Bots
  <1>9. Worked(b, c)  BY <1>1, <1>4, <1>6 DEF Worked, Bots
  <1> QED BY <1>3, <1>7, <1>8, <1>9 DEF Good, c

LEMMA TakeFundingGood ==
  ASSUME NEW b, Good(b), NEW s \in Slots, b.slots[s] # Free, NEW secs \in Nat
  PROVE  LET c == TakeFunding(b, s, secs)
         IN  Good(c) /\ Worked(b, c) /\ c.slots = b.slots
  <1> DEFINE taken == AtMost(b.balance, Funding(b.slots[s], secs))
             c == TakeFunding(b, s, secs)
  <1>1. b \in Bots /\ b.slots[s] \in Position  BY DEF Good, Bots
  <1>2. b.balance \in Nat /\ b.spent \in Nat /\ b.pnl \in Int  BY <1>1 DEF Bots
  <1>3. Funding(b.slots[s], secs) \in Nat  BY <1>1, FundingType
  <1>4. taken \in Nat /\ taken <= b.balance
    <2> DEFINE f == Funding(b.slots[s], secs)
    <2> HIDE DEF f
    <2>1. \A x \in Nat : AtMost(b.balance, x) \in Nat /\ AtMost(b.balance, x) <= b.balance
      BY <1>2 DEF AtMost
    <2> QED BY <1>3, <2>1
  <1>5. c = [b EXCEPT !.balance = @ - taken, !.spent = @ + taken]  BY DEF TakeFunding
  <1> HIDE DEF taken, c
  <1>6. b.balance - taken \in Nat /\ b.spent + taken \in Nat  BY <1>2, <1>4
  <1>7. c \in Bots  BY <1>1, <1>5, <1>6 DEF Bots
  <1>8. /\ c.balance = b.balance - taken /\ c.spent = b.spent + taken
        /\ c.pnl = b.pnl /\ c.slots = b.slots
        /\ c.tradesToday = b.tradesToday /\ c.halted = b.halted
    BY <1>1, <1>5 DEF Bots
  <1>9. Balanced(c)
    <2>1. Locked(c) = Locked(b) /\ Locked(b) \in Int  BY <1>1, <1>8, LockedType DEF Locked
    <2>2. StartBalance \in Int  BY ArenaAssumption DEF ArenaAssumption
    <2>3. b.balance + Locked(b) = StartBalance + b.pnl - b.spent  BY DEF Good, Balanced
    <2>4. (b.balance - taken) + Locked(b) = StartBalance + b.pnl - (b.spent + taken)
      BY <1>2, <1>4, <2>1, <2>2, <2>3
    <2> QED BY <1>8, <2>1, <2>4 DEF Balanced
  <1>10. Unique(c)  BY <1>8 DEF Unique, Good
  <1> QED BY <1>7, <1>8, <1>9, <1>10 DEF Good, Worked, c

LEMMA AgeGood ==
  ASSUME NEW b, Good(b), NEW s \in Slots, b.slots[s] # Free
  PROVE  LET c == Age(b, s)
         IN  /\ Good(c) /\ Worked(b, c)
             /\ c.slots[s] \in Position /\ c.slots[s].stop = b.slots[s].stop
  <1> DEFINE p == [b.slots[s] EXCEPT !.ticks = @ + 1]
             c == Age(b, s)
  <1>1. b \in Bots /\ b.slots[s] \in Position  BY DEF Good, Bots
  <1>2. p \in Position /\ p.stake = b.slots[s].stake /\ p.market = b.slots[s].market
        /\ p.stop = b.slots[s].stop
    BY <1>1 DEF Position
  <1>3. c = [b EXCEPT !.slots = [b.slots EXCEPT ![s] = p]]
    BY <1>1 DEF Age, Bots
  <1> HIDE DEF p, c
  <1>4. c \in Bots  BY <1>1, <1>2, <1>3 DEF Bots
  <1>5. /\ c.slots = [b.slots EXCEPT ![s] = p]
        /\ c.balance = b.balance /\ c.spent = b.spent /\ c.pnl = b.pnl
        /\ c.tradesToday = b.tradesToday /\ c.halted = b.halted
    BY <1>1, <1>3 DEF Bots
  <1>6. p # Free  BY <1>2, ArenaAssumption DEF ArenaAssumption
  <1>7. Balanced(c)
    <2>1. Locked(c) = Locked(b) - Stake(b.slots[s]) + Stake(p)
      BY <1>1, <1>2, <1>4, <1>5, LockedSwap
    <2>2. Stake(b.slots[s]) = b.slots[s].stake /\ Stake(p) = b.slots[s].stake
      BY <1>2, <1>6 DEF Stake
    <2>3. b.slots[s].stake \in Nat /\ Locked(b) \in Int  BY <1>1, LockedType DEF Position
    <2>4. Locked(c) = Locked(b)  BY <2>1, <2>2, <2>3
    <2> QED BY <1>5, <2>4 DEF Balanced, Good
  <1>8. \A t \in Slots : c.slots[t] = IF t = s THEN p ELSE b.slots[t]
    BY <1>1, <1>5 DEF Bots
  <1>9. Unique(c)  BY <1>2, <1>8 DEF Unique, Good
  <1>10. Worked(b, c)  BY <1>5, <1>8 DEF Worked
  <1> QED BY <1>2, <1>4, <1>7, <1>8, <1>9, <1>10 DEF Good, c

LEMMA CloseAtGood ==
  ASSUME NEW b, Good(b), NEW s \in Slots, b.slots[s] # Free, NEW mark \in Nat
  PROVE  Good(CloseAt(b, s, mark)) /\ Worked(b, CloseAt(b, s, mark))
  <1>1. b.slots[s] \in Position /\ (~b.slots[s].long) \in BOOLEAN
    BY DEF Good, Bots, Position
  <1>2. Haircut(mark, ~b.slots[s].long) \in Nat  BY <1>1, HaircutType
  <1>3. Credit(b.slots[s], Haircut(mark, ~b.slots[s].long)) \in Nat
    BY <1>1, <1>2, CreditType
  <1> QED BY <1>3, CloseGood DEF CloseAt

LEMMA WorkedTwice ==
  ASSUME NEW a, NEW b, NEW c, Worked(a, b), Worked(b, c)
  PROVE  Worked(a, c)
  BY DEF Worked

LEMMA MaintainGood ==
  ASSUME NEW b, Good(b), NEW s \in Slots, b.slots[s] # Free,
         NEW mark \in Nat, NEW secs \in Nat
  PROVE  Good(Maintain(b, s, mark, secs)) /\ Worked(b, Maintain(b, s, mark, secs))
  <1> DEFINE f == TakeFunding(b, s, secs)
             p == b.slots[s]
             aged == Age(f, s)
             c == Maintain(b, s, mark, secs)
  <1>1. Good(f) /\ Worked(b, f) /\ f.slots = b.slots  BY TakeFundingGood
  <1>2. p \in Position  BY DEF Good, Bots
  <1>3. p.stop \in Nat /\ f.slots[s] # Free  BY <1>1, <1>2 DEF Position
  <1> HIDE DEF f
  <1>4. Good(aged) /\ Worked(f, aged) /\ aged.slots[s] # Free
    BY <1>1, <1>3, AgeGood, ArenaAssumption DEF ArenaAssumption
  <1>5. Good(Close(f, s, 0)) /\ Worked(f, Close(f, s, 0))  BY <1>1, <1>3, CloseGood
  <1>6. Good(CloseAt(f, s, p.stop)) /\ Worked(f, CloseAt(f, s, p.stop))
    BY <1>1, <1>3, CloseAtGood
  <1>7. Good(CloseAt(f, s, mark)) /\ Worked(f, CloseAt(f, s, mark))
    BY <1>1, <1>3, CloseAtGood
  <1>8. Good(CloseAt(aged, s, mark)) /\ Worked(f, CloseAt(aged, s, mark))
    BY <1>4, CloseAtGood, WorkedTwice
  <1>9. c \in {Close(f, s, 0), CloseAt(f, s, p.stop), CloseAt(f, s, mark),
               CloseAt(aged, s, mark), aged}
    <2> HIDE DEF p, aged
    <2>1. c = CASE Liquidated(p, mark) -> Close(f, s, 0)
                [] ~Liquidated(p, mark) /\ Stopped(p, mark) -> CloseAt(f, s, p.stop)
                [] ~Liquidated(p, mark) /\ ~Stopped(p, mark) /\ TookProfit(p, mark)
                      -> CloseAt(f, s, mark)
                [] OTHER -> IF aged.slots[s].ticks >= MaxHoldTicks
                            THEN CloseAt(aged, s, mark) ELSE aged
      BY DEF Maintain, f, p, aged
    <2> HIDE DEF c
    <2> QED BY <2>1
  <1> HIDE DEF c, aged, p
  <1>10. Good(c) /\ Worked(f, c)  BY <1>4, <1>5, <1>6, <1>7, <1>8, <1>9
  <1>11. Worked(b, c)  BY <1>1, <1>10, WorkedTwice
  <1> QED BY <1>10, <1>11 DEF c

-----------------------------------------------------------------------------
(* Steps.                                                                  *)

LEMMA GoodBot == BotInv <=> TypeOK /\ Good(bot) /\ DayCounted
  BY DEF BotInv, TypeOK, Good, Books, Balanced, AtMostOnePerMarket, Unique

LEMMA StakeMoves ==
  ASSUME NEW cash \in Int, NEW locked \in Int, NEW pnl \in Int, NEW spent \in Int,
         NEW stake \in Int, NEW fee \in Int, NEW start \in Int,
         cash + locked = start + pnl - spent
  PROVE  (cash - (stake + fee)) + (locked + stake) = start + pnl - (spent + fee)
  OBVIOUS

LEMMA OpenInv ==
  ASSUME BotInv, NEW m \in Markets, NEW ask \in AskFields, Open(m, ask)
  PROVE  BotInv' /\ bot'.tradesToday = RollDay(bot).tradesToday + 1 /\ newDay' = FALSE
  <1> DEFINE b == RollDay(bot)
             stake == PlanStake(b, ask)
             fee == Fee(stake, Leverage(ask))
             new == NewPosition(m, ask, stake)
  <1>1. TypeOK /\ Good(bot) /\ DayCounted  BY GoodBot
  <1>2. ask \in AskFields  OBVIOUS
  <1>3. /\ Good(b)
        /\ newDay => b.tradesToday = 0
        /\ ~newDay => b = bot
        /\ b.slots = bot.slots
    BY <1>1, RollGood DEF TypeOK
  <1>4. b \in Bots  BY <1>3 DEF Good
  <1>5. PICK s \in Slots :
          /\ FirstFree(b, s)
          /\ bot' = [TakeStake(b, stake, fee) EXCEPT !.tradesToday = @ + 1,
                                                     !.slots[s] = new]
    BY DEF Open
  <1>6. /\ Permitted(b, ask) /\ ~InMarket(b, m) /\ Covers(b, stake, fee)
        /\ newDay' = FALSE /\ opensToday' = opensToday + 1 /\ opens' = opens + 1
        /\ UNCHANGED marketVars /\ cooling' = TRUE
    BY DEF Open
  <1> HIDE DEF b
  <1>7. stake \in Nat  BY <1>2, <1>4, PlanStakeType
  <1> HIDE DEF stake
  <1>8. fee \in Nat  BY <1>2, <1>7, LeverageType, FeeType
  <1>9. new \in Position /\ new.stake = stake /\ new.market = m
    BY <1>1, <1>2, <1>7, NewPositionType
  <1> HIDE DEF fee, new
  <1>10. /\ b.balance \in Nat /\ b.spent \in Nat /\ b.pnl \in Int /\ b.tradesToday \in Nat
         /\ b.slots \in [Slots -> Position \cup {Free}]
    BY <1>4 DEF Bots
  <1>11. b.balance - (stake + fee) \in Nat /\ b.spent + fee \in Nat
    BY <1>6, <1>7, <1>8, <1>10 DEF Covers
  <1>12. bot' = [b EXCEPT !.balance = b.balance - (stake + fee), !.spent = b.spent + fee,
                          !.tradesToday = b.tradesToday + 1,
                          !.slots = [b.slots EXCEPT ![s] = new]]
    BY <1>4, <1>5 DEF TakeStake, Bots
  <1>13. bot' \in Bots
    <2>1. b.tradesToday + 1 \in Nat  BY <1>10
    <2>2. [b.slots EXCEPT ![s] = new] \in [Slots -> Position \cup {Free}]  BY <1>9, <1>10
    <2> QED BY <1>4, <1>11, <1>12, <2>1, <2>2 DEF Bots
  <1>14. /\ bot'.balance = b.balance - (stake + fee) /\ bot'.spent = b.spent + fee
         /\ bot'.pnl = b.pnl /\ bot'.tradesToday = b.tradesToday + 1
         /\ bot'.slots = [b.slots EXCEPT ![s] = new]
    BY <1>4, <1>12 DEF Bots
  <1>15. b.slots[s] = Free /\ new # Free
    BY <1>5, <1>9, ArenaAssumption DEF FirstFree, ArenaAssumption
  <1>16. Balanced(bot')
    <2>1. Locked(bot') = Locked(b) - Stake(b.slots[s]) + Stake(new)
      <3> DEFINE c == bot'
      <3>1. c \in Bots /\ c.slots = [b.slots EXCEPT ![s] = new]  BY <1>13, <1>14
      <3> HIDE DEF c
      <3>2. Locked(c) = Locked(b) - Stake(b.slots[s]) + Stake(new)
        BY <3>1, <1>4, <1>9, LockedSwap
      <3> QED BY <3>2 DEF c
    <2>2. Stake(b.slots[s]) = 0 /\ Stake(new) = stake  BY <1>9, <1>15 DEF Stake
    <2>3. Locked(b) \in Int  BY <1>4, LockedType
    <2>4. Locked(bot') = Locked(b) + stake  BY <2>1, <2>2, <2>3, <1>7
    <2>5. b.balance + Locked(b) = StartBalance + b.pnl - b.spent
      BY <1>3 DEF Good, Balanced
    <2>6. StartBalance \in Int  BY ArenaAssumption DEF ArenaAssumption
    <2>7. (b.balance - (stake + fee)) + (Locked(b) + stake)
            = StartBalance + b.pnl - (b.spent + fee)
      <3> DEFINE cash == b.balance  locked == Locked(b)  pnl == b.pnl  spent == b.spent
      <3>1. /\ cash \in Int /\ locked \in Int /\ pnl \in Int /\ spent \in Int
            /\ stake \in Int /\ fee \in Int /\ cash + locked = StartBalance + pnl - spent
        BY <1>7, <1>8, <1>10, <2>3, <2>5
      <3> HIDE DEF cash, locked, pnl, spent
      <3>2. (cash - (stake + fee)) + (locked + stake) = StartBalance + pnl - (spent + fee)
        BY <3>1, <2>6, StakeMoves
      <3> QED BY <3>2 DEF cash, locked, pnl, spent
    <2> QED BY <1>14, <2>4, <2>7 DEF Balanced
  <1>17. Unique(bot')
    <2>1. \A t \in Slots : bot'.slots[t] = IF t = s THEN new ELSE b.slots[t]
      BY <1>10, <1>14
    <2>2. \A t \in Slots : b.slots[t] # Free => b.slots[t].market # m
      BY <1>6 DEF InMarket, Holds
    <2>3. Unique(b)  BY <1>3 DEF Good
    <2> QED BY <1>9, <2>1, <2>2, <2>3 DEF Unique
  <1>18. DayCounted'
    <2>1. b.tradesToday < MaxTrades /\ MaxTrades \in Nat
      BY <1>6, ArenaAssumption DEF Permitted, ArenaAssumption
    <2>2. opensToday = b.tradesToday
      BY <1>1, <1>3 DEF DayCounted, TypeOK
    <2> QED BY <1>6, <1>10, <1>14, <2>1, <2>2 DEF DayCounted
  <1>19. TypeOK'
    <2>1. opensToday' \in Nat /\ opens' \in Nat  BY <1>1, <1>6 DEF TypeOK
    <2>2. price' \in [Markets -> Prices] /\ unfolded' \subseteq Markets
      BY <1>1, <1>6 DEF TypeOK, marketVars
    <2> QED BY <1>6, <1>13, <2>1, <2>2 DEF TypeOK
  <1>20. Good(bot')  BY <1>13, <1>16, <1>17 DEF Good
  <1>21. BotInv'
    BY <1>18, <1>19, <1>20 DEF BotInv, Good, Books, Balanced, AtMostOnePerMarket, Unique, Locked
  <1> QED BY <1>6, <1>14, <1>21 DEF b

\* A step that works on the rolled account without opening keeps BotInv.
LEMMA WorkStep ==
  ASSUME BotInv, Good(bot'), Worked(RollDay(bot), bot'), newDay' = FALSE,
         unfolded' \subseteq Markets, cooling' \in BOOLEAN,
         UNCHANGED <<price, opensToday, opens>>
  PROVE  BotInv'
  <1>1. TypeOK /\ Good(bot) /\ DayCounted  BY GoodBot
  <1>2. /\ newDay => RollDay(bot).tradesToday = 0
        /\ ~newDay => RollDay(bot) = bot
    BY <1>1, RollGood DEF TypeOK
  <1>3. bot'.tradesToday = IF newDay THEN 0 ELSE bot.tradesToday
    BY <1>1, <1>2 DEF Worked, TypeOK
  <1>4. DayCounted'  BY <1>1, <1>3, ArenaAssumption DEF DayCounted, ArenaAssumption
  <1>5. bot' \in Bots  BY DEF Good
  <1>6. TypeOK'  BY <1>1, <1>5 DEF TypeOK
  <1> QED BY <1>4, <1>6 DEF BotInv, Good, Books, Balanced,
          AtMostOnePerMarket, Unique, Locked

LEMMA CloseByOperatorStep ==
  ASSUME BotInv, NEW m \in Markets, CloseByOperator(m)
  PROVE  Good(bot') /\ Worked(RollDay(bot), bot')
  <1> DEFINE b == RollDay(bot)
  <1>1. TypeOK /\ Good(bot)  BY GoodBot
  <1>2. Good(b)  BY <1>1, RollGood DEF TypeOK
  <1>3. PICK s \in Slots : Holds(b, s, m) /\ bot' = CheckKillSwitch(CloseAt(b, s, price[m]))
    BY DEF CloseByOperator
  <1>4. b.slots[s] # Free /\ price[m] \in Nat
    BY <1>1, <1>3, ArenaAssumption DEF Holds, TypeOK, ArenaAssumption
  <1> HIDE DEF b
  <1> DEFINE c == CloseAt(b, s, price[m])
  <1>5. Good(c) /\ Worked(b, c)  BY <1>2, <1>4, CloseAtGood
  <1> HIDE DEF c
  <1>6. Good(CheckKillSwitch(c)) /\ Worked(c, CheckKillSwitch(c))  BY <1>5, CheckGood
  <1>7. Good(CheckKillSwitch(c)) /\ Worked(b, CheckKillSwitch(c))
    BY <1>5, <1>6, WorkedTwice
  <1>8. bot' = CheckKillSwitch(c)  BY <1>3 DEF c
  <1> QED BY <1>7, <1>8 DEF b

LEMMA HeartbeatStep ==
  ASSUME BotInv, Heartbeat
  PROVE  Good(bot') /\ Worked(RollDay(bot), bot')
  <1>1. TypeOK /\ Good(bot)  BY GoodBot
  <1>2. Good(RollDay(bot))  BY <1>1, RollGood DEF TypeOK
  <1> QED BY <1>2 DEF Heartbeat, Worked

LEMMA MaintainedGood ==
  ASSUME NEW b, Good(b), NEW m \in Markets, price[m] \in Nat, NEW c \in Maintained(b, m)
  PROVE  Good(c) /\ Worked(b, c)
  <1>1. CASE InMarket(b, m)
    <2>1. PICK s \in {s \in Slots : Holds(b, s, m)}, secs \in Gaps :
            c = Maintain(b, s, price[m], secs)
      BY <1>1 DEF Maintained
    <2>2. s \in Slots /\ b.slots[s] # Free /\ secs \in Nat
      BY <2>1, ArenaAssumption DEF Holds, ArenaAssumption
    <2> QED BY <2>1, <2>2, MaintainGood
  <1>2. CASE ~InMarket(b, m)
    <2>1. c = b  BY <1>2 DEF Maintained
    <2> QED BY <2>1 DEF Worked
  <1> QED BY <1>1, <1>2

LEMMA TickStep ==
  ASSUME BotInv, NEW m \in Markets, Tick(m)
  PROVE  Good(bot') /\ Worked(RollDay(bot), bot')
  <1> DEFINE b == RollDay(bot)
  <1>1. TypeOK /\ Good(bot)  BY GoodBot
  <1>2. Good(b)  BY <1>1, RollGood DEF TypeOK
  <1>3. price[m] \in Nat  BY <1>1, ArenaAssumption DEF TypeOK, ArenaAssumption
  <1>4. PICK c \in Maintained(b, m) : bot' = CheckKillSwitch(c)
    BY DEF Tick
  <1> HIDE DEF b
  <1>5. Good(c) /\ Worked(b, c)  BY <1>2, <1>3, <1>4, MaintainedGood
  <1>6. Good(CheckKillSwitch(c)) /\ Worked(c, CheckKillSwitch(c))  BY <1>5, CheckGood
  <1>7. Good(CheckKillSwitch(c)) /\ Worked(b, CheckKillSwitch(c))
    BY <1>5, <1>6, WorkedTwice
  <1> QED BY <1>4, <1>7 DEF b

\* A step that leaves the account alone.
LEMMA PublishStep ==
  ASSUME BotInv, NEW m \in Markets, Publish(m)
  PROVE  BotInv' /\ UNCHANGED bot
  BY DEF BotInv, Publish, TypeOK, Books, AtMostOnePerMarket, DayCounted, clockVars

LEMMA MidnightStep ==
  ASSUME BotInv, Midnight
  PROVE  BotInv' /\ UNCHANGED bot
  BY DEF BotInv, Midnight, TypeOK, Books, AtMostOnePerMarket, DayCounted, marketVars

LEMMA CooledDownStep ==
  ASSUME BotInv, CooledDown
  PROVE  BotInv' /\ UNCHANGED bot
  BY DEF BotInv, CooledDown, TypeOK, Books, AtMostOnePerMarket, DayCounted, marketVars

LEMMA NextCases ==
  ASSUME Next
  PROVE
    \/ \E m \in Markets, ask \in Asks : Open(m, ask)
    \/ \E m \in Markets : CloseByOperator(m)
    \/ \E m \in Markets : Tick(m)
    \/ \E m \in Markets : Publish(m)
    \/ Heartbeat \/ Midnight \/ CooledDown
  BY DEF Next

LEMMA InitInv == Init => BotInv
  <1> SUFFICES ASSUME Init PROVE BotInv  OBVIOUS
  <1>1. StartBalance \in Nat /\ MaxTrades \in Nat  BY ArenaAssumption DEF ArenaAssumption
  <1>2. bot \in Bots  BY <1>1 DEF Init, Bots
  <1>3. TypeOK  BY <1>2 DEF Init, TypeOK
  <1>4. \A s \in Slots : bot.slots[s] = Free  BY DEF Init
  <1>5. Locked(bot) = 0  BY <1>4 DEF Locked, Stake, Slots
  <1>6. Books  BY <1>1, <1>5 DEF Init, Books
  <1>7. AtMostOnePerMarket  BY <1>4 DEF AtMostOnePerMarket
  <1>8. DayCounted  BY <1>1 DEF Init, DayCounted
  <1> QED BY <1>3, <1>6, <1>7, <1>8 DEF BotInv

LEMMA StepInv == BotInv /\ [Next]_vars => BotInv'
  <1> SUFFICES ASSUME BotInv, [Next]_vars PROVE BotInv'  OBVIOUS
  <1>1. CASE \E m \in Markets, ask \in Asks : Open(m, ask)
    <2>1. PICK m \in Markets, ask \in Asks : Open(m, ask)  BY <1>1
    <2>2. ask \in AskFields  BY ArenaAssumption DEF ArenaAssumption
    <2> QED BY <2>1, <2>2, OpenInv
  <1>2. CASE \E m \in Markets : CloseByOperator(m)
    <2>1. PICK m \in Markets : CloseByOperator(m)  BY <1>2
    <2>2. Good(bot') /\ Worked(RollDay(bot), bot')  BY <2>1, CloseByOperatorStep
    <2> QED BY <2>1, <2>2, WorkStep DEF CloseByOperator, marketVars, BotInv, TypeOK
  <1>3. CASE \E m \in Markets : Tick(m)
    <2>1. PICK m \in Markets : Tick(m)  BY <1>3
    <2>2. Good(bot') /\ Worked(RollDay(bot), bot')  BY <2>1, TickStep
    <2> QED BY <2>1, <2>2, WorkStep DEF Tick, BotInv, TypeOK
  <1>4. CASE Heartbeat
    <2>1. Good(bot') /\ Worked(RollDay(bot), bot')  BY <1>4, HeartbeatStep
    <2> QED BY <1>4, <2>1, WorkStep DEF Heartbeat, marketVars, BotInv, TypeOK
  <1>5. CASE \E m \in Markets : Publish(m)  BY <1>5, PublishStep
  <1>6. CASE Midnight  BY <1>6, MidnightStep
  <1>7. CASE CooledDown  BY <1>7, CooledDownStep
  <1>8. CASE UNCHANGED vars
    BY <1>8 DEF vars, marketVars, clockVars, BotInv, TypeOK, Books, Locked,
       AtMostOnePerMarket, DayCounted
  <1> QED BY <1>1, <1>2, <1>3, <1>4, <1>5, <1>6, <1>7, <1>8, NextCases

-----------------------------------------------------------------------------
(* Theorems.                                                               *)

\* The inductive invariant.
THEOREM InductiveInvariant == Spec => []BotInv
  <1> QED BY InitInv, StepInv, PTL DEF Spec

\* No parameter the program accepts, no price and no order of instructions
\* makes an unsigned subtraction fall below zero.
THEOREM TypeCorrect == Spec => []TypeOK
  <1>1. BotInv => TypeOK  BY DEF BotInv
  <1> QED BY <1>1, InductiveInvariant, PTL

\* Money is conserved: cash and locked stakes are the start plus the booked
\* result minus opening fees and funding.
THEOREM BooksBalance == Spec => []Books
  <1>1. BotInv => Books  BY DEF BotInv
  <1> QED BY <1>1, InductiveInvariant, PTL

\* No market is ever entered twice.
THEOREM OnePerMarket == Spec => []AtMostOnePerMarket
  <1>1. BotInv => AtMostOnePerMarket  BY DEF BotInv
  <1> QED BY <1>1, InductiveInvariant, PTL

\* No calendar day sees more opens than max_trades_per_day.
THEOREM CapHolds == Spec => []DailyTradeCap
  <1>1. BotInv => DailyTradeCap
    BY ArenaAssumption DEF BotInv, TypeOK, DayCounted, DailyTradeCap, ArenaAssumption, Bots
  <1> QED BY <1>1, InductiveInvariant, PTL

\* A halted bot opens nothing and stays halted until the day rolls.
THEOREM HaltHolds == Spec => HaltMeansHalt
  <1> DEFINE Latched == bot'.halted /\ \A s \in Slots : bot'.slots[s] # Free => bot.slots[s] # Free
  <1>1. ASSUME BotInv, [Next]_vars, bot.halted, ~newDay PROVE Latched
    <2>1. TypeOK /\ Good(bot)  BY <1>1, GoodBot
    <2>2. RollDay(bot) = bot  BY <1>1 DEF RollDay
    <2>3. Worked(bot, bot') => Latched  BY <1>1 DEF Worked
    <2>4. UNCHANGED bot => Latched  BY <1>1
    <2> HIDE DEF Latched
    <2>5. CASE \E m \in Markets, ask \in Asks : Open(m, ask)
      BY <1>1, <2>2, <2>5 DEF Open, Permitted
    <2>6. CASE \E m \in Markets : CloseByOperator(m)
      BY <1>1, <2>2, <2>3, <2>6, CloseByOperatorStep
    <2>7. CASE \E m \in Markets : Tick(m)
      BY <1>1, <2>2, <2>3, <2>7, TickStep
    <2>8. CASE Heartbeat
      BY <1>1, <2>2, <2>3, <2>8, HeartbeatStep
    <2>9. CASE \E m \in Markets : Publish(m)
      BY <2>4, <2>9 DEF Publish
    <2>10. CASE Midnight  BY <2>4, <2>10 DEF Midnight
    <2>11. CASE CooledDown  BY <2>4, <2>11 DEF CooledDown
    <2>12. CASE UNCHANGED vars  BY <2>4, <2>12 DEF vars
    <2> QED BY <1>1, <2>5, <2>6, <2>7, <2>8, <2>9, <2>10, <2>11, <2>12, NextCases
  <1>2. BotInv /\ [Next]_vars => [bot.halted /\ ~newDay => Latched]_vars
    BY <1>1
  <1> QED BY <1>2, InductiveInvariant, PTL DEF Spec, HaltMeansHalt

-----------------------------------------------------------------------------
(***************************************************************************)
(* The operator.  What its floor passes is a fold over the decision; that  *)
(* holds by a smallest set of positions for which it does not.             *)
(***************************************************************************)

\* The recursion of the fold over the positions of a decision.
Folded(d, g, s) == IF s = {} THEN <<>> ELSE Consider(g[s \ {Max(s)}], d[Max(s)])
IsFold(d, g, S) == g = [s \in SUBSET S |-> Folded(d, g, s)]

\* What the floor passes is the value, at all positions, of the function the fold defines.
LEMMA FoldDef ==
  ASSUME NEW d
  PROVE  EvaluateActions(d) = (CHOOSE g : IsFold(d, g, DOMAIN d))[DOMAIN d]
  BY DEF EvaluateActions, FoldLeft, MapThenFoldSet, IsFold, Folded

\* The last position is one of them; without it there are fewer.
LEMMA MaxIn ==
  ASSUME NEW S \in SUBSET Int, IsFiniteSet(S), S # {}
  PROVE  Max(S) \in S /\ S \ {Max(S)} \in SUBSET S /\ S \ {Max(S)} # S
  <1>1. Max(S) \in S  BY GreatestElement
  <1> QED BY <1>1

\* Two functions that obey the fold agree where both are defined.
LEMMA FoldUnique ==
  ASSUME NEW d, NEW S \in SUBSET Int, IsFiniteSet(S), NEW T \in SUBSET S, NEW g, NEW h,
         IsFold(d, g, S), IsFold(d, h, T)
  PROVE  \A s \in SUBSET T : g[s] = h[s]
  <1> DEFINE bad == {s \in SUBSET T : g[s] # h[s]}
  <1> SUFFICES ASSUME bad # {} PROVE FALSE
    OBVIOUS
  <1>1. IsFiniteSet(T)  BY FS_Subset
  <1>2. PICK s \in bad : \A u \in SUBSET s : u # s => u \notin bad
    <2>1. bad \in SUBSET SUBSET T  OBVIOUS
    <2> HIDE DEF bad
    <2> QED BY <1>1, <2>1, SmallestSubset
  <1>3. g[s] = Folded(d, g, s) /\ h[s] = Folded(d, h, s)
    <2>1. s \in SUBSET T /\ s \in SUBSET S  BY <1>2
    <2> QED BY <2>1 DEF IsFold
  <1>4. CASE s = {}  BY <1>2, <1>3, <1>4 DEF Folded
  <1>5. CASE s # {}
    <2>1. s \in SUBSET Int /\ IsFiniteSet(s)  BY <1>1, <1>2, FS_Subset
    <2>2. s \ {Max(s)} \in SUBSET s /\ s \ {Max(s)} # s  BY <1>5, <2>1, MaxIn
    <2>3. g[s \ {Max(s)}] = h[s \ {Max(s)}]  BY <1>2, <2>2
    <2> QED BY <1>2, <1>3, <1>5, <2>3 DEF Folded
  <1> QED BY <1>4, <1>5

\* There is a function that obeys it.
LEMMA FoldExists ==
  ASSUME NEW d, NEW S \in SUBSET Int, IsFiniteSet(S)
  PROVE  \E g : IsFold(d, g, S)
  <1> DEFINE bad == {T \in SUBSET S : ~\E g : IsFold(d, g, T)}
  <1> SUFFICES ASSUME bad # {} PROVE FALSE
    OBVIOUS
  <1>1. PICK T \in bad : \A U \in SUBSET T : U # T => U \notin bad
    <2>1. bad \in SUBSET SUBSET S  OBVIOUS
    <2> HIDE DEF bad
    <2> QED BY <2>1, SmallestSubset
  <1>2. T \in SUBSET S /\ T \in SUBSET Int /\ IsFiniteSet(T)  BY <1>1, FS_Subset
  <1>3. \A U \in SUBSET T : U # T => \E g : IsFold(d, g, U)  BY <1>1, <1>2
  <1> DEFINE below(U) == CHOOSE g : IsFold(d, g, U)
             fold(U) == below(U)[U]
             whole == [U \in SUBSET T |-> IF U # T THEN fold(U) ELSE
                          IF T = {} THEN <<>> ELSE Consider(fold(T \ {Max(T)}), d[Max(T)])]
  <1>4. \A U \in SUBSET T : U # T => IsFold(d, below(U), U)  BY <1>3
  <1>5. ASSUME NEW U \in SUBSET T, U # T PROVE whole[U] = Folded(d, whole, U)
    <2>1. whole[U] = Folded(d, below(U), U)
      <3>1. IsFold(d, below(U), U)  BY <1>4, <1>5
      <3>2. whole[U] = below(U)[U]  BY <1>5
      <3> HIDE DEF below, whole
      <3> QED BY <3>1, <3>2 DEF IsFold
    <2>2. CASE U = {}  BY <2>1, <2>2 DEF Folded
    <2>3. CASE U # {}
      <3> DEFINE V == U \ {Max(U)}
      <3>0. U \in SUBSET Int /\ IsFiniteSet(U)  BY <1>2, FS_Subset
      <3>1. V \in SUBSET U /\ V # U  BY <2>3, <3>0, MaxIn
      <3>2. V \in SUBSET T /\ V # T  BY <3>1, <1>5
      <3>3. IsFold(d, below(U), U) /\ IsFold(d, below(V), V)  BY <1>4, <1>5, <3>2
      <3> HIDE DEF below
      <3>4. below(U)[V] = below(V)[V]  BY <3>0, <3>1, <3>3, FoldUnique
      <3>5. whole[V] = below(V)[V]  BY <3>2
      <3> QED BY <2>1, <2>3, <3>4, <3>5 DEF Folded
    <2> QED BY <2>2, <2>3
  <1>6. whole[T] = Folded(d, whole, T)
    <2>1. CASE T = {}  BY <2>1 DEF Folded
    <2>2. CASE T # {}
      <3>1. T \ {Max(T)} \in SUBSET T /\ T \ {Max(T)} # T  BY <1>2, <2>2, MaxIn
      <3> HIDE DEF below
      <3>2. whole[T \ {Max(T)}] = fold(T \ {Max(T)})  BY <3>1
      <3> QED BY <2>2, <3>2 DEF Folded
    <2> QED BY <2>1, <2>2
  <1>7. IsFold(d, whole, T)
    <2> HIDE DEF below
    <2>1. \A U \in SUBSET T : whole[U] = Folded(d, whole, U)  BY <1>5, <1>6
    <2>2. whole = [U \in SUBSET T |-> whole[U]]  OBVIOUS
    <2> HIDE DEF whole
    <2>3. [U \in SUBSET T |-> whole[U]] = [U \in SUBSET T |-> Folded(d, whole, U)]  BY <2>1
    <2> QED BY <2>2, <2>3 DEF IsFold
  <1> QED BY <1>1, <1>7

\* Counting the opens of a sequence: an empty one holds none.
LEMMA OpensEmpty == Opens(<<>>) = 0
  <1>1. {i \in DOMAIN <<>> : <<>>[i].kind = "open"} = {}  OBVIOUS
  <1> QED BY <1>1, FS_EmptySet DEF Opens

\* The opens of a sequence can be counted; the count is zero when there are none.
LEMMA OpensFinite ==
  ASSUME NEW q \in Seq(Transactions)
  PROVE  /\ IsFiniteSet({i \in DOMAIN q : q[i].kind = "open"})
         /\ Opens(q) \in Nat
         /\ Opens(q) = 0 => \A i \in DOMAIN q : q[i].kind # "open"
         /\ (\A i \in DOMAIN q : q[i].kind # "open") => Opens(q) = 0
  <1> DEFINE O == {i \in DOMAIN q : q[i].kind = "open"}
  <1>0. Len(q) \in Nat /\ DOMAIN q = 1..Len(q)  OBVIOUS
  <1>1. IsFiniteSet(1..Len(q)) /\ O \subseteq 1..Len(q)  BY <1>0, FS_Interval
  <1>2. IsFiniteSet(O)  BY <1>1, FS_Subset
  <1>3. Cardinality(O) \in Nat  BY <1>2, FS_CardinalityType
  <1>4. Cardinality(O) = 0 <=> O = {}  BY <1>2, FS_EmptySet
  <1> QED BY <1>2, <1>3, <1>4 DEF Opens

\* An open appended counts one more.
LEMMA OpensAppend ==
  ASSUME NEW q \in Seq(Transactions), NEW t \in Transactions
  PROVE  Opens(Append(q, t)) = Opens(q) + (IF t.kind = "open" THEN 1 ELSE 0)
  <1> DEFINE O == {i \in DOMAIN q : q[i].kind = "open"}
             n == Len(q) + 1
             A == {i \in DOMAIN Append(q, t) : Append(q, t)[i].kind = "open"}
  <1>0. IsFiniteSet(O) /\ Cardinality(O) \in Nat  BY OpensFinite DEF Opens
  <1>1. n \notin O
    <2>1. Len(q) \in Nat /\ DOMAIN q = 1..Len(q)  OBVIOUS
    <2> QED BY <2>1
  <1>2. /\ DOMAIN Append(q, t) = 1..n /\ Append(q, t)[n] = t
        /\ \A i \in 1..Len(q) : Append(q, t)[i] = q[i]
    OBVIOUS
  <1>3. DOMAIN q = 1..Len(q) /\ Len(q) \in Nat  OBVIOUS
  <1>4. CASE t.kind = "open"
    <2>1. A = O \cup {n}  BY <1>2, <1>3, <1>4
    <2> QED BY <1>0, <1>1, <1>4, <2>1, FS_AddElement DEF Opens
  <1>5. CASE t.kind # "open"
    <2>1. A = O  BY <1>2, <1>3, <1>5
    <2>2. Opens(Append(q, t)) = Cardinality(O) /\ Opens(q) = Cardinality(O)
      BY <2>1 DEF Opens
    <2> HIDE DEF O, A
    <2> QED BY <1>0, <1>5, <2>2
  <1> QED BY <1>4, <1>5

\* An open taken from the front counts one less.
LEMMA OpensTail ==
  ASSUME NEW q \in Seq(Transactions), q # <<>>
  PROVE  Opens(q) = Opens(Tail(q)) + (IF Head(q).kind = "open" THEN 1 ELSE 0)
  <1> DEFINE O == {i \in DOMAIN q : q[i].kind = "open"}
             T == {i \in DOMAIN Tail(q) : Tail(q)[i].kind = "open"}
             R == {i \in O : i # 1}
             f == [i \in T |-> i + 1]
  <1>1. /\ Tail(q) \in Seq(Transactions) /\ DOMAIN Tail(q) = 1..(Len(q) - 1)
        /\ \A i \in 1..(Len(q) - 1) : Tail(q)[i] = q[i + 1]
        /\ Head(q) = q[1] /\ DOMAIN q = 1..Len(q) /\ Len(q) \in Nat \ {0}
    OBVIOUS
  <1>2. IsFiniteSet(O) /\ IsFiniteSet(T)  BY <1>1, OpensFinite
  <1>3. f \in Bijection(T, R)
    <2>1. \A i \in T : i \in 1..(Len(q) - 1) /\ i + 1 \in R  BY <1>1
    <2>2. f \in [T -> R]  BY <2>1
    <2>3. \A i, j \in T : f[i] = f[j] => i = j  BY <2>1
    <2>4. \A k \in R : k - 1 \in T /\ f[k - 1] = k  BY <1>1
    <2> HIDE DEF f
    <2> QED BY <2>2, <2>3, <2>4 DEF Bijection, Injection, Surjection, IsInjective
  <1>4. Cardinality(R) = Cardinality(T)
    BY <1>2, <1>3, FS_Bijection DEF ExistsBijection
  <1>5. IsFiniteSet(R)  BY <1>2, FS_Subset
  <1>6. CASE q[1].kind = "open"
    <2>1. O = R \cup {1} /\ 1 \notin R  BY <1>1, <1>6
    <2> QED BY <1>1, <1>4, <1>5, <1>6, <2>1, FS_AddElement DEF Opens
  <1>7. CASE q[1].kind # "open"
    <2>1. O = R  BY <1>1, <1>7
    <2>2. Cardinality(T) \in Nat  BY <1>2, FS_CardinalityType
    <2>3. Opens(q) = Cardinality(T) /\ Opens(Tail(q)) = Cardinality(T)
      BY <1>4, <2>1 DEF Opens
    <2> HIDE DEF T
    <2> QED BY <1>1, <1>7, <2>2, <2>3
  <1> QED BY <1>6, <1>7

-----------------------------------------------------------------------------
(* What the floor passes.                                                  *)
Passed ==
    {sends \in Seq(Transactions) :
        /\ \A i \in DOMAIN sends : Sendable(sends[i])
        /\ Opens(sends) # 0 => ~read.cooling /\ read.trades + Opens(sends) <= MaxTrades}

\* A clamped open is a transaction, and one that survives the floor's own filters.
LEMMA ClampedType ==
  ASSUME NEW ask \in AskFields
  PROVE  Clamped(ask) \in AskFields /\ Clamped(ask).sure = ask.sure /\ Clamped(ask).stop # 0
  <1> DEFINE lev == AtMost(MaxLeverage, AtLeast(AtMost(MinOpenLeverage, MaxLeverage), ask.lev))
             frac == AtMost(MaxStakeFracBps, ask.frac)
             stop == AtMost(MaxStopBps, AtLeast(MinStopBps, ask.stop))
  <1>1. lev \in Nat /\ frac \in Nat /\ stop \in Nat \ {0}
    BY ArenaAssumption, OperatorAssumption
    DEF ArenaAssumption, OperatorAssumption, AskFields, AtMost, AtLeast
  <1>2. Clamped(ask) = [ask EXCEPT !.lev = lev, !.frac = frac, !.stop = stop]
    BY DEF Clamped, AskFields
  <1> HIDE DEF lev, frac, stop
  <1> QED BY <1>1, <1>2 DEF AskFields

\* One action considered keeps what has been passed within the caps.
LEMMA ConsiderPasses ==
  ASSUME read.trades \in Nat, NEW sends \in Passed, NEW a \in Actions
  PROVE  Consider(sends, a) \in Passed
  <1>1. sends \in Seq(Transactions) /\ a \in Transactions /\ Opens(sends) \in Nat
    BY OpensFinite DEF Passed, Transactions
  <1>2. ASSUME NEW t \in Transactions, Sendable(t),
               t.kind = "open" =>
                  ~read.cooling /\ read.trades + Opens(sends) + 1 <= MaxTrades
        PROVE  Append(sends, t) \in Passed
    <2>1. Append(sends, t) \in Seq(Transactions)  BY <1>1
    <2>2. Opens(Append(sends, t)) = Opens(sends) + (IF t.kind = "open" THEN 1 ELSE 0)
      BY <1>1, OpensAppend
    <2>3. Opens(Append(sends, t)) # 0 =>
            ~read.cooling /\ read.trades + Opens(Append(sends, t)) <= MaxTrades
      BY <1>1, <1>2, <2>2 DEF Passed
    <2>4. \A i \in DOMAIN Append(sends, t) : Append(sends, t)[i] = t \/
              (i \in DOMAIN sends /\ Append(sends, t)[i] = sends[i])
      BY <1>1
    <2>5. \A i \in DOMAIN Append(sends, t) : Sendable(Append(sends, t)[i])
      BY <1>2, <2>4 DEF Passed
    <2> QED BY <2>1, <2>3, <2>5 DEF Passed
  <1>3. CASE a.kind # "open"
    <2>1. Sendable(a)  BY <1>3 DEF Sendable
    <2> QED BY <1>1, <1>2, <1>3, <2>1 DEF Consider
  <1>4. CASE a.kind = "open" /\ FloorPasses(a.ask, Opens(sends))
    <2> DEFINE t == [a EXCEPT !.ask = Clamped(a.ask)]
    <2>1. a \in [kind : {"open"}, market : Markets, ask : AskFields]  BY <1>4 DEF Actions
    <2>2. /\ t \in [kind : {"open"}, market : Markets, ask : AskFields]
          /\ t.ask = Clamped(a.ask) /\ a.ask \in AskFields
      BY <2>1, ClampedType
    <2>3. t \in Transactions  BY <2>2 DEF Transactions, Actions
    <2>4. Sendable(t)  BY <1>4, <2>2, ClampedType DEF Sendable, FloorPasses
    <2>5. ~read.cooling /\ read.trades + Opens(sends) + 1 <= MaxTrades
      BY <1>1, <1>4, ArenaAssumption DEF FloorPasses, ArenaAssumption
    <2>6. Consider(sends, a) = Append(sends, t)  BY <1>4 DEF Consider
    <2> HIDE DEF t
    <2> QED BY <1>2, <2>3, <2>4, <2>5, <2>6
  <1>5. CASE a.kind = "open" /\ ~FloorPasses(a.ask, Opens(sends))
    BY <1>5 DEF Consider
  <1> QED BY <1>3, <1>4, <1>5

\* So does a whole decision: the floor never passes more than it read room for.
LEMMA EvaluatePasses ==
  ASSUME read.trades \in Nat, NEW d \in Decisions
  PROVE  EvaluateActions(d) \in Passed
  <1> DEFINE D == DOMAIN d
             g == CHOOSE g : IsFold(d, g, D)
  <1>1. d \in Seq(Actions)  BY OperatorAssumption DEF OperatorAssumption
  <1>2. Len(d) \in Nat /\ D = 1..Len(d) /\ \A i \in D : d[i] \in Actions  BY <1>1
  <1>3. IsFiniteSet(D) /\ D \in SUBSET Int  BY <1>2, FS_Interval
  <1> HIDE DEF D
  <1>4. IsFold(d, g, D)  BY <1>3, FoldExists
  <1>5. EvaluateActions(d) = g[D]  BY FoldDef DEF D
  <1> HIDE DEF g
  <1> DEFINE bad == {s \in SUBSET D : g[s] \notin Passed}
  <1>6. bad = {}
    <2> SUFFICES ASSUME bad # {} PROVE FALSE
      OBVIOUS
    <2>1. PICK s \in bad : \A u \in SUBSET s : u # s => u \notin bad
      <3>1. bad \in SUBSET SUBSET D  OBVIOUS
      <3> HIDE DEF bad
      <3> QED BY <1>3, <3>1, SmallestSubset
    <2>2. s \in SUBSET D /\ g[s] \notin Passed  BY <2>1
    <2>3. g[s] = Folded(d, g, s)  BY <1>4, <2>2 DEF IsFold
    <2>4. CASE s = {}
      <3>1. <<>> \in Seq(Transactions) /\ DOMAIN <<>> = {}  OBVIOUS
      <3>2. <<>> \in Passed  BY <3>1, OpensEmpty DEF Passed
      <3> QED BY <2>2, <2>3, <2>4, <3>2 DEF Folded
    <2>5. CASE s # {}
      <3>1. s \in SUBSET Int /\ IsFiniteSet(s)  BY <1>3, <2>2, FS_Subset
      <3>2. Max(s) \in s /\ s \ {Max(s)} \in SUBSET s /\ s \ {Max(s)} # s
        BY <2>5, <3>1, MaxIn
      <3>3. g[s \ {Max(s)}] \in Passed  BY <2>1, <2>2, <3>2
      <3>4. d[Max(s)] \in Actions  BY <1>2, <2>2, <3>2
      <3> QED BY <2>2, <2>3, <2>5, <3>3, <3>4, ConsiderPasses DEF Folded
    <2> QED BY <2>4, <2>5
  <1>7. D \in SUBSET D  OBVIOUS
  <1> QED BY <1>5, <1>6, <1>7

-----------------------------------------------------------------------------
(* Every step of the operator keeps its invariant.                         *)

\* The steps of the operator and of the account beside it.
LEMMA OperatorCases ==
  ASSUME [OperatorNext]_allVars
  PROVE  \/ Begin \/ Decide \/ Submit \/ Confirmed \/ Throws
         \/ LandOpen \/ LandDeclined \/ LandRejected \/ LandClose \/ LandBeat \/ Dropped
         \/ Cools
         \/ Midnight /\ UNCHANGED operatorVars
         \/ \E m \in Markets : Tick(m) /\ UNCHANGED operatorVars
         \/ \E m \in Markets : Publish(m) /\ UNCHANGED operatorVars
         \/ UNCHANGED allVars
  BY DEF OperatorNext, Cycle, Landing, World

\* A step of the account that opens nothing leaves the trades of the day alone.
LEMMA WorkTrades ==
  ASSUME BotInv, Worked(RollDay(bot), bot'), newDay' = FALSE
  PROVE  Trades' = Trades
  <1>1. TypeOK /\ Good(bot) /\ DayCounted  BY GoodBot
  <1>2. /\ newDay => RollDay(bot).tradesToday = 0
        /\ ~newDay => RollDay(bot) = bot
    BY <1>1, RollGood DEF TypeOK
  <1> QED BY <1>1, <1>2 DEF Worked, TypeOK, Trades

\* A heartbeat opens nothing.
LEMMA HeartbeatKept ==
  ASSUME BotInv, Heartbeat
  PROVE  BotInv' /\ Trades' = Trades
  <1>1. Good(bot') /\ Worked(RollDay(bot), bot')  BY HeartbeatStep
  <1>2. BotInv'  BY <1>1, WorkStep DEF Heartbeat, marketVars, BotInv, TypeOK
  <1> QED BY <1>1, <1>2, WorkTrades DEF Heartbeat

\* Nor does a close.
LEMMA CloseKept ==
  ASSUME BotInv, NEW m \in Markets, CloseByOperator(m)
  PROVE  BotInv' /\ Trades' = Trades
  <1>1. Good(bot') /\ Worked(RollDay(bot), bot')  BY CloseByOperatorStep
  <1>2. BotInv'  BY <1>1, WorkStep DEF CloseByOperator, marketVars, BotInv, TypeOK
  <1> QED BY <1>1, <1>2, WorkTrades DEF CloseByOperator

\* Nor a tick; it leaves the cooldown alone, too.
LEMMA TickKept ==
  ASSUME BotInv, NEW m \in Markets, Tick(m)
  PROVE  BotInv' /\ Trades' = Trades /\ UNCHANGED cooling
  <1>1. Good(bot') /\ Worked(RollDay(bot), bot')  BY TickStep
  <1>2. BotInv'  BY <1>1, WorkStep DEF Tick, BotInv, TypeOK
  <1> QED BY <1>1, <1>2, WorkTrades DEF Tick

\* An open counts one trade.
LEMMA OpenTrades ==
  ASSUME BotInv, NEW m \in Markets, NEW ask \in AskFields, Open(m, ask)
  PROVE  BotInv' /\ Trades' = Trades + 1
  <1>1. BotInv' /\ bot'.tradesToday = RollDay(bot).tradesToday + 1 /\ newDay' = FALSE
    BY OpenInv
  <1>2. TypeOK /\ Good(bot)  BY GoodBot
  <1>3. /\ newDay => RollDay(bot).tradesToday = 0
        /\ ~newDay => RollDay(bot) = bot
    BY <1>2, RollGood DEF TypeOK
  <1> QED BY <1>1, <1>2, <1>3 DEF TypeOK, Trades

\* The account's invariant looks at nothing of the operator.
LEMMA BotUnchanged ==
  ASSUME BotInv, UNCHANGED vars
  PROVE  BotInv' /\ Trades' = Trades
  BY DEF vars, marketVars, clockVars, BotInv, TypeOK, Books, Locked,
     AtMostOnePerMarket, DayCounted, Trades

\* What is on the wire is an instruction the account can take.
LEMMA SendsTyped ==
  ASSUME OperatorTypeOK
  PROVE  /\ wire # Nothing /\ wire.kind = "open" =>
              wire.market \in Markets /\ wire.ask \in AskFields
         /\ wire # Nothing /\ wire.kind = "close" => wire.market \in Markets
  BY DEF OperatorTypeOK, Transactions, Actions, Beat

\* Every step of the operator keeps the account's invariant.
LEMMA BotKept ==
  ASSUME BotInv, OperatorTypeOK, [OperatorNext]_allVars
  PROVE  BotInv'
  <1>1. CASE Begin \/ Decide \/ Submit \/ Confirmed \/ Throws \/ LandRejected \/ Dropped
    <2>1. UNCHANGED vars
      BY <1>1 DEF Begin, Decide, Submit, Confirmed, Throws, LandRejected, Dropped
    <2> QED BY <2>1, BotUnchanged
  <1>2. CASE LandOpen  BY <1>2, SendsTyped, OpenTrades DEF LandOpen
  <1>3. CASE LandDeclined  BY <1>3, HeartbeatKept DEF LandDeclined
  <1>4. CASE LandClose
    <2>1. wire.market \in Markets  BY <1>4, SendsTyped DEF LandClose
    <2> QED BY <1>4, <2>1, HeartbeatKept, CloseKept DEF LandClose
  <1>5. CASE LandBeat  BY <1>5, HeartbeatKept DEF LandBeat
  <1>6. CASE Cools  BY <1>6, CooledDownStep DEF Cools
  <1>7. CASE Midnight  BY <1>7, MidnightStep
  <1>8. CASE \E m \in Markets : Tick(m)  BY <1>8, TickKept
  <1>9. CASE \E m \in Markets : Publish(m)  BY <1>9, PublishStep
  <1>10. CASE UNCHANGED allVars
    <2>1. UNCHANGED vars  BY <1>10 DEF allVars
    <2> QED BY <2>1, BotUnchanged
  <1> QED BY <1>1, <1>2, <1>3, <1>4, <1>5, <1>6, <1>7, <1>8, <1>9, <1>10, OperatorCases

Reads == [halted : BOOLEAN, trades : Nat, cooling : BOOLEAN, acted : BOOLEAN]

\* What a cycle leaves behind is again a reading.
LEMMA UnreadType == Unread \in Reads
  BY DEF Unread, Reads

\* Every step keeps the operator's types.
LEMMA TypeKept ==
  ASSUME BotInv, OperatorTypeOK, [OperatorNext]_allVars
  PROVE  OperatorTypeOK'
  <1> USE DEF OperatorTypeOK, Unread
  <1>0. TypeOK /\ bot.halted \in BOOLEAN /\ bot.tradesToday \in Nat  BY DEF BotInv, TypeOK, Bots
  <1>1. CASE Begin
    <2>1. <<Beat>> \in Seq(Transactions) /\ <<Beat>> # <<>>  BY DEF Transactions
    <2>2. read' \in Reads  BY <1>0, <1>1 DEF Begin, TypeOK, Reads
    <2>3. wire' = Nothing /\ IF newDay THEN pc' = "send" /\ queue' = <<Beat>>
                                       ELSE pc' = "think" /\ queue' = queue
      BY <1>1 DEF Begin
    <2>4. queue = <<>>  BY <1>1 DEF Begin
    <2>5. CASE newDay
      <3>1. pc' = "send" /\ queue' = <<Beat>>  BY <2>3, <2>5
      <3> QED BY <2>1, <2>2, <2>3, <3>1 DEF Reads
    <2>6. CASE ~newDay
      <3>1. pc' = "think" /\ queue' = <<>> /\ <<>> \in Seq(Transactions)  BY <2>3, <2>4, <2>6
      <3> QED BY <2>2, <2>3, <3>1 DEF Reads
    <2> QED BY <2>5, <2>6
  <1>2. CASE Decide
    <2>1. PICK d \in Decisions :
            LET sends == EvaluateActions(d) IN
            IF sends = <<>> THEN Ends
            ELSE pc' = "send" /\ queue' = sends /\ UNCHANGED read
      BY <1>2 DEF Decide
    <2>2. EvaluateActions(d) \in Seq(Transactions)  BY EvaluatePasses DEF Passed
    <2>3. wire' = Nothing /\ wire = Nothing  BY <1>2 DEF Decide
    <2>4. <<>> \in Seq(Transactions)  OBVIOUS
    <2>5. CASE EvaluateActions(d) = <<>>
      <3>1. pc' = "idle" /\ queue' = <<>> /\ read' \in Reads
        BY <2>1, <2>5, UnreadType DEF Ends
      <3> QED BY <2>3, <2>4, <3>1 DEF Reads
    <2>6. CASE EvaluateActions(d) # <<>>
      <3>1. pc' = "send" /\ queue' = EvaluateActions(d) /\ read' = read  BY <2>1, <2>6
      <3> QED BY <2>2, <2>3, <2>6, <3>1
    <2> QED BY <2>5, <2>6
  <1>3. CASE Submit
    <2>1. /\ Head(queue) \in Transactions /\ Tail(queue) \in Seq(Transactions)
          /\ wire' = Head(queue) /\ queue' = Tail(queue) /\ pc' = "wait" /\ UNCHANGED read
      BY <1>3 DEF Submit
    <2> QED BY <2>1
  <1>4. CASE Confirmed
    <2>1. <<>> \in Seq(Transactions)  OBVIOUS
    <2>2. wire' = Nothing  BY <1>4 DEF Confirmed
    <2>3. CASE queue = <<>>
      <3>1. pc' = "idle" /\ queue' = <<>> /\ read' \in Reads
        BY <1>4, <2>3, UnreadType DEF Confirmed, Ends
      <3> QED BY <2>1, <2>2, <3>1 DEF Reads
    <2>4. CASE queue # <<>>
      <3>1. pc' = "send" /\ queue' = queue /\ read' = [read EXCEPT !.acted = TRUE]
        BY <1>4, <2>4 DEF Confirmed
      <3>2. read' \in Reads  BY <3>1 DEF Reads
      <3> QED BY <2>2, <2>4, <3>1, <3>2 DEF Reads
    <2> QED BY <2>3, <2>4
  <1>5. CASE Throws
    <2>1. <<>> \in Seq(Transactions)  OBVIOUS
    <2> QED BY <1>5, <2>1 DEF Throws
  <1>6. CASE LandOpen \/ LandDeclined \/ LandRejected \/ LandClose \/ LandBeat \/ Dropped
    <2>1. wire' = Nothing /\ UNCHANGED cycleVars
      BY <1>6 DEF LandOpen, LandDeclined, LandRejected, LandClose, LandBeat, Dropped, Lands
    <2> QED BY <2>1 DEF cycleVars
  <1>7. CASE Cools  BY <1>7 DEF Cools
  <1>8. CASE UNCHANGED operatorVars  BY <1>8 DEF operatorVars, cycleVars
  <1> QED BY <1>1, <1>2, <1>3, <1>4, <1>5, <1>6, <1>7, <1>8, OperatorCases DEF allVars

\* What is pending, without the counts.
LEMMA PendingType ==
  ASSUME OperatorTypeOK
  PROVE  Pending \in Nat /\ Opens(queue) \in Nat
  <1>1. Opens(queue) \in Nat  BY OpensFinite DEF OperatorTypeOK
  <1> QED BY <1>1 DEF Pending

\* A transaction that lands, whatever it does, leaves less pending.
LEMMA LandedFloor ==
  ASSUME BotInv, OperatorTypeOK, FloorInv, Lands, wire # Nothing, BotInv',
         Trades' \in {Trades, Trades + (IF wire.kind = "open" THEN 1 ELSE 0)}
  PROVE  FloorInv'
  <1>1. wire' = Nothing /\ pc' = pc /\ read' = read /\ queue' = queue  BY DEF Lands, cycleVars
  <1>2. pc \in {"idle", "wait"}  BY DEF OperatorTypeOK
  <1>3. Opens(queue') = Opens(queue) /\ Opens(queue) \in Nat  BY <1>1, PendingType
  <1>4. Pending' = Opens(queue)  BY <1>1, <1>3 DEF Pending
  <1>5. Trades \in Nat /\ Trades' \in Nat  BY DEF BotInv, TypeOK, Bots, Trades
  <1>6. MaxTrades \in Nat  BY ArenaAssumption DEF ArenaAssumption
  <1>7. Pending' # 0 => ~read.cooling /\ Trades' + Pending' <= MaxTrades
    BY <1>3, <1>4, <1>5, <1>6 DEF FloorInv, Pending
  <1> QED BY <1>1, <1>2, <1>7 DEF FloorInv, OperatorTypeOK

\* Every step keeps what is pending within the room the account has left.
LEMMA FloorKept ==
  ASSUME BotInv, OperatorTypeOK, FloorInv, [OperatorNext]_allVars
  PROVE  FloorInv'
  <1>0. BotInv' /\ OperatorTypeOK'  BY BotKept, TypeKept
  <1>1. /\ Trades \in Nat /\ Trades' \in Nat /\ MaxTrades \in Nat
        /\ Pending \in Nat /\ Pending' \in Nat
    <2>1. Trades \in Nat /\ Trades' \in Nat  BY <1>0 DEF BotInv, TypeOK, Bots, Trades
    <2>2. Opens(queue) \in Nat /\ Opens(queue') \in Nat
      BY <1>0, OpensFinite DEF OperatorTypeOK
    <2>3. Pending \in Nat /\ Pending' \in Nat  BY <2>2 DEF Pending
    <2> QED BY <2>1, <2>3, ArenaAssumption DEF ArenaAssumption
  <1>17. Pending # 0 => ~read.cooling /\ Trades + Pending <= MaxTrades  BY DEF FloorInv
  <1>2. CASE Begin
    <2>1. queue = <<>> /\ wire' = Nothing /\ wire = Nothing  BY <1>2 DEF Begin, OperatorTypeOK
    <2>2. Trades' = Trades /\ UNCHANGED cooling
      BY <1>2 DEF Begin, vars, clockVars, Trades
    <2>3. CASE newDay
      <3>1. queue' = <<Beat>> /\ pc' = "send" /\ read'.cooling = cooling
        BY <1>2, <2>3 DEF Begin
      <3>2. DOMAIN queue' = {1} /\ queue'[1] = Beat  BY <3>1
      <3>3. \A i \in DOMAIN queue' : queue'[i].kind # "open"  BY <3>2 DEF Beat
      <3>4. Opens(queue') = 0  BY <1>0, <3>3, OpensFinite DEF OperatorTypeOK
      <3>5. Pending' = 0  BY <2>1, <3>4 DEF Pending
      <3> QED BY <2>1, <2>2, <3>1, <3>3, <3>5 DEF FloorInv, Sendable
    <2>4. CASE ~newDay
      <3>1. queue' = <<>> /\ pc' = "think" /\ read'.cooling = cooling
            /\ read'.trades = bot.tradesToday
        BY <1>2, <2>1, <2>4 DEF Begin
      <3>2. Pending' = 0  BY <2>1, <3>1, OpensEmpty DEF Pending
      <3>3. Trades' <= read'.trades  BY <1>1, <2>2, <2>4, <3>1 DEF Trades
      <3> QED BY <2>1, <2>2, <3>1, <3>2, <3>3 DEF FloorInv
    <2> QED BY <2>3, <2>4
  <1>3. CASE Decide
    <2>1. wire = Nothing /\ wire' = Nothing /\ pc = "think" /\ Trades' = Trades /\ UNCHANGED cooling
      BY <1>3 DEF Decide, OperatorTypeOK, vars, clockVars, Trades
    <2>2. PICK d \in Decisions :
            IF EvaluateActions(d) = <<>> THEN Ends
            ELSE pc' = "send" /\ queue' = EvaluateActions(d) /\ UNCHANGED read
      BY <1>3 DEF Decide
    <2>3. read.trades \in Nat  BY DEF OperatorTypeOK
    <2>4. EvaluateActions(d) \in Passed  BY <2>3, EvaluatePasses
    <2>5. CASE EvaluateActions(d) = <<>>
      <3>1. queue' = <<>> /\ pc' = "idle"  BY <2>2, <2>5 DEF Ends
      <3>2. Pending' = 0  BY <2>1, <3>1, OpensEmpty DEF Pending
      <3> QED BY <2>1, <3>1, <3>2 DEF FloorInv
    <2>6. CASE EvaluateActions(d) # <<>>
      <3>1. queue' \in Passed /\ pc' = "send" /\ read' = read  BY <2>2, <2>4, <2>6
      <3>4. Opens(queue') \in Nat  BY <1>0, OpensFinite DEF OperatorTypeOK
      <3>2. Pending' = Opens(queue')  BY <2>1, <3>4 DEF Pending
      <3>3. Pending' # 0 => ~read.cooling /\ Trades' + Pending' <= MaxTrades
        BY <1>1, <2>1, <2>3, <3>1, <3>2 DEF Passed, FloorInv
      <3> QED BY <2>1, <3>1, <3>3 DEF FloorInv, Passed
    <2> QED BY <2>5, <2>6
  <1>4. CASE Submit
    <2>1. /\ wire = Nothing /\ wire' = Head(queue) /\ queue' = Tail(queue) /\ pc' = "wait"
          /\ pc = "send" /\ UNCHANGED read /\ Trades' = Trades /\ UNCHANGED cooling
          /\ queue \in Seq(Transactions) /\ queue # <<>>
      BY <1>4 DEF Submit, OperatorTypeOK, vars, clockVars, Trades
    <2>2. Opens(queue) = Opens(Tail(queue)) + (IF Head(queue).kind = "open" THEN 1 ELSE 0)
      BY <2>1, OpensTail
    <2>3. Head(queue) # Nothing /\ Head(queue) = queue[1] /\ 1 \in DOMAIN queue
      <3>1. Head(queue) \in Transactions /\ Head(queue) = queue[1] /\ 1 \in DOMAIN queue
        BY <2>1
      <3>2. Nothing \notin Transactions  BY OperatorAssumption DEF OperatorAssumption
      <3> QED BY <3>1, <3>2
    <2>4. Opens(Tail(queue)) \in Nat
      <3>1. Tail(queue) \in Seq(Transactions)  BY <2>1
      <3> QED BY <3>1, OpensFinite
    <2>5. Pending' = Pending  BY <2>1, <2>2, <2>3, <2>4 DEF Pending
    <2>6. \A i \in DOMAIN Tail(queue) : i + 1 \in DOMAIN queue /\ Tail(queue)[i] = queue[i + 1]
      BY <2>1
    <2> QED BY <2>1, <2>3, <2>5, <2>6 DEF FloorInv
  <1>5. CASE Confirmed
    <2>1. wire = Nothing /\ wire' = Nothing /\ Trades' = Trades /\ UNCHANGED cooling
      BY <1>5 DEF Confirmed, vars, clockVars, Trades
    <2>2. CASE queue = <<>>
      <3>1. queue' = <<>> /\ pc' = "idle"  BY <1>5, <2>2 DEF Confirmed, Ends
      <3>2. Pending' = 0  BY <2>1, <3>1, OpensEmpty DEF Pending
      <3> QED BY <2>1, <3>1, <3>2 DEF FloorInv
    <2>3. CASE queue # <<>>
      <3>1. queue' = queue /\ pc' = "send" /\ read'.acted /\ read'.cooling = read.cooling
        BY <1>5, <2>3 DEF Confirmed, OperatorTypeOK
      <3>2. Pending' = Pending  BY <2>1, <3>1 DEF Pending
      <3> QED BY <2>1, <3>1, <3>2 DEF FloorInv
    <2> QED BY <2>2, <2>3
  <1>6. CASE Throws
    <2>1. /\ UNCHANGED wire /\ Trades' = Trades /\ UNCHANGED cooling /\ queue' = <<>>
          /\ pc' = "idle" /\ (wire # Nothing => read' = read)
      BY <1>6 DEF Throws, vars, clockVars, Trades
    <2>2. Opens(queue') = 0  BY <2>1, OpensEmpty
    <2>3. Opens(queue) \in Nat  BY PendingType
    <2>4. /\ Pending' # 0 => wire # Nothing
          /\ Pending' <= Pending
      BY <2>1, <2>2, <2>3 DEF Pending
    <2>5. Pending' # 0 => ~read'.cooling /\ Trades' + Pending' <= MaxTrades
      <3> SUFFICES ASSUME Pending' # 0 PROVE ~read'.cooling /\ Trades' + Pending' <= MaxTrades
        OBVIOUS
      <3>1. read' = read /\ Pending # 0 /\ Pending' <= Pending  BY <1>1, <2>1, <2>4
      <3>2. ~read.cooling /\ Trades + Pending <= MaxTrades  BY <1>17, <3>1
      <3>3. Trades' + Pending' <= MaxTrades  BY <1>1, <2>1, <3>1, <3>2 DEF Trades, Pending
      <3> QED BY <3>1, <3>2, <3>3
    <2> QED BY <2>1, <2>5 DEF FloorInv
  <1>7. CASE LandOpen
    <2>1. Trades' = Trades + 1
      BY <1>7, SendsTyped, OpenTrades DEF LandOpen
    <2> QED BY <1>0, <1>7, <2>1, LandedFloor DEF LandOpen
  <1>8. CASE LandDeclined \/ LandBeat
    <2>1. Trades' = Trades  BY <1>8, HeartbeatKept DEF LandDeclined, LandBeat
    <2>2. wire # Nothing
      BY <1>8, OperatorAssumption DEF LandDeclined, LandBeat, OperatorAssumption, Transactions
    <2> QED BY <1>0, <1>8, <2>1, <2>2, LandedFloor DEF LandDeclined, LandBeat
  <1>9. CASE LandClose
    <2>1. Trades' = Trades  BY <1>9, SendsTyped, HeartbeatKept, CloseKept DEF LandClose
    <2> QED BY <1>0, <1>9, <2>1, LandedFloor DEF LandClose
  <1>10. CASE LandRejected \/ Dropped
    <2>1. Trades' = Trades  BY <1>10 DEF LandRejected, Dropped, vars, clockVars, Trades
    <2> QED BY <1>0, <1>10, <2>1, LandedFloor DEF LandRejected, Dropped
  <1>11. CASE Cools
    <2>1. /\ UNCHANGED <<pc, queue, wire>> /\ ~cooling' /\ Trades' = Trades
          /\ read'.trades = read.trades /\ ~read'.cooling
      BY <1>11 DEF Cools, CooledDown, OperatorTypeOK, Trades
    <2>2. Pending' = Pending  BY <2>1 DEF Pending
    <2> QED BY <2>1, <2>2 DEF FloorInv
  <1>12. ASSUME UNCHANGED operatorVars, UNCHANGED cooling, Trades' <= Trades PROVE FloorInv'
    <2>1. UNCHANGED <<pc, read, queue, wire>>  BY <1>12 DEF operatorVars, cycleVars
    <2>2. Pending' = Pending  BY <2>1 DEF Pending
    <2>3. read.trades \in Nat  BY DEF OperatorTypeOK
    <2>4. pc' = "think" => Trades' <= read.trades  BY <1>1, <1>12, <2>1, <2>3 DEF FloorInv
    <2>5. Pending' # 0 => ~read.cooling /\ Trades' + Pending' <= MaxTrades
      <3> SUFFICES ASSUME Pending' # 0 PROVE ~read.cooling /\ Trades' + Pending' <= MaxTrades
        OBVIOUS
      <3>1. Pending # 0  BY <2>2
      <3>2. ~read.cooling /\ Trades + Pending <= MaxTrades  BY <1>17, <3>1
      <3>3. Trades' + Pending' <= MaxTrades  BY <1>1, <1>12, <2>2, <3>2 DEF Trades
      <3> QED BY <3>2, <3>3
    <2> QED BY <1>12, <2>1, <2>4, <2>5 DEF FloorInv
  <1>13. CASE Midnight /\ UNCHANGED operatorVars
    <2>1. Trades' <= Trades /\ UNCHANGED cooling  BY <1>1, <1>13 DEF Midnight, Trades
    <2> QED BY <1>12, <1>13, <2>1
  <1>14. CASE \E m \in Markets : Tick(m) /\ UNCHANGED operatorVars
    <2>1. Trades' <= Trades /\ UNCHANGED cooling  BY <1>1, <1>14, TickKept
    <2> QED BY <1>12, <1>14, <2>1
  <1>15. CASE \E m \in Markets : Publish(m) /\ UNCHANGED operatorVars
    <2>1. Trades' <= Trades /\ UNCHANGED cooling
      BY <1>1, <1>15 DEF Publish, clockVars, Trades
    <2> QED BY <1>12, <1>15, <2>1
  <1>16. CASE UNCHANGED allVars
    <2>1. Trades' <= Trades /\ UNCHANGED cooling /\ UNCHANGED operatorVars
      BY <1>1, <1>16 DEF allVars, vars, clockVars, Trades
    <2> QED BY <1>12, <2>1
  <1> QED BY <1>2, <1>3, <1>4, <1>5, <1>6, <1>7, <1>8, <1>9, <1>10, <1>11, <1>13, <1>14,
          <1>15, <1>16, OperatorCases

\* The types, the account's own invariant and the floor's, together.
OperatorInv == BotInv /\ OperatorTypeOK /\ FloorInv

\* At the start nothing is pending.
LEMMA OperatorInvFirst == OperatorInit => OperatorInv
  <1> SUFFICES ASSUME OperatorInit PROVE OperatorInv
    OBVIOUS
  <1>1. BotInv  BY InitInv DEF OperatorInit
  <1>2. <<>> \in Seq(Transactions)  OBVIOUS
  <1>3. OperatorTypeOK  BY <1>2 DEF OperatorInit, OperatorTypeOK, Unread
  <1>4. Pending = 0  BY OpensEmpty DEF OperatorInit, Pending
  <1>5. FloorInv  BY <1>4 DEF OperatorInit, FloorInv
  <1> QED BY <1>1, <1>3, <1>5 DEF OperatorInv

\* The inductive invariant of the operator on top of that of the account: the opens
\* that are queued or sent fit the trades the account has left (floor.ts, loop.ts).
THEOREM OperatorInvariant == OperatorSpec => []OperatorInv
  <1>1. OperatorInv /\ [OperatorNext]_allVars => OperatorInv'
    BY BotKept, TypeKept, FloorKept DEF OperatorInv
  <1> QED BY <1>1, OperatorInvFirst, PTL DEF OperatorSpec

\* The loop is always at one of its points, waits for what it put on the wire and
\* sends while it has something to send (loop.ts:83).
THEOREM OperatorTypes == OperatorSpec => []OperatorTypeOK
  <1> QED BY OperatorInvariant, PTL DEF OperatorInv

\* The program rejects no open the floor let through, unless the account was halted
\* since it was read or an earlier open of the same decision started the cooldown
\* (floor.ts:64, paper_llm.rs:207): what the floor reads and clamps is what the
\* program asks, although the account moves on between the two.
THEOREM FloorHolds == OperatorSpec => FloorMirrors
  <1>1. ASSUME OperatorInv, LandRejected
        PROVE  RollDay(bot).halted \/ (cooling /\ read.acted)
    <2>1. wire # Nothing /\ wire.kind = "open" /\ ~Permitted(RollDay(bot), wire.ask)
      BY <1>1 DEF LandRejected
    <2>2. wire.ask.sure /\ wire.ask.stop # 0  BY <1>1, <2>1 DEF OperatorInv, FloorInv, Sendable
    <2>3. Opens(queue) \in Nat  BY <1>1, PendingType DEF OperatorInv
    <2>4. Pending = Opens(queue) + 1 /\ Pending # 0  BY <2>1, <2>3 DEF Pending
    <2>5. ~read.cooling /\ Trades + Pending <= MaxTrades
      BY <1>1, <2>4 DEF OperatorInv, FloorInv
    <2>6. TypeOK /\ Good(bot)  BY <1>1, GoodBot DEF OperatorInv
    <2>7. RollDay(bot).tradesToday = Trades /\ Trades \in Nat
      BY <2>6, RollGood DEF TypeOK, Trades, Bots
    <2>8. RollDay(bot).tradesToday < MaxTrades
      BY <2>3, <2>4, <2>5, <2>7, ArenaAssumption DEF ArenaAssumption
    <2>9. cooling => read.acted  BY <1>1, <2>1, <2>5 DEF OperatorInv, FloorInv
    <2> QED BY <2>1, <2>2, <2>8, <2>9 DEF Permitted
  <1>2. OperatorInv /\ [OperatorNext]_allVars =>
          [LandRejected => RollDay(bot).halted \/ (cooling /\ read.acted)]_allVars
    BY <1>1
  <1> QED BY <1>2, OperatorInvariant, PTL DEF OperatorSpec, FloorMirrors
=============================================================================
