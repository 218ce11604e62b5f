---------------------------- MODULE PathProofs ----------------------------
(***************************************************************************)
(* Theorems about run_path and what is made of a finished path, for every  *)
(* horizon, price set, schedule, mask, bound and limit.                    *)
(*                                                                         *)
(* Of the loop: type correctness, the inventory bound, the books, the      *)
(* kill-switch, the decomposition of the profit, and the agreement of the  *)
(* loop with the primitives of the library that it restates.  Of the       *)
(* report: the fills table tells the paths table, the metrics account for  *)
(* the profit, and the drawdown is the worst loss.                         *)
(***************************************************************************)
EXTENDS PathReport, ProofLemmas, SequenceTheorems

USE PathAssumption

(* The quotes a step computes are integers.                                *)
LEMMA QuotesAreInts ==
    ASSUME TypeOK, NEW j \in Grid, NEW h \in Int
    PROVE  LiveBid(j, h) \in Int /\ LiveAsk(j, h) \in Int
<1>1. Skew(j) \in Int /\ HalfSpread(j) \in Int /\ sPath[j] \in Int
  BY DEF TypeOK, Skew, HalfSpread
<1>2. Reservation(j, h) \in Int
  BY <1>1 DEF Reservation
<1> QED BY <1>1, <1>2 DEF LiveBid, LiveAsk

(* A suppressed side cannot fill.                                          *)
LEMMA SuppressedNeverFills ==
    ASSUME NEW suppressed, suppressed, NEW delta, NEW filled \in Draws(suppressed, delta)
    PROVE  ~filled
BY DEF Draws

(* The initial state has its types.                                        *)
LEMMA InitTypeOK == Init => TypeOK
<1> SUFFICES ASSUME Init PROVE TypeOK
  OBVIOUS
<1>1. sPath \in [Grid -> Int]
  BY DEF Init
<1>2. /\ bidQuote \in [Grid -> Quotes] /\ askQuote \in [Grid -> Quotes]
      /\ bidFill \in [Steps -> BOOLEAN] /\ askFill \in [Steps -> BOOLEAN]
      /\ inventory \in [Grid -> Int] /\ cash \in [Grid -> Int]
  BY DEF Init, Quotes
<1>3. i \in 0 .. N + 1 /\ killStep \in Grid
  BY DEF Init, Grid
<1> QED BY <1>1, <1>2, <1>3 DEF Init, TypeOK

(* One iteration of the loop keeps the types.                              *)
LEMMA StepTypeOK == TypeOK /\ Step => TypeOK'
<1> SUFFICES ASSUME TypeOK, Step PROVE TypeOK'
  OBVIOUS
<1>1. i \in Grid /\ i \in Steps /\ i + 1 \in Grid /\ i < N
  BY DEF Step, TypeOK, Grid, Steps
<1>2. LiveBid(i, q) \in Int /\ LiveAsk(i, q) \in Int /\ sPath[i] \in Int /\ q \in Int
  BY <1>1, QuotesAreInts DEF TypeOK
<1>3. PICK filledB \in BidDraws, filledA \in AskDraws, sNext \in Prices :
        StepWith(filledB, filledA, sNext)
  BY DEF Step
<1>4. filledB \in BOOLEAN /\ filledA \in BOOLEAN /\ sNext \in Int
  BY <1>3 DEF Draws, FillOutcomes, BidDraws, AskDraws
<1>5. AsUnits(filledB) \in {0, 1} /\ AsUnits(filledA) \in {0, 1}
  BY DEF AsUnits
<1>6. cashNow' \in Int /\ q' \in Int
  BY <1>2, <1>3, <1>4, <1>5 DEF StepWith, CashAfter, UnitsAfter, TypeOK
<1>7. strategy' \in Strategies /\ mask' \in Masks /\ i' \in 0 .. N + 1 /\ terminalPnl' \in Int
  BY <1>1, <1>3 DEF StepWith, TypeOK, labels
<1>8. /\ bidQuote' \in [Grid -> Quotes] /\ askQuote' \in [Grid -> Quotes]
      /\ bidFill' \in [Steps -> BOOLEAN] /\ askFill' \in [Steps -> BOOLEAN]
  BY <1>2, <1>3, <1>4 DEF StepWith, TypeOK, Quotes
<1>9. /\ sPath' \in [Grid -> Int] /\ inventory' \in [Grid -> Int] /\ cash' \in [Grid -> Int]
  BY <1>3, <1>4, <1>6 DEF StepWith, TypeOK
<1>10. nBidFills' \in Nat /\ nAskFills' \in Nat
  BY <1>3, <1>5 DEF StepWith, TypeOK
<1>11. killActive' \in BOOLEAN /\ killStep' \in Grid
  BY <1>1, <1>3 DEF StepWith, TypeOK, Latches
<1> QED BY <1>6, <1>7, <1>8, <1>9, <1>10, <1>11 DEF TypeOK

(* The terminal step keeps the types.                                      *)
LEMMA TerminalTypeOK == TypeOK /\ Terminal => TypeOK'
<1> SUFFICES ASSUME TypeOK, Terminal PROVE TypeOK'
  OBVIOUS
<1>1. N \in Grid
  BY DEF Grid
<1>2. LiveBid(N, q) \in Int /\ LiveAsk(N, q) \in Int
  BY <1>1, QuotesAreInts DEF TypeOK
<1>3. bidQuote' \in [Grid -> Quotes] /\ askQuote' \in [Grid -> Quotes]
  BY <1>2 DEF Terminal, TypeOK, Quotes
<1>4. terminalPnl' \in Int
  BY <1>1 DEF Terminal, TypeOK
<1>5. i' \in 0 .. N + 1
  BY DEF Terminal
<1> QED BY <1>3, <1>4, <1>5 DEF Terminal, TypeOK, labels

(* Every step keeps the types.                                             *)
LEMMA NextTypeOK == TypeOK /\ [Next]_vars => TypeOK'
<1>1. TypeOK /\ UNCHANGED vars => TypeOK'
  BY DEF TypeOK, vars, labels
<1> QED BY <1>1, StepTypeOK, TerminalTypeOK DEF Next

(* Type correctness of run_path's locals and output arrays.                *)
THEOREM TypeCorrect == Spec => []TypeOK
BY InitTypeOK, NextTypeOK, PTL DEF Spec

-----------------------------------------------------------------------------
(* The loop's locals are the last entries of the arrays.  InventoryBounded *)
(* alone is not inductive: the guard of a fill reads q, the bound is about *)
(* the array.                                                              *)
LocalsCurrent == i <= N => q = inventory[i] /\ cashNow = cash[i]
BoundInv == TypeOK /\ LocalsCurrent /\ InventoryBounded

(* The locals q and cashNow are the last entries of the arrays.            *)
LEMMA NextLocalsCurrent ==
    TypeOK /\ LocalsCurrent /\ [Next]_vars => LocalsCurrent'
<1> SUFFICES ASSUME TypeOK, LocalsCurrent, [Next]_vars PROVE LocalsCurrent'
  OBVIOUS
<1>1. CASE Step
  <2>1. i \in Grid /\ i + 1 \in Grid
    BY <1>1 DEF Step, TypeOK, Grid
  <2> QED BY <1>1, <2>1 DEF Step, StepWith, LocalsCurrent, TypeOK
<1>2. CASE Terminal
  BY <1>2 DEF Terminal, AtTerminal, LocalsCurrent, TypeOK
<1>3. CASE UNCHANGED vars
  BY <1>3 DEF vars, LocalsCurrent
<1> QED BY <1>1, <1>2, <1>3 DEF Next

(* One step moves the inventory by at most one unit, and not outward from  *)
(* a bound: the side that would is suppressed and cannot fill.             *)
LEMMA StepStaysInBound ==
    ASSUME TypeOK, q \in -QMax .. QMax,
           NEW filledB \in BidDraws, NEW filledA \in AskDraws
    PROVE  UnitsAfter(filledB, filledA) \in -QMax .. QMax
<1>1. filledB => ~AtLongCap(q)
  BY SuppressedNeverFills DEF BidDraws, SuppressBid
<1>2. filledA => ~AtShortCap(q)
  BY SuppressedNeverFills DEF AskDraws, SuppressAsk
<1>3. (filledB => q < QMax) /\ (filledA => q > -QMax)
  BY <1>1, <1>2 DEF AtLongCap, AtShortCap, TypeOK
<1> QED BY <1>3 DEF UnitsAfter, AsUnits, TypeOK

(* Every step keeps the inventory within the bound.                        *)
LEMMA NextBoundInv == BoundInv /\ [Next]_vars => BoundInv'
<1> SUFFICES ASSUME BoundInv, [Next]_vars PROVE InventoryBounded'
  BY NextTypeOK, NextLocalsCurrent DEF BoundInv
<1> USE DEF BoundInv
<1>1. CASE Step
  <2>1. i \in Grid /\ i + 1 \in Grid /\ i' = i + 1
    BY <1>1 DEF Step, StepWith, TypeOK, Grid
  <2>2. q \in -QMax .. QMax
    BY <2>1 DEF LocalsCurrent, InventoryBounded, Reached, Grid
  <2>3. q' \in -QMax .. QMax /\ inventory' = [inventory EXCEPT ![i + 1] = q']
    BY <1>1, <2>2, StepStaysInBound DEF Step, StepWith
  <2>4. SUFFICES ASSUME NEW j \in Reached' PROVE inventory'[j] \in -QMax .. QMax
    BY DEF InventoryBounded
  <2>5. CASE j = i + 1
    BY <2>1, <2>3, <2>5 DEF TypeOK
  <2>6. CASE j # i + 1
    <3>1. j \in Reached
      BY <2>1, <2>6 DEF Reached, Grid, TypeOK
    <3>2. inventory'[j] = inventory[j]
      BY <2>3, <2>6, <3>1 DEF Reached, TypeOK
    <3> QED BY <3>1, <3>2 DEF InventoryBounded
  <2> QED BY <2>5, <2>6
<1>2. CASE Terminal
  <2>1. \A j \in Reached' : j \in Reached
    BY <1>2 DEF Terminal, AtTerminal, Reached, Grid
  <2> QED BY <1>2, <2>1 DEF Terminal, InventoryBounded
<1>3. CASE UNCHANGED vars
  BY <1>3 DEF vars, InventoryBounded, Reached
<1> QED BY <1>1, <1>2, <1>3 DEF Next

(* Requirement 6.1: |q| never exceeds q_max, at any step of any path.      *)
THEOREM InventoryNeverExceedsBound == Spec => []InventoryBounded
<1>1. Init => BoundInv
  BY InitTypeOK DEF Init, BoundInv, LocalsCurrent, InventoryBounded, Reached, Grid
<1>2. BoundInv => InventoryBounded
  BY DEF BoundInv
<1> QED BY <1>1, <1>2, NextBoundInv, PTL DEF Spec

-----------------------------------------------------------------------------
(* A later step never rewrites what the books of an earlier one read.      *)
LEMMA StepFrame ==
    ASSUME TypeOK, Step, NEW j \in StepsDone
    PROVE  /\ i \in Steps /\ i' = i + 1 /\ j \in Steps /\ j < i
           /\ bidFill'[j] = bidFill[j] /\ askFill'[j] = askFill[j]
           /\ bidQuote'[j] = bidQuote[j] /\ askQuote'[j] = askQuote[j]
           /\ inventory'[j] = inventory[j] /\ inventory'[j + 1] = inventory[j + 1]
           /\ cash'[j] = cash[j] /\ cash'[j + 1] = cash[j + 1]
           /\ sPath'[j] = sPath[j] /\ sPath'[j + 1] = sPath[j + 1]
<1>1. /\ i \in Steps /\ i \in Grid /\ i' = i + 1
      /\ j \in Steps /\ j < i /\ j \in Grid /\ j + 1 \in Grid /\ j + 1 # i + 1
  BY DEF Step, StepWith, StepsDone, TypeOK, Steps, Grid
<1> QED BY <1>1 DEF Step, StepWith, TypeOK

(* The terminal step rewrites nothing that the books of the loop read.     *)
LEMMA TerminalFrame ==
    ASSUME TypeOK, Terminal
    PROVE  /\ StepsDone' = StepsDone /\ Reached' = Reached /\ N \in Grid /\ i = N
           /\ UNCHANGED <<bidFill, askFill, inventory, cash, sPath, killActive, killStep>>
           /\ \A j \in Steps : bidQuote'[j] = bidQuote[j] /\ askQuote'[j] = askQuote[j]
<1>1. i = N /\ i' = N + 1
  BY DEF Terminal, AtTerminal
<1>2. StepsDone' = StepsDone /\ Reached' = Reached /\ N \in Grid
  BY <1>1 DEF StepsDone, Reached, Steps, Grid
<1>3. ASSUME NEW j \in Steps
      PROVE  bidQuote'[j] = bidQuote[j] /\ askQuote'[j] = askQuote[j]
  <2>1. j \in Grid /\ j # N
    BY DEF Steps, Grid
  <2> QED BY <2>1 DEF Terminal, TypeOK
<1> QED BY <1>1, <1>2, <1>3 DEF Terminal

(* The books of the step that runs.                                        *)
LEMMA StepBooks ==
    ASSUME TypeOK, LocalsCurrent, Step
    PROVE  /\ i \in Steps
           /\ bidFill'[i] => bidQuote'[i] # NaN
           /\ askFill'[i] => askQuote'[i] # NaN
           /\ inventory'[i + 1] = inventory'[i] + AsUnits(bidFill'[i]) - AsUnits(askFill'[i])
           /\ cash'[i + 1] = cash'[i] + (IF askFill'[i] THEN askQuote'[i] ELSE 0)
                                      - (IF bidFill'[i] THEN bidQuote'[i] ELSE 0)
<1>1. i \in Steps /\ i \in Grid /\ i + 1 \in Grid /\ i # i + 1 /\ i <= N
  BY DEF Step, TypeOK, Steps, Grid
<1>2. PICK filledB \in BidDraws, filledA \in AskDraws, sNext \in Prices :
        StepWith(filledB, filledA, sNext)
  BY DEF Step
<1>3. (filledB => ~SuppressBid) /\ (filledA => ~SuppressAsk)
  BY SuppressedNeverFills DEF BidDraws, AskDraws
<1>4. LiveBid(i, q) \in Int /\ LiveAsk(i, q) \in Int
  BY <1>1, QuotesAreInts DEF TypeOK
<1>5. /\ bidFill'[i] = filledB /\ askFill'[i] = filledA
      /\ filledB => bidQuote'[i] = LiveBid(i, q)
      /\ filledA => askQuote'[i] = LiveAsk(i, q)
  BY <1>1, <1>2, <1>3 DEF StepWith, TypeOK
<1>6. /\ inventory'[i + 1] = UnitsAfter(filledB, filledA) /\ inventory'[i] = q
      /\ cash'[i + 1] = CashAfter(filledB, filledA) /\ cash'[i] = cashNow
  BY <1>1, <1>2 DEF StepWith, TypeOK, LocalsCurrent
<1>7. inventory'[i + 1] = inventory'[i] + AsUnits(bidFill'[i]) - AsUnits(askFill'[i])
  BY <1>5, <1>6 DEF UnitsAfter
<1>8. cash'[i + 1] = cash'[i] + (IF askFill'[i] THEN askQuote'[i] ELSE 0)
                             - (IF bidFill'[i] THEN bidQuote'[i] ELSE 0)
  BY <1>5, <1>6 DEF CashAfter
<1> QED BY <1>1, <1>4, <1>5, <1>7, <1>8

BooksInv == TypeOK /\ LocalsCurrent /\ BooksBalance

(* Every step keeps the books balanced.                                    *)
LEMMA NextBooksInv == BooksInv /\ [Next]_vars => BooksInv'
<1> SUFFICES ASSUME BooksInv, [Next]_vars PROVE BooksBalance'
  BY NextTypeOK, NextLocalsCurrent DEF BooksInv
<1> USE DEF BooksInv
<1>1. CASE Step
  <2>1. (q = nBidFills - nAskFills)'
    <3>1. PICK filledB \in BidDraws, filledA \in AskDraws, sNext \in Prices :
            StepWith(filledB, filledA, sNext)
      BY <1>1 DEF Step
    <3>2. AsUnits(filledB) \in {0, 1} /\ AsUnits(filledA) \in {0, 1}
      BY DEF AsUnits
    <3> QED BY <3>1, <3>2 DEF StepWith, UnitsAfter, BooksBalance, TypeOK
  <2>2. SUFFICES ASSUME NEW j \in StepsDone'
        PROVE  /\ bidFill'[j] => bidQuote'[j] # NaN
               /\ askFill'[j] => askQuote'[j] # NaN
               /\ inventory'[j + 1] =
                     inventory'[j] + AsUnits(bidFill'[j]) - AsUnits(askFill'[j])
               /\ cash'[j + 1] = cash'[j] + (IF askFill'[j] THEN askQuote'[j] ELSE 0)
                                          - (IF bidFill'[j] THEN bidQuote'[j] ELSE 0)
    BY <2>1 DEF BooksBalance, AsUnits
  <2>3. CASE j = i
    BY <1>1, <2>3, StepBooks
  <2>4. CASE j # i
    <3>1. j \in StepsDone
      BY <1>1, <2>4 DEF Step, StepWith, StepsDone, Steps, TypeOK
    <3> QED BY <1>1, <3>1, StepFrame DEF BooksBalance
  <2> QED BY <2>3, <2>4
<1>2. CASE Terminal
  BY <1>2, TerminalFrame DEF Terminal, BooksBalance, StepsDone, AsUnits
<1>3. CASE UNCHANGED vars
  BY <1>3 DEF vars, BooksBalance, StepsDone, AsUnits
<1> QED BY <1>1, <1>2, <1>3 DEF Next

(* Property 12 of the design: inventory and cash are the running totals of *)
(* the recorded fills at the recorded quotes.                              *)
THEOREM BooksAlwaysBalance == Spec => []BooksBalance
<1>1. Init => BooksInv
  <2> SUFFICES ASSUME Init PROVE BooksInv
    OBVIOUS
  <2>1. StepsDone = {} /\ 0 \in Grid
    BY DEF Init, StepsDone, Steps, Grid
  <2>2. LocalsCurrent
    BY <2>1 DEF Init, LocalsCurrent
  <2>3. BooksBalance
    BY <2>1 DEF Init, BooksBalance
  <2> QED BY <2>2, <2>3, InitTypeOK DEF BooksInv
<1>2. BooksInv => BooksBalance
  BY DEF BooksInv
<1> QED BY <1>1, <1>2, NextBooksInv, PTL DEF Spec

-----------------------------------------------------------------------------
(* KillSwitchHalts needs the kill step to be one already reached: else the *)
(* profit it is judged by could still change.                              *)
KillInv ==
    /\ TypeOK /\ LocalsCurrent /\ KillSwitchHalts
    /\ killStep <= i

(* Every step keeps the latch consistent with the losses recorded so far.  *)
LEMMA NextKillInv == KillInv /\ [Next]_vars => KillInv'
<1> SUFFICES ASSUME KillInv, [Next]_vars PROVE KillSwitchHalts' /\ (killStep <= i)'
  BY NextTypeOK, NextLocalsCurrent DEF KillInv
<1> USE DEF KillInv
<1>1. CASE Step
  <2>1. PICK filledB \in BidDraws, filledA \in AskDraws, sNext \in Prices :
          StepWith(filledB, filledA, sNext)
    BY <1>1 DEF Step
  <2>2. i \in Steps /\ i \in Grid /\ i + 1 \in Grid /\ i' = i + 1 /\ i + 1 # 0
    BY <1>1, <2>1 DEF Step, StepWith, Steps, Grid, TypeOK
  <2> DEFINE fires == ~killActive /\ Latches(cashNow' + q' * sNext)
  <2>3. /\ fires => killActive' /\ killStep' = i + 1
        /\ ~fires => killActive' = killActive /\ killStep' = killStep
    BY <2>1 DEF StepWith, TypeOK
  <2> DEFINE PnlNext(j) == cash'[j] + inventory'[j] * sPath'[j]
  <2>4. PnlNext(i + 1) = cashNow' + q' * sNext
    BY <2>1, <2>2 DEF StepWith, TypeOK
  <2>5. \A j \in Reached : PnlNext(j) = Pnl(j)
    <3> TAKE j \in Reached
    <3>1. j \in Grid /\ j # i + 1
      BY <2>2 DEF Reached, TypeOK, Grid
    <3> QED BY <2>1, <3>1 DEF StepWith, Pnl, TypeOK
  <2>6. fires <=> ~killActive /\ LimitReached(PnlNext(i + 1))
    BY <2>4 DEF Latches, LimitReached
  <2>7. \A j \in Reached' : j = i + 1 \/ j \in Reached
    BY <2>2 DEF Reached, Grid
  <2> HIDE DEF fires, PnlNext
  <2>8. (killActive <=> killStep # 0)' /\ (killStep <= i)'
    <3>1. CASE fires
      BY <2>2, <2>3, <3>1 DEF Grid
    <3>2. CASE ~fires
      <4>1. killStep <= i + 1
        BY <2>2 DEF TypeOK, Grid
      <4> QED BY <2>2, <2>3, <3>2, <4>1 DEF KillSwitchHalts
    <3> QED BY <3>1, <3>2
  <2>9. killActive' => LimitReached(PnlNext(killStep'))
    <3>1. CASE fires
      BY <2>3, <2>6, <3>1
    <3>2. CASE ~fires /\ killActive
      <4>1. killStep \in Reached
        BY DEF Reached, TypeOK
      <4> QED BY <2>3, <2>5, <3>2, <4>1 DEF KillSwitchHalts
    <3> QED BY <2>3, <3>1, <3>2
  <2>10. \A j \in Reached' \ {0} :
            LimitReached(PnlNext(j)) => killActive' /\ killStep' <= j
    <3> SUFFICES ASSUME NEW j \in Reached' \ {0}, LimitReached(PnlNext(j))
                 PROVE  killActive' /\ killStep' <= j
      OBVIOUS
    <3>1. CASE j = i + 1
      BY <2>2, <2>3, <2>6, <2>8, <3>1 DEF TypeOK
    <3>2. CASE j \in Reached
      <4>1. killActive /\ killStep <= j
        BY <2>5, <3>2 DEF KillSwitchHalts
      <4> QED BY <2>3, <2>6, <4>1
    <3> QED BY <2>7, <3>1, <3>2
  <2>11. ASSUME killActive', NEW j \in StepsDone', j >= killStep'
         PROVE  /\ bidQuote'[j] = NaN /\ askQuote'[j] = NaN
                /\ ~bidFill'[j] /\ ~askFill'[j]
    <3>1. j \in Steps /\ j <= i
      BY <2>2, <2>11 DEF StepsDone, Steps
    <3>2. killActive /\ killStep' = killStep
      <4>1. j \in Int /\ i \in Int /\ killStep' # i + 1
        BY <2>2, <2>11, <3>1 DEF Steps
      <4> QED BY <2>3, <2>11, <4>1 DEF TypeOK
    <3>3. CASE j = i
      <4>1. SuppressBid /\ SuppressAsk
        BY <3>2 DEF SuppressBid, SuppressAsk
      <4>2. (filledB => ~SuppressBid) /\ (filledA => ~SuppressAsk)
        BY SuppressedNeverFills DEF BidDraws, AskDraws
      <4> QED BY <2>1, <2>2, <3>3, <4>1, <4>2 DEF StepWith, TypeOK
    <3>4. CASE j # i
      <4>1. j \in StepsDone
        BY <2>2, <3>1, <3>4 DEF StepsDone, Steps, TypeOK
      <4> QED BY <1>1, <2>11, <3>2, <4>1, StepFrame DEF KillSwitchHalts
    <3> QED BY <3>3, <3>4
  <2> USE DEF PnlNext
  <2> QED
    BY <2>8, <2>9, <2>10, <2>11 DEF KillSwitchHalts, Pnl, LimitReached
<1>2. CASE Terminal
  <2>1. (killStep <= i)'
    BY <1>2, TerminalFrame DEF Terminal, TypeOK, Grid
  <2>2. \A j \in StepsDone : bidQuote'[j] = bidQuote[j] /\ askQuote'[j] = askQuote[j]
    BY <1>2, TerminalFrame DEF StepsDone
  <2> QED BY <1>2, <2>1, <2>2, TerminalFrame DEF KillSwitchHalts, Pnl, LimitReached
<1>3. CASE UNCHANGED vars
  BY <1>3 DEF vars, KillSwitchHalts, Reached, StepsDone, Pnl, LimitReached
<1> QED BY <1>1, <1>2, <1>3 DEF Next

(* Requirement 6.4 up to the terminal grid point: the kill-switch fires at *)
(* the first step whose loss reaches the limit and nothing trades again.   *)
THEOREM KillSwitchAlwaysHalts == Spec => []KillSwitchHalts
<1>1. Init => KillInv
  <2> SUFFICES ASSUME Init PROVE KillInv
    OBVIOUS
  <2>1. StepsDone = {} /\ Reached = {0} /\ 0 \in Grid
    BY DEF Init, StepsDone, Reached, Steps, Grid
  <2>2. LocalsCurrent
    BY <2>1 DEF Init, LocalsCurrent
  <2>3. KillSwitchHalts /\ killStep <= i
    BY <2>1 DEF Init, KillSwitchHalts
  <2> QED BY <2>2, <2>3, InitTypeOK DEF KillInv
<1>2. KillInv => KillSwitchHalts
  BY DEF KillInv
<1> QED BY <1>1, <1>2, NextKillInv, PTL DEF Spec

-----------------------------------------------------------------------------
(* Carrying one unit, none or minus one to the next mid.                   *)
LEMMA UnitCarry ==
    ASSUME NEW h \in Int, NEW s \in Int
    PROVE  (h - 1) * s = h * s - s /\ (h + 1) * s = h * s + s
OBVIOUS

(* The decomposition of a step's profit follows from the books of the step.*)
LEMMA BooksDecompose ==
    ASSUME BooksInv, NEW j \in StepsDone
    PROVE  Pnl(j + 1) - Pnl(j) = Edge(j) + inventory[j + 1] * (sPath[j + 1] - sPath[j])
<1> USE DEF BooksInv
<1>1. j \in Steps /\ j \in Grid /\ j + 1 \in Grid
  BY DEF StepsDone, Steps, Grid
<1>2. /\ inventory[j] \in Int /\ inventory[j + 1] \in Int
      /\ cash[j] \in Int /\ cash[j + 1] \in Int
      /\ sPath[j] \in Int /\ sPath[j + 1] \in Int
  BY <1>1 DEF TypeOK
<1> DEFINE b == IF bidFill[j] THEN bidQuote[j] ELSE 0
<1> DEFINE a == IF askFill[j] THEN askQuote[j] ELSE 0
<1> DEFINE u == AsUnits(bidFill[j])
<1> DEFINE v == AsUnits(askFill[j])
<1>3. a \in Int /\ b \in Int /\ u \in {0, 1} /\ v \in {0, 1}
  BY <1>1 DEF BooksBalance, TypeOK, Quotes, AsUnits
<1>4. inventory[j] = inventory[j + 1] - u + v /\ cash[j + 1] - cash[j] = a - b
  BY <1>2, <1>3 DEF BooksBalance
<1> DEFINE us == IF bidFill[j] THEN sPath[j] ELSE 0
<1> DEFINE vs == IF askFill[j] THEN sPath[j] ELSE 0
<1>5. Edge(j) = (us - b) + (a - vs) /\ us \in Int /\ vs \in Int
  BY <1>2, <1>3 DEF Edge
<1>6. inventory[j] * sPath[j] = inventory[j + 1] * sPath[j] - us + vs
  <2>1. CASE bidFill[j] /\ askFill[j]
    BY <1>2, <1>4, <2>1 DEF AsUnits
  <2>2. CASE bidFill[j] /\ ~askFill[j]
    <3>1. inventory[j] = inventory[j + 1] - 1
      BY <1>2, <1>4, <2>2 DEF AsUnits
    <3>2. (inventory[j + 1] - 1) * sPath[j] = inventory[j + 1] * sPath[j] - sPath[j]
      BY <1>2, UnitCarry
    <3>3. us = sPath[j] /\ vs = 0
      BY <2>2
    <3>4. inventory[j + 1] * sPath[j] \in Int
      BY <1>2
    <3> HIDE DEF us, vs
    <3> QED BY <1>2, <3>1, <3>2, <3>3, <3>4
  <2>3. CASE ~bidFill[j] /\ askFill[j]
    <3>1. inventory[j] = inventory[j + 1] + 1
      BY <1>2, <1>4, <2>3 DEF AsUnits
    <3> QED BY <1>2, <2>3, <3>1, UnitCarry
  <2>4. CASE ~bidFill[j] /\ ~askFill[j]
    BY <1>2, <1>4, <2>4 DEF AsUnits
  <2> QED BY <2>1, <2>2, <2>3, <2>4
<1>7. inventory[j + 1] * (sPath[j + 1] - sPath[j])
        = inventory[j + 1] * sPath[j + 1] - inventory[j + 1] * sPath[j]
  BY <1>2
<1> DEFINE carried == inventory[j + 1] * sPath[j]
<1> DEFINE before == inventory[j] * sPath[j]
<1> DEFINE after == inventory[j + 1] * sPath[j + 1]
<1>8. carried \in Int /\ before \in Int /\ after \in Int
  BY <1>2
<1>9. Pnl(j + 1) - Pnl(j) = (cash[j + 1] - cash[j]) + (after - before)
  BY <1>2, <1>8 DEF Pnl
<1>10. before = carried - us + vs
       /\ inventory[j + 1] * (sPath[j + 1] - sPath[j]) = after - carried
  BY <1>6, <1>7
<1> HIDE DEF a, b, us, vs, carried, before, after
<1>11. Pnl(j + 1) - Pnl(j) = (a - b) + (after - before)
  BY <1>4, <1>9
<1> QED BY <1>3, <1>5, <1>8, <1>10, <1>11

PnlInv == BooksInv /\ (i = N + 1 => terminalPnl = Pnl(N))

(* The terminal step marks to market what the loop left.                   *)
LEMMA NextPnlInv == PnlInv /\ [Next]_vars => PnlInv'
<1> SUFFICES ASSUME PnlInv, [Next]_vars PROVE (i = N + 1 => terminalPnl = Pnl(N))'
  BY NextBooksInv DEF PnlInv
<1>1. CASE Step
  BY <1>1 DEF Step, StepWith, PnlInv, BooksInv, TypeOK
<1>2. CASE Terminal
  BY <1>2 DEF Terminal, Pnl
<1>3. CASE UNCHANGED vars
  BY <1>3 DEF vars, PnlInv, Pnl
<1> QED BY <1>1, <1>2, <1>3 DEF Next

(* The profit of every step is the edge of its fills plus the inventory it *)
(* leaves carried to the next mid, and the terminal P&L is the mark at N.  *)
THEOREM PnlAlwaysDecomposes == Spec => []PnlDecomposes
<1>1. Init => PnlInv
  <2> SUFFICES ASSUME Init PROVE PnlInv
    OBVIOUS
  <2>1. StepsDone = {} /\ 0 \in Grid /\ i # N + 1
    BY DEF Init, StepsDone, Steps, Grid
  <2>2. LocalsCurrent /\ BooksBalance
    BY <2>1 DEF Init, LocalsCurrent, BooksBalance
  <2> QED BY <2>1, <2>2, InitTypeOK DEF PnlInv, BooksInv
<1>2. PnlInv => PnlDecomposes
  BY BooksDecompose DEF PnlInv, PnlDecomposes
<1> QED BY <1>1, <1>2, NextPnlInv, PTL DEF Spec

-----------------------------------------------------------------------------
(* Agreement with the primitives.                                          *)

(* What the quoters say of a step is the loop's live quote, or nothing.    *)
LEMMA PrimitivesAreLive ==
    ASSUME TypeOK, NEW j \in Grid
    PROVE  /\ PrimitiveQuotes.bid[j] =
                 IF QuoterSuppresses(j) THEN NaN ELSE LiveBid(j, inventory[j])
           /\ PrimitiveQuotes.ask[j] =
                 IF QuoterSuppresses(j) THEN NaN ELSE LiveAsk(j, inventory[j])
<1>1. /\ sPath[j] \in Int /\ inventory[j] \in Int /\ SkewCoef[j] \in Int /\ DeltaStar[j] \in Int
      /\ DOMAIN sPath = Grid /\ mask[j] \in BOOLEAN
  BY DEF TypeOK
<1>2. CASE strategy = "avellaneda_stoikov"
  BY <1>1, <1>2 DEF PrimitiveQuotes, AsQuotes, Masked, QuoterSuppresses, LiveBid, LiveAsk,
                    Reservation, HalfSpread, Skew
<1>3. CASE strategy = "semi_as"
  <2>1. inventory[j] * Skew(j) = 0
    BY <1>1, <1>3 DEF Skew
  <2>2. Reservation(j, inventory[j]) = sPath[j] /\ HalfSpread(j) = DeltaStar[j]
    BY <1>1, <1>3, <2>1 DEF Reservation, HalfSpread
  <2> QED BY <1>1, <1>3, <2>2 DEF PrimitiveQuotes, SemiAsQuotes, Masked, QuoterSuppresses,
                                  LiveBid, LiveAsk
<1>4. CASE strategy = "symmetric"
  <2>1. inventory[j] * Skew(j) = 0
    BY <1>1, <1>4 DEF Skew
  <2>2. Reservation(j, inventory[j]) = sPath[j] /\ HalfSpread(j) = DeltaBase
    BY <1>1, <1>4, <2>1 DEF Reservation, HalfSpread
  <2> QED BY <1>1, <1>4, <2>2 DEF PrimitiveQuotes, SymmetricQuotes, QuoterSuppresses,
                                  LiveBid, LiveAsk
<1> QED BY <1>2, <1>3, <1>4 DEF TypeOK

(* The latch is on just when a loss recorded so far reached the limit.     *)
LEMMA LatchIsKilled ==
    ASSUME KillInv, i \in Grid
    PROVE  Killed(i) <=> killActive
<1> USE DEF KillInv
<1>1. ASSUME killActive PROVE Killed(i)
  <2>1. killStep \in 1 .. i /\ LimitReached(Pnl(killStep))
    BY <1>1 DEF KillSwitchHalts, TypeOK, Grid
  <2>2. KillSwitchTriggered(Pnl(killStep), LKill)
    BY <2>1 DEF LimitReached, KillSwitchTriggered
  <2> QED BY <2>1, <2>2 DEF Killed
<1>2. ASSUME Killed(i) PROVE killActive
  <2>1. PICK m \in 1 .. i : KillSwitchTriggered(Pnl(m), LKill)
    BY <1>2 DEF Killed
  <2>2. m \in Reached \ {0}
    BY <2>1 DEF Reached, Grid
  <2>3. LimitReached(Pnl(m))
    BY <2>1 DEF LimitReached, KillSwitchTriggered
  <2> QED BY <2>2, <2>3 DEF KillSwitchHalts
<1> QED BY <1>1, <1>2

(* What the primitives read of a step reached is not rewritten.            *)
LEMMA ReachedFrame ==
    ASSUME TypeOK, TypeOK', Step \/ Terminal, NEW j \in Grid, j <= i
    PROVE  /\ sPath'[j] = sPath[j] /\ inventory'[j] = inventory[j] /\ cash'[j] = cash[j]
           /\ PrimitiveQuotes'.bid[j] = PrimitiveQuotes.bid[j]
           /\ PrimitiveQuotes'.ask[j] = PrimitiveQuotes.ask[j]
<1>1. sPath'[j] = sPath[j] /\ inventory'[j] = inventory[j] /\ cash'[j] = cash[j]
  <2>1. CASE Step
    <3>1. j # i + 1
      BY <2>1 DEF TypeOK, Grid
    <3> QED BY <2>1, <3>1 DEF Step, StepWith, TypeOK
  <2>2. CASE Terminal
    BY <2>2 DEF Terminal
  <2> QED BY <2>1, <2>2
<1>2. strategy' = strategy /\ mask' = mask
  <2>1. UNCHANGED labels
    <3>1. CASE Step
      BY <3>1 DEF Step, StepWith
    <3>2. CASE Terminal
      BY <3>2 DEF Terminal
    <3> QED BY <3>1, <3>2
  <2> QED BY <2>1 DEF labels
<1>3. j \in DOMAIN sPath /\ j \in DOMAIN sPath'
  BY DEF TypeOK
<1>4. CASE strategy = "avellaneda_stoikov"
  BY <1>1, <1>2, <1>3, <1>4 DEF PrimitiveQuotes, AsQuotes, Masked
<1>5. CASE strategy = "semi_as"
  BY <1>1, <1>2, <1>3, <1>5 DEF PrimitiveQuotes, SemiAsQuotes, Masked
<1>6. CASE strategy = "symmetric"
  BY <1>1, <1>2, <1>3, <1>6 DEF PrimitiveQuotes, SymmetricQuotes
<1> QED BY <1>1, <1>4, <1>5, <1>6 DEF TypeOK

(* So a step once halted stays halted, and one that was not is not later.  *)
LEMMA HaltedFrame ==
    ASSUME TypeOK, TypeOK', Step \/ Terminal, NEW j \in Grid, j <= i
    PROVE  (Killed(j)' <=> Killed(j)) /\ Halted(j)' = Halted(j)
<1>1. \A m \in 1 .. j : m \in Grid /\ m <= i
  BY DEF Grid, TypeOK
<1>2. \A m \in 1 .. j : Pnl(m)' = Pnl(m)
  BY <1>1, ReachedFrame DEF Pnl
<1>3. Killed(j)' <=> Killed(j)
  BY <1>2 DEF Killed, KillSwitchTriggered
<1>4. inventory'[j] = inventory[j]
  BY ReachedFrame
<1> QED BY <1>3, <1>4 DEF Halted, ApplyInventoryBounds

-----------------------------------------------------------------------------
(* QuotesExplained judges a step by the recorded profits, the loop by its  *)
(* latch: the invariant joins it to KillInv, which says the two agree.     *)
QuotesInv == KillInv /\ QuotesExplained

QuoteExplained(j) ==
    /\ bidQuote[j] = IF Halted(j).bid THEN NaN ELSE PrimitiveQuotes.bid[j]
    /\ askQuote[j] = IF Halted(j).ask THEN NaN ELSE PrimitiveQuotes.ask[j]
FillsExplained(j) ==
    /\ FillExplained(bidFill[j], bidQuote[j], sPath[j] - bidQuote[j])
    /\ FillExplained(askFill[j], askQuote[j], askQuote[j] - sPath[j])

(* The step that runs is quoted and filled as the primitives say.          *)
LEMMA StepExplained ==
    ASSUME KillInv, TypeOK', Step, NEW k \in Grid, k = i
    PROVE  k \in Steps /\ QuoteExplained(k)' /\ FillsExplained(k)'
<1> USE DEF KillInv
<1>1. k \in Steps /\ k < N /\ k <= i /\ k <= N /\ i \in Grid
  BY DEF Step, TypeOK, Steps, Grid
<1>2. PICK filledB \in BidDraws, filledA \in AskDraws, sNext \in Prices :
        StepWith(filledB, filledA, sNext)
  BY DEF Step
<1>3. /\ bidQuote'[k] = IF SuppressBid THEN NaN ELSE LiveBid(k, q)
      /\ askQuote'[k] = IF SuppressAsk THEN NaN ELSE LiveAsk(k, q)
      /\ bidFill'[k] = filledB /\ askFill'[k] = filledA
  BY <1>1, <1>2 DEF StepWith, TypeOK
<1>4. LiveBid(k, q) # NaN /\ LiveAsk(k, q) # NaN
  BY <1>1, QuotesAreInts DEF TypeOK
<1>5. q = inventory[k]
  BY <1>1 DEF LocalsCurrent
<1>6. /\ SuppressBid <=> Halted(k).bid \/ QuoterSuppresses(k)
      /\ SuppressAsk <=> Halted(k).ask \/ QuoterSuppresses(k)
  <2>1. Killed(k) <=> killActive
    BY <1>1, LatchIsKilled
  <2>2. /\ Halted(k).bid <=> killActive \/ inventory[k] >= QMax
        /\ Halted(k).ask <=> killActive \/ inventory[k] <= -QMax
    BY <1>1, <2>1, Zenon DEF Halted, ApplyInventoryBounds
  <2> QED BY <1>5, <2>2 DEF SuppressBid, SuppressAsk, AtLongCap, AtShortCap
<1>7. QuoteExplained(k)'
  <2>1. /\ bidQuote'[k] = IF Halted(k).bid THEN NaN ELSE PrimitiveQuotes.bid[k]
        /\ askQuote'[k] = IF Halted(k).ask THEN NaN ELSE PrimitiveQuotes.ask[k]
    BY <1>3, <1>5, <1>6, PrimitivesAreLive
  <2> QED BY <1>1, <2>1, ReachedFrame, HaltedFrame DEF QuoteExplained
<1>8. FillsExplained(k)'
  <2>1. sPath'[k] = sPath[k]
    BY <1>1, ReachedFrame
  <2>2. FillExplained(filledB, bidQuote'[k], sPath[k] - bidQuote'[k])
    BY <1>3, <1>4 DEF FillExplained, BidDraws, Draws, FillOutcomes, FillIsCertain
  <2>3. FillExplained(filledA, askQuote'[k], askQuote'[k] - sPath[k])
    BY <1>3, <1>4 DEF FillExplained, AskDraws, Draws, FillOutcomes, FillIsCertain
  <2> QED BY <1>3, <2>1, <2>2, <2>3 DEF FillsExplained
<1> QED BY <1>1, <1>7, <1>8

(* The terminal quote is the quoter's, and the profit is flatten_terminal's.*)
LEMMA TerminalExplained ==
    ASSUME KillInv, TypeOK', Terminal
    PROVE  /\ QuoteExplained(N)'
           /\ (terminalPnl = FlattenTerminal(inventory[N], sPath[N], cash[N]))'
<1> USE DEF KillInv
<1>1. i = N /\ N \in Grid /\ i \in Grid /\ N <= i /\ ~(N < N)
  BY DEF Terminal, AtTerminal, Grid
<1>2. q = inventory[N]
  BY <1>1 DEF LocalsCurrent
<1>3. /\ bidQuote'[N] = IF QuoterSuppresses(N) THEN NaN ELSE LiveBid(N, q)
      /\ askQuote'[N] = IF QuoterSuppresses(N) THEN NaN ELSE LiveAsk(N, q)
  BY <1>1 DEF Terminal, TypeOK
<1>4. ~Halted(N)'.bid /\ ~Halted(N)'.ask
  BY <1>1 DEF Halted
<1>5. QuoteExplained(N)'
  BY <1>1, <1>2, <1>3, <1>4, PrimitivesAreLive, ReachedFrame DEF QuoteExplained
<1>6. (terminalPnl = FlattenTerminal(inventory[N], sPath[N], cash[N]))'
  BY DEF Terminal, FlattenTerminal
<1> QED BY <1>5, <1>6

(* A step already explained stays so: nothing that explains it is rewritten.*)
LEMMA ExplainedFrame ==
    ASSUME QuotesInv, TypeOK', Step \/ Terminal, NEW j \in StepsDone
    PROVE  QuoteExplained(j)' /\ FillsExplained(j)'
<1> USE DEF QuotesInv, KillInv
<1>1. j \in Steps /\ j \in Grid /\ j <= i /\ j < i
  BY DEF StepsDone, Steps, Grid, TypeOK
<1>2. /\ bidQuote'[j] = bidQuote[j] /\ askQuote'[j] = askQuote[j]
      /\ bidFill'[j] = bidFill[j] /\ askFill'[j] = askFill[j] /\ sPath'[j] = sPath[j]
  BY <1>1, StepFrame, TerminalFrame, ReachedFrame
<1>3. QuoteExplained(j)'
  BY <1>1, <1>2, ReachedFrame, HaltedFrame DEF QuotesExplained, QuoteExplained
<1>4. FillsExplained(j)'
  BY <1>1, <1>2 DEF QuotesExplained, FillsExplained, FillExplained
<1> QED BY <1>3, <1>4

(* Every step keeps every recorded quote and fill explained.               *)
LEMMA NextQuotesInv == QuotesInv /\ [Next]_vars => QuotesInv'
<1> SUFFICES ASSUME QuotesInv, [Next]_vars PROVE QuotesExplained'
  BY NextKillInv DEF QuotesInv
<1> USE DEF QuotesInv
<1>1. TypeOK /\ TypeOK'
  BY NextTypeOK DEF KillInv
<1>2. CASE Step
  <2>1. i' = i + 1 /\ i \in Int /\ i' # N + 1
    BY <1>1, <1>2 DEF Step, StepWith, TypeOK
  <2>2. ASSUME NEW j \in Grid, j < i' PROVE QuoteExplained(j)'
    <3>1. j = i \/ j \in StepsDone
      BY <1>2, <2>1, <2>2 DEF Step, StepsDone, Steps, Grid
    <3> QED BY <1>1, <1>2, <3>1, StepExplained, ExplainedFrame
  <2>3. ASSUME NEW j \in StepsDone' PROVE FillsExplained(j)'
    <3>1. j \in Grid /\ (j = i \/ j \in StepsDone)
      BY <2>1 DEF StepsDone, Steps, Grid
    <3> QED BY <1>1, <1>2, <3>1, StepExplained, ExplainedFrame
  <2> QED BY <2>1, <2>2, <2>3 DEF QuotesExplained, QuoteExplained, FillsExplained
<1>3. CASE Terminal
  <2>1. i = N /\ i' = N + 1 /\ StepsDone' = StepsDone
    BY <1>1, <1>3, TerminalFrame DEF Terminal
  <2>2. ASSUME NEW j \in Grid PROVE QuoteExplained(j)'
    <3>1. CASE j = N
      BY <1>1, <1>3, <3>1, TerminalExplained
    <3>2. CASE j # N
      <4>1. j \in StepsDone
        BY <2>1, <3>2 DEF StepsDone, Steps, Grid
      <4> QED BY <1>1, <1>3, <4>1, ExplainedFrame
    <3> QED BY <3>1, <3>2
  <2>3. ASSUME NEW j \in StepsDone' PROVE FillsExplained(j)'
    BY <1>1, <1>3, <2>1, ExplainedFrame
  <2>4. (terminalPnl = FlattenTerminal(inventory[N], sPath[N], cash[N]))'
    BY <1>1, <1>3, TerminalExplained
  <2> QED BY <2>2, <2>3, <2>4 DEF QuotesExplained, QuoteExplained, FillsExplained
<1>4. CASE UNCHANGED vars
  BY <1>4 DEF vars, labels, QuotesExplained, PrimitiveQuotes, Halted, Killed, Pnl, StepsDone,
              FillExplained, FlattenTerminal
<1> QED BY <1>2, <1>3, <1>4 DEF Next

(* run_path's loop is the quoters, the risk manager and the crossed-quote  *)
(* rule of the library, whatever the schedules, the prices and the draws.  *)
THEOREM LoopAgreesWithPrimitives == Spec => []QuotesExplained
<1>1. Init => QuotesInv
  <2> SUFFICES ASSUME Init PROVE QuotesInv
    OBVIOUS
  <2>1. StepsDone = {} /\ Reached = {0} /\ 0 \in Grid /\ \A j \in Grid : ~(j < i)
    BY DEF Init, StepsDone, Reached, Steps, Grid
  <2>2. LocalsCurrent
    BY <2>1 DEF Init, LocalsCurrent
  <2>3. KillSwitchHalts /\ killStep <= i /\ i # N + 1
    BY <2>1 DEF Init, KillSwitchHalts
  <2> QED BY <2>1, <2>2, <2>3, InitTypeOK DEF QuotesInv, KillInv, QuotesExplained
<1>2. QuotesInv => QuotesExplained
  BY DEF QuotesInv
<1> QED BY <1>1, <1>2, NextQuotesInv, PTL DEF Spec

HIDE PathAssumption

-----------------------------------------------------------------------------
(* FlatNonzero enumerates a set of steps in order.                         *)

Enumerates(s, c, steps) ==
    /\ s \in [1 .. c -> steps] /\ Range(s) = steps
    /\ \A a, b \in DOMAIN s : a < b => s[a] < s[b]

LEMMA EnumerationExists ==
    ASSUME NEW n \in Nat, NEW steps \in SUBSET (0 .. n - 1)
    PROVE  /\ IsFiniteSet(steps) /\ Cardinality(steps) \in Nat
           /\ \E s : Enumerates(s, Cardinality(steps), steps)
<1> DEFINE Good(S) == /\ IsFiniteSet(S) /\ Cardinality(S) \in Nat
                      /\ \E s : Enumerates(s, Cardinality(S), S)
           T == {m \in Nat : \A S \in SUBSET (0 .. m - 1) : Good(S)}
<1>1. 0 \in T
  <2>1. ASSUME NEW S \in SUBSET (0 .. 0 - 1) PROVE Good(S)
    <3>1. S = {} /\ Cardinality(S) = 0 /\ IsFiniteSet(S)
      <4>1. S = {}
        OBVIOUS
      <4> QED BY <4>1, FS_EmptySet
    <3>2. Enumerates([k \in 1 .. 0 |-> 0], 0, S)
      BY <3>1 DEF Enumerates, Range
    <3> QED BY <3>1, <3>2
  <2> HIDE DEF Good
  <2> QED BY <2>1
<1>2. ASSUME NEW m \in Nat, m \in T PROVE m + 1 \in T
  <2>1. ASSUME NEW S \in SUBSET (0 .. (m + 1) - 1) PROVE Good(S)
    <3>1. CASE m \notin S
      <4>1. S \in SUBSET (0 .. m - 1)
        BY <3>1
      <4> HIDE DEF Good
      <4> QED BY <1>2, <4>1
    <3>2. CASE m \in S
      <4>1. PICK R : R = S \ {m}
        OBVIOUS
      <4>2. R \in SUBSET (0 .. m - 1) /\ m \notin R /\ S = R \cup {m}
        BY <3>2, <4>1
      <4>3. Good(R)
        <5> HIDE DEF Good
        <5> QED BY <1>2, <4>2
      <4>4. PICK s, c : Enumerates(s, c, R) /\ c = Cardinality(R) /\ c \in Nat
        BY <4>3
      <4>5. IsFiniteSet(S) /\ Cardinality(S) = c + 1
        BY <4>2, <4>3, <4>4, FS_AddElement
      <4>6. PICK t : t = [k \in 1 .. c + 1 |-> IF k = c + 1 THEN m ELSE s[k]]
        OBVIOUS
      <4>7. s \in [1 .. c -> R] /\ Range(s) = R /\ \A a, b \in 1 .. c : a < b => s[a] < s[b]
        BY <4>4 DEF Enumerates
      <4>8. t[c + 1] = m /\ \A k \in 1 .. c : t[k] = s[k] /\ t[k] \in R
        BY <4>4, <4>6, <4>7
      <4>9. \A k \in 1 .. c + 1 : k = c + 1 \/ k \in 1 .. c
        BY <4>4
      <4>10. t \in [1 .. c + 1 -> S]
        BY <4>2, <4>6, <4>8, <4>9
      <4>11. Range(t) = S
        <5>1. \A y \in R : \E k \in 1 .. c : t[k] = y
          BY <4>7, <4>8 DEF Range
        <5>2. \A k \in 1 .. c : k \in 1 .. c + 1
          BY <4>4
        <5>3. c + 1 \in 1 .. c + 1
          BY <4>4
        <5>4. S \subseteq Range(t)
          BY <4>2, <4>6, <4>8, <5>1, <5>2, <5>3 DEF Range
        <5> QED BY <4>10, <5>4 DEF Range
      <4>12. ASSUME NEW a \in 1 .. c + 1, NEW b \in 1 .. c + 1, a < b PROVE t[a] < t[b]
        <5>1. a \in 1 .. c /\ t[a] = s[a] /\ t[a] \in R
          BY <4>4, <4>8, <4>12
        <5>2. CASE b = c + 1
          <6>1. \A x \in R : x < m
            BY <4>2
          <6> QED BY <4>8, <5>1, <5>2, <6>1
        <5>3. CASE b \in 1 .. c
          BY <4>7, <4>8, <4>12, <5>1, <5>3
        <5> QED BY <4>9, <5>2, <5>3
      <4>13. Enumerates(t, c + 1, S)
        BY <4>6, <4>10, <4>11, <4>12 DEF Enumerates
      <4> QED BY <4>4, <4>5, <4>13
    <3> QED BY <3>1, <3>2
  <2> HIDE DEF Good
  <2> QED BY <2>1
<1>3. Nat \subseteq T
  <2> HIDE DEF T
  <2> QED BY <1>1, <1>2, SetInduction
<1>4. n \in T
  BY <1>3
<1> QED BY <1>4

LEMMA FlatNonzeroIs ==
    ASSUME NEW n \in Nat, NEW steps \in SUBSET (0 .. n - 1)
    PROVE  /\ IsFiniteSet(steps) /\ Cardinality(steps) \in Nat
           /\ Enumerates(FlatNonzero(steps), Cardinality(steps), steps)
<1>1. PICK c : c = Cardinality(steps)
  OBVIOUS
<1>2. PICK s : Enumerates(s, c, steps)
  BY <1>1, EnumerationExists
<1>3. s \in [1 .. c -> steps] /\ Range(s) = steps /\ \A a, b \in DOMAIN s : a < b => s[a] < s[b]
  BY <1>2 DEF Enumerates
<1>4. Enumerates(FlatNonzero(steps), c, steps)
  BY <1>1, <1>3 DEF FlatNonzero, Enumerates
<1> QED BY <1>1, <1>4, EnumerationExists

(* The rows of a side whose step is before j: e enumerates the side's      *)
(* steps, and its rows follow the first `offset` ones.                     *)
Before(e, c, offset, j) == {k \in offset + 1 .. offset + c : e[k - offset] < j}

GrowsBy(e, c, offset, j) ==
    \E k \in offset + 1 .. offset + c :
        /\ e[k - offset] = j /\ k \notin Before(e, c, offset, j)
        /\ Before(e, c, offset, j + 1) = Before(e, c, offset, j) \cup {k}

LEMMA BeforeGrows ==
    ASSUME NEW c \in Nat, NEW steps \in SUBSET Int, NEW e, Enumerates(e, c, steps),
           NEW offset \in Nat, NEW j \in Int
    PROVE  /\ j \notin steps => Before(e, c, offset, j + 1) = Before(e, c, offset, j)
           /\ j \in steps => GrowsBy(e, c, offset, j)
<1>1. \A a \in 1 .. c : e[a] \in steps /\ e[a] \in Int
  BY DEF Enumerates
<1>2. \A k \in offset + 1 .. offset + c : k - offset \in 1 .. c
  OBVIOUS
<1>3. \A a, b \in 1 .. c : e[a] = e[b] => a = b
  <2>1. ASSUME NEW a \in 1 .. c, NEW b \in 1 .. c, a < b PROVE e[a] # e[b]
    <3>1. e[a] < e[b]
      BY <2>1 DEF Enumerates
    <3> QED BY <1>1, <3>1
  <2>2. \A a, b \in 1 .. c : a # b => a < b \/ b < a
    OBVIOUS
  <2> QED BY <2>1, <2>2
<1>4. ASSUME j \notin steps
      PROVE  Before(e, c, offset, j + 1) = Before(e, c, offset, j)
  <2>1. ASSUME NEW k \in offset + 1 .. offset + c
        PROVE  e[k - offset] < j + 1 <=> e[k - offset] < j
    <3>1. e[k - offset] \in Int /\ e[k - offset] # j
      BY <1>1, <1>2, <1>4
    <3> QED BY <3>1
  <2> QED BY <2>1 DEF Before
<1>5. ASSUME j \in steps
      PROVE  GrowsBy(e, c, offset, j)
  <2>1. PICK a \in 1 .. c : e[a] = j
    BY <1>5 DEF Enumerates, Range
  <2>2. PICK k : k = a + offset
    OBVIOUS
  <2>3. k \in offset + 1 .. offset + c /\ k - offset = a
    BY <2>2
  <2>4. k \notin Before(e, c, offset, j)
    BY <2>1, <2>3 DEF Before
  <2>5. ASSUME NEW h \in offset + 1 .. offset + c
        PROVE  e[h - offset] < j + 1 <=> e[h - offset] < j \/ h = k
    <3>1. h - offset \in 1 .. c /\ e[h - offset] \in Int
      BY <1>1, <1>2
    <3>2. e[h - offset] = j <=> h = k
      <4>1. e[h - offset] = j => h - offset = a
        BY <1>3, <2>1, <3>1
      <4> QED BY <2>1, <2>3, <3>1, <4>1
    <3> QED BY <3>1, <3>2
  <2>6. Before(e, c, offset, j + 1) = Before(e, c, offset, j) \cup {k}
    BY <2>3, <2>5 DEF Before
  <2> QED BY <2>1, <2>3, <2>4, <2>6 DEF GrowsBy
<1> QED BY <1>4, <1>5

Within(steps, n) == steps \subseteq 0 .. n - 1

LEMMA BeforeStarts ==
    ASSUME NEW c \in Nat, NEW n \in Nat, NEW steps, Within(steps, n),
           NEW e, Enumerates(e, c, steps), NEW offset \in Nat
    PROVE  Before(e, c, offset, 0) = {}
<1>1. \A k \in offset + 1 .. offset + c : e[k - offset] \in 0 .. n - 1
  <2>1. \A k \in offset + 1 .. offset + c : k - offset \in 1 .. c
    OBVIOUS
  <2> QED BY <2>1 DEF Enumerates, Within
<1>2. \A k \in offset + 1 .. offset + c : ~(e[k - offset] < 0) /\ e[k - offset] < n
  BY <1>1
<1> QED BY <1>2 DEF Before

LEMMA BeforeEnds ==
    ASSUME NEW c \in Nat, NEW n \in Nat, NEW steps, Within(steps, n),
           NEW e, Enumerates(e, c, steps), NEW offset \in Nat
    PROVE  Before(e, c, offset, n) = offset + 1 .. offset + c
<1>1. \A k \in offset + 1 .. offset + c : e[k - offset] \in 0 .. n - 1
  <2>1. \A k \in offset + 1 .. offset + c : k - offset \in 1 .. c
    OBVIOUS
  <2> QED BY <2>1 DEF Enumerates, Within
<1>2. \A k \in offset + 1 .. offset + c : ~(e[k - offset] < 0) /\ e[k - offset] < n
  BY <1>1
<1> QED BY <1>2 DEF Before

LEMMA IntervalSize ==
    ASSUME NEW a \in Nat, NEW n \in Nat
    PROVE  Cardinality(a + 1 .. a + n) = n
<1>1. PICK lo, hi : lo = a + 1 /\ hi = a + n
  OBVIOUS
<1>2. lo \in Int /\ hi \in Int
  BY <1>1
<1>3. Cardinality(lo .. hi) = IF lo > hi THEN 0 ELSE hi - lo + 1
  BY <1>2, FS_Interval
<1> QED BY <1>1, <1>3

LEMMA BeforeIsFinite ==
    ASSUME NEW c \in Nat, NEW e, NEW offset \in Nat, NEW j
    PROVE  IsFiniteSet(Before(e, c, offset, j)) /\ Cardinality(Before(e, c, offset, j)) \in Nat
<1>1. IsFiniteSet(offset + 1 .. offset + c)
  BY FS_Interval
<1>2. Before(e, c, offset, j) \in SUBSET (offset + 1 .. offset + c)
  BY DEF Before
<1> QED BY <1>1, <1>2, FS_Subset, FS_CardinalityType

-----------------------------------------------------------------------------
(* The sequence of the fills, bids first.                                  *)

FillOf(e, f, c, ofBid, ofAsk, k) == IF k <= c THEN ofBid[e[k]] ELSE ofAsk[f[k - c]]

(* The enumerations of the fills of the path.                              *)
FillsAre(e, f, c, d) ==
    /\ c = Cardinality(Bids) /\ d = Cardinality(Asks) /\ c \in Nat /\ d \in Nat
    /\ e = FlatNonzero(Bids) /\ f = FlatNonzero(Asks)
    /\ Enumerates(e, c, Bids) /\ Enumerates(f, d, Asks)

LEMMA FillsExist ==
    ASSUME TypeOK
    PROVE  \E e, f, c, d : FillsAre(e, f, c, d)
<1>1. N \in Nat /\ Bids \in SUBSET (0 .. N - 1) /\ Asks \in SUBSET (0 .. N - 1)
  BY PathAssumption DEF Bids, Asks, Steps
<1>2. /\ Cardinality(Bids) \in Nat /\ Enumerates(FlatNonzero(Bids), Cardinality(Bids), Bids)
      /\ Cardinality(Asks) \in Nat /\ Enumerates(FlatNonzero(Asks), Cardinality(Asks), Asks)
  BY <1>1, FlatNonzeroIs
<1> QED BY <1>2 DEF FillsAre

Follows(s, of, e, c, V) ==
    s \in Seq(V) /\ Len(s) = c /\ \A k \in 1 .. c : s[k] = of[e[k]]

LEMMA InOrderIs ==
    ASSUME NEW steps, NEW c \in Nat, Enumerates(FlatNonzero(steps), c, steps),
           NEW V, NEW of \in [steps -> V]
    PROVE  Follows(InOrder(of), of, FlatNonzero(steps), c, V)
<1>1. PICK e : e = FlatNonzero(steps)
  OBVIOUS
<1>2. DOMAIN of = steps /\ DOMAIN e = 1 .. c /\ \A k \in 1 .. c : e[k] \in steps
  BY <1>1 DEF Enumerates
<1>3. InOrder(of) = [k \in 1 .. c |-> of[e[k]]]
  BY <1>1, <1>2 DEF InOrder
<1>4. InOrder(of) \in [1 .. c -> V]
  BY <1>2, <1>3
<1> QED BY <1>1, <1>3, <1>4 DEF Follows

RowsAre(all, e, f, c, d, ofBid, ofAsk) ==
    /\ Len(all) = c + d /\ DOMAIN all = 1 .. c + d
    /\ \A k \in 1 .. c + d : all[k] = FillOf(e, f, c, ofBid, ofAsk, k)

LEMMA BidsThenAsksIs ==
    ASSUME NEW e, NEW f, NEW c, NEW d, FillsAre(e, f, c, d),
           NEW V, NEW ofBid \in [Bids -> V], NEW ofAsk \in [Asks -> V]
    PROVE  RowsAre(BidsThenAsks(ofBid, ofAsk), e, f, c, d, ofBid, ofAsk)
<1>0. /\ c \in Nat /\ e = FlatNonzero(Bids) /\ Enumerates(FlatNonzero(Bids), c, Bids)
      /\ d \in Nat /\ f = FlatNonzero(Asks) /\ Enumerates(FlatNonzero(Asks), d, Asks)
  BY DEF FillsAre
<1>1. PICK s, t : s = InOrder(ofBid) /\ t = InOrder(ofAsk)
  OBVIOUS
<1>2. s \in Seq(V) /\ Len(s) = c /\ \A k \in 1 .. c : s[k] = ofBid[e[k]]
  <2>1. Follows(InOrder(ofBid), ofBid, FlatNonzero(Bids), c, V)
    BY <1>0, InOrderIs
  <2> QED BY <1>0, <1>1, <2>1 DEF Follows
<1>3. t \in Seq(V) /\ Len(t) = d /\ \A k \in 1 .. d : t[k] = ofAsk[f[k]]
  <2>1. Follows(InOrder(ofAsk), ofAsk, FlatNonzero(Asks), d, V)
    BY <1>0, InOrderIs
  <2> QED BY <1>0, <1>1, <2>1 DEF Follows
<1>4. PICK all : all = s \o t
  OBVIOUS
<1>5. all \in Seq(V) /\ Len(all) = c + d
      /\ \A k \in 1 .. c + d : all[k] = IF k <= c THEN s[k] ELSE t[k - c]
  BY <1>2, <1>3, <1>4, ConcatProperties
<1>6. c \in Nat /\ d \in Nat
  BY DEF FillsAre
<1>7. \A k \in 1 .. c + d : all[k] = FillOf(e, f, c, ofBid, ofAsk, k)
  BY <1>2, <1>3, <1>5, <1>6 DEF FillOf
<1>8. DOMAIN all = 1 .. c + d
  BY <1>5
<1> QED BY <1>1, <1>4, <1>5, <1>7, <1>8 DEF BidsThenAsks, RowsAre
-----------------------------------------------------------------------------
(* Maxima.                                                                 *)

AtMost(S, x) == S \subseteq Int /\ \A y \in S : y <= x

LEMMA MaxOf ==
    ASSUME NEW S, NEW x \in S, AtMost(S, x)
    PROVE  Max(S) = x
<1>0. S \subseteq Int /\ \A y \in S : y <= x
  BY DEF AtMost
<1>1. PICK m : m = Max(S)
  OBVIOUS
<1>2. m \in S /\ \A y \in S : m >= y
  BY <1>0, <1>1 DEF Max
<1>3. m \in Int /\ x \in Int /\ m >= x /\ m <= x
  BY <1>0, <1>2
<1> QED BY <1>1, <1>3

LEMMA MaxOfTwo ==
    ASSUME NEW x \in Int, NEW y \in Int
    PROVE  Max({x, y}) = IF x <= y THEN y ELSE x
<1>1. PICK S : S = {x, y}
  OBVIOUS
<1>2. CASE x <= y
  <2>1. y \in S /\ AtMost(S, y)
    BY <1>1, <1>2 DEF AtMost
  <2> QED BY <1>1, <1>2, <2>1, MaxOf
<1>3. CASE ~(x <= y)
  <2>1. x \in S /\ AtMost(S, x)
    BY <1>1, <1>3 DEF AtMost
  <2> QED BY <1>1, <1>3, <2>1, MaxOf
<1> QED BY <1>2, <1>3

Highest(f, m, n) == m \in 0 .. n /\ \A k \in 0 .. n : f[k] <= f[m]

LEMMA HighestExists ==
    ASSUME NEW n \in Nat, NEW f, IntOn(f, 0 .. n)
    PROVE  \E m : Highest(f, m, n)
<1> DEFINE T == {h \in Nat : h <= n => \E m : Highest(f, m, h)}
<1>1. 0 \in T
  <2>1. f[0] \in Int /\ \A k \in 0 .. 0 : k = 0
    BY DEF IntOn
  <2> QED BY <2>1 DEF Highest
<1>2. ASSUME NEW h \in Nat, h \in T PROVE h + 1 \in T
  <2> SUFFICES ASSUME h + 1 <= n PROVE \E m : Highest(f, m, h + 1)
    OBVIOUS
  <2>1. PICK m : Highest(f, m, h)
    BY <1>2
  <2>2. m \in 0 .. h /\ \A k \in 0 .. h : f[k] <= f[m]
    BY <2>1 DEF Highest
  <2>3. \A k \in 0 .. h + 1 : f[k] \in Int /\ (k \in 0 .. h \/ k = h + 1)
    BY DEF IntOn
  <2>4. m \in 0 .. h + 1 /\ h + 1 \in 0 .. h + 1
    BY <2>2
  <2>5. CASE f[m] <= f[h + 1]
    <3>1. ASSUME NEW k \in 0 .. h + 1 PROVE f[k] <= f[h + 1]
      BY <2>2, <2>3, <2>4, <2>5
    <3> QED BY <2>4, <3>1 DEF Highest
  <2>6. CASE ~(f[m] <= f[h + 1])
    <3>1. f[h + 1] <= f[m]
      BY <2>3, <2>4, <2>6
    <3>2. ASSUME NEW k \in 0 .. h + 1 PROVE f[k] <= f[m]
      BY <2>2, <2>3, <3>1
    <3> QED BY <2>4, <3>2 DEF Highest
  <2> QED BY <2>5, <2>6
<1>3. Nat \subseteq T
  <2> HIDE DEF T
  <2> QED BY <1>1, <1>2, SetInduction
<1> QED BY <1>3

(* The running maximum is at least every point so far, and one of them.    *)
Peaks(g, curve) ==
    g = [j \in Grid |-> IF j = 0 THEN curve[0] ELSE Max({g[j - 1], curve[j]})]
PeakOf(x, curve, j) ==
    x \in Int /\ (\A k \in 0 .. j : curve[k] <= x) /\ \E k \in 0 .. j : x = curve[k]

LEMMA NextPeak ==
    ASSUME NEW curve, NEW j \in Nat, IntOn(curve, 0 .. j + 1), NEW x, PeakOf(x, curve, j)
    PROVE  PeakOf(Max({x, curve[j + 1]}), curve, j + 1)
<1>1. x \in Int /\ (\A k \in 0 .. j : curve[k] <= x) /\ \E k \in 0 .. j : x = curve[k]
  BY DEF PeakOf
<1>2. \A k \in 0 .. j + 1 : curve[k] \in Int
  BY DEF IntOn
<1>3. \A k \in 0 .. j + 1 : k \in 0 .. j \/ k = j + 1
  OBVIOUS
<1>4. \A k \in 0 .. j : k \in 0 .. j + 1
  OBVIOUS
<1>5. PICK y : y = curve[j + 1] /\ y \in Int
  BY <1>2
<1>6. PICK m : m = Max({x, y})
  OBVIOUS
<1>7. m = IF x <= y THEN y ELSE x
  BY <1>1, <1>5, <1>6, MaxOfTwo
<1>8. ASSUME NEW k \in 0 .. j + 1 PROVE curve[k] <= m
  BY <1>1, <1>2, <1>3, <1>5, <1>7
<1>9. \E k \in 0 .. j + 1 : m = curve[k]
  BY <1>1, <1>4, <1>5, <1>7
<1> QED BY <1>1, <1>5, <1>6, <1>7, <1>8, <1>9 DEF PeakOf

LEMMA OnePeak ==
    ASSUME NEW curve, NEW j \in Nat, NEW x, PeakOf(x, curve, j), NEW y, PeakOf(y, curve, j)
    PROVE  x = y
<1>1. PICK k \in 0 .. j : x = curve[k]
  BY DEF PeakOf
<1>2. PICK m \in 0 .. j : y = curve[m]
  BY DEF PeakOf
<1>3. curve[m] <= x /\ curve[k] <= y /\ x \in Int /\ y \in Int
  BY DEF PeakOf
<1> QED BY <1>1, <1>2, <1>3

LEMMA RunningMaxIs ==
    ASSUME NEW curve, IntOn(curve, Grid)
    PROVE  \A j \in Grid : PeakOf(RunningMax(curve)[j], curve, j)
<1>0. N \in Nat /\ \A j \in 0 .. N : j \in Grid /\ curve[j] \in Int
  BY PathAssumption DEF Grid, IntOn
<1> DEFINE r == [j \in Grid |-> Max({curve[k] : k \in 0 .. j})]
           g == CHOOSE g : Peaks(g, curve)
<1>1. ASSUME NEW j \in Grid PROVE PeakOf(r[j], curve, j)
  <2>1. j \in Nat /\ \A k \in 0 .. j : curve[k] \in Int
    BY <1>0 DEF Grid
  <2>2. PICK m : Highest(curve, m, j)
    BY <2>1, HighestExists DEF IntOn
  <2>3. m \in 0 .. j /\ \A k \in 0 .. j : curve[k] <= curve[m]
    BY <2>2 DEF Highest
  <2>4. PICK S : S = {curve[k] : k \in 0 .. j}
    OBVIOUS
  <2>5. curve[m] \in S /\ AtMost(S, curve[m])
    BY <2>1, <2>3, <2>4 DEF AtMost
  <2>6. r[j] = curve[m]
    BY <2>4, <2>5, MaxOf
  <2> HIDE DEF r
  <2> QED BY <2>1, <2>3, <2>6 DEF PeakOf
<1>2. ASSUME NEW j \in Grid
      PROVE  r[j] = IF j = 0 THEN curve[0] ELSE Max({r[j - 1], curve[j]})
  <2> HIDE DEF r
  <2>1. CASE j = 0
    BY <1>1, <2>1 DEF PeakOf
  <2>2. CASE j # 0
    <3>1. PICK h \in Nat : j = h + 1 /\ h \in Grid
      BY <1>0, <2>2 DEF Grid
    <3>2. PeakOf(r[h], curve, h) /\ PeakOf(r[j], curve, h + 1)
      BY <1>1, <3>1
    <3>3. IntOn(curve, 0 .. h + 1)
      BY <1>0, <3>1 DEF IntOn, Grid
    <3>4. PICK x : x = Max({r[h], curve[h + 1]}) /\ PeakOf(x, curve, h + 1)
      BY <3>2, <3>3, NextPeak
    <3>5. x = r[j]
      BY <3>1, <3>2, <3>4, OnePeak
    <3> QED BY <2>2, <3>1, <3>4, <3>5
  <2> QED BY <2>1, <2>2
<1>3. Peaks(r, curve)
  BY <1>2 DEF Peaks
<1>4. Peaks(g, curve)
  BY <1>3
<1>5. RunningMax(curve) = g
  BY DEF RunningMax, Peaks
<1> HIDE DEF r, g
<1>6. \A j \in Grid : g[j] = IF j = 0 THEN curve[0] ELSE Max({g[j - 1], curve[j]})
  BY <1>4 DEF Peaks
<1> DEFINE T == {j \in Nat : j <= N => PeakOf(g[j], curve, j)}
<1>7. 0 \in T
  <2>1. 0 \in Grid
    BY <1>0 DEF Grid
  <2>2. g[0] = curve[0] /\ curve[0] \in Int
    BY <1>0, <1>6, <2>1 DEF Grid
  <2>3. \A k \in 0 .. 0 : k = 0
    OBVIOUS
  <2> QED BY <2>2, <2>3 DEF PeakOf
<1>8. ASSUME NEW h \in Nat, h \in T PROVE h + 1 \in T
  <2> SUFFICES ASSUME h + 1 <= N PROVE PeakOf(g[h + 1], curve, h + 1)
    OBVIOUS
  <2>1. h + 1 \in Grid /\ (h + 1) - 1 = h /\ h + 1 # 0 /\ PeakOf(g[h], curve, h)
    BY <1>0, <1>8 DEF Grid
  <2>2. g[h + 1] = Max({g[h], curve[h + 1]})
    BY <1>6, <2>1
  <2>3. IntOn(curve, 0 .. h + 1)
    BY <1>0 DEF IntOn, Grid
  <2> QED BY <2>1, <2>2, <2>3, NextPeak
<1>9. Nat \subseteq T
  <2> HIDE DEF T
  <2> QED BY <1>7, <1>8, SetInduction
<1> QED BY <1>0, <1>5, <1>9 DEF Grid
(* A curve that never falls from one point to the next never falls.        *)
LEMMA NeverFalls ==
    ASSUME NEW curve, IntOn(curve, Grid), \A j \in Steps : curve[j] <= curve[j + 1],
           NEW j \in Grid, NEW k \in Grid, j <= k
    PROVE  curve[j] <= curve[k]
<1>0. N \in Nat /\ \A h \in 0 .. N : curve[h] \in Int
  BY PathAssumption DEF Grid, IntOn
<1> DEFINE T == {h \in Nat : j + h <= N => curve[j] <= curve[j + h]}
<1>1. 0 \in T
  <2>1. j + 0 = j /\ curve[j] \in Int
    BY <1>0 DEF Grid
  <2> QED BY <2>1
<1>2. ASSUME NEW h \in Nat, h \in T PROVE h + 1 \in T
  <2> SUFFICES ASSUME j + (h + 1) <= N PROVE curve[j] <= curve[j + (h + 1)]
    OBVIOUS
  <2>1. PICK a : a = j + h
    OBVIOUS
  <2>2. a \in Steps /\ a \in 0 .. N /\ a + 1 \in 0 .. N /\ j \in 0 .. N /\ j + (h + 1) = a + 1
    BY <1>0, <2>1 DEF Steps, Grid
  <2>3. curve[j] <= curve[a] /\ curve[a] <= curve[a + 1]
    BY <1>2, <2>1, <2>2
  <2> QED BY <1>0, <2>2, <2>3
<1>3. Nat \subseteq T
  <2> HIDE DEF T
  <2> QED BY <1>1, <1>2, SetInduction
<1>4. PICK h \in Nat : h = k - j /\ j + h = k /\ k <= N
  BY <1>0 DEF Grid
<1>5. h \in T
  BY <1>3
<1> QED BY <1>4, <1>5

(* The drawdown of any finished path is its worst loss.                    *)
LEMMA DrawdownOfAnyCurve ==
    ASSUME TypeOK
    PROVE  DrawdownIsWorstLoss
<1>0. N \in Nat /\ \A h \in Grid : h \in 0 .. N
  BY PathAssumption DEF Grid
<1>1. PICK pnl : pnl = MtmPnl /\ IntOn(pnl, Grid)
  <2>1. \A j \in Grid : MtmPnl[j] \in Int
    BY DEF MtmPnl, TypeOK
  <2> QED BY <2>1 DEF IntOn
<1>2. PICK peak : peak = RunningMax(pnl)
  OBVIOUS
<1>3. \A j \in Grid : PeakOf(peak[j], pnl, j)
  BY <1>1, <1>2, RunningMaxIs
<1>4. PICK loss : loss = [j \in Grid |-> peak[j] - pnl[j]] /\ IntOn(loss, 0 .. N)
  <2>1. \A j \in Grid : peak[j] - pnl[j] \in Int
    BY <1>1, <1>3 DEF IntOn, PeakOf
  <2>2. PICK loss : loss = [j \in Grid |-> peak[j] - pnl[j]]
    OBVIOUS
  <2>3. \A j \in 0 .. N : loss[j] \in Int
    BY <2>1, <2>2 DEF Grid
  <2> QED BY <2>2, <2>3 DEF IntOn
<1>5. PICK m : Highest(loss, m, N)
  BY <1>0, <1>4, HighestExists
<1>6. m \in Grid /\ \A k \in Grid : loss[k] <= loss[m] /\ loss[k] \in Int
  BY <1>4, <1>5 DEF Highest, Grid, IntOn
<1>7. MaxDrawdown = loss[m]
  <2>1. PICK S : S = {peak[j] - pnl[j] : j \in Grid}
    OBVIOUS
  <2>2. loss[m] \in S /\ AtMost(S, loss[m])
    BY <1>4, <1>6, <2>1 DEF AtMost
  <2>3. Max(S) = loss[m]
    BY <2>2, MaxOf
  <2> QED BY <1>1, <1>2, <2>1, <2>3 DEF MaxDrawdown
<1>8. PICK worst : worst = MaxDrawdown /\ worst = loss[m] /\ worst \in Int
  BY <1>6, <1>7
<1>9. ASSUME NEW j \in Grid, NEW k \in Grid, j <= k PROVE pnl[j] - pnl[k] <= worst
  <2>1. j \in 0 .. k /\ PeakOf(peak[k], pnl, k)
    BY <1>0, <1>3, <1>9
  <2>2. pnl[j] <= peak[k] /\ peak[k] \in Int /\ pnl[j] \in Int /\ pnl[k] \in Int
    BY <1>1, <2>1 DEF PeakOf, IntOn
  <2>3. peak[k] - pnl[k] <= worst
    BY <1>4, <1>6, <1>8
  <2> QED BY <1>8, <2>2, <2>3
<1>10. PICK j \in Grid, k \in Grid : j <= k /\ pnl[j] - pnl[k] = worst
  <2>1. PeakOf(peak[m], pnl, m) /\ worst = peak[m] - pnl[m]
    BY <1>3, <1>4, <1>6, <1>8
  <2>2. PICK j \in 0 .. m : peak[m] = pnl[j]
    BY <2>1 DEF PeakOf
  <2>3. j \in Grid /\ j <= m
    BY <1>0, <1>6 DEF Grid
  <2> QED BY <1>6, <2>1, <2>2, <2>3
<1>11. ASSUME worst = 0, NEW h \in Steps PROVE pnl[h] <= pnl[h + 1]
  <2>1. h \in Grid /\ h + 1 \in Grid /\ h <= h + 1
    BY <1>0 DEF Steps, Grid
  <2>2. pnl[h] - pnl[h + 1] <= 0 /\ pnl[h] \in Int /\ pnl[h + 1] \in Int
    BY <1>1, <1>9, <1>11, <2>1 DEF IntOn
  <2> QED BY <2>2
<1>12. ASSUME \A h \in Steps : pnl[h] <= pnl[h + 1] PROVE worst = 0
  <2>1. pnl[j] <= pnl[k] /\ pnl[j] \in Int /\ pnl[k] \in Int
    BY <1>1, <1>10, <1>12, NeverFalls DEF IntOn
  <2>2. pnl[j] - pnl[j] <= worst
    BY <1>9, <1>0
  <2> QED BY <1>8, <1>10, <2>1, <2>2
<1> QED BY <1>1, <1>8, <1>9, <1>10, <1>11, <1>12 DEF DrawdownIsWorstLoss

(* Property 19 of the design, for every path: the maximum drawdown that    *)
(* analytics.py reports is the worst loss between a point of the path and  *)
(* a later one, and zero just when the profit never falls.                 *)
THEOREM DrawdownIsTheWorstLoss == Spec => []DrawdownIsWorstLoss
BY TypeCorrect, DrawdownOfAnyCurve, PTL
-----------------------------------------------------------------------------
(* What the rows of a side add up to, one step of the path after another.  *)

Weighs(p, w, e, c, offset) ==
    \A k \in offset + 1 .. offset + c : p[k] = w[e[k - offset]] /\ p[k] \in Int

LEMMA RowsOfAStep ==
    ASSUME NEW c \in Nat, NEW steps \in SUBSET Int, NEW e, Enumerates(e, c, steps),
           NEW offset \in Nat, NEW j \in Int
    PROVE  Cardinality(Before(e, c, offset, j + 1))
              = Cardinality(Before(e, c, offset, j)) + (IF j \in steps THEN 1 ELSE 0)
<1>1. PICK s, t : s = Before(e, c, offset, j) /\ t = Before(e, c, offset, j + 1)
  OBVIOUS
<1>2. IsFiniteSet(s) /\ Cardinality(s) \in Nat
  BY <1>1, BeforeIsFinite
<1>3. CASE j \in steps
  <2>0. GrowsBy(e, c, offset, j)
    BY <1>3, BeforeGrows
  <2>1. PICK k : k \notin s /\ t = s \cup {k}
    BY <1>1, <2>0 DEF GrowsBy
  <2>2. Cardinality(s \cup {k}) = Cardinality(s) + 1
    BY <1>2, <2>1, FS_AddElement
  <2> QED BY <1>1, <1>3, <2>1, <2>2
<1>4. CASE j \notin steps
  <2>1. t = s
    BY <1>1, <1>4, BeforeGrows
  <2> QED BY <1>1, <1>2, <1>4, <2>1
<1> QED BY <1>3, <1>4

AddsUp(p, w, e, c, offset, steps, j) ==
    /\ SumFunctionOnSet(p, Before(e, c, offset, j)) \in Int
    /\ SumFunctionOnSet(p, Before(e, c, offset, j + 1))
         = SumFunctionOnSet(p, Before(e, c, offset, j)) + (IF j \in steps THEN w[j] ELSE 0)

LEMMA SumOfAStep ==
    ASSUME NEW c \in Nat, NEW steps \in SUBSET Int, NEW e, Enumerates(e, c, steps),
           NEW offset \in Nat, NEW j \in Int, NEW p, NEW w, Weighs(p, w, e, c, offset)
    PROVE  AddsUp(p, w, e, c, offset, steps, j)
<1>1. PICK s, t : s = Before(e, c, offset, j) /\ t = Before(e, c, offset, j + 1)
  OBVIOUS
<1>2. IsFiniteSet(s) /\ s \subseteq offset + 1 .. offset + c
  BY <1>1, BeforeIsFinite DEF Before
<1>3. \A k \in offset + 1 .. offset + c : p[k] = w[e[k - offset]] /\ p[k] \in Int
  BY DEF Weighs
<1>4. SumFunctionOnSet(p, s) \in Int
  <2>1. PICK g : Sums(g, p, s) /\ SumFunctionOnSet(p, s) = g[s]
    BY <1>2, SumIs
  <2>2. IntOn(p, s) /\ s \in SUBSET s
    BY <1>2, <1>3 DEF IntOn
  <2> QED BY <1>2, <2>1, <2>2, SumsAgree
<1>5. ASSUME j \in steps PROVE SumFunctionOnSet(p, t) = SumFunctionOnSet(p, s) + w[j]
  <2>0. GrowsBy(e, c, offset, j)
    BY <1>5, BeforeGrows
  <2>1. PICK k \in offset + 1 .. offset + c : e[k - offset] = j /\ k \notin s /\ t = s \cup {k}
    BY <1>1, <2>0 DEF GrowsBy
  <2>2. IntOn(p, s \cup {k}) /\ p[k] = w[j]
    BY <1>2, <1>3, <2>1 DEF IntOn
  <2>3. SumFunctionOnSet(p, s \cup {k}) = SumFunctionOnSet(p, s) + p[k]
    BY <1>2, <2>1, <2>2, SumOfMore
  <2> QED BY <1>1, <1>4, <1>5, <2>1, <2>2, <2>3
<1>6. ASSUME j \notin steps PROVE SumFunctionOnSet(p, t) = SumFunctionOnSet(p, s) + 0
  <2>1. t = s
    BY <1>1, <1>6, BeforeGrows
  <2> QED BY <1>1, <1>4, <1>6, <2>1
<1>7. SumFunctionOnSet(p, t) = SumFunctionOnSet(p, s) + (IF j \in steps THEN w[j] ELSE 0)
  BY <1>5, <1>6
<1> QED BY <1>1, <1>4, <1>7 DEF AddsUp

(* The sum over all rows is the sum over the bids and that over the asks.  *)
LEMMA SumOfSides ==
    ASSUME NEW c \in Nat, NEW d \in Nat, NEW p, IntOn(p, 1 .. c + d)
    PROVE  SumFunctionOnSet(p, 1 .. c + d)
              = SumFunctionOnSet(p, 1 .. c) + SumFunctionOnSet(p, c + 1 .. c + d)
<1> DEFINE T == {h \in Nat : h <= d =>
                    /\ SumFunctionOnSet(p, c + 1 .. c + h) \in Int
                    /\ SumFunctionOnSet(p, 1 .. c) \in Int
                    /\ SumFunctionOnSet(p, 1 .. c + h)
                         = SumFunctionOnSet(p, 1 .. c) + SumFunctionOnSet(p, c + 1 .. c + h)}
<1>0. \A k \in 1 .. c + d : p[k] \in Int
  BY DEF IntOn
<1>1. 0 \in T
  <2>1. c + 1 .. c + 0 = {} /\ 1 .. c + 0 = 1 .. c
    OBVIOUS
  <2>2. SumFunctionOnSet(p, {}) = 0
    BY SumOfNone
  <2>3. SumFunctionOnSet(p, 1 .. c) \in Int
    <3>1. PICK S : S = 1 .. c /\ IsFiniteSet(S)
      BY FS_Interval
    <3>2. PICK g : Sums(g, p, S) /\ SumFunctionOnSet(p, S) = g[S]
      BY <3>1, SumIs
    <3>3. IntOn(p, S) /\ S \in SUBSET S
      BY <1>0, <3>1 DEF IntOn
    <3>4. g[S] \in Int
      BY <3>1, <3>2, <3>3, SumsAgree
    <3> QED BY <3>1, <3>2, <3>4
  <2> QED BY <2>1, <2>2, <2>3
<1>2. ASSUME NEW h \in Nat, h \in T PROVE h + 1 \in T
  <2> SUFFICES ASSUME h + 1 <= d
      PROVE /\ SumFunctionOnSet(p, c + 1 .. c + (h + 1)) \in Int
            /\ SumFunctionOnSet(p, 1 .. c) \in Int
            /\ SumFunctionOnSet(p, 1 .. c + (h + 1))
                 = SumFunctionOnSet(p, 1 .. c) + SumFunctionOnSet(p, c + 1 .. c + (h + 1))
    OBVIOUS
  <2>1. PICK A, B, k : A = 1 .. c + h /\ B = c + 1 .. c + h /\ k = c + h + 1
    OBVIOUS
  <2>2. k \notin A /\ k \notin B /\ A \cup {k} = 1 .. c + (h + 1)
        /\ B \cup {k} = c + 1 .. c + (h + 1)
    BY <2>1
  <2>3. IsFiniteSet(A) /\ IsFiniteSet(B)
    BY <2>1, FS_Interval
  <2>4. IntOn(p, A \cup {k}) /\ IntOn(p, B \cup {k}) /\ p[k] \in Int
    BY <1>0, <2>1 DEF IntOn
  <2>5. SumFunctionOnSet(p, A \cup {k}) = SumFunctionOnSet(p, A) + p[k]
    BY <2>2, <2>3, <2>4, SumOfMore
  <2>6. SumFunctionOnSet(p, B \cup {k}) = SumFunctionOnSet(p, B) + p[k]
    BY <2>2, <2>3, <2>4, SumOfMore
  <2>7. /\ SumFunctionOnSet(p, B) \in Int /\ SumFunctionOnSet(p, 1 .. c) \in Int
        /\ SumFunctionOnSet(p, A) = SumFunctionOnSet(p, 1 .. c) + SumFunctionOnSet(p, B)
    BY <1>2, <2>1
  <2>8. PICK x, y, z : /\ x = SumFunctionOnSet(p, 1 .. c)
                       /\ y = SumFunctionOnSet(p, B) /\ z = SumFunctionOnSet(p, A)
    OBVIOUS
  <2>9. x \in Int /\ y \in Int /\ z = x + y
    BY <2>7, <2>8
  <2>10. /\ SumFunctionOnSet(p, 1 .. c + (h + 1)) = z + p[k]
         /\ SumFunctionOnSet(p, c + 1 .. c + (h + 1)) = y + p[k]
    BY <2>2, <2>5, <2>6, <2>8
  <2>11. z + p[k] = x + (y + p[k]) /\ y + p[k] \in Int
    BY <2>4, <2>9
  <2> QED BY <2>8, <2>9, <2>10, <2>11
<1>3. Nat \subseteq T
  <2> HIDE DEF T
  <2> QED BY <1>1, <1>2, SetInduction
<1>4. d \in T
  <2> HIDE DEF T
  <2> QED BY <1>3
<1> QED BY <1>4
-----------------------------------------------------------------------------
(* What the tables rest on: the books, which balance from step to step,    *)
(* start flat, and the counters are the numbers of the fills recorded.     *)
BidsDone == {j \in StepsDone : bidFill[j]}
AsksDone == {j \in StepsDone : askFill[j]}
StartsFlat == inventory[0] = 0 /\ cash[0] = 0
CountersCount == nBidFills = Cardinality(BidsDone) /\ nAskFills = Cardinality(AsksDone)
ReportInv == PnlInv /\ StartsFlat /\ CountersCount

LEMMA FillsDoneAreFinite ==
    ASSUME TypeOK
    PROVE  IsFiniteSet(BidsDone) /\ IsFiniteSet(AsksDone) /\ i \notin BidsDone /\ i \notin AsksDone
<1>1. IsFiniteSet(0 .. N - 1)
  BY PathAssumption, FS_Interval
<1>2. BidsDone \subseteq 0 .. N - 1 /\ AsksDone \subseteq 0 .. N - 1
  BY DEF BidsDone, AsksDone, StepsDone, Steps
<1>3. i \notin StepsDone
  BY DEF StepsDone, TypeOK
<1> QED BY <1>1, <1>2, <1>3, FS_Subset DEF BidsDone, AsksDone

LEMMA InitReportInv == Init => ReportInv
<1> SUFFICES ASSUME Init PROVE ReportInv
  OBVIOUS
<1>1. StepsDone = {} /\ 0 \in Grid /\ i # N + 1
  BY PathAssumption DEF Init, StepsDone, Steps, Grid
<1>2. LocalsCurrent /\ BooksBalance
  BY <1>1 DEF Init, LocalsCurrent, BooksBalance
<1>3. StartsFlat
  BY <1>1 DEF Init, StartsFlat
<1>4. BidsDone = {} /\ AsksDone = {}
  BY <1>1 DEF BidsDone, AsksDone
<1>5. Cardinality(BidsDone) = 0 /\ Cardinality(AsksDone) = 0
  BY <1>4, FS_EmptySet
<1>6. CountersCount
  BY <1>5 DEF Init, CountersCount
<1> QED BY <1>1, <1>2, <1>3, <1>6, InitTypeOK DEF ReportInv, PnlInv, BooksInv

LEMMA StepReportInv ==
    ASSUME ReportInv, Step
    PROVE  StartsFlat' /\ CountersCount'
<1> USE DEF ReportInv, PnlInv, BooksInv
<1>1. i \in Steps /\ i \in Grid /\ i + 1 \in Grid /\ 0 \in Grid /\ i + 1 # 0 /\ i \in Int
  BY PathAssumption DEF Step, TypeOK, Steps, Grid
<1>2. PICK filledB \in BidDraws, filledA \in AskDraws, sNext \in Prices :
        StepWith(filledB, filledA, sNext)
  BY DEF Step
<1>3. filledB \in BOOLEAN /\ filledA \in BOOLEAN
  BY DEF Draws, FillOutcomes, BidDraws, AskDraws
<1>4. StartsFlat'
  BY <1>1, <1>2 DEF StepWith, StartsFlat, TypeOK
<1>5. StepsDone' = StepsDone \cup {i}
  BY <1>1, <1>2 DEF StepWith, StepsDone, Steps
<1>6. bidFill'[i] = filledB /\ askFill'[i] = filledA
  BY <1>1, <1>2 DEF StepWith, TypeOK
<1>7. \A j \in StepsDone : bidFill'[j] = bidFill[j] /\ askFill'[j] = askFill[j]
  BY StepFrame
<1>8. /\ BidsDone' = IF filledB THEN BidsDone \cup {i} ELSE BidsDone
      /\ AsksDone' = IF filledA THEN AsksDone \cup {i} ELSE AsksDone
  BY <1>3, <1>5, <1>6, <1>7 DEF BidsDone, AsksDone
<1>9. /\ Cardinality(BidsDone \cup {i}) = Cardinality(BidsDone) + 1
      /\ Cardinality(AsksDone \cup {i}) = Cardinality(AsksDone) + 1
  BY FillsDoneAreFinite, FS_AddElement
<1>10. /\ nBidFills' = nBidFills + (IF filledB THEN 1 ELSE 0) /\ nBidFills \in Nat
       /\ nAskFills' = nAskFills + (IF filledA THEN 1 ELSE 0) /\ nAskFills \in Nat
  BY <1>2 DEF StepWith, AsUnits, TypeOK
<1>11. nBidFills' = Cardinality(BidsDone')
  BY <1>8, <1>9, <1>10 DEF CountersCount
<1>12. nAskFills' = Cardinality(AsksDone')
  BY <1>8, <1>9, <1>10 DEF CountersCount
<1> QED BY <1>4, <1>11, <1>12 DEF CountersCount

LEMMA NextReportInv == ReportInv /\ [Next]_vars => ReportInv'
<1> SUFFICES ASSUME ReportInv, [Next]_vars PROVE StartsFlat' /\ CountersCount'
  BY NextPnlInv DEF ReportInv
<1>1. CASE Step
  BY <1>1, StepReportInv
<1>2. CASE Terminal
  <2>1. StepsDone' = StepsDone
    BY <1>2, TerminalFrame DEF ReportInv, PnlInv, BooksInv
  <2> QED BY <1>2, <2>1 DEF Terminal, ReportInv, StartsFlat, CountersCount, BidsDone, AsksDone
<1>3. CASE UNCHANGED vars
  BY <1>3 DEF vars, ReportInv, StartsFlat, CountersCount, BidsDone, AsksDone, StepsDone
<1> QED BY <1>1, <1>2, <1>3 DEF Next

(* What a finished path gives the reader of its arrays.                    *)
Books(j) ==
    /\ inventory[j + 1] = inventory[j] + (IF j \in Bids THEN 1 ELSE 0) - (IF j \in Asks THEN 1 ELSE 0)
    /\ cash[j + 1] = cash[j] + (IF j \in Asks THEN askQuote[j] ELSE 0)
                             - (IF j \in Bids THEN bidQuote[j] ELSE 0)

LEMMA FinishedPath ==
    ASSUME ReportInv, Finished
    PROVE  /\ TypeOK /\ StartsFlat /\ N \in Nat
           /\ nBidFills = Cardinality(Bids) /\ nAskFills = Cardinality(Asks)
           /\ terminalPnl = Pnl(N)
           /\ \A j \in Bids : j \in Steps /\ bidQuote[j] \in Int
           /\ \A j \in Asks : j \in Steps /\ askQuote[j] \in Int
           /\ \A j \in Steps : Books(j) /\ j \in Grid /\ j + 1 \in Grid
<1> USE DEF ReportInv, PnlInv, BooksInv
<1>1. StepsDone = Steps
  BY PathAssumption DEF Finished, StepsDone, Steps
<1>2. BidsDone = Bids /\ AsksDone = Asks
  BY <1>1 DEF BidsDone, AsksDone, Bids, Asks
<1>3. \A j \in Steps : j \in Grid /\ j + 1 \in Grid
  BY PathAssumption DEF Steps, Grid
<1>4. \A j \in Bids : j \in Steps /\ bidQuote[j] \in Int
  BY <1>1, <1>3 DEF Bids, BooksBalance, TypeOK, Quotes
<1>5. \A j \in Asks : j \in Steps /\ askQuote[j] \in Int
  BY <1>1, <1>3 DEF Asks, BooksBalance, TypeOK, Quotes
<1>6. ASSUME NEW j \in Steps PROVE Books(j)
  <2>1. (j \in Bids <=> bidFill[j]) /\ (j \in Asks <=> askFill[j])
    BY DEF Bids, Asks
  <2> QED BY <1>1, <2>1 DEF Books, BooksBalance, AsUnits
<1> QED BY <1>2, <1>3, <1>4, <1>5, <1>6, PathAssumption DEF CountersCount, Finished
-----------------------------------------------------------------------------
(* The fills table.                                                        *)

TableIs(table, e, f, c, d) ==
    /\ Len(table) = c + d /\ DOMAIN table = 1 .. c + d
    /\ \A k \in 1 .. c : /\ table[k].side = "bid" /\ table[k].step = e[k]
                         /\ table[k].price = bidQuote[e[k]]
    /\ \A k \in c + 1 .. c + d : /\ table[k].side = "ask" /\ table[k].step = f[k - c]
                                 /\ table[k].price = askQuote[f[k - c]]

LEMMA TableRows ==
    ASSUME ReportInv, Finished, NEW e, NEW f, NEW c, NEW d, FillsAre(e, f, c, d)
    PROVE  TableIs(FillsTable, e, f, c, d)
<1> DEFINE V == [step : Steps, side : {"bid", "ask"}, price : Int]
           ofBid == [j \in Bids |-> [step |-> j, side |-> "bid", price |-> FillPrice(bidQuote, j)]]
           ofAsk == [j \in Asks |-> [step |-> j, side |-> "ask", price |-> FillPrice(askQuote, j)]]
<1>1. /\ \A j \in Bids : j \in Steps /\ bidQuote[j] \in Int
      /\ \A j \in Asks : j \in Steps /\ askQuote[j] \in Int
  BY FinishedPath
<1>2. ofBid \in [Bids -> V] /\ ofAsk \in [Asks -> V]
  BY <1>1 DEF FillPrice
<1>3. PICK table : table = FillsTable
  OBVIOUS
<1>4. table = BidsThenAsks(ofBid, ofAsk)
  BY <1>3 DEF FillsTable
<1>5. \A j \in Bids : ofBid[j] = [step |-> j, side |-> "bid", price |-> bidQuote[j]]
  BY DEF FillPrice
<1>6. \A j \in Asks : ofAsk[j] = [step |-> j, side |-> "ask", price |-> askQuote[j]]
  BY DEF FillPrice
<1> HIDE DEF V, ofBid, ofAsk
<1>7. /\ Len(table) = c + d /\ DOMAIN table = 1 .. c + d
      /\ \A k \in 1 .. c + d : table[k] = FillOf(e, f, c, ofBid, ofAsk, k)
  <2>1. RowsAre(BidsThenAsks(ofBid, ofAsk), e, f, c, d, ofBid, ofAsk)
    BY <1>2, BidsThenAsksIs
  <2> QED BY <1>4, <2>1 DEF RowsAre
<1>8. /\ c \in Nat /\ d \in Nat
      /\ \A k \in 1 .. c : e[k] \in Bids
      /\ \A k \in 1 .. d : f[k] \in Asks
  BY DEF FillsAre, Enumerates
<1>9. ASSUME NEW k \in 1 .. c
      PROVE  table[k] = [step |-> e[k], side |-> "bid", price |-> bidQuote[e[k]]]
  <2>1. k \in 1 .. c + d /\ k <= c /\ e[k] \in Bids
    BY <1>8
  <2> QED BY <1>5, <1>7, <2>1 DEF FillOf
<1>10. ASSUME NEW k \in c + 1 .. c + d
       PROVE  table[k] = [step |-> f[k - c], side |-> "ask", price |-> askQuote[f[k - c]]]
  <2>1. k \in 1 .. c + d /\ ~(k <= c) /\ k - c \in 1 .. d
    BY <1>8
  <2>2. f[k - c] \in Asks
    BY <2>1 DEF FillsAre, Enumerates
  <2> QED BY <1>6, <1>7, <2>1, <2>2 DEF FillOf
<1>11. \A k \in 1 .. c : /\ table[k].side = "bid" /\ table[k].step = e[k]
                          /\ table[k].price = bidQuote[e[k]]
  <2> TAKE k \in 1 .. c
  <2>1. table[k] = [step |-> e[k], side |-> "bid", price |-> bidQuote[e[k]]]
    BY <1>9
  <2> QED BY <2>1
<1>12. \A k \in c + 1 .. c + d : /\ table[k].side = "ask" /\ table[k].step = f[k - c]
                                 /\ table[k].price = askQuote[f[k - c]]
  <2> TAKE k \in c + 1 .. c + d
  <2>1. table[k] = [step |-> f[k - c], side |-> "ask", price |-> askQuote[f[k - c]]]
    BY <1>10
  <2> QED BY <2>1
<1>13. TableIs(table, e, f, c, d)
  BY <1>7, <1>11, <1>12 DEF TableIs
<1> QED BY <1>3, <1>13

LEMMA TableTellsPaths ==
    ASSUME ReportInv, Finished
    PROVE  FillsTellPaths
<1>0. /\ TypeOK /\ StartsFlat /\ N \in Nat
      /\ nBidFills = Cardinality(Bids) /\ nAskFills = Cardinality(Asks)
      /\ \A j \in Steps : Books(j) /\ j \in Grid /\ j + 1 \in Grid
  BY FinishedPath
<1>1. PICK e, f, c, d : FillsAre(e, f, c, d)
  BY <1>0, FillsExist
<1>2. /\ c \in Nat /\ d \in Nat /\ c = Cardinality(Bids) /\ d = Cardinality(Asks)
      /\ Enumerates(e, c, Bids) /\ Enumerates(f, d, Asks)
  BY <1>1 DEF FillsAre
<1>3. /\ Within(Bids, N) /\ Within(Asks, N)
      /\ Bids \in SUBSET Int /\ Asks \in SUBSET Int
  BY <1>0 DEF Bids, Asks, Steps, Within
<1>4. PICK table : table = FillsTable
  OBVIOUS
<1>5. /\ Len(table) = c + d /\ DOMAIN table = 1 .. c + d
      /\ \A k \in 1 .. c : /\ table[k].side = "bid" /\ table[k].step = e[k]
                           /\ table[k].price = bidQuote[e[k]]
      /\ \A k \in c + 1 .. c + d : /\ table[k].side = "ask" /\ table[k].step = f[k - c]
                                   /\ table[k].price = askQuote[f[k - c]]
  BY <1>1, <1>4, TableRows DEF TableIs
<1>6. PICK p : p = [k \in DOMAIN table |-> table[k].price]
  OBVIOUS
<1>7. Weighs(p, bidQuote, e, c, 0)
  <2>1. \A k \in 0 + 1 .. 0 + c : k \in 1 .. c /\ k \in 1 .. c + d /\ k - 0 = k
    BY <1>2
  <2>2. \A k \in 1 .. c : e[k] \in Bids
    BY <1>2 DEF Enumerates
  <2>3. \A j \in Bids : bidQuote[j] \in Int
    BY FinishedPath
  <2>4. \A k \in 1 .. c : table[k].price = bidQuote[e[k]]
    BY <1>5
  <2> QED BY <1>5, <1>6, <2>1, <2>2, <2>3, <2>4 DEF Weighs
<1>8. Weighs(p, askQuote, f, d, c)
  <2>1. \A k \in c + 1 .. c + d : k \in 1 .. c + d /\ k - c \in 1 .. d
    BY <1>2
  <2>2. \A k \in 1 .. d : f[k] \in Asks
    BY <1>2 DEF Enumerates
  <2>3. \A j \in Asks : askQuote[j] \in Int
    BY FinishedPath
  <2>4. \A k \in c + 1 .. c + d : table[k].price = askQuote[f[k - c]]
    BY <1>5
  <2> QED BY <1>5, <1>6, <2>1, <2>2, <2>3, <2>4 DEF Weighs
<1> DEFINE bids(j) == Before(e, c, 0, j)
           asks(j) == Before(f, d, c, j)
           Told(j) == /\ inventory[j] = Cardinality(bids(j)) - Cardinality(asks(j))
                      /\ cash[j] = SumFunctionOnSet(p, asks(j)) - SumFunctionOnSet(p, bids(j))
           T == {j \in Nat : j <= N => Told(j)}
<1>9. 0 \in T
  <2>1. bids(0) = {} /\ asks(0) = {}
    BY <1>0, <1>2, <1>3, BeforeStarts
  <2>2. Cardinality({}) = 0 /\ SumFunctionOnSet(p, {}) = 0
    BY FS_EmptySet, SumOfNone
  <2> QED BY <1>0, <2>1, <2>2 DEF StartsFlat
<1>10. ASSUME NEW j \in Nat, j \in T PROVE j + 1 \in T
  <2> SUFFICES ASSUME j + 1 <= N PROVE Told(j + 1)
    OBVIOUS
  <2>1. j \in Steps /\ j \in Int /\ Told(j)
    BY <1>0, <1>10 DEF Steps
  <2>2. Books(j)
    BY <1>0, <2>1
  <2>3. Cardinality(bids(j + 1)) = Cardinality(bids(j)) + (IF j \in Bids THEN 1 ELSE 0)
    BY <1>2, <1>3, <2>1, RowsOfAStep
  <2>4. Cardinality(asks(j + 1)) = Cardinality(asks(j)) + (IF j \in Asks THEN 1 ELSE 0)
    BY <1>2, <1>3, <2>1, RowsOfAStep
  <2>5. Cardinality(bids(j)) \in Nat /\ Cardinality(asks(j)) \in Nat
    BY <1>2, BeforeIsFinite
  <2>6. /\ SumFunctionOnSet(p, bids(j)) \in Int
        /\ SumFunctionOnSet(p, bids(j + 1))
             = SumFunctionOnSet(p, bids(j)) + (IF j \in Bids THEN bidQuote[j] ELSE 0)
    <3>1. AddsUp(p, bidQuote, e, c, 0, Bids, j)
      BY <1>2, <1>3, <1>7, <2>1, SumOfAStep
    <3> QED BY <3>1 DEF AddsUp
  <2>7. /\ SumFunctionOnSet(p, asks(j)) \in Int
        /\ SumFunctionOnSet(p, asks(j + 1))
             = SumFunctionOnSet(p, asks(j)) + (IF j \in Asks THEN askQuote[j] ELSE 0)
    <3>1. AddsUp(p, askQuote, f, d, c, Asks, j)
      BY <1>2, <1>3, <1>8, <2>1, SumOfAStep
    <3> QED BY <3>1 DEF AddsUp
  <2>8. j \in Bids => bidQuote[j] \in Int
    BY FinishedPath
  <2>9. j \in Asks => askQuote[j] \in Int
    BY FinishedPath
  <2> HIDE DEF bids, asks
  <2>10. inventory[j + 1] = Cardinality(bids(j + 1)) - Cardinality(asks(j + 1))
    BY <2>1, <2>2, <2>3, <2>4, <2>5 DEF Books
  <2>11. cash[j + 1] = SumFunctionOnSet(p, asks(j + 1)) - SumFunctionOnSet(p, bids(j + 1))
    BY <2>1, <2>2, <2>6, <2>7, <2>8, <2>9 DEF Books
  <2> QED BY <2>10, <2>11
<1>11. Nat \subseteq T
  <2> HIDE DEF T
  <2> QED BY <1>9, <1>10, SetInduction
<1>12. \A j \in Grid : Told(j)
  BY <1>0, <1>11 DEF Grid
<1>13. inventory[N] = c - d
  <2>1. bids(N) = 0 + 1 .. 0 + c
    BY <1>0, <1>2, <1>3, BeforeEnds
  <2>2. asks(N) = c + 1 .. c + d
    BY <1>0, <1>2, <1>3, BeforeEnds
  <2>5. Cardinality(0 + 1 .. 0 + c) = c /\ Cardinality(c + 1 .. c + d) = d
    BY <1>2, IntervalSize
  <2>6. Cardinality(bids(N)) = c /\ Cardinality(asks(N)) = d
    <3> HIDE DEF bids, asks
    <3> QED BY <2>1, <2>2, <2>5
  <2>3. N \in Grid
    BY <1>0 DEF Grid
  <2>4. Told(N)
    BY <1>12, <2>3
  <2> QED BY <2>4, <2>6
<1> HIDE DEF T
<1>14. ASSUME NEW j \in Grid
       PROVE  /\ {k \in DOMAIN table : table[k].side = "bid" /\ table[k].step < j} = bids(j)
              /\ {k \in DOMAIN table : table[k].side = "ask" /\ table[k].step < j} = asks(j)
  <2>1. \A k \in 1 .. c + d : k \in 1 .. c \/ k \in c + 1 .. c + d
    BY <1>2
  <2>2. bids(j) = {k \in 1 .. c : e[k] < j} /\ asks(j) = {k \in c + 1 .. c + d : f[k - c] < j}
    BY <1>2 DEF Before
  <2>3. \A k \in c + 1 .. c + d : k \in 1 .. c + d /\ k \notin 1 .. c
    BY <1>2
  <2>4. \A k \in 1 .. c : k \in 1 .. c + d /\ table[k].side = "bid" /\ table[k].step = e[k]
    BY <1>2, <1>5
  <2>5. \A k \in c + 1 .. c + d : table[k].side = "ask" /\ table[k].step = f[k - c]
    BY <1>5
  <2> HIDE DEF bids, asks
  <2>6. {k \in DOMAIN table : table[k].side = "bid" /\ table[k].step < j} = bids(j)
    BY <1>5, <2>1, <2>2, <2>4, <2>5
  <2>7. {k \in DOMAIN table : table[k].side = "ask" /\ table[k].step < j} = asks(j)
    BY <1>5, <2>1, <2>2, <2>3, <2>4, <2>5
  <2> QED BY <2>6, <2>7
<1> HIDE DEF bids, asks
<1>15. Len(table) = nBidFills + nAskFills /\ FillRateAsymmetry = inventory[N]
  BY <1>0, <1>2, <1>5, <1>13 DEF FillRateAsymmetry
<1>16. \A j \in Grid :
          LET bought == {k \in DOMAIN table : table[k].side = "bid" /\ table[k].step < j}
              sold == {k \in DOMAIN table : table[k].side = "ask" /\ table[k].step < j}
          IN  /\ inventory[j] = Cardinality(bought) - Cardinality(sold)
              /\ cash[j] = SumFunctionOnSet(p, sold) - SumFunctionOnSet(p, bought)
  <2> TAKE j \in Grid
  <2>1. PICK bought : bought = {k \in DOMAIN table : table[k].side = "bid" /\ table[k].step < j}
    OBVIOUS
  <2>2. PICK sold : sold = {k \in DOMAIN table : table[k].side = "ask" /\ table[k].step < j}
    OBVIOUS
  <2>3. bought = bids(j) /\ sold = asks(j)
    BY <1>14, <2>1, <2>2
  <2>4. /\ inventory[j] = Cardinality(bought) - Cardinality(sold)
        /\ cash[j] = SumFunctionOnSet(p, sold) - SumFunctionOnSet(p, bought)
    BY <1>12, <2>3
  <2> QED BY <2>1, <2>2, <2>4
<1> QED BY <1>4, <1>6, <1>15, <1>16 DEF FillsTellPaths

(* Requirement 7.4, for every path: the rows of the fills table add up to  *)
(* the cash and the inventory of the paths table at every step, and are as *)
(* many as the fills that run_path counted.                                *)
THEOREM FillsTableTellsPaths == Spec => []FillsTellPaths
<1>1. ReportInv => FillsTellPaths
  <2>1. CASE Finished
    BY <2>1, TableTellsPaths
  <2>2. CASE ~Finished
    BY <2>2 DEF FillsTellPaths
  <2> QED BY <2>1, <2>2
<1> QED BY <1>1, InitReportInv, NextReportInv, PTL DEF Spec
-----------------------------------------------------------------------------
(* The metrics of the fills.                                               *)

Valued(s, e, f, c, d, ofBid, ofAsk) ==
    /\ DOMAIN s = 1 .. c + d /\ IntOn(s, 1 .. c + d)
    /\ Weighs(s, ofBid, e, c, 0) /\ Weighs(s, ofAsk, f, d, c)

LEMMA ValuesOf ==
    ASSUME NEW e, NEW f, NEW c, NEW d, FillsAre(e, f, c, d),
           NEW ofBid \in [Bids -> Int], NEW ofAsk \in [Asks -> Int]
    PROVE  Valued(BidsThenAsks(ofBid, ofAsk), e, f, c, d, ofBid, ofAsk)
<1>1. PICK s : s = BidsThenAsks(ofBid, ofAsk)
  OBVIOUS
<1>2. /\ DOMAIN s = 1 .. c + d
      /\ \A k \in 1 .. c + d : s[k] = FillOf(e, f, c, ofBid, ofAsk, k)
  <2>1. RowsAre(BidsThenAsks(ofBid, ofAsk), e, f, c, d, ofBid, ofAsk)
    BY BidsThenAsksIs
  <2> QED BY <1>1, <2>1 DEF RowsAre
<1>3. /\ c \in Nat /\ d \in Nat
      /\ \A k \in 1 .. c : e[k] \in Bids
      /\ \A k \in 1 .. d : f[k] \in Asks
  BY DEF FillsAre, Enumerates
<1>4. ASSUME NEW k \in 0 + 1 .. 0 + c PROVE s[k] = ofBid[e[k - 0]] /\ s[k] \in Int
  <2>1. k \in 1 .. c + d /\ k <= c /\ k - 0 = k /\ e[k] \in Bids
    BY <1>3
  <2> QED BY <1>2, <2>1 DEF FillOf
<1>5. ASSUME NEW k \in c + 1 .. c + d PROVE s[k] = ofAsk[f[k - c]] /\ s[k] \in Int
  <2>1. k \in 1 .. c + d /\ ~(k <= c) /\ k - c \in 1 .. d
    BY <1>3
  <2>2. f[k - c] \in Asks
    BY <1>3, <2>1
  <2> QED BY <1>2, <2>1, <2>2 DEF FillOf
<1>6. ASSUME NEW k \in 1 .. c + d PROVE s[k] \in Int
  <2>1. k \in 0 + 1 .. 0 + c \/ k \in c + 1 .. c + d
    BY <1>3
  <2> QED BY <1>4, <1>5, <2>1
<1>7. Weighs(s, ofBid, e, c, 0)
  BY <1>4 DEF Weighs
<1>8. Weighs(s, ofAsk, f, d, c)
  BY <1>5 DEF Weighs
<1>9. IntOn(s, 1 .. c + d)
  BY <1>6 DEF IntOn
<1> QED BY <1>1, <1>2, <1>7, <1>8, <1>9 DEF Valued

(* The sum of a metric over the fills, side by side.                       *)
LEMMA TotalOf ==
    ASSUME N \in Nat, NEW e, NEW f, NEW c, NEW d, FillsAre(e, f, c, d), NEW ofBid, NEW ofAsk,
           NEW s, Valued(s, e, f, c, d, ofBid, ofAsk)
    PROVE  SumFunction(s) = SumFunctionOnSet(s, Before(e, c, 0, N))
                            + SumFunctionOnSet(s, Before(f, d, c, N))
<1>1. c \in Nat /\ d \in Nat /\ Enumerates(e, c, Bids) /\ Enumerates(f, d, Asks)
  BY DEF FillsAre
<1>2. Within(Bids, N) /\ Within(Asks, N)
  BY DEF Within, Bids, Asks, Steps
<1>3. Before(e, c, 0, N) = 0 + 1 .. 0 + c
  BY <1>1, <1>2, BeforeEnds
<1>4. Before(f, d, c, N) = c + 1 .. c + d
  BY <1>1, <1>2, BeforeEnds
<1>5. 0 + 1 .. 0 + c = 1 .. c
  BY <1>1
<1>6. DOMAIN s = 1 .. c + d /\ IntOn(s, 1 .. c + d)
  BY DEF Valued
<1>7. SumFunctionOnSet(s, 1 .. c + d)
        = SumFunctionOnSet(s, 1 .. c) + SumFunctionOnSet(s, c + 1 .. c + d)
  BY <1>1, <1>6, SumOfSides
<1> QED BY <1>3, <1>4, <1>5, <1>6, <1>7 DEF SumFunction

LEMMA LooksToTheEnd ==
    ASSUME NEW j \in Steps
    PROVE  Lookahead(j, N) = N
<1>1. j \in Nat /\ N \in Nat
  BY PathAssumption DEF Steps
<1>2. PICK m : m = Min({j + N, N})
  OBVIOUS
<1>3. m \in {j + N, N} /\ \A y \in {j + N, N} : m <= y
  <2>1. N \in {j + N, N} /\ \A y \in {j + N, N} : N <= y
    BY <1>1
  <2> QED BY <1>2, <2>1 DEF Min
<1>4. m <= N /\ (m = j + N \/ m = N)
  BY <1>3
<1> QED BY <1>1, <1>2, <1>4 DEF Lookahead

(* One step: what its fills capture less the drift against them is what    *)
(* they do to the profit marked at the terminal mid.                       *)
LEMMA MarkedAtTheEnd ==
    ASSUME ReportInv, Finished, NEW j \in Steps, NEW h \in Int
    PROVE  /\ cash[j] + inventory[j] * h \in Int
           /\ cash[j + 1] + inventory[j + 1] * h
                = (cash[j] + inventory[j] * h)
                  + (IF j \in Bids THEN h - bidQuote[j] ELSE 0)
                  + (IF j \in Asks THEN askQuote[j] - h ELSE 0)
<1>1. /\ Books(j) /\ inventory[j] \in Int /\ cash[j] \in Int
      /\ j \in Bids => bidQuote[j] \in Int
      /\ j \in Asks => askQuote[j] \in Int
  BY FinishedPath DEF TypeOK
<1>2. PICK u, v, w, x, a : /\ u = inventory[j] /\ v = inventory[j + 1] /\ w = cash[j]
                           /\ x = cash[j + 1] /\ a = u * h
  OBVIOUS
<1>3. u \in Int /\ w \in Int /\ a \in Int
  BY <1>1, <1>2
<1>4. (u - 1) * h = a - h /\ (u + 1) * h = a + h
  BY <1>2, <1>3, UnitCarry
<1>5. /\ v = u + (IF j \in Bids THEN 1 ELSE 0) - (IF j \in Asks THEN 1 ELSE 0)
      /\ x = w + (IF j \in Asks THEN askQuote[j] ELSE 0) - (IF j \in Bids THEN bidQuote[j] ELSE 0)
  BY <1>1, <1>2 DEF Books
<1>6. v * h = a + (IF j \in Bids THEN h ELSE 0) - (IF j \in Asks THEN h ELSE 0)
  <2>1. CASE j \in Bids /\ j \in Asks
    <3>1. v = u
      BY <1>3, <1>5, <2>1
    <3> QED BY <1>2, <1>3, <2>1, <3>1
  <2>2. CASE j \in Bids /\ j \notin Asks
    <3>1. v = u + 1
      BY <1>3, <1>5, <2>2
    <3> QED BY <1>3, <1>4, <2>2, <3>1
  <2>3. CASE j \notin Bids /\ j \in Asks
    <3>1. v = u - 1
      BY <1>3, <1>5, <2>3
    <3> QED BY <1>3, <1>4, <2>3, <3>1
  <2>4. CASE j \notin Bids /\ j \notin Asks
    <3>1. v = u
      BY <1>3, <1>5, <2>4
    <3> QED BY <1>2, <1>3, <2>4, <3>1
  <2> QED BY <2>1, <2>2, <2>3, <2>4
<1>7. PICK b : b = v * h
  OBVIOUS
<1>8. x + b = (w + a) + (IF j \in Bids THEN h - bidQuote[j] ELSE 0)
                      + (IF j \in Asks THEN askQuote[j] - h ELSE 0)
  <2>1. b = a + (IF j \in Bids THEN h ELSE 0) - (IF j \in Asks THEN h ELSE 0)
    BY <1>6, <1>7
  <2> QED BY <1>1, <1>3, <1>5, <2>1
<1> QED BY <1>2, <1>3, <1>7, <1>8

LEMMA MetricsExplainProfit ==
    ASSUME ReportInv, Finished
    PROVE  ProfitIsCaptureLessDrift
<1> DEFINE h == sPath[N]
           capB == [j \in Bids |-> sPath[j] - bidQuote[j]]
           capA == [j \in Asks |-> askQuote[j] - sPath[j]]
           driftB == [j \in Bids |-> -(sPath[Lookahead(j, N)] - sPath[j])]
           driftA == [j \in Asks |-> sPath[Lookahead(j, N)] - sPath[j]]
<1>0. /\ TypeOK /\ StartsFlat /\ N \in Nat /\ terminalPnl = Pnl(N)
      /\ \A j \in Bids : j \in Steps /\ bidQuote[j] \in Int
      /\ \A j \in Asks : j \in Steps /\ askQuote[j] \in Int
  BY FinishedPath
<1>1. h \in Int /\ \A j \in Steps : sPath[j] \in Int
  BY <1>0 DEF TypeOK, Grid, Steps
<1>2. \A j \in Steps : sPath[Lookahead(j, N)] = h
  BY LooksToTheEnd
<1>3. capB \in [Bids -> Int] /\ \A j \in Bids : capB[j] = sPath[j] - bidQuote[j]
  BY <1>0, <1>1
<1>4. capA \in [Asks -> Int] /\ \A j \in Asks : capA[j] = askQuote[j] - sPath[j]
  BY <1>0, <1>1
<1>5. driftB \in [Bids -> Int] /\ \A j \in Bids : driftB[j] = -(h - sPath[j])
  <2>1. \A j \in Bids : driftB[j] = -(h - sPath[j]) /\ driftB[j] \in Int
    BY <1>0, <1>1, <1>2
  <2> QED BY <2>1
<1>6. driftA \in [Asks -> Int] /\ \A j \in Asks : driftA[j] = h - sPath[j]
  <2>1. \A j \in Asks : driftA[j] = h - sPath[j] /\ driftA[j] \in Int
    BY <1>0, <1>1, <1>2
  <2> QED BY <2>1
<1>7. SpreadCapture = BidsThenAsks(capB, capA) /\ Drifts(N) = BidsThenAsks(driftB, driftA)
  BY DEF SpreadCapture, Drifts
<1> HIDE DEF h, capB, capA, driftB, driftA
<1>8. PICK e, f, c, d : FillsAre(e, f, c, d)
  BY <1>0, FillsExist
<1>9. PICK cap, drift : cap = SpreadCapture /\ drift = Drifts(N)
  OBVIOUS
<1>10. Valued(cap, e, f, c, d, capB, capA)
  <2>1. Valued(BidsThenAsks(capB, capA), e, f, c, d, capB, capA)
    BY <1>3, <1>4, <1>8, ValuesOf
  <2> QED BY <1>7, <1>9, <2>1
<1>11. Valued(drift, e, f, c, d, driftB, driftA)
  <2>1. Valued(BidsThenAsks(driftB, driftA), e, f, c, d, driftB, driftA)
    BY <1>5, <1>6, <1>8, ValuesOf
  <2> QED BY <1>7, <1>9, <2>1
<1>12. /\ c \in Nat /\ d \in Nat /\ Enumerates(e, c, Bids) /\ Enumerates(f, d, Asks)
       /\ Within(Bids, N) /\ Within(Asks, N) /\ Bids \in SUBSET Int /\ Asks \in SUBSET Int
  BY <1>0, <1>8 DEF FillsAre, Within, Bids, Asks, Steps
<1>13. /\ Weighs(cap, capB, e, c, 0) /\ Weighs(cap, capA, f, d, c)
       /\ Weighs(drift, driftB, e, c, 0) /\ Weighs(drift, driftA, f, d, c)
  BY <1>10, <1>11 DEF Valued
<1> DEFINE capBefore(j) == SumFunctionOnSet(cap, Before(e, c, 0, j))
                           + SumFunctionOnSet(cap, Before(f, d, c, j))
           driftBefore(j) == SumFunctionOnSet(drift, Before(e, c, 0, j))
                             + SumFunctionOnSet(drift, Before(f, d, c, j))
           Explained(j) == cash[j] + inventory[j] * h = capBefore(j) - driftBefore(j)
           T == {j \in Nat : j <= N => Explained(j)}
<1>14. 0 \in T
  <2>1. Before(e, c, 0, 0) = {}
    BY <1>0, <1>12, BeforeStarts
  <2>2. Before(f, d, c, 0) = {}
    BY <1>0, <1>12, BeforeStarts
  <2>3. SumFunctionOnSet(cap, {}) = 0 /\ SumFunctionOnSet(drift, {}) = 0
    BY SumOfNone
  <2>4. capBefore(0) = 0 /\ driftBefore(0) = 0
    BY <2>1, <2>2, <2>3
  <2>5. cash[0] + inventory[0] * h = 0
    BY <1>0, <1>1 DEF StartsFlat
  <2> HIDE DEF capBefore, driftBefore
  <2> QED BY <2>4, <2>5
<1>15. ASSUME NEW j \in Nat, j \in T PROVE j + 1 \in T
  <2> SUFFICES ASSUME j + 1 <= N PROVE Explained(j + 1)
    OBVIOUS
  <2>1. j \in Steps /\ j \in Int /\ Explained(j)
    BY <1>0, <1>15 DEF Steps
  <2>2. AddsUp(cap, capB, e, c, 0, Bids, j)
    BY <1>12, <1>13, <2>1, SumOfAStep
  <2>3. AddsUp(cap, capA, f, d, c, Asks, j)
    BY <1>12, <1>13, <2>1, SumOfAStep
  <2>4. AddsUp(drift, driftB, e, c, 0, Bids, j)
    BY <1>12, <1>13, <2>1, SumOfAStep
  <2>5. AddsUp(drift, driftA, f, d, c, Asks, j)
    BY <1>12, <1>13, <2>1, SumOfAStep
  <2>6. /\ capBefore(j) \in Int
        /\ capBefore(j + 1) = capBefore(j) + (IF j \in Bids THEN capB[j] ELSE 0)
                                           + (IF j \in Asks THEN capA[j] ELSE 0)
    BY <1>3, <1>4, <2>2, <2>3 DEF AddsUp
  <2>7. /\ driftBefore(j) \in Int
        /\ driftBefore(j + 1) = driftBefore(j) + (IF j \in Bids THEN driftB[j] ELSE 0)
                                               + (IF j \in Asks THEN driftA[j] ELSE 0)
    BY <1>5, <1>6, <2>4, <2>5 DEF AddsUp
  <2> HIDE DEF capBefore, driftBefore
  <2>8. /\ cash[j] + inventory[j] * h \in Int
        /\ cash[j + 1] + inventory[j + 1] * h
             = (cash[j] + inventory[j] * h)
               + (IF j \in Bids THEN h - bidQuote[j] ELSE 0)
               + (IF j \in Asks THEN askQuote[j] - h ELSE 0)
    BY <1>1, <2>1, MarkedAtTheEnd
  <2>9. PICK m, n : m = cash[j] + inventory[j] * h /\ n = cash[j + 1] + inventory[j + 1] * h
    OBVIOUS
  <2>10. /\ m \in Int /\ m = capBefore(j) - driftBefore(j)
         /\ n = m + (IF j \in Bids THEN h - bidQuote[j] ELSE 0)
                  + (IF j \in Asks THEN askQuote[j] - h ELSE 0)
    BY <2>1, <2>8, <2>9
  <2>11. /\ sPath[j] \in Int
         /\ j \in Bids => /\ bidQuote[j] \in Int /\ capB[j] = sPath[j] - bidQuote[j]
                          /\ driftB[j] = -(h - sPath[j])
         /\ j \in Asks => /\ askQuote[j] \in Int /\ capA[j] = askQuote[j] - sPath[j]
                          /\ driftA[j] = h - sPath[j]
    BY <1>0, <1>1, <1>3, <1>4, <1>5, <1>6, <2>1
  <2>12. n = capBefore(j + 1) - driftBefore(j + 1)
    BY <1>1, <2>6, <2>7, <2>10, <2>11
  <2> QED BY <2>9, <2>12
<1>16. Nat \subseteq T
  <2> HIDE DEF T
  <2> QED BY <1>14, <1>15, SetInduction
<1>17. Explained(N)
  <2>1. N \in T
    <3> HIDE DEF T
    <3> QED BY <1>0, <1>16
  <2> QED BY <1>0, <2>1
<1>18. SumFunction(cap) = capBefore(N)
  BY <1>0, <1>8, <1>10, TotalOf
<1>19. SumFunction(drift) = driftBefore(N)
  BY <1>0, <1>8, <1>11, TotalOf
<1>20. terminalPnl = cash[N] + inventory[N] * h
  BY <1>0 DEF Pnl, h
<1> HIDE DEF capBefore, driftBefore
<1> QED BY <1>9, <1>17, <1>18, <1>19, <1>20 DEF ProfitIsCaptureLessDrift

(* Requirements 8.1, 8.6 and 8.7, for every path: its profit is the spread *)
(* its fills captured less the drift against them up to the horizon.       *)
THEOREM MetricsAccountForProfit == Spec => []ProfitIsCaptureLessDrift
<1>1. ReportInv => ProfitIsCaptureLessDrift
  <2>1. CASE Finished
    BY <2>1, MetricsExplainProfit
  <2>2. CASE ~Finished
    BY <2>2 DEF ProfitIsCaptureLessDrift
  <2> QED BY <2>1, <2>2
<1> QED BY <1>1, InitReportInv, NextReportInv, PTL DEF Spec
=============================================================================
