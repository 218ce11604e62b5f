----------------------------- MODULE PathRunner -----------------------------
(***************************************************************************)
(* run_path (etf_mm_sim/path_runner.py): one Monte Carlo path of a market  *)
(* maker.  At each grid step the strategy quotes, the risk rules suppress  *)
(* sides, fills are drawn, cash and inventory move, and the kill-switch    *)
(* latches; the terminal step posts a last quote and marks to market.      *)
(*                                                                         *)
(* Prices, spreads and cash are integers (ticks).  The mid-price path is   *)
(* revealed step by step, and a Bernoulli draw is a free choice unless its *)
(* probability is 0 (side suppressed) or 1 (quote at or through the mid).  *)
(***************************************************************************)
EXTENDS Quoters

CONSTANTS
    N,              \* number of inner steps
    Prices,         \* mid-prices the path may take
    Strategies,     \* strategies to run
    SkewCoef,       \* skew_coef_sched
    DeltaStar,      \* delta_star_sched
    Masks,          \* as_suppress_mask: the masks the grid may produce
    DeltaBase,      \* delta_base of the symmetric quoter
    QMax,           \* q_max
    LKill           \* L_kill; 0 stands for None

Grid == 0 .. N
Steps == 0 .. N - 1

ASSUME PathAssumption ==
    /\ N \in Nat
    /\ Prices \subseteq Int
    /\ Strategies \subseteq {"avellaneda_stoikov", "semi_as", "symmetric"}
    /\ SkewCoef \in [Grid -> Nat]
    /\ DeltaStar \in [Grid -> Nat]
    /\ Masks \subseteq [Grid -> BOOLEAN]
    /\ DeltaBase \in Nat
    /\ QMax \in Nat
    /\ LKill \in Nat
    /\ NaN \notin Int

VARIABLES
    strategy, mask,         \* the strategy run and its suppress mask
    i,                      \* the step about to run; N + 1 after the terminal one
    sPath,                  \* s_path, known up to i
    bidQuote, askQuote,     \* posted quotes, NaN where suppressed
    bidFill, askFill,       \* fills of each step
    inventory, cash,        \* state before each step
    q, cashNow,             \* the loop's locals
    killActive, killStep,   \* the latch; killStep is 0 while it is None
    nBidFills, nAskFills,
    terminalPnl

labels == <<strategy, mask>>
vars == <<labels, i, sPath, bidQuote, askQuote, bidFill, askFill, inventory, cash,
          q, cashNow, killActive, killStep, nBidFills, nAskFills, terminalPnl>>

Init ==
    /\ strategy \in Strategies
    /\ mask \in Masks
    /\ i = 0
    /\ \E s0 \in Prices : sPath = [j \in Grid |-> s0]
    /\ bidQuote = [j \in Grid |-> NaN] /\ askQuote = [j \in Grid |-> NaN]
    /\ bidFill = [j \in Steps |-> FALSE] /\ askFill = [j \in Steps |-> FALSE]
    /\ inventory = [j \in Grid |-> 0] /\ cash = [j \in Grid |-> 0]
    /\ q = 0 /\ cashNow = 0
    /\ killActive = FALSE /\ killStep = 0
    /\ nBidFills = 0 /\ nAskFills = 0
    /\ terminalPnl = 0

-----------------------------------------------------------------------------
(* Live quotes at step j for inventory h.  semi_as is the same recurrence  *)
(* with the skew zeroed; only these two consult the mask.                  *)
QuoterSuppresses(j) == strategy # "symmetric" /\ mask[j]

(* Mutant of Skew: semi_as is skewed too.                                  *)
SkewAlways(j) == IF strategy = "symmetric" THEN 0 ELSE SkewCoef[j]
Skew(j) == IF strategy = "avellaneda_stoikov" THEN SkewCoef[j] ELSE 0
Reservation(j, h) == sPath[j] - h * Skew(j)
HalfSpread(j) == IF strategy = "symmetric" THEN DeltaBase ELSE DeltaStar[j]
LiveBid(j, h) == Reservation(j, h) - HalfSpread(j)
LiveAsk(j, h) == Reservation(j, h) + HalfSpread(j)

(* Risk-manager suppression.                                               *)
(* Mutants of AtLongCap: the bound one unit late; never.                   *)
AtLongCapLate(h) == h > QMax
AtLongCap(h) == h >= QMax
AtShortCap(h) == h <= -QMax

SuppressBid == killActive \/ QuoterSuppresses(i) \/ AtLongCap(q)
SuppressAsk == killActive \/ QuoterSuppresses(i) \/ AtShortCap(q)

(* The draws a side may produce at distance delta from the mid: a crossed  *)
(* quote fills with probability 1, any other one may fill or not.          *)
FillOutcomes(delta) == IF delta <= 0 THEN {TRUE} ELSE BOOLEAN
Draws(suppressed, delta) == IF suppressed THEN {FALSE} ELSE FillOutcomes(delta)

AsUnits(filled) == IF filled THEN 1 ELSE 0

(* The latch.  Mutant of Latches: strictly below the limit.                *)
LatchesBelow(pnl) == LKill # 0 /\ pnl < -LKill
Latches(pnl) == LKill # 0 /\ pnl <= -LKill

CashAfter(filledB, filledA) ==
    cashNow + (IF filledA THEN LiveAsk(i, q) ELSE 0)
            - (IF filledB THEN LiveBid(i, q) ELSE 0)

UnitsAfter(filledB, filledA) == q + AsUnits(filledB) - AsUnits(filledA)

(* One iteration of the loop, given the two draws and the next mid.        *)
StepWith(filledB, filledA, sNext) ==
    /\ bidQuote' = [bidQuote EXCEPT ![i] = IF SuppressBid THEN NaN ELSE LiveBid(i, q)]
    /\ askQuote' = [askQuote EXCEPT ![i] = IF SuppressAsk THEN NaN ELSE LiveAsk(i, q)]
    /\ bidFill' = [bidFill EXCEPT ![i] = filledB]
    /\ askFill' = [askFill EXCEPT ![i] = filledA]
    /\ nBidFills' = nBidFills + AsUnits(filledB)
    /\ nAskFills' = nAskFills + AsUnits(filledA)
    /\ cashNow' = CashAfter(filledB, filledA)
    /\ q' = UnitsAfter(filledB, filledA)
    /\ cash' = [cash EXCEPT ![i + 1] = cashNow']
    /\ inventory' = [inventory EXCEPT ![i + 1] = q']
    /\ sPath' = [sPath EXCEPT ![i + 1] = sNext]
    /\ LET fires == ~killActive /\ Latches(cashNow' + q' * sNext) IN
         /\ killActive' = (killActive \/ fires)
         /\ killStep' = IF fires THEN i + 1 ELSE killStep
    /\ i' = i + 1
    /\ UNCHANGED <<labels, terminalPnl>>

BidDraws == Draws(SuppressBid, sPath[i] - LiveBid(i, q))
AskDraws == Draws(SuppressAsk, LiveAsk(i, q) - sPath[i])

(* Mutant of Step: the loop runs once too often.                           *)
StepOnceMore ==
    /\ i <= N
    /\ \E filledB \in BidDraws, filledA \in AskDraws, sNext \in Prices :
          StepWith(filledB, filledA, sNext)
Step ==
    /\ i < N
    /\ \E filledB \in BidDraws, filledA \in AskDraws, sNext \in Prices :
          StepWith(filledB, filledA, sNext)

AtTerminal(j) == j = N

(* The terminal grid step: no fills, no risk rules, only the quoter's mask.*)
Terminal ==
    /\ AtTerminal(i)
    /\ bidQuote' = [bidQuote EXCEPT ![N] =
                        IF QuoterSuppresses(N) THEN NaN ELSE LiveBid(N, q)]
    /\ askQuote' = [askQuote EXCEPT ![N] =
                        IF QuoterSuppresses(N) THEN NaN ELSE LiveAsk(N, q)]
    /\ terminalPnl' = cash[N] + inventory[N] * sPath[N]
    /\ i' = N + 1
    /\ UNCHANGED <<labels, sPath, bidFill, askFill, inventory, cash, q, cashNow,
                   killActive, killStep, nBidFills, nAskFills>>

Next == Step \/ Terminal

Spec == Init /\ [][Next]_vars

-----------------------------------------------------------------------------
Quotes == Int \cup {NaN}
StepsDone == {j \in Steps : j < i}
Reached == {j \in Grid : j <= i}

TypeOK ==
    /\ strategy \in Strategies /\ mask \in Masks
    /\ i \in 0 .. N + 1
    /\ sPath \in [Grid -> Int]
    /\ bidQuote \in [Grid -> Quotes] /\ askQuote \in [Grid -> Quotes]
    /\ bidFill \in [Steps -> BOOLEAN] /\ askFill \in [Steps -> BOOLEAN]
    /\ inventory \in [Grid -> Int] /\ cash \in [Grid -> Int]
    /\ q \in Int /\ cashNow \in Int
    /\ killActive \in BOOLEAN /\ killStep \in Grid
    /\ nBidFills \in Nat /\ nAskFills \in Nat
    /\ terminalPnl \in Int

(* Requirement 6.1 to 6.3: no step leaves the inventory beyond the bound,  *)
(* although both sides may fill in one step and each is checked alone.     *)
InventoryBounded == \A j \in Reached : inventory[j] \in -QMax .. QMax

(* Requirements 5.4, 5.5: inventory and cash are exactly what the recorded *)
(* fills and the recorded quotes say, so a reader of the output arrays can *)
(* rebuild them; a fill always has a posted quote.                         *)
BooksBalance ==
    /\ q = nBidFills - nAskFills
    /\ \A j \in StepsDone :
          /\ bidFill[j] => bidQuote[j] # NaN
          /\ askFill[j] => askQuote[j] # NaN
          /\ inventory[j + 1] = inventory[j] + AsUnits(bidFill[j]) - AsUnits(askFill[j])
          /\ cash[j + 1] = cash[j] + (IF askFill[j] THEN askQuote[j] ELSE 0)
                                   - (IF bidFill[j] THEN bidQuote[j] ELSE 0)

LimitReached(pnl) == LKill > 0 /\ pnl <= -LKill
Pnl(j) == cash[j] + inventory[j] * sPath[j]

(* Requirement 6.4 for the loop: the recorded kill step is the earliest at *)
(* which the marked-to-market loss reached the limit, and from that step   *)
(* on nothing is quoted or filled before the terminal grid point.          *)
KillSwitchHalts ==
    /\ killActive <=> killStep # 0
    /\ killActive => LimitReached(Pnl(killStep))
    /\ \A j \in Reached \ {0} : LimitReached(Pnl(j)) => killActive /\ killStep <= j
    /\ killActive =>
          \A j \in StepsDone :
              j >= killStep =>
                  /\ bidQuote[j] = NaN /\ askQuote[j] = NaN
                  /\ ~bidFill[j] /\ ~askFill[j]

(* The profit of a step is the edge of its fills over the mid plus the     *)
(* inventory they leave carried to the next mid: cash, inventory and quote *)
(* arrays never disagree by one step.                                      *)
Edge(j) ==
    (IF bidFill[j] THEN sPath[j] - bidQuote[j] ELSE 0)
    + (IF askFill[j] THEN askQuote[j] - sPath[j] ELSE 0)
PnlDecomposes ==
    /\ \A j \in StepsDone :
          Pnl(j + 1) - Pnl(j) = Edge(j) + inventory[j + 1] * (sPath[j + 1] - sPath[j])
    /\ i = N + 1 => terminalPnl = Pnl(N)

(* The loop restates the quoters, the risk rules and the crossed-quote     *)
(* rule of the library.  Every recorded quote, missing ones included, is   *)
(* what the primitives say of the recorded mid, inventory and profit, the  *)
(* kill-switch being latched; a fill has a posted quote, and a quote at or *)
(* through the mid has a fill; the profit is that of flatten_terminal.     *)
PrimitiveQuotes ==
    CASE strategy = "avellaneda_stoikov" -> AsQuotes(sPath, inventory, SkewCoef, DeltaStar, mask)
      [] strategy = "semi_as" -> SemiAsQuotes(sPath, DeltaStar, mask)
      [] strategy = "symmetric" -> SymmetricQuotes(sPath, DeltaBase)
Killed(j) == \E m \in 1 .. j : KillSwitchTriggered(Pnl(m), LKill)
Halted(j) ==
    [bid |-> j < N /\ (Killed(j) \/ ApplyInventoryBounds(inventory[j], QMax).bid),
     ask |-> j < N /\ (Killed(j) \/ ApplyInventoryBounds(inventory[j], QMax).ask)]
FillExplained(fill, quote, delta) ==
    /\ fill => quote # NaN
    /\ quote # NaN /\ FillIsCertain(delta) => fill
QuotesExplained ==
    /\ \A j \in Grid :
          j < i =>
              /\ bidQuote[j] = IF Halted(j).bid THEN NaN ELSE PrimitiveQuotes.bid[j]
              /\ askQuote[j] = IF Halted(j).ask THEN NaN ELSE PrimitiveQuotes.ask[j]
    /\ \A j \in StepsDone :
          /\ FillExplained(bidFill[j], bidQuote[j], sPath[j] - bidQuote[j])
          /\ FillExplained(askFill[j], askQuote[j], askQuote[j] - sPath[j])
    /\ i = N + 1 => terminalPnl = FlattenTerminal(inventory[N], sPath[N], cash[N])

(* Requirement 6.4: a kill "SHALL halt all further quoting on that path    *)
(* for the remainder of the horizon", the terminal grid point included.    *)
KillHaltsAllQuoting ==
    killActive =>
        \A j \in Grid :
            j >= killStep /\ j < i => bidQuote[j] = NaN /\ askQuote[j] = NaN
=============================================================================
