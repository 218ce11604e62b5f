----------------------------- MODULE PathReport -----------------------------
(***************************************************************************)
(* What is made of a finished path: the tables that persistence.py writes  *)
(* of it and the metrics of analytics.py, computed from the arrays that    *)
(* run_path returns.  Means are left as sums, a mean being the sum over a  *)
(* count that both sides of each property share.                           *)
(***************************************************************************)
EXTENDS PathRunner, Sequences, FiniteSetsExt, Functions

(* np.flatnonzero: the steps of a set, in order.                           *)
FlatNonzero(steps) ==
    CHOOSE s \in [1 .. Cardinality(steps) -> steps] :
        Range(s) = steps /\ \A a, b \in DOMAIN s : a < b => s[a] < s[b]

(* A value for each fill, the bids first.                                  *)
Bids == {j \in Steps : bidFill[j]}
Asks == {j \in Steps : askFill[j]}
InOrder(ofStep) ==
    LET steps == FlatNonzero(DOMAIN ofStep) IN [k \in DOMAIN steps |-> ofStep[steps[k]]]
BidsThenAsks(ofBid, ofAsk) == InOrder(ofBid) \o InOrder(ofAsk)

-----------------------------------------------------------------------------
(* The rows of the fills table.                                            *)

(* Mutant of FillPrice: the quote of the step after the fill.              *)
FillPriceNext(quotes, j) == quotes[j + 1]
FillPrice(quotes, j) == quotes[j]

FillsTable ==
    BidsThenAsks([j \in Bids |-> [step |-> j, side |-> "bid", price |-> FillPrice(bidQuote, j)]],
                 [j \in Asks |-> [step |-> j, side |-> "ask", price |-> FillPrice(askQuote, j)]])

-----------------------------------------------------------------------------
(* The metrics.                                                            *)

MtmPnl == [j \in Grid |-> cash[j] + inventory[j] * sPath[j]]

(* Mutant of RunningMax: the maximum is taken of the last two points.      *)
RunningMaxOfTwo(curve) ==
    [j \in Grid |-> IF j = 0 THEN curve[0] ELSE Max({curve[j - 1], curve[j]})]
(* np.maximum.accumulate.                                                  *)
RunningMax(curve) ==
    LET upTo[j \in Grid] == IF j = 0 THEN curve[0] ELSE Max({upTo[j - 1], curve[j]})
    IN  upTo
MaxDrawdown ==
    LET pnl == MtmPnl
        peak == RunningMax(pnl)
    IN  Max({peak[j] - pnl[j] : j \in Grid})

FillRateAsymmetry == nBidFills - nAskFills

SpreadCapture ==
    BidsThenAsks([j \in Bids |-> sPath[j] - bidQuote[j]],
                 [j \in Asks |-> askQuote[j] - sPath[j]])

(* Mutant of Lookahead: the last grid point is never reached.              *)
LookaheadShort(j, h) == Min({j + h, N - 1})
Lookahead(j, h) == Min({j + h, N})
Drifts(h) ==
    BidsThenAsks([j \in Bids |-> -(sPath[Lookahead(j, h)] - sPath[j])],
                 [j \in Asks |-> sPath[Lookahead(j, h)] - sPath[j]])

-----------------------------------------------------------------------------
Finished == i = N + 1

(* Requirement 7.4: the two tables of a path tell the same story.  Adding  *)
(* up the rows of the fills table gives the cash and the inventory of the  *)
(* paths table at every step, and its rows are as many as the counters.    *)
FillsTellPaths ==
    LET table == FillsTable
        RowsBefore(side, j) == {k \in DOMAIN table : table[k].side = side /\ table[k].step < j}
        price == [k \in DOMAIN table |-> table[k].price]
    IN  Finished =>
          /\ \A j \in Grid :
                LET bought == RowsBefore("bid", j)
                    sold == RowsBefore("ask", j)
                IN  /\ inventory[j] = Cardinality(bought) - Cardinality(sold)
                    /\ cash[j] = SumFunctionOnSet(price, sold) - SumFunctionOnSet(price, bought)
          /\ Len(table) = nBidFills + nAskFills
          /\ FillRateAsymmetry = inventory[N]

(* Requirement 8.4: the maximum drawdown is the worst loss between any     *)
(* point of the path and any later one, and zero only for a path whose     *)
(* profit never falls.                                                     *)
DrawdownIsWorstLoss ==
    LET pnl == MtmPnl IN
    Finished =>
        /\ \A j, k \in Grid : j <= k => pnl[j] - pnl[k] <= MaxDrawdown
        /\ \E j, k \in Grid : j <= k /\ pnl[j] - pnl[k] = MaxDrawdown
        /\ MaxDrawdown = 0 <=> \A j \in Steps : pnl[j] <= pnl[j + 1]

(* Requirements 8.1, 8.6, 8.7: the metrics account for the profit.  What a *)
(* path earns is the spread its fills captured less the drift against them *)
(* up to the horizon: no fill is missed, counted twice, or signed wrongly. *)
ProfitIsCaptureLessDrift ==
    Finished => terminalPnl = SumFunction(SpreadCapture) - SumFunction(Drifts(N))
=============================================================================
