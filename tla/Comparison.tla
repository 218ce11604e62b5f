----------------------------- MODULE Comparison -----------------------------
(***************************************************************************)
(* The statistics over the paths of a regime: the summary of a cell and    *)
(* the paired comparison of two cells (etf_mm_sim/analytics.py) with its   *)
(* percentile bootstrap (bootstrap.py).                                    *)
(*                                                                         *)
(* A cell is the sequence of one metric over its paths.  Means are sums:   *)
(* all those compared are over the same number of paths.  A quantile level *)
(* is in units of 1/Levels, and so is the interpolated quantile itself.    *)
(***************************************************************************)
EXTENDS Integers, SequencesExt

Levels == 40

MinOf(s) == CHOOSE x \in ToSet(s) : \A y \in ToSet(s) : x <= y
MaxOf(s) == CHOOSE x \in ToSet(s) : \A y \in ToSet(s) : y <= x
Total(s) == SumFunction(s)

-----------------------------------------------------------------------------
(* The k-th of the values in their order.                                  *)
OrderStatistic(values, k) ==
    CHOOSE x \in ToSet(values) :
        /\ Cardinality({i \in DOMAIN values : values[i] < x}) < k
        /\ k <= Cardinality({i \in DOMAIN values : values[i] <= x})

(* np.quantile: linear interpolation between the order statistics around   *)
(* position level * (B - 1).                                               *)
Quantile(values, level) ==
    LET h == (Len(values) - 1) * level
        low == h \div Levels + 1
    IN  IF h % Levels = 0 THEN OrderStatistic(values, low) * Levels
        ELSE OrderStatistic(values, low) * (Levels - (h % Levels))
             + OrderStatistic(values, low + 1) * (h % Levels)

(* aggregate_cell, for one metric: the mean and the 5th, 50th and 95th     *)
(* percentiles; an empty cell is summarised by zeros.                      *)
Summary(cell) ==
    IF cell = <<>> THEN [n |-> 0, total |-> 0, p05 |-> 0, p50 |-> 0, p95 |-> 0]
    ELSE [n |-> Len(cell), total |-> Total(cell), p05 |-> Quantile(cell, Levels \div 20),
          p50 |-> Quantile(cell, Levels \div 2), p95 |-> Quantile(cell, Levels - Levels \div 20)]

-----------------------------------------------------------------------------
(* paired_bootstrap_ci: idx gives, for every resample, the paths drawn.    *)
Resample(diff, idx) == [b \in DOMAIN idx |-> Total([k \in DOMAIN idx[b] |-> diff[idx[b][k]]])]
BootstrapCI(diff, idx, alpha) ==
    LET means == Resample(diff, idx)
    IN  [point |-> Total(diff), lo |-> Quantile(means, alpha), hi |-> Quantile(means, Levels - alpha)]

(* compute_paired_comparison: the cells are paired by position.            *)
(* Mutant of Differences: each cell in the order of its own results.       *)
DifferencesSorted(as, baseline) ==
    [p \in DOMAIN as |-> OrderStatistic(as, p) - OrderStatistic(baseline, p)]
Differences(as, baseline) == [p \in DOMAIN as |-> as[p] - baseline[p]]
Paired(as, baseline, idx, alpha) == BootstrapCI(Differences(as, baseline), idx, alpha)

-----------------------------------------------------------------------------
(* Requirement 8.8: the interval is one of the pairs.  Whatever happens to *)
(* both strategies alike on a path leaves it unchanged; exchanging the     *)
(* strategies mirrors it; its point is the difference of the two summaries *)
(* that are reported beside it; and it lies between the worst and the best *)
(* pair, lower end first.                                                  *)
IntervalOfPairs(as, baseline, idx, alpha, shock) ==
    LET ci == Paired(as, baseline, idx, alpha)
        shocked(cell) == [p \in DOMAIN cell |-> cell[p] + shock[(p % Len(shock)) + 1]]
        mirrored == Paired(baseline, as, idx, alpha)
        pairs == [p \in DOMAIN as |-> as[p] - baseline[p]]
        n == Len(as)
    IN  /\ Paired(shocked(as), shocked(baseline), idx, alpha) = ci
        /\ mirrored = [point |-> -ci.point, lo |-> -ci.hi, hi |-> -ci.lo]
        /\ ci.point = Summary(as).total - Summary(baseline).total
        /\ n * MinOf(pairs) * Levels <= ci.lo
        /\ ci.lo <= ci.hi
        /\ ci.hi <= n * MaxOf(pairs) * Levels

(* The percentiles of a summary are ordered and within the cell.           *)
SummaryOrdered(cell) ==
    LET s == Summary(cell)
    IN  /\ MinOf(cell) * Levels <= s.p05
        /\ s.p05 <= s.p50 /\ s.p50 <= s.p95
        /\ s.p95 <= MaxOf(cell) * Levels
=============================================================================
