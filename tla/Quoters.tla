------------------------------ MODULE Quoters ------------------------------
(***************************************************************************)
(* The primitives of the library: the three quoters (quoters/), the risk   *)
(* manager (risk_manager.py) and the fill probability (fill_engine.py).    *)
(* run_path takes the schedules from them and restates the rest in its     *)
(* loop; PathRunner says that the two agree.  An array is a function on    *)
(* the grid, a price an integer number of ticks.                           *)
(***************************************************************************)
EXTENDS Integers

CONSTANT NaN            \* a suppressed quote

-----------------------------------------------------------------------------
(* precompute: the schedules, from the horizon left at each step.  The     *)
(* skew is gamma * sigma^2 of it, 2 * risk here; the half-spread is half   *)
(* of that and a constant.  The Semi-AS quoter has the half-spread alone.  *)
HalfSpreads(horizon, risk, tail) == [j \in DOMAIN horizon |-> risk * horizon[j] + tail]
AsSchedules(horizon, risk, tail) ==
    [skew_coef |-> [j \in DOMAIN horizon |-> 2 * risk * horizon[j]],
     delta_star |-> HalfSpreads(horizon, risk, tail)]

(* quote_arrays.                                                           *)
Masked(quotes, mask) == [j \in DOMAIN quotes |-> IF mask[j] THEN NaN ELSE quotes[j]]
AsQuotes(s, q, skew, delta, mask) ==
    [bid |-> Masked([j \in DOMAIN s |-> s[j] - q[j] * skew[j] - delta[j]], mask),
     ask |-> Masked([j \in DOMAIN s |-> s[j] - q[j] * skew[j] + delta[j]], mask)]
SemiAsQuotes(s, delta, mask) ==
    [bid |-> Masked([j \in DOMAIN s |-> s[j] - delta[j]], mask),
     ask |-> Masked([j \in DOMAIN s |-> s[j] + delta[j]], mask)]
SymmetricQuotes(s, deltaBase) ==
    [bid |-> [j \in DOMAIN s |-> s[j] - deltaBase], ask |-> [j \in DOMAIN s |-> s[j] + deltaBase]]

-----------------------------------------------------------------------------
(* The risk manager: the sides to suppress, the kill-switch (a limit of 0  *)
(* stands for None), and the cash once the inventory is sold at the mid.   *)
ApplyInventoryBounds(q, qMax) == [bid |-> q >= qMax, ask |-> q <= -qMax]
KillSwitchTriggered(pnl, limit) == limit # 0 /\ pnl <= -limit
FlattenTerminal(q, s, cash) == cash + q * s

(* fill_probability is exactly 1 at or through the mid, and less elsewhere.*)
FillIsCertain(delta) == delta <= 0
=============================================================================
