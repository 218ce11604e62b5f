---------------------------- MODULE MCPathRunner ----------------------------
(***************************************************************************)
(* Instances of PathRunner: a few steps, three prices, the schedules of    *)
(* the Avellaneda-Stoikov quoter, and the masks its time grid produces.    *)
(***************************************************************************)
EXTENDS PathReport

MCHorizon == [j \in 0 .. N |-> N - j]
MCSkewCoef == AsSchedules(MCHorizon, 1, 1).skew_coef
MCDeltaStar == AsSchedules(MCHorizon, 1, 1).delta_star

(* suppress_mask = t_grid >= T with t_i = i * dt and N = ceil(T / dt) in   *)
(* binary floating point: the mask starts at N as a rule, at N - 1 when    *)
(* T / dt rounds up (T = 0.07, dt = 0.005) and nowhere when N * dt rounds  *)
(* down (T = 0.9, dt = 0.3).  GridMeetsHorizon of TimeGrid says that these *)
(* are all; the schedules are not read where the mask is set.              *)
MCMaskFrom(k) == [j \in 0 .. N |-> j >= k]
MCMasks == {MCMaskFrom(k) : k \in N - 1 .. N + 1}

MCPrices == 9 .. 11
MCStrategies == {"avellaneda_stoikov", "semi_as", "symmetric"}
=============================================================================
