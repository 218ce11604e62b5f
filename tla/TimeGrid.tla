------------------------------ MODULE TimeGrid ------------------------------
(***************************************************************************)
(* The time grid of a path in binary floating point: the number of steps   *)
(* (config.py, mid_price.py), the times t_i = i * dt and the steps the     *)
(* quoters suppress (quoters/avellaneda_stoikov.py, backtest.py).          *)
(*                                                                         *)
(* A float is an integer number of grains with at most Bits significant    *)
(* bits; an operation rounds its exact result to the nearest float, ties   *)
(* to even, as IEEE 754 does with 53 bits.                                 *)
(***************************************************************************)
EXTENDS Integers

Bits == 6
Grain == 1024       \* grains in 1
PowersOfTwo ==
    {1, 2, 4, 8, 16, 32, 64, 128, 256, 512, 1024, 2048, 4096, 8192, 16384, 32768, 65536,
     131072, 262144, 524288, 1048576}
Significands == 64  \* the integers of at most Bits bits

(* The nearest integer to a / b, ties to even.                             *)
RoundHalfEven(a, b) ==
    LET down == a \div b
        twice == 2 * (a % b)
    IN  IF twice > b \/ (twice = b /\ down % 2 = 1) THEN down + 1 ELSE down

(* The last bit of the float nearest to a / b grains: the least power of   *)
(* two that leaves Bits bits.                                              *)
LastBit(a, b) ==
    LET fits(bit) == a < b * Significands * bit
    IN  CHOOSE bit \in PowersOfTwo :
            fits(bit) /\ \A less \in PowersOfTwo : less < bit => ~fits(less)
Float(a, b) == RoundHalfEven(a, b * LastBit(a, b)) * LastBit(a, b)

Ceil(x) == (x + Grain - 1) \div Grain

(* Mutant of NSteps: the quotient is rounded down.                         *)
NStepsFloor(T, dt) == Float(T * Grain, dt) \div Grain
(* n = ceil(T / dt): the quotient is rounded to a float first.             *)
NSteps(T, dt) == Ceil(Float(T * Grain, dt))

(* t_grid: np.arange(n + 1) * dt.                                          *)
GridTime(dt, i) == Float(i * dt, 1)

(* The horizon left, np.maximum(T - t_grid, 0), and suppress_mask.         *)
Horizon(T, dt, i) == IF GridTime(dt, i) < T THEN Float(T - GridTime(dt, i), 1) ELSE 0
SuppressedAt(T, dt, i) == GridTime(dt, i) >= T
SuppressMask(T, dt) == [i \in 0 .. NSteps(T, dt) |-> SuppressedAt(T, dt, i)]

-----------------------------------------------------------------------------
(* The grid ends at the horizon, short of it by at most the last bit of T. *)
(* The mask that the path runner is given starts at the last step, one     *)
(* step before it or not at all; it never has a hole, and it is exactly    *)
(* where the schedules have collapsed, so that no step is quoted with a    *)
(* horizon of zero and none is suppressed with a horizon left.             *)
GridMeetsHorizon(T, dt) ==
    LET n == NSteps(T, dt)
        mask == SuppressMask(T, dt)
    IN  /\ n >= 1
        /\ GridTime(dt, n) >= T - LastBit(T, 1)
        /\ \E start \in n - 1 .. n + 1 : \A i \in 0 .. n : mask[i] <=> i >= start
        /\ \A i \in 0 .. n : mask[i] <=> Horizon(T, dt, i) = 0
=============================================================================
