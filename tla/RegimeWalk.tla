----------------------------- MODULE RegimeWalk -----------------------------
(***************************************************************************)
(* The walk of simulate_regime_switching (etf_mm_sim/mid_price.py) over    *)
(* the regimes of a configuration: inverse-CDF sampling on the rows of the *)
(* transition matrix.  A uniform number is one of 0 .. One - 1.            *)
(***************************************************************************)
EXTENDS Config

LooseTolerance == 2     \* np.isclose: 1e-9 and, by default, 1e-5 of the sum

Uniform == 0 .. One - 1

(* What the function demands of the matrix P for R regimes.                *)
MatrixAccepted(P, R) ==
    /\ P # None /\ Len(P) = R
    /\ \A r \in DOMAIN P :
          Len(P[r]) = R /\ Range(P[r]) \subseteq 0 .. One /\ Near(RowSum(P[r]), LooseTolerance)

(* P_cum: the sums along the row, the last one forced to 1.                *)
Cumulative(row) ==
    [j \in DOMAIN row |-> IF j = Len(row) THEN One ELSE RowSum(SubSeq(row, 1, j))]

(* searchsorted, side = "right", clamped to the last regime.               *)
(* Mutant of NextRegime: side = "left".                                    *)
NextRegimeLeft(P, r, u) ==
    LET bucket == Cardinality({j \in DOMAIN P : Cumulative(P[r])[j] < u}) + 1
    IN  IF bucket > Len(P) THEN Len(P) ELSE bucket
NextRegime(P, r, u) ==
    LET bucket == Cardinality({j \in DOMAIN P : Cumulative(P[r])[j] <= u}) + 1
    IN  IF bucket > Len(P) THEN Len(P) ELSE bucket

(* regime_indices: a regime is recorded before the transition out of it.   *)
Walk(P, start, uniforms) ==
    LET regime[i \in DOMAIN uniforms] ==
            IF i = 1 THEN start ELSE NextRegime(P, regime[i - 1], uniforms[i - 1])
    IN  regime

-----------------------------------------------------------------------------
Share(P, r, j) == Cardinality({u \in Uniform : NextRegime(P, r, u) = j})
Off(row) == IF RowSum(row) > One THEN RowSum(row) - One ELSE One - RowSum(row)

(* The walk is the Markov chain of the matrix: each transition takes its   *)
(* share of the uniform numbers, exactly where the row sums to 1 and       *)
(* otherwise off by no more than the row is, and the second transition is  *)
(* made from the regime that the first one led to.                         *)
FollowsMatrix(P) ==
    /\ \A r, j \in DOMAIN P :
          Share(P, r, j) - P[r][j] \in -Off(P[r]) .. Off(P[r])
    /\ LET walks == [uv \in Uniform \X Uniform |-> Walk(P, 1, <<uv[1], uv[2], 0>>)]
       IN  \A j, k \in DOMAIN P :
              Cardinality({uv \in Uniform \X Uniform : walks[uv] = <<1, j, k>>})
                  = Share(P, 1, j) * Share(P, j, k)
=============================================================================
