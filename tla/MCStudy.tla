------------------------------- MODULE MCStudy -------------------------------
(***************************************************************************)
(* Two documents to edit: one regime, and two between which a matrix       *)
(* switches, one row of it within the tolerance.                           *)
(***************************************************************************)
EXTENDS Study

MCRegime(name, sigma, gamma) == [name |-> name, mu |-> 0, sigma |-> sigma, gamma |-> gamma]
MCGbm ==
    [master_seed |-> 42, horizon |-> [T |-> 18, dt |-> 6], model |-> "gbm", s0 |-> 2000,
     regimes |-> <<MCRegime("low", 2, None)>>, matrix |-> None,
     quoter |-> [gamma |-> 2, k |-> 30, A |-> 20], delta_base |-> 10,
     fill |-> [A_b |-> 1, k_b |-> 1, A_a |-> 1, k_a |-> 1], q_max |-> 3, L_kill |-> None,
     n_paths |-> 2, adverse |-> 1, iterations |-> 3, alpha |-> 2, sharpe |-> 20, dir |-> "out"]
MCSwitching ==
    [MCGbm EXCEPT !.model = "regime_switching", !.L_kill = 30,
                  !.regimes = <<MCRegime("low", 2, None), MCRegime("high", 4, 3)>>,
                  !.matrix = <<<<12, 8>>, <<10, 9>>>>]
MCBases == {Dump(MCGbm), Dump(MCSwitching)}

MCValues ==
    {NullNode, Node("bool", 0, ""), Node("nan", 0, ""), MapNode, ListNode}
    \cup {StrNode(s) : s \in {"", "low", "gbm", "regime_switching"}}
    \cup {IntNode(n) : n \in {-1, 0, 1}}
    \cup {FloatNode(x) : x \in {-1, 0, 9}}
MCGridValues == {FloatNode(x) : x \in 1 .. 40}
MCNewKeys == {"typo", "5"}
MCMetrics == {0, 1, 3}
MCShock == <<2, -5>>
=============================================================================
