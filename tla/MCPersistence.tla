--------------------------- MODULE MCPersistence ----------------------------
(***************************************************************************)
(* Four files: one regime; two regimes, of which one overrides gamma; two  *)
(* regimes of one name, which load_config refuses; and a file with a key   *)
(* that is not a string.  The hashes of the first two begin alike.         *)
(* Processes are interchangeable: no operator tells them apart.            *)
(***************************************************************************)
EXTENDS Persistence

MCRegime(name, sigma, gamma) == [name |-> name, mu |-> 0, sigma |-> sigma, gamma |-> gamma]
MCGbm ==
    [master_seed |-> 42, horizon |-> [T |-> 18, dt |-> 9], model |-> "gbm", s0 |-> 2000,
     regimes |-> <<MCRegime("low", 2, None)>>, matrix |-> None,
     quoter |-> [gamma |-> 2, k |-> 30, A |-> 20], delta_base |-> 10,
     fill |-> [A_b |-> 1, k_b |-> 1, A_a |-> 1, k_a |-> 1], q_max |-> 3, L_kill |-> None,
     n_paths |-> 2, adverse |-> 1, iterations |-> 3, alpha |-> 2, sharpe |-> 20, dir |-> "out"]
MCSwitching(regimes) ==
    [MCGbm EXCEPT !.model = "regime_switching", !.regimes = regimes,
                  !.matrix = <<<<12, 8>>, <<10, 10>>>>]

MCOne == Dump(MCGbm)
MCPlain == Dump(MCSwitching(<<MCRegime("low", 2, None), MCRegime("high", 4, None)>>))
MCTwo == MCPlain @@ (<<"mid_price", "regimes", "1", "gamma">> :> FloatNode(3))
MCTwice == Dump(MCSwitching(<<MCRegime("low", 2, None), MCRegime("low", 2, None)>>))
MCMixedKeys == MCOne @@ (<<"risk", "5">> :> IntNode(1))

MCConfigFiles == {MCOne, MCTwo, MCTwice, MCMixedKeys}
MCShaPrefix == [d \in {MCOne, MCTwo, MCPlain} |-> "sha1"]

MCSymmetry == Permutations(Procs)
=============================================================================
