----------------------------- MODULE Simulation -----------------------------
(***************************************************************************)
(* What one run computes before it touches the disk, and which random      *)
(* streams it reads: the tree of seeds (etf_mm_sim/seeding.py) and the     *)
(* sweep over regimes, strategies and paths (backtest.py), with the        *)
(* streams that the command line hands to the analytics (cli.py).  Numbers *)
(* drawn are known by the stream and the positions they come from.         *)
(***************************************************************************)
EXTENDS Config

-----------------------------------------------------------------------------
(* Seeds.  A SeedSequence is known by its entropy and its spawn key, here  *)
(* one sequence; none is spawned from twice.                               *)

Spawn(ss, n) == [k \in 1 .. n |-> Append(ss, k - 1)]
NRegimes(cfg) == Len(cfg.regimes)
RootChildren(cfg) == Spawn(<<cfg.master_seed>>, NRegimes(cfg) + 1)

PathSeeds(cfg, r, p) ==
    LET pair == Spawn(Spawn(RootChildren(cfg)[r], cfg.n_paths)[p], 2)
    IN  [mid |-> pair[1], fill |-> pair[2]]

AnalyticsSeed(cfg) == RootChildren(cfg)[NRegimes(cfg) + 1]

(* The bootstraps of a regime: against each baseline, one of the profits   *)
(* and one of the drawdowns.                                               *)
BootstrapSeed(cfg, r, baseline, metric) ==
    Spawn(Spawn(Spawn(AnalyticsSeed(cfg), NRegimes(cfg))[r], 2)[baseline], 2)[metric]

Draw(ss, from, n) == [stream |-> ss, from |-> from, n |-> n]

(* draw_fill_uniforms: one generator, the bids first and then the asks.    *)
Uniforms(ss, n) == [bid |-> Draw(ss, 0, n), ask |-> Draw(ss, n, n)]

-----------------------------------------------------------------------------
(* The sweep.                                                              *)

Strategies == <<"avellaneda_stoikov", "semi_as", "symmetric">>

Gamma(cfg, r) == IF cfg.regimes[r].gamma = None THEN cfg.quoter.gamma ELSE cfg.regimes[r].gamma

Quoting(cfg, r, strategy) ==
    IF strategy = "symmetric" THEN [schedule |-> None, skewed |-> FALSE]
    ELSE [schedule |-> [gamma |-> Gamma(cfg, r), sigma |-> cfg.regimes[r].sigma],
          skewed |-> strategy = "avellaneda_stoikov"]

(* Mutant of FillSeed: every strategy draws fills of its own.              *)
FillSeedPerStrategy(cfg, r, p, strategy) == Append(PathSeeds(cfg, r, p).fill, strategy)
FillSeed(cfg, r, p, strategy) == PathSeeds(cfg, r, p).fill

(* simulate_gbm, whatever the model of the configuration.                  *)
MidPath(cfg, r, p) ==
    [mu |-> cfg.regimes[r].mu, sigma |-> cfg.regimes[r].sigma,
     draws |-> Draw(PathSeeds(cfg, r, p).mid, 0, Steps(cfg))]

RunPath(cfg, r, strategy, p) ==
    [mid |-> MidPath(cfg, r, p),
     uniforms |-> Uniforms(FillSeed(cfg, r, p, strategy), Steps(cfg)),
     quoting |-> Quoting(cfg, r, strategy), path |-> p]

(* The dictionary of results: a later regime of the same name replaces an  *)
(* earlier one.                                                            *)
RunBacktest(cfg) ==
    [cell \in Range(Strategies) \X {cfg.regimes[r].name : r \in DOMAIN cfg.regimes} |->
        LET r == CHOOSE k \in DOMAIN cfg.regimes :
                    /\ cfg.regimes[k].name = cell[2]
                    /\ \A j \in DOMAIN cfg.regimes : cfg.regimes[j].name = cell[2] => j <= k
        IN  [p \in 1 .. cfg.n_paths |-> RunPath(cfg, r, cell[1], p)]]

-----------------------------------------------------------------------------
(* The draws of a run, each with its use.                                  *)
Overlap(d, e) ==
    d.stream = e.stream /\ d.from < e.from + e.n /\ e.from < d.from + d.n

BootstrapDraws(cfg) ==
    {[use |-> <<"bootstrap", r, b, m>>, draw |-> Draw(BootstrapSeed(cfg, r, b, m), 0, 1)] :
        r \in DOMAIN cfg.regimes, b \in 1 .. 2, m \in 1 .. 2}

PathDraws(cell, result) ==
    {[use |-> <<"mid", cell[2], result.path>>, draw |-> result.mid.draws],
     [use |-> <<"bid", cell[2], result.path>>, draw |-> result.uniforms.bid],
     [use |-> <<"ask", cell[2], result.path>>, draw |-> result.uniforms.ask]}

RunDraws(cfg) ==
    LET results == RunBacktest(cfg)
    IN  BootstrapDraws(cfg) \cup
        UNION {PathDraws(cell, results[cell][p]) :
                  cell \in DOMAIN results, p \in 1 .. cfg.n_paths}
=============================================================================
