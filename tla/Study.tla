-------------------------------- MODULE Study --------------------------------
(***************************************************************************)
(* A study: someone edits a configuration file, load_config reads it, and  *)
(* what it accepts is swept by run_backtest, walked by the library's       *)
(* simulate_regime_switching, and compared.  Every stage checks its own    *)
(* inputs again, in code of its own.                                       *)
(***************************************************************************)
EXTENDS Simulation, RegimeWalk, Comparison

CONSTANTS
    Bases,          \* the documents that the edits start from
    Values,         \* nodes that an edit may put somewhere
    GridValues,     \* nodes that it may put at horizon.T and horizon.dt
    NewKeys,        \* keys that it may add to a mapping
    MaxEdits,       \* bound on the number of edits
    Metrics,        \* values of the metric of a path
    Shock           \* what happens to both strategies on the paths, in turn

LargestNumber == 1048576    \* a bound: the floats of the time grid go no further

(* The edits start from documents that load and whose keys are strings.    *)
(* None stands for what is absent, so no list of rows is None.             *)
ASSUME StudyAssumption ==
    /\ \A base \in Bases :
          /\ IsDocument(base) /\ LoadConfig(base).raised = "none"
          /\ \A path \in DOMAIN base \ {<<>>} :
                Front(path) \in DOMAIN base /\ Last(path) \notin NonStrings
          /\ \A path \in DOMAIN base : base[path].num < LargestNumber
          /\ KindAt(base, MatrixPath) = "list" => Matrix(base) # None
    /\ \A node \in Values \cup GridValues : IsNode(node) /\ node.num < LargestNumber
    /\ NewKeys \subseteq STRING
    /\ MaxEdits \in Nat
    /\ Metrics \subseteq Int
    /\ Shock \in Seq(Int) /\ Shock # <<>>

VARIABLES
    doc,            \* the document
    edited,         \* the paths edited
    stage,          \* how far it has come
    load,           \* what load_config made of it
    comparison      \* the cells compared and the paths drawn

vars == <<doc, edited, stage, load, comparison>>

Init ==
    /\ doc \in Bases
    /\ edited = {} /\ stage = "file" /\ load = None /\ comparison = None

Cfg == load.config

-----------------------------------------------------------------------------
(* Edits.                                                                  *)

Below(path) == {p \in DOMAIN doc : IsPrefix(path, p)}
Erase(path) == [p \in DOMAIN doc \ Below(path) |-> doc[p]]
Put(path, node) ==
    [p \in (DOMAIN doc \ Below(path)) \cup {path} |-> IF p = path THEN node ELSE doc[p]]
Add(path, node) ==
    [p \in DOMAIN doc \cup {path} |-> IF p \in DOMAIN doc THEN doc[p] ELSE node]

(* All but the last element of a list stay where they are.                 *)
Erasable(path) ==
    Last(path) \in Range(Index) =>
        Append(Front(path), Index[Position(Last(path)) + 1]) \notin DOMAIN doc

(* Bound: two edits are of one section, as no check relates two sections.  *)
InSection(path) == \A p \in edited : Head(p) = Head(path)

Edit ==
    /\ stage = "file" /\ Cardinality(edited) < MaxEdits
    /\ \E path \in DOMAIN doc \ {<<>>} :
          /\ InSection(path)
          /\ \/ /\ edited' = edited \cup {path}
                /\ \/ Erasable(path) /\ doc' = Erase(path)
                   \/ \E node \in Values : doc' = Put(path, node)
                   \/ Head(path) = "horizon" /\ \E node \in GridValues : doc' = Put(path, node)
             \/ \E key \in NewKeys :
                   /\ doc[path].kind = "map"
                   /\ doc' = Add(Append(path, key), IntNode(1))
                   /\ edited' = edited \cup {Append(path, key)}
    /\ UNCHANGED <<stage, load, comparison>>

-----------------------------------------------------------------------------
Load ==
    /\ stage = "file"
    /\ load' = LoadConfig(doc)
    /\ stage' = IF load'.raised = "none" THEN "loaded" ELSE "rejected"
    /\ UNCHANGED <<doc, edited, comparison>>

(* The checks of the later stages.                                         *)
SeedTreeAccepts(cfg) == cfg.master_seed >= 0 /\ NRegimes(cfg) >= 1 /\ cfg.n_paths >= 1
HorizonAccepts(cfg) ==
    TGrains(cfg) > 0 /\ DtGrains(cfg) > 0 /\ DtGrains(cfg) <= TGrains(cfg)
GbmAccepts(cfg, r) == cfg.s0 > 0 /\ cfg.regimes[r].sigma >= 0 /\ HorizonAccepts(cfg)
ScheduleAccepts(cfg, r) ==
    /\ Gamma(cfg, r) > 0 /\ cfg.quoter.k > 0 /\ cfg.regimes[r].sigma >= 0
    /\ DtGrains(cfg) > 0 /\ TGrains(cfg) > 0
RunPathAccepts(cfg) ==
    /\ \A key \in DOMAIN cfg.fill : cfg.fill[key] > 0
    /\ DtGrains(cfg) > 0
    /\ cfg.q_max >= 0
    /\ cfg.L_kill # None => cfg.L_kill > 0
SymmetricAccepts(cfg) == cfg.delta_base >= 0
AdverseSelectionAccepts(cfg) == cfg.adverse >= 0
BootstrapAccepts(cfg) == cfg.n_paths >= 1 /\ cfg.iterations >= 1 /\ cfg.alpha \in 1 .. One - 1

SweepAccepts(cfg) ==
    /\ Valid(cfg) /\ SeedTreeAccepts(cfg)
    /\ \A r \in DOMAIN cfg.regimes : GbmAccepts(cfg, r) /\ ScheduleAccepts(cfg, r)
    /\ RunPathAccepts(cfg) /\ SymmetricAccepts(cfg)
    /\ AdverseSelectionAccepts(cfg) /\ BootstrapAccepts(cfg)

SwitchingAccepts(cfg) ==
    /\ cfg.s0 > 0 /\ cfg.regimes # <<>>
    /\ \A r \in DOMAIN cfg.regimes : cfg.regimes[r].sigma >= 0
    /\ HorizonAccepts(cfg) /\ MatrixAccepted(cfg.matrix, NRegimes(cfg))

(* run_backtest and the analytics after it.                                *)
Sweep ==
    /\ stage = "loaded"
    /\ stage' = IF SweepAccepts(Cfg) THEN "swept" ELSE "crashed"
    /\ UNCHANGED <<doc, edited, load, comparison>>

(* simulate_regime_switching with the regimes and the matrix of the file.  *)
Switch ==
    /\ stage = "loaded" /\ Cfg.model = "regime_switching"
    /\ stage' = IF SwitchingAccepts(Cfg) THEN "walked" ELSE "crashed"
    /\ UNCHANGED <<doc, edited, load, comparison>>

(* Bound: documents edited at most where the comparison reads them.        *)
Compare ==
    /\ stage = "swept" /\ \A p \in edited : Head(p) \in {"mc", "analytics"}
    /\ \E as, baseline \in [1 .. Cfg.n_paths -> Metrics],
         idx \in [1 .. Cfg.iterations -> [1 .. Cfg.n_paths -> 1 .. Cfg.n_paths]] :
          comparison' = [as |-> as, baseline |-> baseline, idx |-> idx]
    /\ stage' = "compared"
    /\ UNCHANGED <<doc, edited, load>>

Next == Edit \/ Load \/ Sweep \/ Switch \/ Compare

Spec == Init /\ [][Next]_vars

-----------------------------------------------------------------------------
Accepted == stage \in {"loaded", "swept", "walked", "compared", "crashed"}

TypeOK ==
    /\ IsDocument(doc)
    /\ \A path \in DOMAIN doc \ {<<>>} : Front(path) \in DOMAIN doc
    /\ edited \subseteq Seq(STRING) \ {<<>>} /\ Cardinality(edited) <= MaxEdits
    /\ stage \in {"file", "rejected", "loaded", "crashed", "swept", "walked", "compared"}
    /\ stage = "file" => load = None
    /\ Accepted => load = [raised |-> "none", field |-> None, config |-> Configuration(doc)]
    /\ stage = "rejected" =>
          \/ load.raised = "ConfigError" /\ load.field \in Seq(FieldNames)
          \/ load.raised = "TypeError" /\ load.field = None
    /\ stage # "compared" => comparison = None
    /\ stage = "compared" =>
          /\ comparison.as \in [1 .. Cfg.n_paths -> Metrics]
          /\ comparison.baseline \in [1 .. Cfg.n_paths -> Metrics]

(* "validate(cfg) ... a malformed cfg here would fail much later": what    *)
(* load_config accepts, no later stage refuses, although each of them      *)
(* restates its conditions in code of its own; and it is written back as a *)
(* file that loads as the same configuration.                              *)
LoadedMeansRunnable ==
    /\ stage # "crashed"
    /\ stage = "loaded" => LoadConfig(Dump(Cfg)) = load

RegimesPath == <<"mid_price", "regimes">>

(* The fields that a check relates to an edited one.                       *)
Related(path, field) ==
    \/ path = <<"horizon", "T">> /\ field = <<"horizon", "dt">>
    \/ path = <<"mid_price", "model">> /\ field \in {RegimesPath, MatrixPath}
    \/ path \in {RegimesPath} \cup {RegimePath(k) : k \in DOMAIN Index} /\ IsPrefix(MatrixPath, field)
    \/ IsPrefix(RegimesPath, path) /\ Last(path) = "name" /\ IsPrefix(RegimesPath, field)
       /\ Last(field) = "name"

(* "<field_path> is the dotted YAML path to the offending field": a        *)
(* ConfigError names a field that was edited, one that it contained, the   *)
(* mapping or list in which it was, or a field that a check compares with  *)
(* it.  The one error that names none is the TypeError for unknown keys    *)
(* that do not sort: it takes an edit that put in a key that is no string. *)
ErrorNamesField ==
    stage = "rejected" =>
        \E path \in edited :
            \/ /\ load.raised = "ConfigError"
               /\ \/ IsPrefix(load.field, path) \/ IsPrefix(path, load.field)
                  \/ Related(path, load.field)
            \/ load.raised = "TypeError" /\ Last(path) \in NonStrings

(* Every configuration that is loaded has a grid on which the path runner  *)
(* is given one of the masks it was checked for.                           *)
MaskWithinOneStep == stage = "loaded" => GridMeetsHorizon(TGrains(Cfg), DtGrains(Cfg))

(* Every matrix that is loaded is walked as the Markov chain it describes. *)
WalkFollowsMatrix == stage = "walked" => FollowsMatrix(Cfg.matrix)

(* The reported interval is one of the pairs, for any results.             *)
IntervalIsOfPairs ==
    stage = "compared" =>
        /\ IntervalOfPairs(comparison.as, comparison.baseline, comparison.idx, Cfg.alpha, Shock)
        /\ SummaryOrdered(comparison.as)
=============================================================================
