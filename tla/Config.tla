------------------------------- MODULE Config -------------------------------
(***************************************************************************)
(* The configuration (etf_mm_sim/config.py): from a YAML document to a     *)
(* configuration or an error, and back.                                    *)
(*                                                                         *)
(* A document is a function from paths to nodes; a path is the sequence of *)
(* keys that leads to the node, <<>> for the root.  Every number of a      *)
(* document, and every float of a configuration, is in units of 1/One.     *)
(***************************************************************************)
EXTENDS TimeGrid, SequencesExt

CONSTANTS
    None,
    NonStrings      \* keys that YAML reads as something else than a string

One == 20
Tolerance == 1      \* the 1e-9 that a row of the matrix may be off

Index == <<"0", "1", "2">>      \* the positions of a list

(* The keys of a file.                                                     *)
FieldNames ==
    {"master_seed", "horizon", "T", "dt", "mid_price", "model", "s0", "regimes", "name", "mu",
     "sigma", "gamma", "transition_matrix", "quoters", "avellaneda_stoikov", "k", "A",
     "symmetric", "delta_base", "fill", "A_b", "k_b", "A_a", "k_a", "risk", "q_max", "L_kill",
     "mc", "n_paths", "analytics", "adverse_selection_horizon_steps", "bootstrap_iterations",
     "bootstrap_alpha", "sharpe_annualization_factor", "output", "dir", "format"}
    \cup {Index[k] : k \in DOMAIN Index}

-----------------------------------------------------------------------------
(* Nodes.                                                                  *)

Node(kind, num, text) == [kind |-> kind, num |-> num, text |-> text]
IntNode(n) == Node("int", n * One, "")
FloatNode(x) == Node("float", x, "")
StrNode(s) == Node("str", 0, s)
NullNode == Node("null", 0, "")
MapNode == Node("map", 0, "")
ListNode == Node("list", 0, "")

(* Paths are made of keys, and numbers of the unit.                        *)
Kinds == {"int", "float", "nan", "bool", "str", "null", "map", "list"}
IsNode(node) == node.kind \in Kinds /\ node.num \in Int
IsDocument(doc) == \A path \in DOMAIN doc : path \in Seq(STRING) /\ IsNode(doc[path])

KindAt(doc, path) == IF path \in DOMAIN doc THEN doc[path].kind ELSE "absent"
Length(doc, path) == Cardinality({k \in DOMAIN Index : Append(path, Index[k]) \in DOMAIN doc})

-----------------------------------------------------------------------------
(* The structure that load_config demands, as the sequence of its checks:  *)
(* what may stand at a path, and which keys below it if that is a mapping. *)

Check(path, kinds, keys, words) == [path |-> path, kinds |-> kinds, keys |-> keys, words |-> words]
Field(key, kinds) == [key |-> key, kinds |-> kinds, words |-> {}]
Word(key, words) == [key |-> key, kinds |-> {"str"}, words |-> words]

Number == {"int", "float"}
Optional == {"absent", "null"}

(* A mapping with these fields, and no other key than theirs and `more`.   *)
Mapping(path, fields, more) ==
    <<Check(path, {"map"}, {fields[f].key : f \in DOMAIN fields} \cup more, {})>>
    \o [f \in DOMAIN fields |->
          Check(Append(path, fields[f].key), fields[f].kinds, {}, fields[f].words)]
Numbers(path, keys) == Mapping(path, [k \in DOMAIN keys |-> Field(keys[k], Number)], {})

RegimePath(k) == <<"mid_price", "regimes", Index[k]>>
RegimeChecks(k) ==
    Mapping(RegimePath(k),
            <<Field("name", {"str"}), Field("mu", Number), Field("sigma", Number),
              Field("gamma", Number \cup Optional)>>, {})
MatrixPath == <<"mid_price", "transition_matrix">>
RowPath(i) == Append(MatrixPath, Index[i])
EntryPath(i, j) == Append(RowPath(i), Index[j])
RowChecks(doc, i) ==
    <<Check(RowPath(i), {"list"}, {}, {})>>
    \o [j \in 1 .. Length(doc, RowPath(i)) |-> Check(EntryPath(i, j), Number, {}, {})]

MidPriceChecks(doc) ==
    Mapping(<<"mid_price">>, <<Word("model", {"gbm", "regime_switching"}), Field("s0", Number),
                               Field("regimes", {"list"})>>, {"transition_matrix"})
    \o FlattenSeq([k \in 1 .. Length(doc, <<"mid_price", "regimes">>) |-> RegimeChecks(k)])
    \o <<Check(MatrixPath, {"list"} \cup Optional, {}, {})>>
    \o FlattenSeq([i \in 1 .. Length(doc, MatrixPath) |-> RowChecks(doc, i)])

StructuralChecks(doc) ==
    Mapping(<<>>, <<Field("master_seed", {"int"})>>,
            {"horizon", "mid_price", "quoters", "fill", "risk", "mc", "analytics", "output"})
    \o Numbers(<<"horizon">>, <<"T", "dt">>)
    \o MidPriceChecks(doc)
    \o Mapping(<<"quoters">>, <<>>, {"avellaneda_stoikov", "symmetric"})
    \o Numbers(<<"quoters", "avellaneda_stoikov">>, <<"gamma", "k", "A">>)
    \o Numbers(<<"quoters", "symmetric">>, <<"delta_base">>)
    \o Numbers(<<"fill">>, <<"A_b", "k_b", "A_a", "k_a">>)
    \o Mapping(<<"risk">>, <<Field("q_max", {"int"}), Field("L_kill", Number \cup {"null"})>>, {})
    \o Mapping(<<"mc">>, <<Field("n_paths", {"int"})>>, {})
    \o Mapping(<<"analytics">>,
               <<Field("adverse_selection_horizon_steps", {"int"}),
                 Field("bootstrap_iterations", {"int"}), Field("bootstrap_alpha", Number),
                 Field("sharpe_annualization_factor", Number)>>, {})
    \o Mapping(<<"output">>, <<Field("dir", {"str"}), Word("format", {"parquet"})>>, {})

KeysOf(doc, path) ==
    {p[Len(path) + 1] : p \in {q \in DOMAIN doc : Len(q) = Len(path) + 1 /\ IsPrefix(path, q)}}
UnknownKeys(doc, check) ==
    IF KindAt(doc, check.path) # "map" \/ "map" \notin check.kinds THEN {}
    ELSE KeysOf(doc, check.path) \ check.keys

Rejects(doc, check) ==
    \/ KindAt(doc, check.path) \notin check.kinds
    \/ UnknownKeys(doc, check) # {}
    \/ check.words # {} /\ doc[check.path].text \notin check.words

(* The message about unknown keys sorts the keys of the mapping: one that  *)
(* is not a string among strings cannot be compared.                       *)
Unsortable(doc, check) ==
    LET keys == KeysOf(doc, check.path)
    IN  UnknownKeys(doc, check) # {} /\ keys \cap NonStrings # {} /\ ~(keys \subseteq NonStrings)

-----------------------------------------------------------------------------
(* The configuration that a well-formed document describes.                *)

FloatAt(doc, path) == doc[path].num
FloatOrNone(doc, path) == IF KindAt(doc, path) \in Optional THEN None ELSE FloatAt(doc, path)
IntAt(doc, path) == doc[path].num \div One

(* str(pathlib.Path(text)): the empty path is the current directory.       *)
PathOf(text) == IF text = "" THEN "." ELSE text

Regime(doc, k) ==
    LET at(key) == Append(RegimePath(k), key)
    IN  [name |-> doc[at("name")].text, mu |-> FloatAt(doc, at("mu")),
         sigma |-> FloatAt(doc, at("sigma")), gamma |-> FloatOrNone(doc, at("gamma"))]
Matrix(doc) ==
    IF KindAt(doc, MatrixPath) \in Optional THEN None
    ELSE [i \in 1 .. Length(doc, MatrixPath) |->
            [j \in 1 .. Length(doc, RowPath(i)) |-> FloatAt(doc, EntryPath(i, j))]]

(* A section of the document whose fields are all floats.                  *)
Floats(doc, path, keys) == [key \in keys |-> FloatAt(doc, Append(path, key))]

Configuration(doc) ==
    [master_seed |-> IntAt(doc, <<"master_seed">>),
     horizon |-> Floats(doc, <<"horizon">>, {"T", "dt"}),
     model |-> doc[<<"mid_price", "model">>].text,
     s0 |-> FloatAt(doc, <<"mid_price", "s0">>),
     regimes |-> [k \in 1 .. Length(doc, <<"mid_price", "regimes">>) |-> Regime(doc, k)],
     matrix |-> Matrix(doc),
     quoter |-> Floats(doc, <<"quoters", "avellaneda_stoikov">>, {"gamma", "k", "A"}),
     delta_base |-> FloatAt(doc, <<"quoters", "symmetric", "delta_base">>),
     fill |-> Floats(doc, <<"fill">>, {"A_b", "k_b", "A_a", "k_a"}),
     q_max |-> IntAt(doc, <<"risk", "q_max">>),
     L_kill |-> FloatOrNone(doc, <<"risk", "L_kill">>),
     n_paths |-> IntAt(doc, <<"mc", "n_paths">>),
     adverse |-> IntAt(doc, <<"analytics", "adverse_selection_horizon_steps">>),
     iterations |-> IntAt(doc, <<"analytics", "bootstrap_iterations">>),
     alpha |-> FloatAt(doc, <<"analytics", "bootstrap_alpha">>),
     sharpe |-> FloatAt(doc, <<"analytics", "sharpe_annualization_factor">>),
     dir |-> PathOf(doc[<<"output", "dir">>].text)]

(* T and dt as floats: the decimal numbers rounded.                        *)
TGrains(cfg) == Float(cfg.horizon.T * Grain, One)
DtGrains(cfg) == Float(cfg.horizon.dt * Grain, One)
Steps(cfg) == NSteps(TGrains(cfg), DtGrains(cfg))

-----------------------------------------------------------------------------
(* validate, as the sequence of its checks.                                *)

Clause(field, ok) == [field |-> field, ok |-> ok]
Positive(path, fields) == [k \in DOMAIN fields |-> Clause(Append(path, fields[k][1]), fields[k][2] > 0)]

UniqueName(cfg, k) == \A j \in 1 .. k - 1 : cfg.regimes[j].name # cfg.regimes[k].name

(* Mutant of GammaOk: zero is accepted.                                    *)
GammaOkZero(regime) == regime.gamma # None => regime.gamma >= 0
GammaOk(regime) == regime.gamma # None => regime.gamma > 0

RegimeClauses(cfg, k) ==
    LET at(key) == Append(RegimePath(k), key)
    IN  <<Clause(at("name"), cfg.regimes[k].name # ""),
          Clause(at("name"), UniqueName(cfg, k)),
          Clause(at("sigma"), cfg.regimes[k].sigma >= 0),
          Clause(at("gamma"), GammaOk(cfg.regimes[k]))>>

RowSum(row) == SumFunction(row)
Near(x, tolerance) == x - One \in -tolerance .. tolerance
(* Mutant of RowClauses: the error always names the first row.             *)
RowClausesFirst(cfg, i) ==
    LET row == cfg.matrix[i]
    IN  <<Clause(RowPath(1), Len(row) = Len(cfg.regimes) /\ Range(row) \subseteq 0 .. One
                             /\ Near(RowSum(row), Tolerance))>>
RowClauses(cfg, i) ==
    LET row == cfg.matrix[i]
    IN  IF Len(row) # Len(cfg.regimes) THEN <<Clause(RowPath(i), FALSE)>>
        ELSE [j \in DOMAIN row |-> Clause(EntryPath(i, j), row[j] \in 0 .. One)]
             \o <<Clause(RowPath(i), Near(RowSum(row), Tolerance))>>
SquareMatrix(cfg) == cfg.matrix # None /\ Len(cfg.matrix) = Len(cfg.regimes)
SwitchingClauses(cfg) ==
    <<Clause(MatrixPath, SquareMatrix(cfg))>>
    \o (IF SquareMatrix(cfg) THEN FlattenSeq([i \in DOMAIN cfg.matrix |-> RowClauses(cfg, i)])
        ELSE <<>>)
ModelClauses(cfg) ==
    IF cfg.model = "regime_switching" THEN SwitchingClauses(cfg)
    ELSE <<Clause(MatrixPath, cfg.matrix = None),
           Clause(<<"mid_price", "regimes">>, Len(cfg.regimes) = 1)>>

Clauses(cfg) ==
    <<Clause(<<"master_seed">>, cfg.master_seed >= 0)>>
    \o Positive(<<"horizon">>, <<<<"T", cfg.horizon.T>>, <<"dt", cfg.horizon.dt>>>>)
    \o <<Clause(<<"horizon", "dt">>, DtGrains(cfg) <= TGrains(cfg)),
         Clause(<<"mid_price", "s0">>, cfg.s0 > 0),
         Clause(<<"mid_price", "regimes">>, cfg.regimes # <<>>)>>
    \o FlattenSeq([k \in DOMAIN cfg.regimes |-> RegimeClauses(cfg, k)])
    \o ModelClauses(cfg)
    \o Positive(<<"quoters", "avellaneda_stoikov">>,
                <<<<"gamma", cfg.quoter.gamma>>, <<"k", cfg.quoter.k>>, <<"A", cfg.quoter.A>>>>)
    \o <<Clause(<<"quoters", "symmetric", "delta_base">>, cfg.delta_base >= 0)>>
    \o Positive(<<"fill">>, <<<<"A_b", cfg.fill.A_b>>, <<"k_b", cfg.fill.k_b>>,
                              <<"A_a", cfg.fill.A_a>>, <<"k_a", cfg.fill.k_a>>>>)
    \o <<Clause(<<"risk", "q_max">>, cfg.q_max >= 0),
         Clause(<<"risk", "L_kill">>, cfg.L_kill # None => cfg.L_kill > 0),
         Clause(<<"mc", "n_paths">>, cfg.n_paths >= 1),
         Clause(<<"analytics", "adverse_selection_horizon_steps">>, cfg.adverse >= 0),
         Clause(<<"analytics", "bootstrap_iterations">>, cfg.iterations >= 1),
         Clause(<<"analytics", "bootstrap_alpha">>, 0 < cfg.alpha /\ cfg.alpha < One),
         Clause(<<"analytics", "sharpe_annualization_factor">>, cfg.sharpe > 0)>>

Valid(cfg) == \A k \in DOMAIN Clauses(cfg) : Clauses(cfg)[k].ok

(* load_config: the configuration, or what is raised and about which field.*)
(* Mutant of Failure: the field is not passed on.                          *)
FailureNoField(raised, field) == [raised |-> raised, field |-> None, config |-> None]
Failure(raised, field) == [raised |-> raised, field |-> field, config |-> None]
Validated(cfg) ==
    LET clauses == Clauses(cfg)
        broken == SelectInSeq(clauses, LAMBDA c : ~c.ok)
    IN  IF broken = 0 THEN [raised |-> "none", field |-> None, config |-> cfg]
        ELSE Failure("ConfigError", clauses[broken].field)
(* sorted raises a TypeError of its own, which names no field.             *)
Rejection(doc, check) ==
    IF Unsortable(doc, check) THEN Failure("TypeError", None) ELSE Failure("ConfigError", check.path)
FirstRejected(doc, checks) == SelectInSeq(checks, LAMBDA c : Rejects(doc, c))
LoadConfig(doc) ==
    LET checks == StructuralChecks(doc)
        broken == FirstRejected(doc, checks)
    IN  IF broken = 0 THEN Validated(Configuration(doc))
        ELSE Rejection(doc, checks[broken])

-----------------------------------------------------------------------------
(* dump_config.                                                            *)

Position(key) == CHOOSE k \in DOMAIN Index : Index[k] = key

(* Mutant of DumpRegime: the override of gamma is forgotten.               *)
DumpRegimeNoGamma(g) ==
    [key \in {"name", "mu", "sigma"} |-> IF key = "name" THEN StrNode(g.name) ELSE FloatNode(g[key])]
DumpRegime(g) ==
    [key \in {"name", "mu", "sigma"} \cup (IF g.gamma = None THEN {} ELSE {"gamma"}) |->
        IF key = "name" THEN StrNode(g.name) ELSE FloatNode(g[key])]
DumpMidPrice(cfg) ==
    [key \in {"model", "s0"} \cup (IF cfg.matrix = None THEN {"transition_matrix"} ELSE {}) |->
        CASE key = "model" -> StrNode(cfg.model)
          [] key = "s0" -> FloatNode(cfg.s0)
          [] OTHER -> NullNode]
DumpRow(row) == [key \in {Index[j] : j \in DOMAIN row} |-> FloatNode(row[Position(key)])]
DumpFloats(section) == [key \in DOMAIN section |-> FloatNode(section[key])]

(* The mappings and the lists of the file ...                              *)
RegimePaths(cfg) == {RegimePath(k) : k \in DOMAIN cfg.regimes}
RowPaths(cfg) == IF cfg.matrix = None THEN {} ELSE {RowPath(i) : i \in DOMAIN cfg.matrix}
MapPaths(cfg) ==
    {<<>>, <<"horizon">>, <<"mid_price">>, <<"quoters">>, <<"quoters", "avellaneda_stoikov">>,
     <<"quoters", "symmetric">>, <<"fill">>, <<"risk">>, <<"mc">>, <<"analytics">>, <<"output">>}
    \cup RegimePaths(cfg)
ListPaths(cfg) ==
    {<<"mid_price", "regimes">>} \cup (IF cfg.matrix = None THEN {} ELSE {MatrixPath})
    \cup RowPaths(cfg)

(* ... and the scalars that stand directly in each, by their keys.         *)
Entries(cfg, path) ==
    CASE path = <<>> -> [master_seed |-> IntNode(cfg.master_seed)]
      [] path = <<"horizon">> -> DumpFloats(cfg.horizon)
      [] path = <<"mid_price">> -> DumpMidPrice(cfg)
      [] path \in RegimePaths(cfg) -> DumpRegime(cfg.regimes[Position(Last(path))])
      [] path \in RowPaths(cfg) -> DumpRow(cfg.matrix[Position(Last(path))])
      [] path = <<"quoters", "avellaneda_stoikov">> -> DumpFloats(cfg.quoter)
      [] path = <<"quoters", "symmetric">> -> [delta_base |-> FloatNode(cfg.delta_base)]
      [] path = <<"fill">> -> DumpFloats(cfg.fill)
      [] path = <<"risk">> ->
            [q_max |-> IntNode(cfg.q_max),
             L_kill |-> IF cfg.L_kill = None THEN NullNode ELSE FloatNode(cfg.L_kill)]
      [] path = <<"mc">> -> [n_paths |-> IntNode(cfg.n_paths)]
      [] path = <<"analytics">> ->
            [adverse_selection_horizon_steps |-> IntNode(cfg.adverse),
             bootstrap_iterations |-> IntNode(cfg.iterations),
             bootstrap_alpha |-> FloatNode(cfg.alpha),
             sharpe_annualization_factor |-> FloatNode(cfg.sharpe)]
      [] path = <<"output">> -> [dir |-> StrNode(cfg.dir), format |-> StrNode("parquet")]
      [] OTHER -> <<>>

Dump(cfg) ==
    LET inner == MapPaths(cfg) \cup ListPaths(cfg)
        leaves == UNION {{Append(p, key) : key \in DOMAIN Entries(cfg, p)} : p \in inner}
    IN  [p \in inner \cup leaves |->
            IF p \in MapPaths(cfg) THEN MapNode
            ELSE IF p \in ListPaths(cfg) THEN ListNode
            ELSE Entries(cfg, Front(p))[Last(p)]]
=============================================================================
