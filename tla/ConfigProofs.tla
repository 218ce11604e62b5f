---------------------------- MODULE ConfigProofs ----------------------------
(***************************************************************************)
(* Theorems about load_config, validate and dump_config for any document:  *)
(* what is accepted satisfies every clause, and is written back as a file  *)
(* that loads as the same configuration.                                   *)
(***************************************************************************)
EXTENDS Config, ProofLemmas, SequenceTheorems

-----------------------------------------------------------------------------
(* Sequences.                                                              *)

IsSeq(s) == s \in Seq(Range(s))

LEMMA SeqIs ==
    ASSUME NEW n \in Nat, NEW S, NEW s \in [1 .. n -> S]
    PROVE  IsSeq(s) /\ Len(s) = n
<1>1. s \in [1 .. n -> Range(s)]
  BY DEF Range
<1>2. s \in Seq(Range(s))
  BY <1>1, SeqDef
<1> QED BY <1>2, LenProperties DEF IsSeq

LEMMA ConcatSeqs ==
    ASSUME NEW a, NEW b, IsSeq(a), IsSeq(b)
    PROVE  IsSeq(a \o b) /\ Range(a \o b) = Range(a) \cup Range(b)
<1> DEFINE S == Range(a) \cup Range(b)
<1>1. a \in Seq(S) /\ b \in Seq(S)
  <2>1. \A i \in 1 .. Len(a) : a[i] \in S
    BY LenProperties, ElementOfSeq DEF IsSeq
  <2>2. \A i \in 1 .. Len(b) : b[i] \in S
    BY LenProperties, ElementOfSeq DEF IsSeq
  <2> HIDE DEF S
  <2>3. a \in [1 .. Len(a) -> S] /\ Len(a) \in Nat
    BY <2>1, LenProperties DEF IsSeq
  <2>4. b \in [1 .. Len(b) -> S] /\ Len(b) \in Nat
    BY <2>2, LenProperties DEF IsSeq
  <2> QED BY <2>3, <2>4, SeqDef
<1>2. PICK m, n, c : m = Len(a) /\ n = Len(b) /\ c = a \o b
  OBVIOUS
<1>3. m \in Nat /\ n \in Nat /\ DOMAIN a = 1 .. m /\ DOMAIN b = 1 .. n
  BY <1>2, LenProperties DEF IsSeq
<1> HIDE DEF S
<1>4. c \in Seq(S) /\ Len(c) = m + n
      /\ \A i \in 1 .. m + n : c[i] = IF i <= m THEN a[i] ELSE b[i - m]
  BY <1>1, <1>2, ConcatProperties
<1>5. DOMAIN c = 1 .. m + n
  BY <1>4, LenProperties
<1>6. c \in [1 .. m + n -> S] /\ m + n \in Nat
  BY <1>3, <1>4, LenProperties
<1>7. IsSeq(c)
  BY <1>6, SeqIs
<1>8. Range(c) \subseteq S
  BY <1>5, <1>6 DEF Range
<1>9. ASSUME NEW i \in 1 .. m PROVE a[i] \in Range(c)
  <2>1. i \in 1 .. m + n /\ c[i] = a[i]
    BY <1>3, <1>4
  <2> QED BY <1>5, <2>1 DEF Range
<1>10. ASSUME NEW i \in 1 .. n PROVE b[i] \in Range(c)
  <2>1. PICK j : j = m + i
    OBVIOUS
  <2>2. j \in 1 .. m + n /\ ~(j <= m) /\ j - m = i
    BY <1>3, <2>1
  <2>3. c[j] = b[i]
    BY <1>4, <2>2
  <2> QED BY <1>5, <2>2, <2>3 DEF Range
<1>11. Range(a) \subseteq Range(c) /\ Range(b) \subseteq Range(c)
  BY <1>3, <1>9, <1>10 DEF Range
<1> QED BY <1>2, <1>7, <1>8, <1>11 DEF S

(* FlattenSeq concatenates.                                                *)
LEMMA FlattenSeqIs ==
    ASSUME NEW seqs, IsSeq(seqs), \A i \in 1 .. Len(seqs) : IsSeq(seqs[i])
    PROVE  /\ IsSeq(FlattenSeq(seqs))
           /\ \A i \in 1 .. Len(seqs) : Range(seqs[i]) \subseteq Range(FlattenSeq(seqs))
           /\ \A c \in Range(FlattenSeq(seqs)) : \E i \in 1 .. Len(seqs) : c \in Range(seqs[i])
<1>1. PICK n : n = Len(seqs)
  OBVIOUS
<1>2. n \in Nat
  BY <1>1, LenProperties DEF IsSeq
<1>3. CASE n = 0
  <2>1. FlattenSeq(seqs) = seqs
    BY <1>1, <1>3 DEF FlattenSeq
  <2>2. DOMAIN seqs = 1 .. n
    BY <1>1, LenProperties DEF IsSeq
  <2>3. DOMAIN seqs = {}
    BY <1>3, <2>2
  <2>4. Range(seqs) = {}
    BY <2>3 DEF Range
  <2> QED BY <1>1, <1>3, <2>1, <2>4
<1>4. CASE n # 0
  <2> DEFINE Step1(f, m) == [i \in 1 .. m |-> IF i = 1 THEN seqs[i] ELSE f[i - 1] \o seqs[i]]
             Found(m) == \E f : f = Step1(f, m)
             T == {m \in Nat : Found(m)}
             flatten == CHOOSE f : f = Step1(f, n)
  <2>1. FlattenSeq(seqs) = flatten[n]
    BY <1>1, <1>4 DEF FlattenSeq
  <2>2. Nat \subseteq T
    <3>1. 0 \in T
      <4>1. PICK f : f = [i \in 1 .. 0 |-> 0]
        OBVIOUS
      <4>2. f = Step1(f, 0)
        BY <4>1
      <4>3. Found(0)
        BY <4>2
      <4> HIDE DEF Found
      <4> QED BY <4>3
    <3>2. ASSUME NEW m \in Nat, m \in T PROVE m + 1 \in T
      <4>1. PICK f : f = Step1(f, m)
        BY <3>2
      <4>2. PICK g : g = [i \in 1 .. m + 1 |->
                             IF i <= m THEN f[i] ELSE IF i = 1 THEN seqs[i] ELSE f[i - 1] \o seqs[i]]
        OBVIOUS
      <4>3. ASSUME NEW i \in 1 .. m + 1
            PROVE  g[i] = IF i = 1 THEN seqs[i] ELSE g[i - 1] \o seqs[i]
        <5>1. CASE i <= m
          <6>1. i \in 1 .. m /\ g[i] = f[i]
            BY <4>2, <5>1
          <6>2. f[i] = IF i = 1 THEN seqs[i] ELSE f[i - 1] \o seqs[i]
            BY <4>1, <6>1
          <6>3. i # 1 => g[i - 1] = f[i - 1]
            BY <4>2, <6>1
          <6> QED BY <6>1, <6>2, <6>3
        <5>2. CASE ~(i <= m)
          <6>1. i = m + 1 /\ g[i] = IF i = 1 THEN seqs[i] ELSE f[i - 1] \o seqs[i]
            BY <4>2, <5>2
          <6>2. i # 1 => g[i - 1] = f[i - 1]
            BY <4>2, <6>1
          <6> QED BY <6>1, <6>2
        <5> QED BY <5>1, <5>2
      <4>4. g = Step1(g, m + 1)
        <5>1. g = [i \in 1 .. m + 1 |-> g[i]]
          BY <4>2
        <5> QED BY <4>3, <5>1
      <4>5. Found(m + 1)
        BY <4>4
      <4> HIDE DEF Found
      <4> QED BY <4>5
    <3> HIDE DEF T
    <3> QED BY <3>1, <3>2, SetInduction
  <2>3. flatten = Step1(flatten, n)
    <3>1. \E f : f = Step1(f, n)
      BY <1>2, <2>2
    <3> QED BY <3>1
  <2> HIDE DEF flatten
  <2> DEFINE Good(m) == /\ IsSeq(flatten[m])
                        /\ \A i \in 1 .. m : Range(seqs[i]) \subseteq Range(flatten[m])
                        /\ \A c \in Range(flatten[m]) : \E i \in 1 .. m : c \in Range(seqs[i])
             U == {m \in Nat : m \in 1 .. n => Good(m)}
  <2>4. Nat \subseteq U
    <3>1. 0 \in U
      OBVIOUS
    <3>2. ASSUME NEW m \in Nat, m \in U, m + 1 \in 1 .. n PROVE Good(m + 1)
      <4>1. CASE m = 0
        <5>1. flatten[1] = seqs[1]
          BY <2>3, <3>2, <4>1
        <5>2. IsSeq(seqs[1])
          BY <1>1, <3>2, <4>1
        <5> QED BY <4>1, <5>1, <5>2
      <4>2. CASE m # 0
        <5>1. m \in 1 .. n /\ Good(m)
          BY <1>2, <3>2, <4>2
        <5>2. PICK k : k = m + 1
          OBVIOUS
        <5>3. k \in 1 .. n /\ k # 1 /\ k - 1 = m
          BY <3>2, <4>2, <5>2
        <5>4. flatten[k] = flatten[m] \o seqs[k]
          BY <2>3, <5>3
        <5>5. IsSeq(seqs[k])
          BY <1>1, <5>3
        <5>6. IsSeq(flatten[k]) /\ Range(flatten[k]) = Range(flatten[m]) \cup Range(seqs[k])
          BY <5>1, <5>4, <5>5, ConcatSeqs
        <5>7. \A i : i \in 1 .. k <=> i \in 1 .. m \/ i = k
          BY <5>2, <5>3
        <5> HIDE DEF flatten
        <5>8. \A i \in 1 .. k : Range(seqs[i]) \subseteq Range(flatten[k])
          BY <5>1, <5>6, <5>7
        <5>9. \A c \in Range(flatten[k]) : \E i \in 1 .. k : c \in Range(seqs[i])
          BY <5>1, <5>6, <5>7
        <5> QED BY <5>2, <5>6, <5>8, <5>9
      <4> QED BY <4>1, <4>2
    <3>3. \A m \in Nat : m \in U => m + 1 \in U
      <4> HIDE DEF Good
      <4> QED BY <3>2
    <3> HIDE DEF U
    <3> QED BY <3>1, <3>3, SetInduction
  <2>5. Good(n)
    <3>1. n \in U
      BY <1>2, <2>4
    <3>2. n \in 1 .. n
      BY <1>2, <1>4
    <3> HIDE DEF Good
    <3> QED BY <3>1, <3>2
  <2> QED BY <1>1, <2>1, <2>5
<1> QED BY <1>3, <1>4

-----------------------------------------------------------------------------
(* Configurations.                                                         *)

LEMMA LengthIsNat ==
    ASSUME NEW doc, NEW path
    PROVE  Length(doc, path) \in Nat
<1> DEFINE S == {k \in 1 .. 3 : Append(path, Index[k]) \in DOMAIN doc}
<1>1. DOMAIN Index = 1 .. 3
  BY DEF Index
<1>2. Length(doc, path) = Cardinality(S)
  BY <1>1 DEF Length
<1>3. IsFiniteSet(1 .. 3)
  <2>1. PICK a \in Int, b \in Int : a = 1 /\ b = 3
    OBVIOUS
  <2>2. IsFiniteSet(a .. b)
    BY FS_Interval
  <2> QED BY <2>1, <2>2
<1>4. S \subseteq 1 .. 3
  OBVIOUS
<1> HIDE DEF S
<1>5. IsFiniteSet(S)
  BY <1>3, <1>4, FS_Subset
<1> QED BY <1>2, <1>5, FS_CardinalityType

(* What load_config returns is what the document describes.                *)
LEMMA LoadedIs ==
    ASSUME NEW doc, LoadConfig(doc).raised = "none"
    PROVE  LoadConfig(doc).config = Configuration(doc)
  BY DEF LoadConfig, Validated, Failure, Rejection

-----------------------------------------------------------------------------
(* What load_config accepts satisfies every clause of validate.            *)

LEMMA SelectsNone ==
    ASSUME NEW s, IsSeq(s), SelectInSeq(s, LAMBDA c : ~c.ok) = 0
    PROVE  \A c \in Range(s) : c.ok
<1> DEFINE I == {i \in 1 .. Len(s) : ~s[i].ok}
<1>1. Len(s) \in Nat /\ DOMAIN s = 1 .. Len(s)
  BY LenProperties DEF IsSeq
<1>2. (IF I # {} THEN Min(I) ELSE 0) = 0
  BY DEF SelectInSeq, Min
<1>3. I \subseteq Nat /\ 0 \notin I
  BY <1>1
<1>4. I = {}
  <2> HIDE DEF I
  <2> SUFFICES ASSUME I # {} PROVE FALSE
    OBVIOUS
  <2>1. \E x \in I : \A y \in I : x <= y
    BY <1>3, LeastNumber
  <2>2. Min(I) \in I
    BY <2>1 DEF Min
  <2> QED BY <1>2, <1>3, <2>2
<1>5. \A i \in 1 .. Len(s) : s[i].ok
  BY <1>4
<1> QED BY <1>1, <1>5 DEF Range

LEMMA TuplesAreSeqs ==
    /\ IsSeq(<<>>)
    /\ \A a : IsSeq(<<a>>)
    /\ \A a, b : IsSeq(<<a, b>>)
    /\ \A a, b, c : IsSeq(<<a, b, c>>)
    /\ \A a, b, c, d : IsSeq(<<a, b, c, d>>) /\ b \in Range(<<a, b, c, d>>)
    /\ \A a, b, c, d, e, f, g : IsSeq(<<a, b, c, d, e, f, g>>)
<1>1. IsSeq(<<>>)
  BY DEF IsSeq
<1>2. ASSUME NEW a PROVE IsSeq(<<a>>)
  BY SeqIs DEF IsSeq, Range
<1>3. ASSUME NEW a, NEW b PROVE IsSeq(<<a, b>>)
  BY DEF IsSeq, Range
<1>4. ASSUME NEW a, NEW b, NEW c PROVE IsSeq(<<a, b, c>>)
  BY DEF IsSeq, Range
<1>5. ASSUME NEW a, NEW b, NEW c, NEW d PROVE IsSeq(<<a, b, c, d>>) /\ b \in Range(<<a, b, c, d>>)
  BY DEF IsSeq, Range
<1>6. ASSUME NEW a, NEW b, NEW c, NEW d, NEW e, NEW f, NEW g PROVE IsSeq(<<a, b, c, d, e, f, g>>)
  BY DEF IsSeq, Range
<1> QED BY <1>1, <1>2, <1>3, <1>4, <1>5, <1>6

LEMMA PositiveIsSeq ==
    ASSUME NEW path, NEW fields, NEW n \in Nat, DOMAIN fields = 1 .. n
    PROVE  IsSeq(Positive(path, fields))
<1> DEFINE s == Positive(path, fields)
<1>1. s \in [1 .. n -> Range(s)]
  BY DEF Positive, Range
<1> QED BY <1>1, SeqIs

(* A comprehension over 1 .. n is a sequence.                              *)
LEMMA FunctionIsSeq ==
    ASSUME NEW s, NEW n \in Nat, DOMAIN s = 1 .. n, s = [i \in 1 .. n |-> s[i]]
    PROVE  IsSeq(s) /\ Len(s) = n
<1>1. s \in [1 .. n -> Range(s)]
  BY DEF Range
<1> QED BY <1>1, SeqIs

LEMMA RowClausesIsSeq ==
    ASSUME NEW cfg, NEW i, NEW n \in Nat, DOMAIN cfg.matrix[i] = 1 .. n
    PROVE  IsSeq(RowClauses(cfg, i))
<1> DEFINE row == cfg.matrix[i]
           s == [j \in DOMAIN row |-> Clause(EntryPath(i, j), row[j] \in 0 .. One)]
           last == Clause(RowPath(i), Near(RowSum(row), Tolerance))
<1>1. IsSeq(s)
  <2>1. DOMAIN s = 1 .. n /\ s = [j \in 1 .. n |-> s[j]]
    OBVIOUS
  <2> HIDE DEF s
  <2> QED BY <2>1, FunctionIsSeq
<1>2. IsSeq(<<last>>)
  BY TuplesAreSeqs
<1>3. IsSeq(<<Clause(RowPath(i), FALSE)>>)
  BY TuplesAreSeqs
<1>4. RowClauses(cfg, i) = IF Len(row) # Len(cfg.regimes) THEN <<Clause(RowPath(i), FALSE)>> ELSE s \o <<last>>
  BY DEF RowClauses
<1> HIDE DEF s, last
<1>5. IsSeq(s \o <<last>>)
  BY <1>1, <1>2, ConcatSeqs
<1> QED BY <1>3, <1>4, <1>5

LEMMA ModelClausesIsSeq ==
    ASSUME NEW doc
    PROVE  IsSeq(ModelClauses(Configuration(doc)))
<1>1. PICK cfg : cfg = Configuration(doc)
  OBVIOUS
<1> DEFINE rows == [i \in DOMAIN cfg.matrix |-> RowClauses(cfg, i)]
           n == Length(doc, MatrixPath)
<1>2. n \in Nat
  BY LengthIsNat
<1>3. ASSUME SquareMatrix(cfg) PROVE IsSeq(FlattenSeq(rows))
  <2>1. cfg.matrix = [i \in 1 .. n |-> [j \in 1 .. Length(doc, RowPath(i)) |-> FloatAt(doc, EntryPath(i, j))]]
    BY <1>1, <1>3 DEF SquareMatrix, Configuration, Matrix
  <2>2. DOMAIN cfg.matrix = 1 .. n
    BY <2>1
  <2>3. DOMAIN rows = 1 .. n /\ rows = [i \in 1 .. n |-> rows[i]]
    BY <2>2
  <2>4. ASSUME NEW i \in 1 .. n PROVE IsSeq(rows[i])
    <3>1. DOMAIN cfg.matrix[i] = 1 .. Length(doc, RowPath(i))
      BY <2>1
    <3>2. IsSeq(RowClauses(cfg, i))
      BY <3>1, LengthIsNat, RowClausesIsSeq
    <3> QED BY <2>2, <3>2
  <2> HIDE DEF rows, n
  <2>5. IsSeq(rows) /\ Len(rows) = n
    BY <1>2, <2>3, FunctionIsSeq
  <2> QED BY <2>4, <2>5, FlattenSeqIs
<1>4. IsSeq(SwitchingClauses(cfg))
  <2> DEFINE head == <<Clause(MatrixPath, SquareMatrix(cfg))>>
             tail == IF SquareMatrix(cfg) THEN FlattenSeq(rows) ELSE <<>>
  <2>1. IsSeq(head) /\ IsSeq(tail)
    BY <1>3, TuplesAreSeqs
  <2>2. SwitchingClauses(cfg) = head \o tail
    BY DEF SwitchingClauses
  <2> HIDE DEF head, tail
  <2> QED BY <2>1, <2>2, ConcatSeqs
<1>5. IsSeq(<<Clause(MatrixPath, cfg.matrix = None), Clause(<<"mid_price", "regimes">>, Len(cfg.regimes) = 1)>>)
  BY TuplesAreSeqs
<1> QED BY <1>1, <1>4, <1>5 DEF ModelClauses

(* The sections of validate, in their order.                               *)
SeedClauses(cfg) == <<Clause(<<"master_seed">>, cfg.master_seed >= 0)>>
HorizonFields(cfg) == <<<<"T", cfg.horizon.T>>, <<"dt", cfg.horizon.dt>>>>
PriceClauses(cfg) ==
    <<Clause(<<"horizon", "dt">>, DtGrains(cfg) <= TGrains(cfg)),
      Clause(<<"mid_price", "s0">>, cfg.s0 > 0),
      Clause(<<"mid_price", "regimes">>, cfg.regimes # <<>>)>>
EachRegime(cfg) == [k \in DOMAIN cfg.regimes |-> RegimeClauses(cfg, k)]
QuoterFields(cfg) == <<<<"gamma", cfg.quoter.gamma>>, <<"k", cfg.quoter.k>>, <<"A", cfg.quoter.A>>>>
BaseClauses(cfg) == <<Clause(<<"quoters", "symmetric", "delta_base">>, cfg.delta_base >= 0)>>
FillFields(cfg) ==
    <<<<"A_b", cfg.fill.A_b>>, <<"k_b", cfg.fill.k_b>>, <<"A_a", cfg.fill.A_a>>, <<"k_a", cfg.fill.k_a>>>>
RunClauses(cfg) ==
    <<Clause(<<"risk", "q_max">>, cfg.q_max >= 0),
      Clause(<<"risk", "L_kill">>, cfg.L_kill # None => cfg.L_kill > 0),
      Clause(<<"mc", "n_paths">>, cfg.n_paths >= 1),
      Clause(<<"analytics", "adverse_selection_horizon_steps">>, cfg.adverse >= 0),
      Clause(<<"analytics", "bootstrap_iterations">>, cfg.iterations >= 1),
      Clause(<<"analytics", "bootstrap_alpha">>, 0 < cfg.alpha /\ cfg.alpha < One),
      Clause(<<"analytics", "sharpe_annualization_factor">>, cfg.sharpe > 0)>>

LEMMA ClausesAreParts ==
    ASSUME NEW doc, NEW cfg, cfg = Configuration(doc)
    PROVE  /\ IsSeq(Clauses(cfg))
           /\ Range(Clauses(cfg)) =
                 Range(SeedClauses(cfg)) \cup Range(Positive(<<"horizon">>, HorizonFields(cfg)))
                 \cup Range(PriceClauses(cfg)) \cup Range(FlattenSeq(EachRegime(cfg)))
                 \cup Range(ModelClauses(cfg))
                 \cup Range(Positive(<<"quoters", "avellaneda_stoikov">>, QuoterFields(cfg)))
                 \cup Range(BaseClauses(cfg)) \cup Range(Positive(<<"fill">>, FillFields(cfg)))
                 \cup Range(RunClauses(cfg))
           /\ \A k \in DOMAIN cfg.regimes :
                 Range(RegimeClauses(cfg, k)) \subseteq Range(FlattenSeq(EachRegime(cfg)))
           /\ \A c \in Range(FlattenSeq(EachRegime(cfg))) :
                 \E k \in DOMAIN cfg.regimes : c \in Range(RegimeClauses(cfg, k))
<1> DEFINE each == EachRegime(cfg)
           n == Length(doc, <<"mid_price", "regimes">>)
           A == SeedClauses(cfg)
           B == Positive(<<"horizon">>, HorizonFields(cfg))
           C == PriceClauses(cfg)
           D == FlattenSeq(each)
           E == ModelClauses(cfg)
           F == Positive(<<"quoters", "avellaneda_stoikov">>, QuoterFields(cfg))
           G == BaseClauses(cfg)
           H == Positive(<<"fill">>, FillFields(cfg))
           I == RunClauses(cfg)
<1>1. n \in Nat
  BY LengthIsNat
<1>2. DOMAIN cfg.regimes = 1 .. n
  BY DEF Configuration
<1>3. DOMAIN each = 1 .. n /\ each = [k \in 1 .. n |-> each[k]]
      /\ \A k \in 1 .. n : each[k] = RegimeClauses(cfg, k)
  BY <1>2 DEF EachRegime
<1>4. \A k \in 1 .. n : IsSeq(RegimeClauses(cfg, k))
  BY TuplesAreSeqs DEF RegimeClauses
<1>5. IsSeq(A) /\ IsSeq(C) /\ IsSeq(G) /\ IsSeq(I)
  BY TuplesAreSeqs DEF SeedClauses, PriceClauses, BaseClauses, RunClauses
<1>6. IsSeq(B) /\ IsSeq(F) /\ IsSeq(H)
  <2>1. DOMAIN HorizonFields(cfg) = 1 .. 2
    BY DEF HorizonFields
  <2>2. DOMAIN QuoterFields(cfg) = 1 .. 3
    BY DEF QuoterFields
  <2>3. DOMAIN FillFields(cfg) = 1 .. 4
    BY DEF FillFields
  <2>4. IsSeq(B)
    BY <2>1, PositiveIsSeq
  <2>5. IsSeq(F)
    BY <2>2, PositiveIsSeq
  <2>6. IsSeq(H)
    BY <2>3, PositiveIsSeq
  <2> QED BY <2>4, <2>5, <2>6
<1>7. IsSeq(E)
  BY ModelClausesIsSeq
<1>8. Clauses(cfg) = A \o B \o C \o D \o E \o F \o G \o H \o I
  BY DEF Clauses, SeedClauses, HorizonFields, PriceClauses, EachRegime, QuoterFields, BaseClauses,
         FillFields, RunClauses
<1>9. /\ IsSeq(D) /\ \A k \in 1 .. n : Range(RegimeClauses(cfg, k)) \subseteq Range(D)
      /\ \A c \in Range(D) : \E k \in 1 .. n : c \in Range(RegimeClauses(cfg, k))
  <2> HIDE DEF each
  <2>1. IsSeq(each) /\ Len(each) = n
    BY <1>1, <1>3, FunctionIsSeq
  <2> HIDE DEF n
  <2>2. \A i \in 1 .. Len(each) : IsSeq(each[i])
    BY <1>3, <1>4, <2>1
  <2>3. /\ IsSeq(D) /\ \A i \in 1 .. Len(each) : Range(each[i]) \subseteq Range(D)
        /\ \A c \in Range(D) : \E i \in 1 .. Len(each) : c \in Range(each[i])
    BY <2>1, <2>2, FlattenSeqIs
  <2> HIDE DEF D
  <2> QED BY <1>3, <2>1, <2>3
<1> HIDE DEF A, B, C, D, E, F, G, H, I
<1>10. IsSeq(A \o B) /\ Range(A \o B) = Range(A) \cup Range(B)
  BY <1>5, <1>6, ConcatSeqs
<1>11. IsSeq(A \o B \o C) /\ Range(A \o B \o C) = Range(A) \cup Range(B) \cup Range(C)
  BY <1>5, <1>10, ConcatSeqs
<1>12. IsSeq(A \o B \o C \o D)
       /\ Range(A \o B \o C \o D) = Range(A) \cup Range(B) \cup Range(C) \cup Range(D)
  BY <1>9, <1>11, ConcatSeqs
<1>13. IsSeq(A \o B \o C \o D \o E)
       /\ Range(A \o B \o C \o D \o E) =
             Range(A) \cup Range(B) \cup Range(C) \cup Range(D) \cup Range(E)
  BY <1>7, <1>12, ConcatSeqs
<1>14. IsSeq(A \o B \o C \o D \o E \o F)
       /\ Range(A \o B \o C \o D \o E \o F) =
             Range(A) \cup Range(B) \cup Range(C) \cup Range(D) \cup Range(E) \cup Range(F)
  BY <1>6, <1>13, ConcatSeqs
<1>15. IsSeq(A \o B \o C \o D \o E \o F \o G)
       /\ Range(A \o B \o C \o D \o E \o F \o G) =
             Range(A) \cup Range(B) \cup Range(C) \cup Range(D) \cup Range(E) \cup Range(F) \cup Range(G)
  BY <1>5, <1>14, ConcatSeqs
<1>16. IsSeq(A \o B \o C \o D \o E \o F \o G \o H)
       /\ Range(A \o B \o C \o D \o E \o F \o G \o H) =
             Range(A) \cup Range(B) \cup Range(C) \cup Range(D) \cup Range(E) \cup Range(F) \cup Range(G)
             \cup Range(H)
  BY <1>6, <1>15, ConcatSeqs
<1>17. IsSeq(Clauses(cfg))
       /\ Range(Clauses(cfg)) =
             Range(A) \cup Range(B) \cup Range(C) \cup Range(D) \cup Range(E) \cup Range(F) \cup Range(G)
             \cup Range(H) \cup Range(I)
  BY <1>5, <1>8, <1>16, ConcatSeqs
<1> QED BY <1>2, <1>9, <1>17 DEF A, B, C, D, E, F, G, H, I

LEMMA ClausesHoldRegimes ==
    ASSUME NEW doc, NEW cfg, cfg = Configuration(doc)
    PROVE  /\ IsSeq(Clauses(cfg))
           /\ \A k \in DOMAIN cfg.regimes : Range(RegimeClauses(cfg, k)) \subseteq Range(Clauses(cfg))
  BY ClausesAreParts

(* A configuration that load_config returns satisfies every clause of      *)
(* validate (config.py), and no two of its regimes have one name.          *)
THEOREM LoadedIsValid ==
    ASSUME NEW doc, LoadConfig(doc).raised = "none"
    PROVE  LET cfg == LoadConfig(doc).config
           IN  /\ Valid(cfg)
               /\ \A j, k \in DOMAIN cfg.regimes :
                     j # k => cfg.regimes[j].name # cfg.regimes[k].name
<1>1. PICK cfg : cfg = Configuration(doc)
  OBVIOUS
<1>2. LoadConfig(doc).config = cfg
  BY <1>1, LoadedIs
<1>3. SelectInSeq(Clauses(cfg), LAMBDA c : ~c.ok) = 0
  BY <1>1 DEF LoadConfig, Validated, Failure, Rejection
<1>4. IsSeq(Clauses(cfg)) /\ \A c \in Range(Clauses(cfg)) : c.ok
  BY <1>1, <1>3, ClausesHoldRegimes, SelectsNone
<1>5. Valid(cfg)
  BY <1>4 DEF Valid, Range
<1>6. ASSUME NEW k \in DOMAIN cfg.regimes PROVE UniqueName(cfg, k)
  <2> DEFINE c == Clause(Append(RegimePath(k), "name"), UniqueName(cfg, k))
  <2>1. c \in Range(RegimeClauses(cfg, k))
    BY TuplesAreSeqs DEF RegimeClauses
  <2>2. c \in Range(Clauses(cfg))
    BY <1>1, <1>6, <2>1, ClausesHoldRegimes
  <2> HIDE DEF c
  <2>3. c.ok
    BY <1>4, <2>2
  <2> QED BY <2>3 DEF c, Clause
<1>7. ASSUME NEW j \in DOMAIN cfg.regimes, NEW k \in DOMAIN cfg.regimes, j # k
      PROVE  cfg.regimes[j].name # cfg.regimes[k].name
  <2>1. j \in Nat /\ k \in Nat /\ j >= 1 /\ k >= 1
    <3>1. DOMAIN cfg.regimes = 1 .. Length(doc, <<"mid_price", "regimes">>)
      BY <1>1 DEF Configuration
    <3> QED BY <1>7, <3>1, LengthIsNat
  <2>2. CASE j < k
    BY <1>6, <2>1, <2>2 DEF UniqueName
  <2>3. CASE k < j
    BY <1>6, <2>1, <2>3 DEF UniqueName
  <2> QED BY <1>7, <2>1, <2>2, <2>3
<1> QED BY <1>2, <1>5, <1>7

-----------------------------------------------------------------------------
(* Paths.                                                                  *)

Keys == Seq(FieldNames)

LEMMA TupleIs ==
    ASSUME NEW S, NEW a \in S
    PROVE  <<a>> \in Seq(S) /\ Append(<<>>, a) = <<a>>
  OBVIOUS
LEMMA PairIs ==
    ASSUME NEW S, NEW a \in S, NEW b \in S
    PROVE  <<a, b>> \in Seq(S) /\ Append(<<a>>, b) = <<a, b>>
<1>1. <<a, b>> \in Seq(S)
  OBVIOUS
<1>2. PICK s : s = Append(<<a>>, b)
  OBVIOUS
<1>3. s \in Seq(S) /\ Len(s) = 2 /\ s[1] = a /\ s[2] = b
  BY <1>2, TupleIs, AppendProperties
<1>4. \A i \in 1 .. 2 : s[i] = <<a, b>>[i]
  BY <1>3
<1> QED BY <1>1, <1>2, <1>3, <1>4, SeqEqual
LEMMA TripleIs ==
    ASSUME NEW S, NEW a \in S, NEW b \in S, NEW c \in S
    PROVE  <<a, b, c>> \in Seq(S) /\ Append(<<a, b>>, c) = <<a, b, c>>
<1>1. <<a, b, c>> \in Seq(S)
  OBVIOUS
<1>2. PICK s : s = Append(<<a, b>>, c)
  OBVIOUS
<1>3. s \in Seq(S) /\ Len(s) = 3 /\ s[1] = a /\ s[2] = b /\ s[3] = c
  BY <1>2, PairIs, AppendProperties
<1>4. \A i \in 1 .. 3 : s[i] = <<a, b, c>>[i]
  BY <1>3
<1> QED BY <1>1, <1>2, <1>3, <1>4, SeqEqual

LEMMA RootIs == <<>> \in Keys
  BY EmptySeq DEF Keys
LEMMA OneKey ==
    ASSUME NEW a \in FieldNames
    PROVE  <<a>> \in Keys /\ Append(<<>>, a) = <<a>>
  BY TupleIs DEF Keys
LEMMA TwoKeys ==
    ASSUME NEW a \in FieldNames, NEW b \in FieldNames
    PROVE  <<a, b>> \in Keys /\ Append(<<a>>, b) = <<a, b>>
  BY PairIs DEF Keys
LEMMA ThreeKeys ==
    ASSUME NEW a \in FieldNames, NEW b \in FieldNames, NEW c \in FieldNames
    PROVE  <<a, b, c>> \in Keys /\ Append(<<a, b>>, c) = <<a, b, c>>
  BY TripleIs DEF Keys

(* The key below a path, and the way back.                                 *)
LEMMA AppendIs ==
    ASSUME NEW p \in Keys, NEW key \in FieldNames, NEW q, q = Append(p, key)
    PROVE  /\ q \in Keys /\ q # <<>> /\ Len(q) = Len(p) + 1 /\ Len(p) \in Nat
           /\ \A i \in 1 .. Len(p) : q[i] = p[i]
           /\ q[Len(p) + 1] = key
<1>1. q \in Keys /\ q # <<>> /\ Len(q) = Len(p) + 1
  BY AppendProperties DEF Keys
<1>2. \A i \in 1 .. Len(p) : q[i] = p[i]
  BY AppendProperties DEF Keys
<1>3. q[Len(p) + 1] = key
  BY AppendProperties DEF Keys
<1>4. Len(p) \in Nat
  BY LenProperties DEF Keys
<1> QED BY <1>1, <1>2, <1>3, <1>4

LEMMA BelowIs ==
    ASSUME NEW p \in Keys, NEW key \in FieldNames
    PROVE  /\ Append(p, key) \in Keys /\ Append(p, key) # <<>>
           /\ Front(Append(p, key)) = p /\ Last(Append(p, key)) = key
           /\ Len(Append(p, key)) = Len(p) + 1 /\ IsPrefix(p, Append(p, key))
<1>1. PICK q, n : q = Append(p, key) /\ n = Len(p)
  OBVIOUS
<1>2. /\ q \in Keys /\ q # <<>> /\ Len(q) = n + 1 /\ n \in Nat
      /\ \A i \in 1 .. n : q[i] = p[i]
      /\ q[n + 1] = key
  <2>1. q \in Keys /\ q # <<>> /\ Len(q) = Len(p) + 1 /\ Len(p) \in Nat
    BY <1>1, AppendIs
  <2>2. \A i \in 1 .. Len(p) : q[i] = p[i]
    BY <1>1, AppendIs
  <2>3. q[Len(p) + 1] = key
    BY <1>1, AppendIs
  <2> QED BY <1>1, <2>1, <2>2, <2>3
<1>3. SubSeq(p, 1, n) = p
  BY <1>1, SubSeqFull DEF Keys
<1>4. SubSeq(q, 1, n) = p
  <2>1. \A i \in 1 .. n : q[i] \in FieldNames
    BY <1>1, <1>2, ElementOfSeq DEF Keys
  <2>2. PICK s : s = SubSeq(q, 1, n)
    OBVIOUS
  <2>3. s \in Keys /\ Len(s) = n /\ \A i \in 1 .. n : s[i] = q[i]
    <3>1. /\ s \in Seq(FieldNames) /\ Len(s) = IF 1 <= n THEN n - 1 + 1 ELSE 0
          /\ \A i \in 1 .. n - 1 + 1 : s[i] = q[1 + i - 1]
      BY <1>2, <2>1, <2>2, SubSeqProperties
    <3> QED BY <1>2, <3>1 DEF Keys
  <2>4. \A i \in 1 .. n : s[i] = p[i]
    BY <1>2, <2>3
  <2> QED BY <1>1, <2>2, <2>3, <2>4, SeqEqual DEF Keys
<1>5. Front(q) = p /\ Last(q) = key
  BY <1>2, <1>4 DEF Front, Last
<1>6. IsPrefix(p, q)
  BY <1>1, <1>2, <1>3, <1>4 DEF IsPrefix
<1> QED BY <1>1, <1>2, <1>5, <1>6

(* A path one longer than its prefix is a key below it.                    *)
LEMMA PrefixIsParent ==
    ASSUME NEW p \in Keys, NEW q \in Keys, Len(q) = Len(p) + 1, IsPrefix(p, q)
    PROVE  q = Append(p, q[Len(p) + 1]) /\ q[Len(p) + 1] \in FieldNames
<1>1. PICK n : n = Len(p)
  OBVIOUS
<1>2. n \in Nat /\ q[n + 1] \in FieldNames
  BY <1>1, LenProperties, ElementOfSeq DEF Keys
<1>3. PICK r : r = Append(p, q[n + 1])
  OBVIOUS
<1>4. r \in Keys /\ Len(r) = n + 1 /\ (\A i \in 1 .. n : r[i] = p[i]) /\ r[n + 1] = q[n + 1]
  <2>1. PICK key \in FieldNames : key = q[n + 1]
    BY <1>2
  <2>2. r = Append(p, key)
    BY <1>3, <2>1
  <2>3. r \in Keys /\ Len(r) = Len(p) + 1
    BY <2>2, AppendIs
  <2>4. \A i \in 1 .. Len(p) : r[i] = p[i]
    BY <2>2, AppendIs
  <2>5. r[Len(p) + 1] = key
    BY <2>2, AppendIs
  <2> QED BY <1>1, <2>1, <2>3, <2>4, <2>5
<1>5. p = SubSeq(q, 1, n)
  BY <1>1, SubSeqFull DEF IsPrefix, Keys
<1>6. \A i \in 1 .. n : p[i] = q[i]
  <2>1. \A i \in 1 .. n : q[i] \in FieldNames
    BY <1>1, <1>2, ElementOfSeq DEF Keys
  <2>2. \A i \in 1 .. n - 1 + 1 : SubSeq(q, 1, n)[i] = q[1 + i - 1]
    BY <1>2, <2>1, SubSeqProperties
  <2> QED BY <1>2, <1>5, <2>2
<1>7. \A i \in 1 .. n + 1 : r[i] = q[i]
  BY <1>2, <1>4, <1>6
<1>8. r = q
  BY <1>1, <1>2, <1>4, <1>7, SeqEqual DEF Keys
<1> QED BY <1>1, <1>2, <1>3, <1>8

(* Every key is the key of one place.                                      *)
LEMMA OnePlace ==
    ASSUME NEW p \in Keys, NEW q \in Keys, NEW key \in FieldNames, NEW word \in FieldNames,
           Append(p, key) = Append(q, word)
    PROVE  p = q /\ key = word
  BY AppendInjective DEF Keys

(* The keys below a path are those that lead to a node.                    *)
LEMMA KeysBelow ==
    ASSUME NEW doc, DOMAIN doc \subseteq Keys, NEW p \in Keys
    PROVE  KeysOf(doc, p) = {key \in FieldNames : Append(p, key) \in DOMAIN doc}
<1>1. ASSUME NEW q \in DOMAIN doc, Len(q) = Len(p) + 1, IsPrefix(p, q)
      PROVE  q[Len(p) + 1] \in FieldNames /\ Append(p, q[Len(p) + 1]) \in DOMAIN doc
  BY <1>1, PrefixIsParent
<1>2. ASSUME NEW key \in FieldNames, Append(p, key) \in DOMAIN doc
      PROVE  \E q \in DOMAIN doc : Len(q) = Len(p) + 1 /\ IsPrefix(p, q) /\ q[Len(p) + 1] = key
  <2>1. PICK q : q = Append(p, key)
    OBVIOUS
  <2> QED BY <1>2, <2>1, AppendIs, BelowIs
<1> QED BY <1>1, <1>2 DEF KeysOf

(* The positions of a list.                                                *)
LEMMA IndexIs ==
    /\ DOMAIN Index = 1 .. 3
    /\ Index[1] = "0" /\ Index[2] = "1" /\ Index[3] = "2"
  BY DEF Index
LEMMA IndexIsName ==
    ASSUME NEW k \in 1 .. 3
    PROVE  Index[k] \in FieldNames
  BY IndexIs DEF FieldNames
LEMMA IndexIsOne ==
    ASSUME NEW j \in 1 .. 3, NEW k \in 1 .. 3, Index[j] = Index[k]
    PROVE  j = k
<1>1. k = 1 \/ k = 2 \/ k = 3
  OBVIOUS
<1>2. j = 1 \/ j = 2 \/ j = 3
  OBVIOUS
<1> QED BY <1>1, <1>2, IndexIs
LEMMA PositionIs ==
    ASSUME NEW k \in 1 .. 3
    PROVE  Position(Index[k]) = k
<1>1. Position(Index[k]) \in 1 .. 3 /\ Index[Position(Index[k])] = Index[k]
  BY IndexIs DEF Position
<1> QED BY <1>1, IndexIsOne
LEMMA NamesAre ==
    /\ "master_seed" \in FieldNames /\ "horizon" \in FieldNames /\ "T" \in FieldNames
    /\ "dt" \in FieldNames /\ "mid_price" \in FieldNames /\ "model" \in FieldNames
    /\ "s0" \in FieldNames /\ "regimes" \in FieldNames /\ "name" \in FieldNames
    /\ "mu" \in FieldNames /\ "sigma" \in FieldNames /\ "gamma" \in FieldNames
    /\ "transition_matrix" \in FieldNames /\ "quoters" \in FieldNames /\ "avellaneda_stoikov" \in FieldNames
    /\ "k" \in FieldNames /\ "A" \in FieldNames /\ "symmetric" \in FieldNames
    /\ "delta_base" \in FieldNames /\ "fill" \in FieldNames /\ "A_b" \in FieldNames
    /\ "k_b" \in FieldNames /\ "A_a" \in FieldNames /\ "k_a" \in FieldNames
    /\ "risk" \in FieldNames /\ "q_max" \in FieldNames /\ "L_kill" \in FieldNames
    /\ "mc" \in FieldNames /\ "n_paths" \in FieldNames /\ "analytics" \in FieldNames
    /\ "adverse_selection_horizon_steps" \in FieldNames /\ "bootstrap_iterations" \in FieldNames /\ "bootstrap_alpha" \in FieldNames
    /\ "sharpe_annualization_factor" \in FieldNames /\ "output" \in FieldNames /\ "dir" \in FieldNames
    /\ "format" \in FieldNames
  BY DEF FieldNames
LEMMA ListPathsAre ==
    ASSUME NEW k \in 1 .. 3
    PROVE  /\ MatrixPath \in Keys /\ <<"mid_price", "regimes">> \in Keys
           /\ RegimePath(k) \in Keys /\ RegimePath(k) = Append(<<"mid_price", "regimes">>, Index[k])
           /\ RowPath(k) \in Keys /\ RowPath(k) = <<"mid_price", "transition_matrix", Index[k]>>
           /\ Last(RegimePath(k)) = Index[k] /\ Last(RowPath(k)) = Index[k]
           /\ Len(RegimePath(k)) = 3 /\ Len(RowPath(k)) = 3
<1>1. MatrixPath \in Keys /\ <<"mid_price", "regimes">> \in Keys
  BY NamesAre, TwoKeys DEF MatrixPath
<1>2. RegimePath(k) \in Keys /\ RegimePath(k) = Append(<<"mid_price", "regimes">>, Index[k])
  BY NamesAre, IndexIsName, ThreeKeys DEF RegimePath
<1>3. RowPath(k) \in Keys /\ RowPath(k) = <<"mid_price", "transition_matrix", Index[k]>>
  <2>1. PICK key \in FieldNames : key = Index[k]
    BY IndexIsName
  <2>2. /\ <<"mid_price", "transition_matrix", key>> \in Keys
        /\ Append(<<"mid_price", "transition_matrix">>, key) = <<"mid_price", "transition_matrix", key>>
    BY NamesAre, ThreeKeys
  <2> QED BY <2>1, <2>2 DEF RowPath, MatrixPath
<1>4. Last(RegimePath(k)) = Index[k]
  BY <1>1, <1>2, IndexIsName, BelowIs
<1>5. Last(RowPath(k)) = Index[k]
  BY <1>1, IndexIsName, BelowIs DEF RowPath
<1>6. Len(RegimePath(k)) = 3 /\ Len(RowPath(k)) = 3
  BY <1>3 DEF RegimePath
<1> QED BY <1>1, <1>2, <1>3, <1>4, <1>5, <1>6

-----------------------------------------------------------------------------
(* What is written.                                                        *)

(* The shape of a configuration that was read.                             *)
IsRow(row) == \E n \in 0 .. 3 : DOMAIN row = 1 .. n
HasShape(cfg) ==
    /\ IsRow(cfg.regimes)
    /\ cfg.matrix # None => IsRow(cfg.matrix) /\ \A i \in DOMAIN cfg.matrix : IsRow(cfg.matrix[i])
    /\ DOMAIN cfg.horizon = {"T", "dt"}
    /\ DOMAIN cfg.quoter = {"gamma", "k", "A"}
    /\ DOMAIN cfg.fill = {"A_b", "k_b", "A_a", "k_a"}

Inner(cfg) == MapPaths(cfg) \cup ListPaths(cfg)

LEMMA RegimePathsAre ==
    ASSUME NEW cfg, HasShape(cfg), NEW p \in RegimePaths(cfg)
    PROVE  \E k \in 1 .. 3 : k \in DOMAIN cfg.regimes /\ p = RegimePath(k)
  BY DEF RegimePaths, HasShape, IsRow
LEMMA RowPathsAre ==
    ASSUME NEW cfg, HasShape(cfg), NEW p \in RowPaths(cfg)
    PROVE  \E k \in 1 .. 3 : cfg.matrix # None /\ k \in DOMAIN cfg.matrix /\ p = RowPath(k)
  BY DEF RowPaths, HasShape, IsRow

(* The paths of the mappings and lists, one by one.                        *)
Sections ==
    {<<>>, <<"horizon">>, <<"mid_price">>, <<"quoters">>, <<"quoters", "avellaneda_stoikov">>,
     <<"quoters", "symmetric">>, <<"fill">>, <<"risk">>, <<"mc">>, <<"analytics">>, <<"output">>,
     <<"mid_price", "regimes">>}
LEMMA InnerIs ==
    ASSUME NEW cfg, HasShape(cfg), NEW p
    PROVE  p \in Inner(cfg) <=>
              \/ p \in Sections
              \/ p = MatrixPath /\ cfg.matrix # None
              \/ p \in RegimePaths(cfg) \/ p \in RowPaths(cfg)
  BY DEF Inner, MapPaths, ListPaths, Sections
LEMMA SectionsAre ==
    /\ <<>> \in Keys /\ <<"horizon">> \in Keys /\ <<"mid_price">> \in Keys /\ <<"quoters">> \in Keys
    /\ <<"quoters", "avellaneda_stoikov">> \in Keys /\ <<"quoters", "symmetric">> \in Keys
    /\ <<"fill">> \in Keys /\ <<"risk">> \in Keys /\ <<"mc">> \in Keys /\ <<"analytics">> \in Keys
    /\ <<"output">> \in Keys /\ <<"mid_price", "regimes">> \in Keys
<1>1. <<>> \in Keys
  BY RootIs
<1>2. /\ <<"horizon">> \in Keys /\ <<"mid_price">> \in Keys /\ <<"quoters">> \in Keys
      /\ <<"fill">> \in Keys /\ <<"risk">> \in Keys /\ <<"mc">> \in Keys /\ <<"analytics">> \in Keys
      /\ <<"output">> \in Keys
  BY OneKey, NamesAre
<1>3. /\ <<"quoters", "avellaneda_stoikov">> \in Keys /\ <<"quoters", "symmetric">> \in Keys
      /\ <<"mid_price", "regimes">> \in Keys
  BY TwoKeys, NamesAre
<1> QED BY <1>1, <1>2, <1>3
LEMMA SectionsAreShort ==
    ASSUME NEW p \in Sections \cup {MatrixPath}
    PROVE  Len(p) # 3 /\ Len(p) # 4
<1>1. \/ p = <<>>
      \/ p \in {<<"horizon">>, <<"mid_price">>, <<"quoters">>, <<"fill">>, <<"risk">>, <<"mc">>,
               <<"analytics">>, <<"output">>}
      \/ p \in {<<"quoters", "avellaneda_stoikov">>, <<"quoters", "symmetric">>,
               <<"mid_price", "regimes">>, <<"mid_price", "transition_matrix">>}
  BY DEF Sections, MatrixPath
<1>2. CASE p = <<>>
  BY <1>2
<1>3. CASE p \in {<<"horizon">>, <<"mid_price">>, <<"quoters">>, <<"fill">>, <<"risk">>, <<"mc">>,
                 <<"analytics">>, <<"output">>}
  <2>1. \E a : p = <<a>>
    BY <1>3
  <2> QED BY <2>1
<1>4. CASE p \in {<<"quoters", "avellaneda_stoikov">>, <<"quoters", "symmetric">>,
                 <<"mid_price", "regimes">>, <<"mid_price", "transition_matrix">>}
  <2>1. \E a, b : p = <<a, b>>
    BY <1>4
  <2> QED BY <2>1
<1> QED BY <1>1, <1>2, <1>3, <1>4
LEMMA InnerAreKeys ==
    ASSUME NEW cfg, HasShape(cfg), NEW p \in Inner(cfg)
    PROVE  p \in Keys /\ Len(p) # 4
<1>1. CASE p \in Sections
  <2>1. p \in Keys
    BY <1>1, SectionsAre DEF Sections
  <2>2. Len(p) # 4
    BY <1>1, SectionsAreShort
  <2> QED BY <2>1, <2>2
<1>2. CASE p = MatrixPath
  BY <1>2, ListPathsAre DEF MatrixPath
<1>3. CASE p \in RegimePaths(cfg)
  <2>1. PICK k \in 1 .. 3 : p = RegimePath(k)
    BY <1>3, RegimePathsAre
  <2> QED BY <2>1, ListPathsAre
<1>4. CASE p \in RowPaths(cfg)
  <2>1. PICK k \in 1 .. 3 : p = RowPath(k)
    BY <1>4, RowPathsAre
  <2> QED BY <2>1, ListPathsAre
<1> QED BY <1>1, <1>2, <1>3, <1>4, InnerIs

(* A path of one or two keys is no path of a regime or a row.              *)
LEMMA NoListEntry ==
    ASSUME NEW cfg, HasShape(cfg), NEW p, p \in RegimePaths(cfg) \cup RowPaths(cfg)
    PROVE  Len(p) = 3
  BY RegimePathsAre, RowPathsAre, ListPathsAre
LEMMA SectionsAreNone ==
    ASSUME NEW cfg, HasShape(cfg), NEW p \in Sections \cup {MatrixPath}
    PROVE  p \notin RegimePaths(cfg) /\ p \notin RowPaths(cfg)
<1>1. Len(p) # 3
  BY SectionsAreShort
<1> QED BY <1>1, NoListEntry
LEMMA RegimesAreNoRows ==
    ASSUME NEW cfg, HasShape(cfg), NEW p \in RegimePaths(cfg)
    PROVE  p \notin RowPaths(cfg)
<1>1. SUFFICES ASSUME p \in RowPaths(cfg) PROVE FALSE
  OBVIOUS
<1>2. PICK k \in 1 .. 3 : p = <<"mid_price", "regimes", Index[k]>>
  BY RegimePathsAre DEF RegimePath
<1>3. PICK j \in 1 .. 3 : p = <<"mid_price", "transition_matrix", Index[j]>>
  BY <1>1, RowPathsAre, ListPathsAre
<1> QED BY <1>2, <1>3

(* What stands in each of them.                                            *)
LEMMA EntriesOfSections ==
    ASSUME NEW cfg, HasShape(cfg)
    PROVE  /\ Entries(cfg, <<>>) = [master_seed |-> IntNode(cfg.master_seed)]
           /\ Entries(cfg, <<"horizon">>) = DumpFloats(cfg.horizon)
           /\ Entries(cfg, <<"mid_price">>) = DumpMidPrice(cfg)
           /\ Entries(cfg, <<"quoters">>) = <<>>
           /\ Entries(cfg, <<"quoters", "avellaneda_stoikov">>) = DumpFloats(cfg.quoter)
           /\ Entries(cfg, <<"quoters", "symmetric">>) = [delta_base |-> FloatNode(cfg.delta_base)]
           /\ Entries(cfg, <<"fill">>) = DumpFloats(cfg.fill)
           /\ Entries(cfg, <<"mc">>) = [n_paths |-> IntNode(cfg.n_paths)]
           /\ Entries(cfg, <<"mid_price", "regimes">>) = <<>>
           /\ Entries(cfg, MatrixPath) = <<>>
<1>1. \A p \in Sections \cup {MatrixPath} : p \notin RegimePaths(cfg) /\ p \notin RowPaths(cfg)
  BY SectionsAreNone
<1>2. Entries(cfg, <<>>) = [master_seed |-> IntNode(cfg.master_seed)]
  BY <1>1 DEF Entries, Sections
<1>3. Entries(cfg, <<"horizon">>) = DumpFloats(cfg.horizon)
  BY <1>1 DEF Entries, Sections
<1>4. Entries(cfg, <<"mid_price">>) = DumpMidPrice(cfg)
  BY <1>1 DEF Entries, Sections
<1>5. Entries(cfg, <<"quoters">>) = <<>>
  BY <1>1 DEF Entries, Sections
<1>6. Entries(cfg, <<"quoters", "avellaneda_stoikov">>) = DumpFloats(cfg.quoter)
  BY <1>1 DEF Entries, Sections
<1>7. Entries(cfg, <<"quoters", "symmetric">>) = [delta_base |-> FloatNode(cfg.delta_base)]
  BY <1>1 DEF Entries, Sections
<1>8. Entries(cfg, <<"fill">>) = DumpFloats(cfg.fill)
  BY <1>1 DEF Entries, Sections
<1>9. Entries(cfg, <<"mc">>) = [n_paths |-> IntNode(cfg.n_paths)]
  BY <1>1 DEF Entries, Sections
<1>10. Entries(cfg, <<"mid_price", "regimes">>) = <<>>
  BY <1>1 DEF Entries, Sections
<1>11. Entries(cfg, MatrixPath) = <<>>
  BY <1>1 DEF Entries, Sections, MatrixPath
<1> QED BY <1>2, <1>3, <1>4, <1>5, <1>6, <1>7, <1>8, <1>9, <1>10, <1>11
LEMMA EntriesOfRecords ==
    ASSUME NEW cfg, HasShape(cfg)
    PROVE  /\ Entries(cfg, <<"risk">>) =
                [q_max |-> IntNode(cfg.q_max),
                 L_kill |-> IF cfg.L_kill = None THEN NullNode ELSE FloatNode(cfg.L_kill)]
           /\ Entries(cfg, <<"analytics">>) =
                [adverse_selection_horizon_steps |-> IntNode(cfg.adverse),
                 bootstrap_iterations |-> IntNode(cfg.iterations),
                 bootstrap_alpha |-> FloatNode(cfg.alpha),
                 sharpe_annualization_factor |-> FloatNode(cfg.sharpe)]
           /\ Entries(cfg, <<"output">>) = [dir |-> StrNode(cfg.dir), format |-> StrNode("parquet")]
<1>1. \A p \in Sections \cup {MatrixPath} : p \notin RegimePaths(cfg) /\ p \notin RowPaths(cfg)
  BY SectionsAreNone
<1>2. Entries(cfg, <<"risk">>) =
        [q_max |-> IntNode(cfg.q_max),
         L_kill |-> IF cfg.L_kill = None THEN NullNode ELSE FloatNode(cfg.L_kill)]
  BY <1>1 DEF Entries, Sections
<1>3. Entries(cfg, <<"analytics">>) =
        [adverse_selection_horizon_steps |-> IntNode(cfg.adverse),
         bootstrap_iterations |-> IntNode(cfg.iterations),
         bootstrap_alpha |-> FloatNode(cfg.alpha),
         sharpe_annualization_factor |-> FloatNode(cfg.sharpe)]
  BY <1>1 DEF Entries, Sections
<1>4. Entries(cfg, <<"output">>) = [dir |-> StrNode(cfg.dir), format |-> StrNode("parquet")]
  BY <1>1 DEF Entries, Sections
<1> QED BY <1>2, <1>3, <1>4
LEMMA EntriesOfRegime ==
    ASSUME NEW cfg, HasShape(cfg), NEW k \in 1 .. 3, k \in DOMAIN cfg.regimes
    PROVE  Entries(cfg, RegimePath(k)) = DumpRegime(cfg.regimes[k])
<1>1. PICK p : p = RegimePath(k)
  OBVIOUS
<1>2. p \in RegimePaths(cfg)
  BY <1>1 DEF RegimePaths
<1>3. p \notin RowPaths(cfg) /\ Position(Last(p)) = k
  BY <1>1, <1>2, RegimesAreNoRows, ListPathsAre, PositionIs
<1>4. p \notin Sections
  BY <1>2, SectionsAreNone
<1>5. Entries(cfg, p) = DumpRegime(cfg.regimes[Position(Last(p))])
  BY <1>2, <1>3, <1>4 DEF Entries, Sections
<1> QED BY <1>1, <1>3, <1>5
LEMMA EntriesOfRow ==
    ASSUME NEW cfg, HasShape(cfg), NEW i \in 1 .. 3, cfg.matrix # None, i \in DOMAIN cfg.matrix
    PROVE  Entries(cfg, RowPath(i)) = DumpRow(cfg.matrix[i])
<1>1. PICK p : p = RowPath(i)
  OBVIOUS
<1>2. p \in RowPaths(cfg)
  BY <1>1 DEF RowPaths
<1>3. p \notin RegimePaths(cfg) /\ Position(Last(p)) = i
  BY <1>1, <1>2, RegimesAreNoRows, ListPathsAre, PositionIs
<1>4. p \notin Sections
  BY <1>2, SectionsAreNone
<1>5. Entries(cfg, p) = DumpRow(cfg.matrix[Position(Last(p))])
  BY <1>2, <1>3, <1>4 DEF Entries, Sections
<1> QED BY <1>1, <1>3, <1>5

(* The keys of each of them.                                               *)
LEMMA KeysOfEntries ==
    ASSUME NEW cfg, HasShape(cfg)
    PROVE  /\ DOMAIN Entries(cfg, <<>>) = {"master_seed"}
           /\ DOMAIN Entries(cfg, <<"horizon">>) = {"T", "dt"}
           /\ DOMAIN Entries(cfg, <<"mid_price">>) =
                {"model", "s0"} \cup (IF cfg.matrix = None THEN {"transition_matrix"} ELSE {})
           /\ DOMAIN Entries(cfg, <<"quoters">>) = {}
           /\ DOMAIN Entries(cfg, <<"quoters", "avellaneda_stoikov">>) = {"gamma", "k", "A"}
           /\ DOMAIN Entries(cfg, <<"quoters", "symmetric">>) = {"delta_base"}
           /\ DOMAIN Entries(cfg, <<"fill">>) = {"A_b", "k_b", "A_a", "k_a"}
           /\ DOMAIN Entries(cfg, <<"risk">>) = {"q_max", "L_kill"}
           /\ DOMAIN Entries(cfg, <<"mc">>) = {"n_paths"}
           /\ DOMAIN Entries(cfg, <<"analytics">>) =
                {"adverse_selection_horizon_steps", "bootstrap_iterations", "bootstrap_alpha",
                 "sharpe_annualization_factor"}
           /\ DOMAIN Entries(cfg, <<"output">>) = {"dir", "format"}
           /\ DOMAIN Entries(cfg, <<"mid_price", "regimes">>) = {}
           /\ DOMAIN Entries(cfg, MatrixPath) = {}
<1>1. DOMAIN Entries(cfg, <<>>) = {"master_seed"}
  <2>1. DOMAIN [master_seed |-> IntNode(cfg.master_seed)] = {"master_seed"}
    OBVIOUS
  <2> QED BY <2>1, EntriesOfSections
<1>2. DOMAIN Entries(cfg, <<"horizon">>) = {"T", "dt"}
  <2>1. DOMAIN DumpFloats(cfg.horizon) = {"T", "dt"}
    BY DEF DumpFloats, HasShape
  <2> QED BY <2>1, EntriesOfSections
<1>3. DOMAIN Entries(cfg, <<"mid_price">>) =
        {"model", "s0"} \cup (IF cfg.matrix = None THEN {"transition_matrix"} ELSE {})
  <2>1. DOMAIN DumpMidPrice(cfg) =
          {"model", "s0"} \cup (IF cfg.matrix = None THEN {"transition_matrix"} ELSE {})
    BY DEF DumpMidPrice
  <2> QED BY <2>1, EntriesOfSections
<1>4. DOMAIN <<>> = {}
  OBVIOUS
<1>5. DOMAIN Entries(cfg, <<"quoters">>) = {}
  BY <1>4, EntriesOfSections
<1>6. DOMAIN Entries(cfg, <<"quoters", "avellaneda_stoikov">>) = {"gamma", "k", "A"}
  <2>1. DOMAIN DumpFloats(cfg.quoter) = {"gamma", "k", "A"}
    BY DEF DumpFloats, HasShape
  <2> QED BY <2>1, EntriesOfSections
<1>7. DOMAIN Entries(cfg, <<"quoters", "symmetric">>) = {"delta_base"}
  <2>1. DOMAIN [delta_base |-> FloatNode(cfg.delta_base)] = {"delta_base"}
    OBVIOUS
  <2> QED BY <2>1, EntriesOfSections
<1>8. DOMAIN Entries(cfg, <<"fill">>) = {"A_b", "k_b", "A_a", "k_a"}
  <2>1. DOMAIN DumpFloats(cfg.fill) = {"A_b", "k_b", "A_a", "k_a"}
    BY DEF DumpFloats, HasShape
  <2> QED BY <2>1, EntriesOfSections
<1>9. DOMAIN Entries(cfg, <<"risk">>) = {"q_max", "L_kill"}
  <2>1. DOMAIN [q_max |-> IntNode(cfg.q_max),
                L_kill |-> IF cfg.L_kill = None THEN NullNode ELSE FloatNode(cfg.L_kill)] = {"q_max", "L_kill"}
    OBVIOUS
  <2> QED BY <2>1, EntriesOfRecords
<1>10. DOMAIN Entries(cfg, <<"mc">>) = {"n_paths"}
  <2>1. DOMAIN [n_paths |-> IntNode(cfg.n_paths)] = {"n_paths"}
    OBVIOUS
  <2> QED BY <2>1, EntriesOfSections
<1>11. DOMAIN Entries(cfg, <<"analytics">>) =
         {"adverse_selection_horizon_steps", "bootstrap_iterations", "bootstrap_alpha",
          "sharpe_annualization_factor"}
  <2>1. DOMAIN [adverse_selection_horizon_steps |-> IntNode(cfg.adverse),
                bootstrap_iterations |-> IntNode(cfg.iterations),
                bootstrap_alpha |-> FloatNode(cfg.alpha),
                sharpe_annualization_factor |-> FloatNode(cfg.sharpe)] =
          {"adverse_selection_horizon_steps", "bootstrap_iterations", "bootstrap_alpha",
           "sharpe_annualization_factor"}
    OBVIOUS
  <2> QED BY <2>1, EntriesOfRecords
<1>12. DOMAIN Entries(cfg, <<"output">>) = {"dir", "format"}
  <2>1. DOMAIN [dir |-> StrNode(cfg.dir), format |-> StrNode("parquet")] = {"dir", "format"}
    OBVIOUS
  <2> QED BY <2>1, EntriesOfRecords
<1>13. DOMAIN Entries(cfg, <<"mid_price", "regimes">>) = {}
  BY <1>4, EntriesOfSections
<1>14. DOMAIN Entries(cfg, MatrixPath) = {}
  BY <1>4, EntriesOfSections
<1> QED BY <1>1, <1>2, <1>3, <1>5, <1>6, <1>7, <1>8, <1>9, <1>10, <1>11, <1>12, <1>13, <1>14
LEMMA KeysOfRegime ==
    ASSUME NEW cfg, HasShape(cfg), NEW k \in 1 .. 3, k \in DOMAIN cfg.regimes
    PROVE  DOMAIN Entries(cfg, RegimePath(k)) =
             {"name", "mu", "sigma"} \cup (IF cfg.regimes[k].gamma = None THEN {} ELSE {"gamma"})
<1>1. DOMAIN DumpRegime(cfg.regimes[k]) =
        {"name", "mu", "sigma"} \cup (IF cfg.regimes[k].gamma = None THEN {} ELSE {"gamma"})
  BY DEF DumpRegime
<1> QED BY <1>1, EntriesOfRegime
LEMMA KeysOfRow ==
    ASSUME NEW cfg, HasShape(cfg), NEW i \in 1 .. 3, cfg.matrix # None, i \in DOMAIN cfg.matrix
    PROVE  DOMAIN Entries(cfg, RowPath(i)) = {Index[j] : j \in DOMAIN cfg.matrix[i]}
<1>1. DOMAIN DumpRow(cfg.matrix[i]) = {Index[j] : j \in DOMAIN cfg.matrix[i]}
  BY DEF DumpRow
<1> QED BY <1>1, EntriesOfRow

(* Only the names of fields and of positions are keys.                     *)
LEMMA EntriesAreNames ==
    ASSUME NEW cfg, HasShape(cfg), NEW p \in Inner(cfg)
    PROVE  DOMAIN Entries(cfg, p) \subseteq FieldNames
<1>1. CASE p \in Sections \cup {MatrixPath}
  <2>1. DOMAIN Entries(cfg, <<>>) \subseteq FieldNames
    <3>1. {"master_seed"} \subseteq FieldNames
      BY NamesAre
    <3>2. DOMAIN Entries(cfg, <<>>) = {"master_seed"}
      BY KeysOfEntries
    <3> QED BY <3>1, <3>2
  <2>2. DOMAIN Entries(cfg, <<"horizon">>) \subseteq FieldNames
    <3>1. {"T", "dt"} \subseteq FieldNames
      BY NamesAre
    <3>2. DOMAIN Entries(cfg, <<"horizon">>) = {"T", "dt"}
      BY KeysOfEntries
    <3> QED BY <3>1, <3>2
  <2>3. DOMAIN Entries(cfg, <<"mid_price">>) \subseteq FieldNames
    <3>1. {"model", "s0"} \cup (IF cfg.matrix = None THEN {"transition_matrix"} ELSE {}) \subseteq FieldNames
      BY NamesAre
    <3> QED BY ZenonT(60), <3>1, KeysOfEntries
  <2>4. DOMAIN Entries(cfg, <<"quoters">>) \subseteq FieldNames
    BY KeysOfEntries
  <2>5. DOMAIN Entries(cfg, <<"quoters", "avellaneda_stoikov">>) \subseteq FieldNames
    BY ZenonT(60), KeysOfEntries, NamesAre
  <2>6. DOMAIN Entries(cfg, <<"quoters", "symmetric">>) \subseteq FieldNames
    BY ZenonT(60), KeysOfEntries, NamesAre
  <2>7. DOMAIN Entries(cfg, <<"fill">>) \subseteq FieldNames
    BY KeysOfEntries, NamesAre
  <2>8. DOMAIN Entries(cfg, <<"risk">>) \subseteq FieldNames
    BY ZenonT(60), KeysOfEntries, NamesAre
  <2>9. DOMAIN Entries(cfg, <<"mc">>) \subseteq FieldNames
    BY KeysOfEntries, NamesAre
  <2>10. DOMAIN Entries(cfg, <<"analytics">>) \subseteq FieldNames
    BY KeysOfEntries, NamesAre
  <2>11. DOMAIN Entries(cfg, <<"output">>) \subseteq FieldNames
    BY KeysOfEntries, NamesAre
  <2>12. /\ DOMAIN Entries(cfg, <<"mid_price", "regimes">>) \subseteq FieldNames
         /\ DOMAIN Entries(cfg, MatrixPath) \subseteq FieldNames
    BY KeysOfEntries
  <2> QED BY <1>1, <2>1, <2>2, <2>3, <2>4, <2>5, <2>6, <2>7, <2>8, <2>9, <2>10, <2>11, <2>12 DEF Sections
<1>2. CASE p \in RegimePaths(cfg)
  <2>1. PICK k \in 1 .. 3 : k \in DOMAIN cfg.regimes /\ p = RegimePath(k)
    BY <1>2, RegimePathsAre
  <2>2. DOMAIN Entries(cfg, p) \subseteq {"name", "mu", "sigma", "gamma"}
    BY <2>1, KeysOfRegime
  <2> QED BY <2>2, NamesAre
<1>3. CASE p \in RowPaths(cfg)
  <2>1. PICK k \in 1 .. 3 : cfg.matrix # None /\ k \in DOMAIN cfg.matrix /\ p = RowPath(k)
    BY <1>3, RowPathsAre
  <2>2. PICK row : row = cfg.matrix[k]
    OBVIOUS
  <2>3. \A j \in DOMAIN row : j \in 1 .. 3
    BY <2>1, <2>2 DEF HasShape, IsRow
  <2>4. DOMAIN Entries(cfg, p) = {Index[j] : j \in DOMAIN row}
    BY <2>1, <2>2, KeysOfRow
  <2> QED BY <2>3, <2>4, IndexIsName
<1> QED BY <1>1, <1>2, <1>3, InnerIs

-----------------------------------------------------------------------------
(* The file.                                                               *)

IsLeaf(cfg, q) == \E p \in Inner(cfg) : \E key \in DOMAIN Entries(cfg, p) : q = Append(p, key)

LEMMA DumpIs ==
    ASSUME NEW cfg
    PROVE  /\ \A q : q \in DOMAIN Dump(cfg) <=> q \in Inner(cfg) \/ IsLeaf(cfg, q)
           /\ \A p \in MapPaths(cfg) : Dump(cfg)[p] = MapNode
           /\ \A p \in ListPaths(cfg) : p \notin MapPaths(cfg) => Dump(cfg)[p] = ListNode
           /\ \A p \in DOMAIN Dump(cfg) :
                p \notin Inner(cfg) => Dump(cfg)[p] = Entries(cfg, Front(p))[Last(p)]
<1> DEFINE leaves == UNION {{Append(p, key) : key \in DOMAIN Entries(cfg, p)} : p \in Inner(cfg)}
           node(p) == IF p \in MapPaths(cfg) THEN MapNode
                      ELSE IF p \in ListPaths(cfg) THEN ListNode
                      ELSE Entries(cfg, Front(p))[Last(p)]
<1>1. Dump(cfg) = [p \in Inner(cfg) \cup leaves |-> node(p)]
  BY DEF Dump, Inner
<1>2. MapPaths(cfg) \subseteq Inner(cfg) /\ ListPaths(cfg) \subseteq Inner(cfg)
  BY DEF Inner
<1>3. \A p : p \notin Inner(cfg) => p \notin MapPaths(cfg) /\ p \notin ListPaths(cfg)
  BY DEF Inner
<1>4. \A q : q \in leaves <=> IsLeaf(cfg, q)
  BY DEF IsLeaf
<1> HIDE DEF leaves
<1>5. DOMAIN Dump(cfg) = Inner(cfg) \cup leaves /\ \A p \in Inner(cfg) \cup leaves : Dump(cfg)[p] = node(p)
  BY <1>1
<1>6. \A p \in MapPaths(cfg) : Dump(cfg)[p] = MapNode
  BY <1>2, <1>5
<1>7. \A p \in ListPaths(cfg) : p \notin MapPaths(cfg) => Dump(cfg)[p] = ListNode
  BY <1>2, <1>5
<1>8. \A p \in DOMAIN Dump(cfg) : p \notin Inner(cfg) => Dump(cfg)[p] = Entries(cfg, Front(p))[Last(p)]
  BY <1>3, <1>5
<1> QED BY <1>4, <1>5, <1>6, <1>7, <1>8

(* A key of a mapping or list, and what stands there.                      *)
LEMMA LeafIs ==
    ASSUME NEW cfg, HasShape(cfg), NEW p \in Inner(cfg), NEW key \in DOMAIN Entries(cfg, p),
           Append(p, key) \notin Inner(cfg)
    PROVE  Append(p, key) \in DOMAIN Dump(cfg) /\ Dump(cfg)[Append(p, key)] = Entries(cfg, p)[key]
<1>1. p \in Keys /\ key \in FieldNames
  BY InnerAreKeys, EntriesAreNames
<1>2. PICK q : q = Append(p, key)
  OBVIOUS
<1>3. Front(q) = p /\ Last(q) = key
  BY <1>1, <1>2, BelowIs
<1>4. IsLeaf(cfg, q)
  BY <1>2 DEF IsLeaf
<1>5. q \in DOMAIN Dump(cfg)
  BY <1>4, DumpIs
<1> QED BY <1>2, <1>3, <1>5, DumpIs
LEMMA DomainIs ==
    ASSUME NEW cfg, HasShape(cfg)
    PROVE  DOMAIN Dump(cfg) \subseteq Keys
<1>1. ASSUME NEW p \in Inner(cfg), NEW key \in DOMAIN Entries(cfg, p)
      PROVE  Append(p, key) \in Keys
  BY InnerAreKeys, EntriesAreNames, BelowIs
<1>2. ASSUME NEW q, IsLeaf(cfg, q) PROVE q \in Keys
  BY <1>1, <1>2 DEF IsLeaf
<1>3. ASSUME NEW q \in DOMAIN Dump(cfg) PROVE q \in Keys
  BY <1>2, InnerAreKeys, DumpIs
<1> QED BY <1>3
LEMMA BelowInner ==
    ASSUME NEW cfg, HasShape(cfg), NEW p \in Keys, NEW key \in FieldNames
    PROVE  Append(p, key) \in DOMAIN Dump(cfg) <=>
             Append(p, key) \in Inner(cfg) \/ (p \in Inner(cfg) /\ key \in DOMAIN Entries(cfg, p))
<1>1. PICK q : q = Append(p, key)
  OBVIOUS
<1>2. ASSUME NEW r \in Inner(cfg), NEW word \in DOMAIN Entries(cfg, r), q = Append(r, word)
      PROVE  p = r /\ key = word
  <2>1. r \in Keys /\ word \in FieldNames
    BY InnerAreKeys, EntriesAreNames
  <2>2. Append(p, key) = Append(r, word)
    BY <1>1, <1>2
  <2> QED BY <2>1, <2>2, OnePlace
<1>3. ASSUME IsLeaf(cfg, q)
      PROVE  p \in Inner(cfg) /\ key \in DOMAIN Entries(cfg, p)
  BY <1>2, <1>3 DEF IsLeaf
<1>4. ASSUME p \in Inner(cfg), key \in DOMAIN Entries(cfg, p)
      PROVE  IsLeaf(cfg, q)
  BY <1>1, <1>4 DEF IsLeaf
<1> QED BY <1>1, <1>3, <1>4, DumpIs

(* The mappings and lists below a path.                                    *)
LEMMA UnderRoot ==
    ASSUME NEW cfg, HasShape(cfg), NEW key \in FieldNames
    PROVE  Append(<<>>, key) \in Inner(cfg) <=>
             key \in {"horizon", "mid_price", "quoters", "fill", "risk", "mc", "analytics", "output"}
<1>1. Append(<<>>, key) = <<key>>
  BY OneKey
<1>2. <<key>> \notin RegimePaths(cfg) \cup RowPaths(cfg)
  BY NoListEntry
<1>3. <<key>> \in Sections <=>
        key \in {"horizon", "mid_price", "quoters", "fill", "risk", "mc", "analytics", "output"}
  BY DEF Sections
<1>4. <<key>> # MatrixPath
  BY DEF MatrixPath
<1> QED BY <1>1, <1>2, <1>3, <1>4, InnerIs
LEMMA UnderSection ==
    ASSUME NEW cfg, HasShape(cfg), NEW a \in FieldNames, NEW key \in FieldNames
    PROVE  Append(<<a>>, key) \in Inner(cfg) <=>
             \/ a = "quoters" /\ key \in {"avellaneda_stoikov", "symmetric"}
             \/ a = "mid_price" /\ key = "regimes"
             \/ a = "mid_price" /\ key = "transition_matrix" /\ cfg.matrix # None
<1>1. Append(<<a>>, key) = <<a, key>>
  BY TwoKeys
<1>2. <<a, key>> \notin RegimePaths(cfg) \cup RowPaths(cfg)
  BY NoListEntry
<1>3. <<a, key>> \in Sections <=>
        \/ a = "quoters" /\ key \in {"avellaneda_stoikov", "symmetric"}
        \/ a = "mid_price" /\ key = "regimes"
  BY DEF Sections
<1>4. <<a, key>> = MatrixPath <=> a = "mid_price" /\ key = "transition_matrix"
  BY DEF MatrixPath
<1> QED BY <1>1, <1>2, <1>3, <1>4, InnerIs
LEMMA UnderPair ==
    ASSUME NEW cfg, HasShape(cfg), NEW a \in FieldNames, NEW b \in FieldNames, NEW key \in FieldNames
    PROVE  Append(<<a, b>>, key) \in Inner(cfg) <=>
             \/ <<a, b>> = <<"mid_price", "regimes">> /\ \E k \in DOMAIN cfg.regimes : key = Index[k]
             \/ /\ <<a, b>> = MatrixPath /\ cfg.matrix # None
                /\ \E i \in DOMAIN cfg.matrix : key = Index[i]
<1>1. Append(<<a, b>>, key) = <<a, b, key>>
  BY ThreeKeys
<1>2. <<a, b, key>> \notin Sections \cup {MatrixPath}
  BY DEF Sections, MatrixPath
<1>3. <<a, b, key>> \in RegimePaths(cfg) <=>
        <<a, b>> = <<"mid_price", "regimes">> /\ \E k \in DOMAIN cfg.regimes : key = Index[k]
  BY DEF RegimePaths, RegimePath
<1>4. <<a, b, key>> \in RowPaths(cfg) <=>
        /\ <<a, b>> = MatrixPath /\ cfg.matrix # None
        /\ \E i \in DOMAIN cfg.matrix : key = Index[i]
  <2>1. CASE cfg.matrix = None
    BY <2>1 DEF RowPaths
  <2>2. CASE cfg.matrix # None
    <3>1. \A i \in DOMAIN cfg.matrix : RowPath(i) = <<"mid_price", "transition_matrix", Index[i]>>
      <4>1. \A i \in DOMAIN cfg.matrix : i \in 1 .. 3
        BY <2>2 DEF HasShape, IsRow
      <4> QED BY <4>1, ListPathsAre
    <3>2. <<a, b, key>> \in RowPaths(cfg) <=> \E i \in DOMAIN cfg.matrix : <<a, b, key>> = RowPath(i)
      BY <2>2 DEF RowPaths
    <3>3. <<a, b>> = MatrixPath <=> a = "mid_price" /\ b = "transition_matrix"
      BY DEF MatrixPath
    <3> QED BY <2>2, <3>1, <3>2, <3>3
  <2> QED BY <2>1, <2>2
<1> QED BY <1>1, <1>2, <1>3, <1>4, InnerIs
LEMMA UnderEntry ==
    ASSUME NEW cfg, HasShape(cfg), NEW p \in Keys, Len(p) = 3, NEW key \in FieldNames
    PROVE  Append(p, key) \notin Inner(cfg)
<1>1. Len(Append(p, key)) = Len(p) + 1
  BY BelowIs
<1>2. Len(Append(p, key)) = 4
  BY <1>1
<1> QED BY <1>2, InnerAreKeys

LEMMA KeysOfDump ==
    ASSUME NEW cfg, HasShape(cfg), NEW p \in Inner(cfg)
    PROVE  KeysOf(Dump(cfg), p) =
             {key \in FieldNames : Append(p, key) \in Inner(cfg)} \cup DOMAIN Entries(cfg, p)
<1>1. p \in Keys
  BY InnerAreKeys
<1>2. DOMAIN Dump(cfg) \subseteq Keys
  BY DomainIs
<1>3. KeysOf(Dump(cfg), p) = {key \in FieldNames : Append(p, key) \in DOMAIN Dump(cfg)}
  BY <1>1, <1>2, KeysBelow
<1>4. DOMAIN Entries(cfg, p) \subseteq FieldNames
  BY EntriesAreNames
<1>5. \A key \in FieldNames : Append(p, key) \in DOMAIN Dump(cfg) <=>
                                Append(p, key) \in Inner(cfg) \/ key \in DOMAIN Entries(cfg, p)
  BY <1>1, BelowInner
<1> QED BY <1>3, <1>4, <1>5

-----------------------------------------------------------------------------
(* Sequences of checks.                                                    *)

Accepts(doc, s) == IsSeq(s) /\ \A c \in Range(s) : ~Rejects(doc, c)

LEMMA AcceptsBoth ==
    ASSUME NEW doc, NEW a, NEW b, Accepts(doc, a), Accepts(doc, b)
    PROVE  Accepts(doc, a \o b)
<1>1. IsSeq(a) /\ IsSeq(b)
  BY DEF Accepts
<1>2. IsSeq(a \o b) /\ Range(a \o b) = Range(a) \cup Range(b)
  BY <1>1, ConcatSeqs
<1> QED BY <1>2 DEF Accepts

LEMMA AcceptsOne ==
    ASSUME NEW doc, NEW c, ~Rejects(doc, c)
    PROVE  Accepts(doc, <<c>>)
<1>1. IsSeq(<<c>>)
  BY TuplesAreSeqs
<1>2. Range(<<c>>) = {c}
  BY DEF Range
<1> QED BY <1>1, <1>2 DEF Accepts

LEMMA AcceptsEach ==
    ASSUME NEW doc, NEW n \in Nat, NEW s, DOMAIN s = 1 .. n, s = [i \in 1 .. n |-> s[i]],
           \A i \in 1 .. n : ~Rejects(doc, s[i])
    PROVE  Accepts(doc, s)
<1>1. IsSeq(s)
  BY FunctionIsSeq
<1>2. \A c \in Range(s) : ~Rejects(doc, c)
  BY DEF Range
<1> QED BY <1>1, <1>2 DEF Accepts

(* Accepted all, none is selected; and back.                               *)
LEMMA NoneBroken ==
    ASSUME NEW doc, NEW s, IsSeq(s)
    PROVE  FirstRejected(doc, s) = 0 <=> Accepts(doc, s)
<1> DEFINE I == {i \in 1 .. Len(s) : Rejects(doc, s[i])}
<1>1. Len(s) \in Nat /\ DOMAIN s = 1 .. Len(s)
  BY LenProperties DEF IsSeq
<1>2. FirstRejected(doc, s) = IF I # {} THEN Min(I) ELSE 0
  BY DEF FirstRejected, SelectInSeq
<1>3. I = {} <=> Accepts(doc, s)
  BY <1>1 DEF Accepts, Range
<1>4. I # {} => Min(I) # 0
  <2>1. SUFFICES ASSUME I # {} PROVE Min(I) \in I
    BY <1>1
  <2>2. I \subseteq Nat
    BY <1>1
  <2>3. \E x \in I : \A y \in I : x <= y
    BY <2>1, <2>2, LeastNumber
  <2> HIDE DEF I
  <2> QED BY <2>3 DEF Min
<1> HIDE DEF I
<1> QED BY <1>2, <1>3, <1>4

(* A mapping is accepted that has the fields, and no key that is unknown.  *)
FieldOk(doc, path, field) ==
    /\ KindAt(doc, Append(path, field.key)) \in field.kinds
    /\ "map" \notin field.kinds
    /\ field.words # {} => doc[Append(path, field.key)].text \in field.words
KeysOk(doc, path, fields, more) ==
    /\ KindAt(doc, path) = "map"
    /\ KeysOf(doc, path) \subseteq {fields[f].key : f \in DOMAIN fields} \cup more

LEMMA CheckIs ==
    ASSUME NEW path, NEW kinds, NEW keys, NEW words, NEW c, c = Check(path, kinds, keys, words)
    PROVE  c.path = path /\ c.kinds = kinds /\ c.keys = keys /\ c.words = words
  BY DEF Check

LEMMA FieldAccepted ==
    ASSUME NEW doc, NEW path, NEW field, FieldOk(doc, path, field)
    PROVE  ~Rejects(doc, Check(Append(path, field.key), field.kinds, {}, field.words))
<1>1. PICK c : c = Check(Append(path, field.key), field.kinds, {}, field.words)
  OBVIOUS
<1>2. /\ c.path = Append(path, field.key) /\ c.kinds = field.kinds /\ c.keys = {}
      /\ c.words = field.words
  BY <1>1 DEF Check
<1>3. UnknownKeys(doc, c) = {}
  BY <1>2 DEF UnknownKeys, FieldOk
<1> QED BY <1>1, <1>2, <1>3 DEF Rejects, FieldOk
LEMMA MappingAccepted ==
    ASSUME NEW doc, NEW path, NEW n \in Nat, NEW fields, DOMAIN fields = 1 .. n, NEW more,
           KeysOk(doc, path, fields, more), \A f \in 1 .. n : FieldOk(doc, path, fields[f])
    PROVE  Accepts(doc, Mapping(path, fields, more))
<1> DEFINE keys == {fields[f].key : f \in DOMAIN fields} \cup more
           c == Check(path, {"map"}, keys, {})
           rest == [f \in DOMAIN fields |->
                      Check(Append(path, fields[f].key), fields[f].kinds, {}, fields[f].words)]
<1>1. Mapping(path, fields, more) = <<c>> \o rest
  BY DEF Mapping
<1>2. ~Rejects(doc, c)
  <2> HIDE DEF keys
  <2>1. c.path = path /\ c.kinds = {"map"} /\ c.keys = keys /\ c.words = {}
    BY CheckIs
  <2>2. UnknownKeys(doc, c) = {}
    <3>1. KeysOf(doc, path) \ keys = {}
      BY DEF KeysOk, keys
    <3> HIDE DEF c
    <3> QED BY <2>1, <3>1 DEF UnknownKeys
  <2> HIDE DEF c
  <2> QED BY <2>1, <2>2 DEF Rejects, KeysOk
<1>3. Accepts(doc, rest)
  <2>1. \A f \in 1 .. n : ~Rejects(doc, rest[f])
    BY FieldAccepted
  <2>2. DOMAIN rest = 1 .. n /\ rest = [f \in 1 .. n |-> rest[f]]
    OBVIOUS
  <2> HIDE DEF rest
  <2> QED BY <2>1, <2>2, AcceptsEach
<1>4. Accepts(doc, <<c>>)
  BY <1>2, AcceptsOne
<1> HIDE DEF c, rest
<1> QED BY <1>1, <1>3, <1>4, AcceptsBoth

(* One field, by its name.                                                 *)
LEMMA FieldIsOk ==
    ASSUME NEW doc, NEW path, NEW key, NEW kinds, "map" \notin kinds,
           KindAt(doc, Append(path, key)) \in kinds
    PROVE  FieldOk(doc, path, Field(key, kinds)) /\ Field(key, kinds).key = key
  BY DEF FieldOk, Field
LEMMA WordIsOk ==
    ASSUME NEW doc, NEW path, NEW key, NEW words, KindAt(doc, Append(path, key)) = "str",
           doc[Append(path, key)].text \in words
    PROVE  FieldOk(doc, path, Word(key, words)) /\ Word(key, words).key = key
  BY DEF FieldOk, Word
LEMMA NumbersAccepted ==
    ASSUME NEW doc, NEW path, NEW n \in Nat, NEW keys, DOMAIN keys = 1 .. n,
           KindAt(doc, path) = "map", KeysOf(doc, path) \subseteq {keys[k] : k \in 1 .. n},
           \A k \in 1 .. n : KindAt(doc, Append(path, keys[k])) \in Number
    PROVE  Accepts(doc, Numbers(path, keys))
<1> DEFINE fields == [k \in DOMAIN keys |-> Field(keys[k], Number)]
<1>1. "map" \notin Number
  BY DEF Number
<1>2. \A f \in 1 .. n : FieldOk(doc, path, fields[f]) /\ fields[f].key = keys[f]
  BY <1>1, FieldIsOk
<1>3. DOMAIN fields = 1 .. n
  OBVIOUS
<1>4. Numbers(path, keys) = Mapping(path, fields, {})
  BY DEF Numbers
<1> HIDE DEF fields
<1>5. KeysOk(doc, path, fields, {})
  BY <1>2, <1>3 DEF KeysOk
<1> QED BY <1>2, <1>3, <1>4, <1>5, MappingAccepted

-----------------------------------------------------------------------------
(* The file that is written is accepted.                                   *)

(* A scalar at a key of a mapping or list.                                 *)
Stands(cfg, p, key) ==
    /\ Append(p, key) \in DOMAIN Dump(cfg)
    /\ Dump(cfg)[Append(p, key)] = Entries(cfg, p)[key]

LEMMA KindOfStanding ==
    ASSUME NEW cfg, NEW p, NEW key, Stands(cfg, p, key)
    PROVE  KindAt(Dump(cfg), Append(p, key)) = Entries(cfg, p)[key].kind
  BY DEF Stands, KindAt
LEMMA NodesAre ==
    /\ \A x : FloatNode(x).kind = "float" /\ FloatNode(x).num = x
    /\ \A n : IntNode(n).kind = "int" /\ IntNode(n).num = n * One
    /\ \A t : StrNode(t).kind = "str" /\ StrNode(t).text = t
    /\ NullNode.kind = "null" /\ ListNode.kind = "list" /\ MapNode.kind = "map"
  BY DEF FloatNode, IntNode, StrNode, NullNode, ListNode, MapNode, Node
LEMMA KindOfMap ==
    ASSUME NEW cfg, NEW p \in MapPaths(cfg)
    PROVE  KindAt(Dump(cfg), p) = "map"
<1>1. p \in DOMAIN Dump(cfg) /\ Dump(cfg)[p] = MapNode
  BY DumpIs DEF Inner
<1>2. Dump(cfg)[p].kind = "map"
  BY <1>1, NodesAre
<1> QED BY <1>1, <1>2 DEF KindAt

(* The sections of scalars only.                                           *)
Flat == {<<"horizon">>, <<"fill">>, <<"risk">>, <<"mc">>, <<"analytics">>, <<"output">>,
         <<"quoters", "avellaneda_stoikov">>, <<"quoters", "symmetric">>}
LEMMA FlatIs ==
    ASSUME NEW cfg, HasShape(cfg), NEW p \in Flat
    PROVE  /\ p \in MapPaths(cfg) /\ p \in Inner(cfg) /\ p \in Keys
           /\ \A key \in FieldNames : Append(p, key) \notin Inner(cfg)
<1>1. p \in MapPaths(cfg)
  BY DEF Flat, MapPaths
<1>2. p \in Inner(cfg) /\ p \in Keys
  BY <1>1, InnerAreKeys DEF Inner
<1>3. ASSUME NEW key \in FieldNames PROVE Append(p, key) \notin Inner(cfg)
  <2>1. CASE p \in {<<"horizon">>, <<"fill">>, <<"risk">>, <<"mc">>, <<"analytics">>, <<"output">>}
    <3>1. PICK a \in FieldNames : p = <<a>> /\ a # "quoters" /\ a # "mid_price"
      BY <2>1, NamesAre
    <3> QED BY <3>1, UnderSection
  <2>2. CASE p = <<"quoters", "avellaneda_stoikov">> \/ p = <<"quoters", "symmetric">>
    <3>1. PICK a \in FieldNames, b \in FieldNames : p = <<a, b>> /\ a = "quoters"
      BY <2>2, NamesAre
    <3>2. p # <<"mid_price", "regimes">> /\ p # MatrixPath
      BY <3>1 DEF MatrixPath
    <3> QED BY <3>1, <3>2, UnderPair
  <2> QED BY <2>1, <2>2 DEF Flat
<1> QED BY <1>1, <1>2, <1>3
LEMMA FlatStands ==
    ASSUME NEW cfg, HasShape(cfg), NEW p \in Flat
    PROVE  /\ KindAt(Dump(cfg), p) = "map"
           /\ KeysOf(Dump(cfg), p) = DOMAIN Entries(cfg, p)
           /\ \A key \in DOMAIN Entries(cfg, p) : Stands(cfg, p, key)
<1>1. /\ p \in MapPaths(cfg) /\ p \in Inner(cfg)
      /\ \A key \in FieldNames : Append(p, key) \notin Inner(cfg)
  BY FlatIs
<1>2. DOMAIN Entries(cfg, p) \subseteq FieldNames
  BY <1>1, EntriesAreNames
<1>3. KeysOf(Dump(cfg), p) = DOMAIN Entries(cfg, p)
  BY <1>1, KeysOfDump
<1>4. \A key \in DOMAIN Entries(cfg, p) : Stands(cfg, p, key)
  BY <1>1, <1>2, LeafIs DEF Stands
<1> QED BY <1>1, <1>3, <1>4, KindOfMap
LEMMA NumbersWritten ==
    ASSUME NEW cfg, HasShape(cfg), NEW p \in Flat, NEW n \in Nat, NEW keys, DOMAIN keys = 1 .. n,
           DOMAIN Entries(cfg, p) = {keys[k] : k \in 1 .. n},
           \A k \in 1 .. n : Entries(cfg, p)[keys[k]].kind \in Number
    PROVE  Accepts(Dump(cfg), Numbers(p, keys))
<1>1. KindAt(Dump(cfg), p) = "map" /\ KeysOf(Dump(cfg), p) \subseteq {keys[k] : k \in 1 .. n}
  BY FlatStands
<1>2. \A k \in 1 .. n : Stands(cfg, p, keys[k])
  BY FlatStands
<1>3. \A k \in 1 .. n : KindAt(Dump(cfg), Append(p, keys[k])) \in Number
  BY <1>2, KindOfStanding
<1> QED BY <1>1, <1>3, NumbersAccepted
LEMMA HorizonWritten ==
    ASSUME NEW cfg, HasShape(cfg)
    PROVE  Accepts(Dump(cfg), Numbers(<<"horizon">>, <<"T", "dt">>))
<1>1. PICK keys, p : keys = <<"T", "dt">> /\ p = <<"horizon">>
  OBVIOUS
<1>2. DOMAIN keys = 1 .. 2 /\ {keys[k] : k \in 1 .. 2} = {"T", "dt"}
  BY <1>1
<1>3. DOMAIN Entries(cfg, p) = {keys[k] : k \in 1 .. 2}
  BY <1>1, <1>2, KeysOfEntries
<1>4. Entries(cfg, p) = DumpFloats(cfg.horizon) /\ DOMAIN cfg.horizon = {"T", "dt"}
  BY <1>1, EntriesOfSections DEF HasShape
<1>5. \A k \in 1 .. 2 : Entries(cfg, p)[keys[k]].kind \in Number
  BY <1>2, <1>4, NodesAre DEF DumpFloats, Number
<1>6. p \in Flat
  BY <1>1 DEF Flat
<1>7. Accepts(Dump(cfg), Numbers(p, keys))
  BY <1>2, <1>3, <1>5, <1>6, NumbersWritten
<1> QED BY <1>1, <1>7
LEMMA QuoterWritten ==
    ASSUME NEW cfg, HasShape(cfg)
    PROVE  Accepts(Dump(cfg), Numbers(<<"quoters", "avellaneda_stoikov">>, <<"gamma", "k", "A">>))
<1>1. PICK keys, p : keys = <<"gamma", "k", "A">> /\ p = <<"quoters", "avellaneda_stoikov">>
  OBVIOUS
<1>2. DOMAIN keys = 1 .. 3 /\ {keys[k] : k \in 1 .. 3} = {"gamma", "k", "A"}
  BY <1>1
<1>3. DOMAIN Entries(cfg, p) = {keys[k] : k \in 1 .. 3}
  BY <1>1, <1>2, KeysOfEntries
<1>4. Entries(cfg, p) = DumpFloats(cfg.quoter) /\ DOMAIN cfg.quoter = {"gamma", "k", "A"}
  BY <1>1, EntriesOfSections DEF HasShape
<1>5. \A k \in 1 .. 3 : Entries(cfg, p)[keys[k]].kind \in Number
  BY <1>2, <1>4, NodesAre DEF DumpFloats, Number
<1>6. p \in Flat
  BY <1>1 DEF Flat
<1>7. Accepts(Dump(cfg), Numbers(p, keys))
  BY <1>2, <1>3, <1>5, <1>6, NumbersWritten
<1> QED BY <1>1, <1>7
LEMMA FillWritten ==
    ASSUME NEW cfg, HasShape(cfg)
    PROVE  Accepts(Dump(cfg), Numbers(<<"fill">>, <<"A_b", "k_b", "A_a", "k_a">>))
<1>1. PICK keys, p : keys = <<"A_b", "k_b", "A_a", "k_a">> /\ p = <<"fill">>
  OBVIOUS
<1>2. DOMAIN keys = 1 .. 4 /\ {keys[k] : k \in 1 .. 4} = {"A_b", "k_b", "A_a", "k_a"}
  BY <1>1
<1>3. DOMAIN Entries(cfg, p) = {keys[k] : k \in 1 .. 4}
  BY <1>1, <1>2, KeysOfEntries
<1>4. Entries(cfg, p) = DumpFloats(cfg.fill) /\ DOMAIN cfg.fill = {"A_b", "k_b", "A_a", "k_a"}
  BY <1>1, EntriesOfSections DEF HasShape
<1>5. \A k \in 1 .. 4 : Entries(cfg, p)[keys[k]].kind \in Number
  BY <1>2, <1>4, NodesAre DEF DumpFloats, Number
<1>6. p \in Flat
  BY <1>1 DEF Flat
<1>7. Accepts(Dump(cfg), Numbers(p, keys))
  BY <1>2, <1>3, <1>5, <1>6, NumbersWritten
<1> QED BY <1>1, <1>7
LEMMA SymmetricWritten ==
    ASSUME NEW cfg, HasShape(cfg)
    PROVE  Accepts(Dump(cfg), Numbers(<<"quoters", "symmetric">>, <<"delta_base">>))
<1>1. PICK keys, p : keys = <<"delta_base">> /\ p = <<"quoters", "symmetric">>
  OBVIOUS
<1>2. DOMAIN keys = 1 .. 1 /\ {keys[k] : k \in 1 .. 1} = {"delta_base"}
  BY <1>1
<1>3. DOMAIN Entries(cfg, p) = {keys[k] : k \in 1 .. 1}
  BY <1>1, <1>2, KeysOfEntries
<1>4. Entries(cfg, p) = [delta_base |-> FloatNode(cfg.delta_base)]
  BY <1>1, EntriesOfSections
<1>5. \A k \in 1 .. 1 : Entries(cfg, p)[keys[k]].kind \in Number
  BY <1>1, <1>2, <1>4, NodesAre DEF Number
<1>6. p \in Flat
  BY <1>1 DEF Flat
<1>7. Accepts(Dump(cfg), Numbers(p, keys))
  BY <1>2, <1>3, <1>5, <1>6, NumbersWritten
<1> QED BY <1>1, <1>7

EntryOk(node, field) ==
    /\ node.kind \in field.kinds /\ "map" \notin field.kinds
    /\ field.words # {} => node.text \in field.words

LEMMA StandingIsOk ==
    ASSUME NEW cfg, NEW p, NEW field, Stands(cfg, p, field.key), EntryOk(Entries(cfg, p)[field.key], field)
    PROVE  FieldOk(Dump(cfg), p, field)
<1>1. KindAt(Dump(cfg), Append(p, field.key)) = Entries(cfg, p)[field.key].kind
  BY KindOfStanding
<1> QED BY <1>1 DEF FieldOk, EntryOk, Stands
LEMMA EntryIsOk ==
    ASSUME NEW node, NEW key, NEW kinds, "map" \notin kinds, node.kind \in kinds
    PROVE  EntryOk(node, Field(key, kinds)) /\ Field(key, kinds).key = key
  BY DEF EntryOk, Field
LEMMA WordEntryIsOk ==
    ASSUME NEW node, NEW key, NEW words, node.kind = "str", node.text \in words
    PROVE  EntryOk(node, Word(key, words)) /\ Word(key, words).key = key
  BY DEF EntryOk, Word
LEMMA FieldsWritten ==
    ASSUME NEW cfg, HasShape(cfg), NEW p \in Flat, NEW n \in Nat, NEW fields, DOMAIN fields = 1 .. n,
           DOMAIN Entries(cfg, p) = {fields[f].key : f \in 1 .. n},
           \A f \in 1 .. n : EntryOk(Entries(cfg, p)[fields[f].key], fields[f])
    PROVE  Accepts(Dump(cfg), Mapping(p, fields, {}))
<1>1. KindAt(Dump(cfg), p) = "map" /\ KeysOf(Dump(cfg), p) = DOMAIN Entries(cfg, p)
  BY FlatStands
<1>2. \A f \in 1 .. n : Stands(cfg, p, fields[f].key)
  BY FlatStands
<1>3. \A f \in 1 .. n : FieldOk(Dump(cfg), p, fields[f])
  BY <1>2, StandingIsOk
<1>4. KeysOk(Dump(cfg), p, fields, {})
  BY <1>1 DEF KeysOk
<1> QED BY <1>3, <1>4, MappingAccepted
LEMMA RiskWritten ==
    ASSUME NEW cfg, HasShape(cfg)
    PROVE  Accepts(Dump(cfg), Mapping(<<"risk">>, <<Field("q_max", {"int"}),
                                                    Field("L_kill", Number \cup {"null"})>>, {}))
<1>1. PICK fields, p : /\ fields = <<Field("q_max", {"int"}), Field("L_kill", Number \cup {"null"})>>
                       /\ p = <<"risk">>
  OBVIOUS
<1>2. /\ DOMAIN fields = 1 .. 2
      /\ fields[1] = Field("q_max", {"int"}) /\ fields[2] = Field("L_kill", Number \cup {"null"})
  BY <1>1
<1>3. Entries(cfg, p) = [q_max |-> IntNode(cfg.q_max),
                         L_kill |-> IF cfg.L_kill = None THEN NullNode ELSE FloatNode(cfg.L_kill)]
  BY <1>1, EntriesOfRecords
<1>4. Entries(cfg, p)["q_max"].kind = "int"
  BY <1>3, NodesAre
<1>5. Entries(cfg, p)["L_kill"].kind \in {"null", "float"}
  BY <1>3, NodesAre
<1>6. EntryOk(Entries(cfg, p)["q_max"], fields[1]) /\ fields[1].key = "q_max"
  BY <1>2, <1>4, EntryIsOk
<1>7. EntryOk(Entries(cfg, p)["L_kill"], fields[2]) /\ fields[2].key = "L_kill"
  BY <1>2, <1>5, EntryIsOk DEF Number
<1>8. DOMAIN Entries(cfg, p) = {fields[f].key : f \in 1 .. 2}
  <2>1. {fields[f].key : f \in 1 .. 2} =
          {"q_max", "L_kill"}
    BY <1>6, <1>7
  <2>2. DOMAIN Entries(cfg, <<"risk">>) =
          {"q_max", "L_kill"}
    BY KeysOfEntries
  <2> QED BY <1>1, <2>1, <2>2
<1>9. \A f \in 1 .. 2 : EntryOk(Entries(cfg, p)[fields[f].key], fields[f])
  BY <1>6, <1>7
<1>10. p \in Flat
  BY <1>1 DEF Flat
<1>11. Accepts(Dump(cfg), Mapping(p, fields, {}))
  BY <1>2, <1>8, <1>9, <1>10, FieldsWritten
<1> QED BY <1>1, <1>11
LEMMA McWritten ==
    ASSUME NEW cfg, HasShape(cfg)
    PROVE  Accepts(Dump(cfg), Mapping(<<"mc">>, <<Field("n_paths", {"int"})>>, {}))
<1>1. PICK fields, p : fields = <<Field("n_paths", {"int"})>> /\ p = <<"mc">>
  OBVIOUS
<1>2. DOMAIN fields = 1 .. 1 /\ fields[1] = Field("n_paths", {"int"})
  BY <1>1
<1>3. Entries(cfg, p) = [n_paths |-> IntNode(cfg.n_paths)]
  BY <1>1, EntriesOfSections
<1>4. Entries(cfg, p)["n_paths"].kind = "int"
  BY <1>3, NodesAre
<1>5. EntryOk(Entries(cfg, p)["n_paths"], fields[1]) /\ fields[1].key = "n_paths"
  BY <1>2, <1>4, EntryIsOk
<1>6. DOMAIN Entries(cfg, p) = {fields[f].key : f \in 1 .. 1}
  <2>1. {fields[f].key : f \in 1 .. 1} =
          {"n_paths"}
    BY <1>5
  <2>2. DOMAIN Entries(cfg, <<"mc">>) =
          {"n_paths"}
    BY KeysOfEntries
  <2> QED BY <1>1, <2>1, <2>2
<1>7. \A f \in 1 .. 1 : EntryOk(Entries(cfg, p)[fields[f].key], fields[f])
  BY <1>5
<1>8. p \in Flat
  BY <1>1 DEF Flat
<1>9. Accepts(Dump(cfg), Mapping(p, fields, {}))
  BY <1>2, <1>6, <1>7, <1>8, FieldsWritten
<1> QED BY <1>1, <1>9
LEMMA AnalyticsWritten ==
    ASSUME NEW cfg, HasShape(cfg)
    PROVE  Accepts(Dump(cfg),
                   Mapping(<<"analytics">>,
                           <<Field("adverse_selection_horizon_steps", {"int"}),
                             Field("bootstrap_iterations", {"int"}), Field("bootstrap_alpha", Number),
                             Field("sharpe_annualization_factor", Number)>>, {}))
<1>1. PICK fields, p :
        /\ fields = <<Field("adverse_selection_horizon_steps", {"int"}),
                      Field("bootstrap_iterations", {"int"}), Field("bootstrap_alpha", Number),
                      Field("sharpe_annualization_factor", Number)>>
        /\ p = <<"analytics">>
  OBVIOUS
<1>2. /\ DOMAIN fields = 1 .. 4
      /\ fields[1] = Field("adverse_selection_horizon_steps", {"int"})
      /\ fields[2] = Field("bootstrap_iterations", {"int"})
      /\ fields[3] = Field("bootstrap_alpha", Number)
      /\ fields[4] = Field("sharpe_annualization_factor", Number)
  BY <1>1
<1>3. Entries(cfg, p) = [adverse_selection_horizon_steps |-> IntNode(cfg.adverse),
                         bootstrap_iterations |-> IntNode(cfg.iterations),
                         bootstrap_alpha |-> FloatNode(cfg.alpha),
                         sharpe_annualization_factor |-> FloatNode(cfg.sharpe)]
  BY <1>1, EntriesOfRecords
<1>4. /\ Entries(cfg, p)["adverse_selection_horizon_steps"].kind = "int"
      /\ Entries(cfg, p)["bootstrap_iterations"].kind = "int"
  BY <1>3, NodesAre
<1>5. /\ Entries(cfg, p)["bootstrap_alpha"].kind \in Number
      /\ Entries(cfg, p)["sharpe_annualization_factor"].kind \in Number
  BY <1>3, NodesAre DEF Number
<1>6. "map" \notin Number
  BY DEF Number
<1>7. /\ EntryOk(Entries(cfg, p)["adverse_selection_horizon_steps"], fields[1])
      /\ fields[1].key = "adverse_selection_horizon_steps"
  BY <1>2, <1>4, EntryIsOk
<1>8. /\ EntryOk(Entries(cfg, p)["bootstrap_iterations"], fields[2])
      /\ fields[2].key = "bootstrap_iterations"
  BY <1>2, <1>4, EntryIsOk
<1>9. /\ EntryOk(Entries(cfg, p)["bootstrap_alpha"], fields[3])
      /\ fields[3].key = "bootstrap_alpha"
  BY <1>2, <1>5, <1>6, EntryIsOk
<1>10. /\ EntryOk(Entries(cfg, p)["sharpe_annualization_factor"], fields[4])
       /\ fields[4].key = "sharpe_annualization_factor"
  BY <1>2, <1>5, <1>6, EntryIsOk
<1>11. DOMAIN Entries(cfg, p) = {fields[f].key : f \in 1 .. 4}
  <2>1. {fields[f].key : f \in 1 .. 4} =
          {"adverse_selection_horizon_steps", "bootstrap_iterations", "bootstrap_alpha",
          "sharpe_annualization_factor"}
    BY <1>7, <1>8, <1>9, <1>10
  <2>2. DOMAIN Entries(cfg, <<"analytics">>) =
          {"adverse_selection_horizon_steps", "bootstrap_iterations", "bootstrap_alpha",
          "sharpe_annualization_factor"}
    BY KeysOfEntries
  <2> QED BY <1>1, <2>1, <2>2
<1>12. \A f \in 1 .. 4 : EntryOk(Entries(cfg, p)[fields[f].key], fields[f])
  BY <1>7, <1>8, <1>9, <1>10
<1>13. p \in Flat
  BY <1>1 DEF Flat
<1>14. Accepts(Dump(cfg), Mapping(p, fields, {}))
  BY <1>2, <1>11, <1>12, <1>13, FieldsWritten
<1> QED BY <1>1, <1>14
LEMMA OutputWritten ==
    ASSUME NEW cfg, HasShape(cfg)
    PROVE  Accepts(Dump(cfg), Mapping(<<"output">>, <<Field("dir", {"str"}), Word("format", {"parquet"})>>, {}))
<1>1. PICK fields, p : /\ fields = <<Field("dir", {"str"}), Word("format", {"parquet"})>>
                       /\ p = <<"output">>
  OBVIOUS
<1>2. DOMAIN fields = 1 .. 2 /\ fields[1] = Field("dir", {"str"}) /\ fields[2] = Word("format", {"parquet"})
  BY <1>1
<1>3. Entries(cfg, p) = [dir |-> StrNode(cfg.dir), format |-> StrNode("parquet")]
  BY <1>1, EntriesOfRecords
<1>4. Entries(cfg, p)["dir"].kind = "str"
  BY <1>3, NodesAre
<1>5. Entries(cfg, p)["format"].kind = "str" /\ Entries(cfg, p)["format"].text = "parquet"
  BY <1>3, NodesAre
<1>6. EntryOk(Entries(cfg, p)["dir"], fields[1]) /\ fields[1].key = "dir"
  BY <1>2, <1>4, EntryIsOk
<1>7. EntryOk(Entries(cfg, p)["format"], fields[2]) /\ fields[2].key = "format"
  BY <1>2, <1>5, WordEntryIsOk
<1>8. DOMAIN Entries(cfg, p) = {fields[f].key : f \in 1 .. 2}
  <2>1. {fields[f].key : f \in 1 .. 2} =
          {"dir", "format"}
    BY <1>6, <1>7
  <2>2. DOMAIN Entries(cfg, <<"output">>) =
          {"dir", "format"}
    BY KeysOfEntries
  <2> QED BY <1>1, <2>1, <2>2
<1>9. \A f \in 1 .. 2 : EntryOk(Entries(cfg, p)[fields[f].key], fields[f])
  BY <1>6, <1>7
<1>10. p \in Flat
  BY <1>1 DEF Flat
<1>11. Accepts(Dump(cfg), Mapping(p, fields, {}))
  BY <1>2, <1>8, <1>9, <1>10, FieldsWritten
<1> QED BY <1>1, <1>11

LEMMA AcceptsFlat ==
    ASSUME NEW doc, NEW n \in Nat, NEW seqs, DOMAIN seqs = 1 .. n, seqs = [i \in 1 .. n |-> seqs[i]],
           \A i \in 1 .. n : Accepts(doc, seqs[i])
    PROVE  Accepts(doc, FlattenSeq(seqs))
<1>1. IsSeq(seqs) /\ Len(seqs) = n
  BY FunctionIsSeq
<1>2. \A i \in 1 .. Len(seqs) : IsSeq(seqs[i])
  BY <1>1 DEF Accepts
<1>3. IsSeq(FlattenSeq(seqs))
  BY <1>1, <1>2, FlattenSeqIs
<1>4. \A c \in Range(FlattenSeq(seqs)) : \E i \in 1 .. Len(seqs) : c \in Range(seqs[i])
  BY <1>1, <1>2, FlattenSeqIs
<1>5. \A c \in Range(FlattenSeq(seqs)) : ~Rejects(doc, c)
  BY <1>1, <1>4 DEF Accepts
<1> QED BY <1>3, <1>5 DEF Accepts

LEMMA RootWritten ==
    ASSUME NEW cfg, HasShape(cfg)
    PROVE  Accepts(Dump(cfg),
                   Mapping(<<>>, <<Field("master_seed", {"int"})>>,
                           {"horizon", "mid_price", "quoters", "fill", "risk", "mc", "analytics", "output"}))
<1>1. PICK fields, more :
        /\ fields = <<Field("master_seed", {"int"})>>
        /\ more = {"horizon", "mid_price", "quoters", "fill", "risk", "mc", "analytics", "output"}
  OBVIOUS
<1>2. DOMAIN fields = 1 .. 1 /\ fields[1] = Field("master_seed", {"int"})
  BY <1>1
<1>3. <<>> \in Inner(cfg) /\ <<>> \in MapPaths(cfg)
  BY InnerIs DEF Sections, MapPaths
<1>4. \A key \in FieldNames : Append(<<>>, key) \in Inner(cfg) <=> key \in more
  BY <1>1, UnderRoot
<1>5. DOMAIN Entries(cfg, <<>>) = {"master_seed"} /\ "master_seed" \notin more /\ "master_seed" \in FieldNames
  BY <1>1, KeysOfEntries, NamesAre
<1>6. KeysOf(Dump(cfg), <<>>) \subseteq more \cup {"master_seed"}
  BY <1>3, <1>4, <1>5, KeysOfDump
<1>7. Stands(cfg, <<>>, "master_seed")
  BY <1>3, <1>4, <1>5, LeafIs DEF Stands
<1>8. PICK node : node = Entries(cfg, <<>>)["master_seed"]
  OBVIOUS
<1>9. node.kind = "int"
  <2>1. Entries(cfg, <<>>) = [master_seed |-> IntNode(cfg.master_seed)]
    BY EntriesOfSections
  <2>2. node = IntNode(cfg.master_seed)
    BY <1>8, <2>1
  <2> QED BY <2>2, NodesAre
<1>10. EntryOk(node, fields[1]) /\ fields[1].key = "master_seed"
  BY <1>2, <1>9, EntryIsOk
<1>11. FieldOk(Dump(cfg), <<>>, fields[1])
  BY <1>7, <1>8, <1>10, StandingIsOk
<1>12. KeysOk(Dump(cfg), <<>>, fields, more)
  <2>1. KindAt(Dump(cfg), <<>>) = "map"
    BY <1>3, KindOfMap
  <2>2. {fields[f].key : f \in DOMAIN fields} = {"master_seed"}
    BY <1>2, <1>10
  <2> QED BY <1>6, <2>1, <2>2 DEF KeysOk
<1>13. Accepts(Dump(cfg), Mapping(<<>>, fields, more))
  BY <1>2, <1>11, <1>12, MappingAccepted
<1> QED BY <1>1, <1>13
LEMMA QuotersWritten ==
    ASSUME NEW cfg, HasShape(cfg)
    PROVE  Accepts(Dump(cfg), Mapping(<<"quoters">>, <<>>, {"avellaneda_stoikov", "symmetric"}))
<1>1. PICK fields, more, p :
        fields = <<>> /\ more = {"avellaneda_stoikov", "symmetric"} /\ p = <<"quoters">>
  OBVIOUS
<1>2. DOMAIN fields = 1 .. 0
  BY <1>1
<1>3. p \in Inner(cfg) /\ p \in MapPaths(cfg)
  BY <1>1, InnerIs DEF Sections, MapPaths
<1>4. \A key \in FieldNames : Append(p, key) \in Inner(cfg) => key \in more
  BY <1>1, UnderSection, NamesAre
<1>5. DOMAIN Entries(cfg, p) = {}
  BY <1>1, KeysOfEntries
<1>6. KeysOf(Dump(cfg), p) \subseteq more
  BY <1>3, <1>4, <1>5, KeysOfDump
<1>7. KeysOk(Dump(cfg), p, fields, more)
  BY <1>3, <1>6, KindOfMap DEF KeysOk
<1>8. Accepts(Dump(cfg), Mapping(p, fields, more))
  BY <1>2, <1>7, MappingAccepted
<1> QED BY <1>1, <1>8
LEMMA MidPriceEntries ==
    ASSUME NEW cfg, HasShape(cfg)
    PROVE  /\ <<"mid_price">> \in Inner(cfg) /\ <<"mid_price">> \in MapPaths(cfg)
           /\ KeysOf(Dump(cfg), <<"mid_price">>) \subseteq {"model", "s0", "regimes", "transition_matrix"}
           /\ Stands(cfg, <<"mid_price">>, "model") /\ Stands(cfg, <<"mid_price">>, "s0")
           /\ Entries(cfg, <<"mid_price">>)["model"] = StrNode(cfg.model)
           /\ Entries(cfg, <<"mid_price">>)["s0"] = FloatNode(cfg.s0)
<1>1. PICK p : p = <<"mid_price">>
  OBVIOUS
<1>2. p \in Inner(cfg) /\ p \in MapPaths(cfg)
  BY <1>1, InnerIs DEF Sections, MapPaths
<1>3. \A key \in FieldNames : Append(p, key) \in Inner(cfg) => key \in {"regimes", "transition_matrix"}
  BY <1>1, UnderSection, NamesAre
<1>4. DOMAIN Entries(cfg, p) =
        {"model", "s0"} \cup (IF cfg.matrix = None THEN {"transition_matrix"} ELSE {})
  BY <1>1, KeysOfEntries
<1>5. KeysOf(Dump(cfg), p) \subseteq {"model", "s0", "regimes", "transition_matrix"}
  BY <1>2, <1>3, <1>4, KeysOfDump
<1>6. "model" \in DOMAIN Entries(cfg, p) /\ "s0" \in DOMAIN Entries(cfg, p)
  BY <1>4
<1>7. Append(p, "model") \notin Inner(cfg) /\ Append(p, "s0") \notin Inner(cfg)
  BY <1>3, NamesAre
<1>8. Stands(cfg, p, "model") /\ Stands(cfg, p, "s0")
  BY <1>2, <1>6, <1>7, LeafIs DEF Stands
<1>9. Entries(cfg, p) = DumpMidPrice(cfg)
  BY <1>1, EntriesOfSections
<1>10. DumpMidPrice(cfg)["model"] = StrNode(cfg.model) /\ DumpMidPrice(cfg)["s0"] = FloatNode(cfg.s0)
  BY DEF DumpMidPrice
<1> QED BY <1>1, <1>2, <1>5, <1>8, <1>9, <1>10
LEMMA RegimesListed ==
    ASSUME NEW cfg, HasShape(cfg)
    PROVE  /\ Append(<<"mid_price">>, "regimes") = <<"mid_price", "regimes">>
           /\ KindAt(Dump(cfg), <<"mid_price", "regimes">>) = "list"
<1>1. PICK p : p = <<"mid_price", "regimes">>
  OBVIOUS
<1>2. p \in ListPaths(cfg)
  BY <1>1 DEF ListPaths
<1>3. p \notin MapPaths(cfg)
  BY <1>1, SectionsAreNone DEF MapPaths, Sections
<1>4. p \in DOMAIN Dump(cfg) /\ Dump(cfg)[p] = ListNode
  BY <1>2, <1>3, DumpIs DEF Inner
<1>5. Append(<<"mid_price">>, "regimes") = p
  BY <1>1, TwoKeys, NamesAre
<1> QED BY <1>1, <1>4, <1>5, NodesAre DEF KindAt
LEMMA MidPriceWritten ==
    ASSUME NEW cfg, HasShape(cfg), cfg.model \in {"gbm", "regime_switching"}
    PROVE  Accepts(Dump(cfg),
                   Mapping(<<"mid_price">>, <<Word("model", {"gbm", "regime_switching"}), Field("s0", Number),
                                              Field("regimes", {"list"})>>, {"transition_matrix"}))
<1>1. PICK fields, more, p :
        /\ fields = <<Word("model", {"gbm", "regime_switching"}), Field("s0", Number),
                      Field("regimes", {"list"})>>
        /\ more = {"transition_matrix"} /\ p = <<"mid_price">>
  OBVIOUS
<1>2. /\ DOMAIN fields = 1 .. 3
      /\ fields[1] = Word("model", {"gbm", "regime_switching"})
      /\ fields[2] = Field("s0", Number) /\ fields[3] = Field("regimes", {"list"})
  BY <1>1
<1>3. /\ p \in MapPaths(cfg)
      /\ KeysOf(Dump(cfg), p) \subseteq {"model", "s0", "regimes", "transition_matrix"}
      /\ Stands(cfg, p, "model") /\ Stands(cfg, p, "s0")
  BY <1>1, MidPriceEntries
<1>4. /\ Entries(cfg, p)["model"].kind = "str" /\ Entries(cfg, p)["model"].text = cfg.model
      /\ Entries(cfg, p)["s0"].kind = "float"
  BY <1>1, MidPriceEntries, NodesAre
<1>5. EntryOk(Entries(cfg, p)["model"], fields[1]) /\ fields[1].key = "model"
  BY <1>2, <1>4, WordEntryIsOk
<1>6. EntryOk(Entries(cfg, p)["s0"], fields[2]) /\ fields[2].key = "s0"
  BY <1>2, <1>4, EntryIsOk DEF Number
<1>7. FieldOk(Dump(cfg), p, fields[1]) /\ FieldOk(Dump(cfg), p, fields[2])
  BY <1>3, <1>5, <1>6, StandingIsOk
<1>8. KindAt(Dump(cfg), Append(p, "regimes")) \in {"list"}
  BY <1>1, RegimesListed
<1>9. FieldOk(Dump(cfg), p, fields[3]) /\ fields[3].key = "regimes"
  BY <1>2, <1>8, FieldIsOk
<1>10. KeysOk(Dump(cfg), p, fields, more)
  <2>1. {fields[f].key : f \in DOMAIN fields} = {"model", "s0", "regimes"}
    BY <1>2, <1>5, <1>6, <1>9
  <2>2. KindAt(Dump(cfg), p) = "map"
    BY <1>3, KindOfMap
  <2> QED BY <1>1, <1>3, <2>1, <2>2 DEF KeysOk
<1>11. \A f \in 1 .. 3 : FieldOk(Dump(cfg), p, fields[f])
  BY <1>7, <1>9
<1>12. Accepts(Dump(cfg), Mapping(p, fields, more))
  BY <1>2, <1>10, <1>11, MappingAccepted
<1> QED BY <1>1, <1>12

-----------------------------------------------------------------------------
(* The lists of the dump have the lengths they were written with.          *)

LEMMA CountIs ==
    ASSUME NEW doc, NEW path, NEW n \in 0 .. 3,
           \A k \in 1 .. 3 : Append(path, Index[k]) \in DOMAIN doc <=> k \in 1 .. n
    PROVE  Length(doc, path) = n
<1>1. {k \in DOMAIN Index : Append(path, Index[k]) \in DOMAIN doc} = 1 .. n
  BY IndexIs
<1>2. PICK a \in Int, b \in Int : a = 1 /\ b = n
  OBVIOUS
<1>3. Cardinality(a .. b) = IF a > b THEN 0 ELSE b - a + 1
  BY FS_Interval
<1>4. Cardinality(1 .. n) = n
  BY <1>2, <1>3
<1> QED BY <1>1, <1>4 DEF Length

LEMMA RegimesCounted ==
    ASSUME NEW cfg, HasShape(cfg), NEW n \in 0 .. 3, DOMAIN cfg.regimes = 1 .. n
    PROVE  Length(Dump(cfg), <<"mid_price", "regimes">>) = n
<1>1. PICK p : p = <<"mid_price", "regimes">>
  OBVIOUS
<1>2. p # MatrixPath
  BY <1>1 DEF MatrixPath
<1>3. p \in Keys
  BY <1>1, SectionsAre
<1>4. ASSUME NEW k \in 1 .. 3
      PROVE  Append(p, Index[k]) \in DOMAIN Dump(cfg) <=> k \in 1 .. n
  <2>1. Index[k] \in FieldNames
    BY IndexIsName
  <2>2. DOMAIN Entries(cfg, p) = {}
    BY <1>1, KeysOfEntries
  <2>3. Append(p, Index[k]) \in Inner(cfg) <=> \E j \in DOMAIN cfg.regimes : Index[k] = Index[j]
    BY SMTT(30), <1>1, <1>2, <2>1, NamesAre, UnderPair
  <2>4. (\E j \in DOMAIN cfg.regimes : Index[k] = Index[j]) <=> k \in 1 .. n
    BY IndexIsOne
  <2> QED BY <1>3, <2>1, <2>2, <2>3, <2>4, BelowInner
<1>5. Length(Dump(cfg), p) = n
  BY <1>4, CountIs
<1> QED BY <1>1, <1>5

LEMMA MatrixCounted ==
    ASSUME NEW cfg, HasShape(cfg), cfg.matrix # None, NEW n \in 0 .. 3, DOMAIN cfg.matrix = 1 .. n
    PROVE  Length(Dump(cfg), MatrixPath) = n
<1>1. MatrixPath = <<"mid_price", "transition_matrix">> /\ MatrixPath # <<"mid_price", "regimes">>
  BY DEF MatrixPath
<1>2. ASSUME NEW k \in 1 .. 3
      PROVE  Append(MatrixPath, Index[k]) \in DOMAIN Dump(cfg) <=> k \in 1 .. n
  <2>1. Index[k] \in FieldNames
    BY IndexIsName
  <2>2. DOMAIN Entries(cfg, MatrixPath) = {}
    BY KeysOfEntries
  <2>3. Append(MatrixPath, Index[k]) \in Inner(cfg) <=> \E j \in DOMAIN cfg.matrix : Index[k] = Index[j]
    BY <1>1, <2>1, NamesAre, UnderPair
  <2>4. (\E j \in DOMAIN cfg.matrix : Index[k] = Index[j]) <=> k \in 1 .. n
    BY IndexIsOne
  <2>5. MatrixPath \in Keys
    BY ListPathsAre
  <2> QED BY <2>1, <2>2, <2>3, <2>4, <2>5, BelowInner
<1> QED BY <1>2, CountIs

LEMMA MatrixNotWritten ==
    ASSUME NEW cfg, HasShape(cfg), cfg.matrix = None
    PROVE  Length(Dump(cfg), MatrixPath) = 0 /\ KindAt(Dump(cfg), MatrixPath) = "null"
<1>1. MatrixPath = <<"mid_price", "transition_matrix">> /\ MatrixPath # <<"mid_price", "regimes">>
  BY DEF MatrixPath
<1>2. MatrixPath \in Keys
  BY ListPathsAre
<1>3. MatrixPath \notin Inner(cfg)
  <2>1. MatrixPath \notin Sections
    BY DEF MatrixPath, Sections
  <2> QED BY <2>1, SectionsAreNone, InnerIs
<1>4. ASSUME NEW k \in 1 .. 3
      PROVE  Append(MatrixPath, Index[k]) \in DOMAIN Dump(cfg) <=> k \in 1 .. 0
  <2>1. Index[k] \in FieldNames
    BY IndexIsName
  <2>2. Append(MatrixPath, Index[k]) \notin Inner(cfg)
    BY <1>1, <2>1, NamesAre, UnderPair
  <2> QED BY <1>2, <1>3, <2>1, <2>2, BelowInner
<1>5. PICK p : p = <<"mid_price">>
  OBVIOUS
<1>6. Append(p, "transition_matrix") = MatrixPath
  BY <1>1, <1>5, TwoKeys, NamesAre
<1>7. Entries(cfg, p) = DumpMidPrice(cfg)
  BY <1>5, EntriesOfSections
<1>8. "transition_matrix" \in DOMAIN Entries(cfg, p) /\ Entries(cfg, p)["transition_matrix"] = NullNode
  BY <1>7 DEF DumpMidPrice
<1>9. MatrixPath \in DOMAIN Dump(cfg) /\ Dump(cfg)[MatrixPath] = NullNode
  BY <1>3, <1>5, <1>6, <1>8, MidPriceEntries, LeafIs
<1> QED BY <1>4, <1>9, CountIs, NodesAre DEF KindAt

LEMMA RowCounted ==
    ASSUME NEW cfg, HasShape(cfg), NEW i \in 1 .. 3, cfg.matrix # None, i \in DOMAIN cfg.matrix,
           NEW n \in 0 .. 3, DOMAIN cfg.matrix[i] = 1 .. n
    PROVE  Length(Dump(cfg), RowPath(i)) = n
<1>1. RowPath(i) \in Keys /\ Len(RowPath(i)) = 3
  BY ListPathsAre
<1>2. RowPath(i) \in Inner(cfg)
  BY InnerIs DEF RowPaths
<1>3. DOMAIN Entries(cfg, RowPath(i)) = {Index[j] : j \in 1 .. n}
  BY KeysOfRow
<1>4. ASSUME NEW k \in 1 .. 3
      PROVE  Append(RowPath(i), Index[k]) \in DOMAIN Dump(cfg) <=> k \in 1 .. n
  <2>1. Index[k] \in FieldNames
    BY IndexIsName
  <2>2. Append(RowPath(i), Index[k]) \notin Inner(cfg)
    BY <1>1, <2>1, UnderEntry
  <2>3. Index[k] \in DOMAIN Entries(cfg, RowPath(i)) <=> k \in 1 .. n
    BY <1>3, IndexIsOne
  <2> QED BY <1>1, <1>2, <2>1, <2>2, <2>3, BelowInner
<1> QED BY <1>4, CountIs

LEMMA ListIsWritten ==
    ASSUME NEW cfg, NEW p \in ListPaths(cfg), p \notin MapPaths(cfg)
    PROVE  KindAt(Dump(cfg), p) = "list"
<1>1. p \in DOMAIN Dump(cfg) /\ Dump(cfg)[p] = ListNode
  BY DumpIs DEF Inner
<1> QED BY <1>1, NodesAre DEF KindAt

(* A regime, with or without its own gamma.                                *)
LEMMA RegimeStands ==
    ASSUME NEW cfg, HasShape(cfg), NEW k \in 1 .. 3, k \in DOMAIN cfg.regimes
    PROVE  /\ RegimePath(k) \in MapPaths(cfg) /\ RegimePath(k) \in Inner(cfg)
           /\ KeysOf(Dump(cfg), RegimePath(k)) \subseteq {"name", "mu", "sigma", "gamma"}
           /\ \A key \in DOMAIN Entries(cfg, RegimePath(k)) : Stands(cfg, RegimePath(k), key)
           /\ cfg.regimes[k].gamma = None => Append(RegimePath(k), "gamma") \notin DOMAIN Dump(cfg)
<1>1. RegimePath(k) \in Keys /\ Len(RegimePath(k)) = 3
  BY ListPathsAre
<1>2. RegimePath(k) \in RegimePaths(cfg)
  BY DEF RegimePaths
<1>3. RegimePath(k) \in MapPaths(cfg) /\ RegimePath(k) \in Inner(cfg)
  BY <1>2 DEF MapPaths, Inner
<1>4. DOMAIN Entries(cfg, RegimePath(k)) =
        {"name", "mu", "sigma"} \cup (IF cfg.regimes[k].gamma = None THEN {} ELSE {"gamma"})
  BY KeysOfRegime
<1>5. \A key \in FieldNames : Append(RegimePath(k), key) \notin Inner(cfg)
  BY <1>1, UnderEntry
<1>6. KeysOf(Dump(cfg), RegimePath(k)) \subseteq {"name", "mu", "sigma", "gamma"}
  BY <1>3, <1>4, <1>5, KeysOfDump
<1>7. \A key \in DOMAIN Entries(cfg, RegimePath(k)) : Stands(cfg, RegimePath(k), key)
  <2>1. DOMAIN Entries(cfg, RegimePath(k)) \subseteq FieldNames
    BY <1>3, EntriesAreNames
  <2> QED BY <1>3, <1>5, <2>1, LeafIs DEF Stands
<1>8. ASSUME cfg.regimes[k].gamma = None
      PROVE  Append(RegimePath(k), "gamma") \notin DOMAIN Dump(cfg)
  <2>1. "gamma" \notin DOMAIN Entries(cfg, RegimePath(k))
    BY <1>4, <1>8
  <2> QED BY <1>1, <1>5, <2>1, NamesAre, BelowInner
<1> QED BY <1>3, <1>6, <1>7, <1>8

LEMMA RegimeEntries ==
    ASSUME NEW cfg, HasShape(cfg), NEW k \in 1 .. 3, k \in DOMAIN cfg.regimes
    PROVE  /\ {"name", "mu", "sigma"} \subseteq DOMAIN Entries(cfg, RegimePath(k))
           /\ Entries(cfg, RegimePath(k))["name"] = StrNode(cfg.regimes[k].name)
           /\ Entries(cfg, RegimePath(k))["mu"] = FloatNode(cfg.regimes[k].mu)
           /\ Entries(cfg, RegimePath(k))["sigma"] = FloatNode(cfg.regimes[k].sigma)
           /\ cfg.regimes[k].gamma # None =>
                /\ "gamma" \in DOMAIN Entries(cfg, RegimePath(k))
                /\ Entries(cfg, RegimePath(k))["gamma"] = FloatNode(cfg.regimes[k].gamma)
<1>1. PICK g : g = cfg.regimes[k]
  OBVIOUS
<1>2. Entries(cfg, RegimePath(k)) = DumpRegime(g)
  BY <1>1, EntriesOfRegime
<1>3. /\ {"name", "mu", "sigma"} \subseteq DOMAIN DumpRegime(g)
      /\ DumpRegime(g)["name"] = StrNode(g.name)
      /\ DumpRegime(g)["mu"] = FloatNode(g.mu)
      /\ DumpRegime(g)["sigma"] = FloatNode(g.sigma)
  BY DEF DumpRegime
<1>4. ASSUME g.gamma # None
      PROVE  "gamma" \in DOMAIN DumpRegime(g) /\ DumpRegime(g)["gamma"] = FloatNode(g.gamma)
  BY <1>4 DEF DumpRegime
<1> QED BY <1>1, <1>2, <1>3, <1>4

LEMMA RegimeWritten ==
    ASSUME NEW cfg, HasShape(cfg), NEW k \in 1 .. 3, k \in DOMAIN cfg.regimes
    PROVE  Accepts(Dump(cfg), RegimeChecks(k))
<1>1. PICK fields, more, p :
        /\ fields = <<Field("name", {"str"}), Field("mu", Number), Field("sigma", Number),
                      Field("gamma", Number \cup Optional)>>
        /\ more = {} /\ p = RegimePath(k)
  OBVIOUS
<1>2. /\ DOMAIN fields = 1 .. 4
      /\ fields[1] = Field("name", {"str"}) /\ fields[2] = Field("mu", Number)
      /\ fields[3] = Field("sigma", Number) /\ fields[4] = Field("gamma", Number \cup Optional)
  BY <1>1
<1>3. /\ p \in MapPaths(cfg)
      /\ KeysOf(Dump(cfg), p) \subseteq {"name", "mu", "sigma", "gamma"}
      /\ Stands(cfg, p, "name") /\ Stands(cfg, p, "mu") /\ Stands(cfg, p, "sigma")
  BY <1>1, RegimeStands, RegimeEntries
<1>4. /\ Entries(cfg, p)["name"].kind = "str"
      /\ Entries(cfg, p)["mu"].kind = "float" /\ Entries(cfg, p)["sigma"].kind = "float"
  BY <1>1, RegimeEntries, NodesAre
<1>5. EntryOk(Entries(cfg, p)["name"], fields[1]) /\ fields[1].key = "name"
  BY <1>2, <1>4, EntryIsOk
<1>6. EntryOk(Entries(cfg, p)["mu"], fields[2]) /\ fields[2].key = "mu"
  BY <1>2, <1>4, EntryIsOk DEF Number
<1>7. EntryOk(Entries(cfg, p)["sigma"], fields[3]) /\ fields[3].key = "sigma"
  BY <1>2, <1>4, EntryIsOk DEF Number
<1>8. FieldOk(Dump(cfg), p, fields[1]) /\ FieldOk(Dump(cfg), p, fields[2]) /\ FieldOk(Dump(cfg), p, fields[3])
  BY <1>3, <1>5, <1>6, <1>7, StandingIsOk
<1>9. KindAt(Dump(cfg), Append(p, "gamma")) \in {"float", "absent"}
  <2>1. CASE cfg.regimes[k].gamma = None
    BY <1>1, <2>1, RegimeStands DEF KindAt
  <2>2. CASE cfg.regimes[k].gamma # None
    <3>1. Stands(cfg, p, "gamma") /\ Entries(cfg, p)["gamma"].kind = "float"
      BY <1>1, <2>2, RegimeStands, RegimeEntries, NodesAre
    <3> QED BY <3>1, KindOfStanding
  <2> QED BY <2>1, <2>2
<1>10. FieldOk(Dump(cfg), p, fields[4]) /\ fields[4].key = "gamma"
  BY <1>2, <1>9, FieldIsOk DEF Number, Optional
<1>11. KeysOk(Dump(cfg), p, fields, more)
  <2>1. {fields[f].key : f \in DOMAIN fields} = {"name", "mu", "sigma", "gamma"}
    BY <1>2, <1>5, <1>6, <1>7, <1>10
  <2>2. KindAt(Dump(cfg), p) = "map"
    BY <1>3, KindOfMap
  <2> QED BY <1>1, <1>3, <2>1, <2>2 DEF KeysOk
<1>12. \A f \in 1 .. 4 : FieldOk(Dump(cfg), p, fields[f])
  BY <1>8, <1>10
<1>13. Accepts(Dump(cfg), Mapping(p, fields, more))
  BY <1>2, <1>11, <1>12, MappingAccepted
<1>14. RegimeChecks(k) = Mapping(p, fields, more)
  BY <1>1 DEF RegimeChecks
<1> QED BY <1>13, <1>14

(* The matrix and its rows.                                                *)
LEMMA MatrixWritten ==
    ASSUME NEW cfg, HasShape(cfg)
    PROVE  ~Rejects(Dump(cfg), Check(MatrixPath, {"list"} \cup Optional, {}, {}))
<1>1. PICK kinds : kinds = {"list"} \cup Optional
  OBVIOUS
<1>2. KindAt(Dump(cfg), MatrixPath) \in {"list", "null"}
  <2>1. CASE cfg.matrix = None
    BY <2>1, MatrixNotWritten
  <2>2. CASE cfg.matrix # None
    <3>1. MatrixPath \in ListPaths(cfg)
      BY <2>2 DEF ListPaths
    <3>2. MatrixPath \notin MapPaths(cfg)
      BY SectionsAreNone DEF MapPaths, MatrixPath
    <3> QED BY <3>1, <3>2, ListIsWritten
  <2> QED BY <2>1, <2>2
<1>3. PICK c : c = Check(MatrixPath, kinds, {}, {})
  OBVIOUS
<1>4. c.path = MatrixPath /\ c.kinds = kinds /\ c.words = {}
  BY <1>3, CheckIs
<1>5. c.path = MatrixPath /\ KindAt(Dump(cfg), c.path) \in c.kinds /\ "map" \notin c.kinds /\ c.words = {}
  BY <1>1, <1>2, <1>4 DEF Optional
<1>6. ~Rejects(Dump(cfg), c)
  BY <1>5 DEF Rejects, UnknownKeys
<1> QED BY <1>1, <1>3, <1>6

LEMMA RowWritten ==
    ASSUME NEW cfg, HasShape(cfg), NEW i \in 1 .. 3, cfg.matrix # None, i \in DOMAIN cfg.matrix
    PROVE  Accepts(Dump(cfg), RowChecks(Dump(cfg), i))
<1>1. PICK n \in 0 .. 3 : DOMAIN cfg.matrix[i] = 1 .. n
  BY DEF HasShape, IsRow
<1>2. Length(Dump(cfg), RowPath(i)) = n
  BY <1>1, RowCounted
<1>3. PICK head : head = Check(RowPath(i), {"list"}, {}, {})
  OBVIOUS
<1>4. RowPath(i) \in RowPaths(cfg)
  BY DEF RowPaths
<1>5. KindAt(Dump(cfg), RowPath(i)) = "list"
  <2>1. RowPath(i) \in ListPaths(cfg)
    BY <1>4 DEF ListPaths
  <2>2. RowPath(i) \notin RegimePaths(cfg)
    BY <1>4, RegimesAreNoRows
  <2>3. RowPath(i) \notin Sections
    BY <1>4, SectionsAreNone
  <2>4. RowPath(i) \notin MapPaths(cfg)
    BY <2>2, <2>3 DEF MapPaths, Sections
  <2> QED BY <2>1, <2>4, ListIsWritten
<1>6. head.path = RowPath(i) /\ head.kinds = {"list"} /\ head.words = {}
  BY <1>3, CheckIs
<1>7. ~Rejects(Dump(cfg), head)
  BY <1>5, <1>6 DEF Rejects, UnknownKeys
<1>8. PICK tail : tail = [j \in 1 .. n |-> Check(EntryPath(i, j), Number, {}, {})]
  OBVIOUS
<1>9. ASSUME NEW j \in 1 .. n
      PROVE  ~Rejects(Dump(cfg), tail[j])
  <2>1. RowPath(i) \in Keys /\ Len(RowPath(i)) = 3 /\ j \in 1 .. 3 /\ Index[j] \in FieldNames
    BY ListPathsAre, IndexIsName
  <2>2. EntryPath(i, j) \notin Inner(cfg)
    BY <2>1, UnderEntry DEF EntryPath
  <2>3. Entries(cfg, RowPath(i)) = DumpRow(cfg.matrix[i]) /\ RowPath(i) \in Inner(cfg)
    BY <1>4, EntriesOfRow, InnerIs
  <2>4. Index[j] \in DOMAIN DumpRow(cfg.matrix[i]) /\ DumpRow(cfg.matrix[i])[Index[j]] = FloatNode(cfg.matrix[i][j])
    BY <1>1, <2>1, PositionIs DEF DumpRow
  <2>5. /\ EntryPath(i, j) \in DOMAIN Dump(cfg)
        /\ Dump(cfg)[EntryPath(i, j)] = FloatNode(cfg.matrix[i][j])
    BY <2>2, <2>3, <2>4, LeafIs DEF EntryPath
  <2>6. KindAt(Dump(cfg), EntryPath(i, j)) = "float"
    BY <2>5, NodesAre DEF KindAt
  <2>7. tail[j] = Check(EntryPath(i, j), Number, {}, {})
    BY <1>8
  <2>8. tail[j].path = EntryPath(i, j) /\ tail[j].kinds = Number /\ tail[j].words = {}
    BY <2>7, CheckIs
  <2> QED BY <2>6, <2>8 DEF Rejects, UnknownKeys, Number
<1>10. Accepts(Dump(cfg), tail)
  <2>1. DOMAIN tail = 1 .. n /\ tail = [j \in 1 .. n |-> tail[j]]
    BY <1>8
  <2> QED BY SMTT(30), <1>9, <2>1, AcceptsEach
<1>11. Accepts(Dump(cfg), <<head>>)
  BY <1>7, AcceptsOne
<1>12. RowChecks(Dump(cfg), i) = <<head>> \o tail
  BY <1>2, <1>3, <1>8 DEF RowChecks
<1> QED BY <1>10, <1>11, <1>12, AcceptsBoth

LEMMA MidPriceAccepted ==
    ASSUME NEW cfg, HasShape(cfg), cfg.model \in {"gbm", "regime_switching"}
    PROVE  Accepts(Dump(cfg), MidPriceChecks(Dump(cfg)))
<1>1. PICK n \in 0 .. 3 : DOMAIN cfg.regimes = 1 .. n
  BY DEF HasShape, IsRow
<1>2. Length(Dump(cfg), <<"mid_price", "regimes">>) = n
  BY <1>1, RegimesCounted
<1>3. PICK a : a = Mapping(<<"mid_price">>, <<Word("model", {"gbm", "regime_switching"}), Field("s0", Number),
                                              Field("regimes", {"list"})>>, {"transition_matrix"})
  OBVIOUS
<1>4. PICK b : b = [k \in 1 .. n |-> RegimeChecks(k)]
  OBVIOUS
<1>5. PICK c : c = Check(MatrixPath, {"list"} \cup Optional, {}, {})
  OBVIOUS
<1>6. PICK d : d = [i \in 1 .. Length(Dump(cfg), MatrixPath) |-> RowChecks(Dump(cfg), i)]
  OBVIOUS
<1>7. Accepts(Dump(cfg), a)
  BY <1>3, MidPriceWritten
<1>8. Accepts(Dump(cfg), FlattenSeq(b))
  <2>1. \A k \in 1 .. n : Accepts(Dump(cfg), b[k])
    BY <1>1, <1>4, RegimeWritten
  <2>2. n \in Nat /\ DOMAIN b = 1 .. n /\ b = [k \in 1 .. n |-> b[k]]
    BY <1>4
  <2> QED BY <2>1, <2>2, AcceptsFlat
<1>9. Accepts(Dump(cfg), <<c>>)
  BY <1>5, MatrixWritten, AcceptsOne
<1>10. Accepts(Dump(cfg), FlattenSeq(d))
  <2>1. PICK m \in 0 .. 3 : /\ m = Length(Dump(cfg), MatrixPath)
                            /\ \A i \in 1 .. m : cfg.matrix # None /\ i \in DOMAIN cfg.matrix
    <3>1. CASE cfg.matrix = None
      BY <3>1, MatrixNotWritten
    <3>2. CASE cfg.matrix # None
      BY <3>2, MatrixCounted DEF HasShape, IsRow
    <3> QED BY <3>1, <3>2
  <2>2. \A i \in 1 .. m : Accepts(Dump(cfg), d[i])
    BY <1>6, <2>1, RowWritten
  <2>3. m \in Nat /\ DOMAIN d = 1 .. m /\ d = [i \in 1 .. m |-> d[i]]
    BY <1>6, <2>1
  <2> QED BY <2>2, <2>3, AcceptsFlat
<1>11. MidPriceChecks(Dump(cfg)) = a \o FlattenSeq(b) \o <<c>> \o FlattenSeq(d)
  BY <1>2, <1>3, <1>4, <1>5, <1>6 DEF MidPriceChecks
<1>12. Accepts(Dump(cfg), a \o FlattenSeq(b) \o <<c>>)
  BY <1>7, <1>8, <1>9, AcceptsBoth
<1> QED BY <1>10, <1>11, <1>12, AcceptsBoth

(* The file that dump_config writes has the structure load_config demands. *)
LEMMA DumpAccepted ==
    ASSUME NEW cfg, HasShape(cfg), cfg.model \in {"gbm", "regime_switching"}
    PROVE  Accepts(Dump(cfg), StructuralChecks(Dump(cfg)))
<1>1. PICK a, b, c, d, e, f, g, h, i, j, k :
        /\ a = Mapping(<<>>, <<Field("master_seed", {"int"})>>,
                {"horizon", "mid_price", "quoters", "fill", "risk", "mc", "analytics", "output"})
        /\ b = Numbers(<<"horizon">>, <<"T", "dt">>)
        /\ c = MidPriceChecks(Dump(cfg))
        /\ d = Mapping(<<"quoters">>, <<>>, {"avellaneda_stoikov", "symmetric"})
        /\ e = Numbers(<<"quoters", "avellaneda_stoikov">>, <<"gamma", "k", "A">>)
        /\ f = Numbers(<<"quoters", "symmetric">>, <<"delta_base">>)
        /\ g = Numbers(<<"fill">>, <<"A_b", "k_b", "A_a", "k_a">>)
        /\ h = Mapping(<<"risk">>, <<Field("q_max", {"int"}), Field("L_kill", Number \cup {"null"})>>, {})
        /\ i = Mapping(<<"mc">>, <<Field("n_paths", {"int"})>>, {})
        /\ j = Mapping(<<"analytics">>,
               <<Field("adverse_selection_horizon_steps", {"int"}),
                 Field("bootstrap_iterations", {"int"}), Field("bootstrap_alpha", Number),
                 Field("sharpe_annualization_factor", Number)>>, {})
        /\ k = Mapping(<<"output">>, <<Field("dir", {"str"}), Word("format", {"parquet"})>>, {})
  OBVIOUS
<1>2. StructuralChecks(Dump(cfg)) = a \o b \o c \o d \o e \o f \o g \o h \o i \o j \o k
  BY <1>1 DEF StructuralChecks
<1>3. Accepts(Dump(cfg), a)
  BY <1>1, RootWritten
<1>4. Accepts(Dump(cfg), b)
  BY <1>1, HorizonWritten
<1>5. Accepts(Dump(cfg), c)
  BY <1>1, MidPriceAccepted
<1>6. Accepts(Dump(cfg), d)
  BY <1>1, QuotersWritten
<1>7. Accepts(Dump(cfg), e)
  BY <1>1, QuoterWritten
<1>8. Accepts(Dump(cfg), f)
  BY <1>1, SymmetricWritten
<1>9. Accepts(Dump(cfg), g)
  BY <1>1, FillWritten
<1>10. Accepts(Dump(cfg), h)
  BY <1>1, RiskWritten
<1>11. Accepts(Dump(cfg), i)
  BY <1>1, McWritten
<1>12. Accepts(Dump(cfg), j)
  BY <1>1, AnalyticsWritten
<1>13. Accepts(Dump(cfg), k)
  BY <1>1, OutputWritten
<1>14. Accepts(Dump(cfg), a \o b \o c \o d)
  BY <1>3, <1>4, <1>5, <1>6, AcceptsBoth
<1>15. Accepts(Dump(cfg), a \o b \o c \o d \o e \o f \o g)
  BY <1>7, <1>8, <1>9, <1>14, AcceptsBoth
<1>16. Accepts(Dump(cfg), a \o b \o c \o d \o e \o f \o g \o h \o i \o j \o k)
  BY <1>10, <1>11, <1>12, <1>13, <1>15, AcceptsBoth
<1> QED BY <1>2, <1>16

-----------------------------------------------------------------------------
(* What load_config reads from the dump is what was dumped.                *)

(* A configuration that some document describes.                           *)
Described(cfg) ==
    /\ HasShape(cfg)
    /\ \A n \in {cfg.master_seed, cfg.q_max, cfg.n_paths, cfg.adverse, cfg.iterations} : n \in Int
    /\ cfg.model \in {"gbm", "regime_switching"}
    /\ PathOf(cfg.dir) = cfg.dir

LEMMA WholeNumber ==
    ASSUME NEW n \in Int
    PROVE  IntNode(n).num \div One = n
<1>1. IntNode(n).num = n * 20
  BY NodesAre DEF One
<1>2. (n * 20) \div 20 = n
  OBVIOUS
<1> QED BY <1>1, <1>2 DEF One

LEMMA FlatReads ==
    ASSUME NEW cfg, HasShape(cfg), NEW p \in Flat, NEW key \in DOMAIN Entries(cfg, p)
    PROVE  Dump(cfg)[Append(p, key)] = Entries(cfg, p)[key]
  BY FlatStands DEF Stands

(* A section of floats.                                                    *)
LEMMA FloatsRead ==
    ASSUME NEW cfg, HasShape(cfg), NEW p \in Flat, NEW section, Entries(cfg, p) = DumpFloats(section),
           section = [key \in DOMAIN section |-> section[key]], NEW keys, keys = DOMAIN section
    PROVE  Floats(Dump(cfg), p, keys) = section
<1>1. DOMAIN Entries(cfg, p) = keys
  BY DEF DumpFloats
<1>2. \A key \in keys : FloatAt(Dump(cfg), Append(p, key)) = section[key]
  BY <1>1, FlatReads, NodesAre DEF DumpFloats, FloatAt
<1> QED BY <1>2 DEF Floats

(* The fields that are whole numbers, floats and words.                    *)
LEMMA MasterSeedRead ==
    ASSUME NEW cfg, Described(cfg)
    PROVE  IntAt(Dump(cfg), <<"master_seed">>) = cfg.master_seed
<1>1. PICK p : p = <<>> /\ p \in Inner(cfg)
  BY InnerIs DEF Described, Sections
<1>2. Entries(cfg, p) = [master_seed |-> IntNode(cfg.master_seed)]
  BY <1>1, EntriesOfSections DEF Described
<1>3. Append(p, "master_seed") \notin Inner(cfg) /\ Append(p, "master_seed") = <<"master_seed">>
  BY <1>1, UnderRoot, OneKey, NamesAre DEF Described
<1>4. "master_seed" \in DOMAIN Entries(cfg, p) /\ Entries(cfg, p)["master_seed"] = IntNode(cfg.master_seed)
  BY <1>2
<1>5. Dump(cfg)[<<"master_seed">>] = IntNode(cfg.master_seed)
  BY <1>1, <1>3, <1>4, LeafIs DEF Described
<1> QED BY <1>5, WholeNumber DEF IntAt, Described

LEMMA MidPriceRead ==
    ASSUME NEW cfg, Described(cfg)
    PROVE  /\ Dump(cfg)[<<"mid_price", "model">>].text = cfg.model
           /\ FloatAt(Dump(cfg), <<"mid_price", "s0">>) = cfg.s0
<1>1. PICK p : p = <<"mid_price">>
  OBVIOUS
<1>2. /\ Dump(cfg)[Append(p, "model")] = StrNode(cfg.model)
      /\ Dump(cfg)[Append(p, "s0")] = FloatNode(cfg.s0)
  BY <1>1, MidPriceEntries DEF Stands, Described
<1>3. Append(p, "model") = <<"mid_price", "model">> /\ Append(p, "s0") = <<"mid_price", "s0">>
  BY <1>1, TwoKeys, NamesAre
<1>4. /\ Dump(cfg)[<<"mid_price", "model">>] = StrNode(cfg.model)
      /\ Dump(cfg)[<<"mid_price", "s0">>] = FloatNode(cfg.s0)
  BY <1>2, <1>3
<1> QED BY <1>4, NodesAre DEF FloatAt

LEMMA RiskRead ==
    ASSUME NEW cfg, Described(cfg)
    PROVE  /\ IntAt(Dump(cfg), <<"risk", "q_max">>) = cfg.q_max
           /\ FloatOrNone(Dump(cfg), <<"risk", "L_kill">>) = cfg.L_kill
<1>1. PICK p : p = <<"risk">> /\ p \in Flat
  BY DEF Flat
<1>2. Entries(cfg, p) = [q_max |-> IntNode(cfg.q_max),
                         L_kill |-> IF cfg.L_kill = None THEN NullNode ELSE FloatNode(cfg.L_kill)]
  BY <1>1, EntriesOfRecords DEF Described
<1>3. /\ "q_max" \in DOMAIN Entries(cfg, p) /\ Entries(cfg, p)["q_max"] = IntNode(cfg.q_max)
      /\ "L_kill" \in DOMAIN Entries(cfg, p)
      /\ Entries(cfg, p)["L_kill"] = IF cfg.L_kill = None THEN NullNode ELSE FloatNode(cfg.L_kill)
  BY <1>2
<1>4. Stands(cfg, p, "q_max") /\ Stands(cfg, p, "L_kill")
  BY <1>1, <1>3, FlatStands DEF Described
<1>5. Append(p, "q_max") = <<"risk", "q_max">> /\ Append(p, "L_kill") = <<"risk", "L_kill">>
  BY <1>1, TwoKeys, NamesAre
<1>6. IntAt(Dump(cfg), Append(p, "q_max")) = cfg.q_max
  BY <1>3, <1>4, WholeNumber DEF IntAt, Stands, Described
<1>7. FloatOrNone(Dump(cfg), Append(p, "L_kill")) = cfg.L_kill
  <2>1. CASE cfg.L_kill = None
    <3>1. KindAt(Dump(cfg), Append(p, "L_kill")) = "null"
      BY <1>3, <1>4, <2>1, KindOfStanding, NodesAre
    <3> QED BY <2>1, <3>1 DEF FloatOrNone, Optional
  <2>2. CASE cfg.L_kill # None
    <3>1. KindAt(Dump(cfg), Append(p, "L_kill")) = "float"
      BY <1>3, <1>4, <2>2, KindOfStanding, NodesAre
    <3>2. FloatAt(Dump(cfg), Append(p, "L_kill")) = cfg.L_kill
      BY <1>3, <1>4, <2>2, NodesAre DEF FloatAt, Stands
    <3> QED BY <3>1, <3>2 DEF FloatOrNone, Optional
  <2> QED BY <2>1, <2>2
<1> QED BY <1>5, <1>6, <1>7

LEMMA RestRead ==
    ASSUME NEW cfg, Described(cfg)
    PROVE  /\ FloatAt(Dump(cfg), <<"quoters", "symmetric", "delta_base">>) = cfg.delta_base
           /\ IntAt(Dump(cfg), <<"mc", "n_paths">>) = cfg.n_paths
           /\ PathOf(Dump(cfg)[<<"output", "dir">>].text) = cfg.dir
<1> USE DEF Described
<1>1. PICK p : p = <<"quoters", "symmetric">> /\ p \in Flat
  BY DEF Flat
<1>2. Entries(cfg, p) = [delta_base |-> FloatNode(cfg.delta_base)]
  BY <1>1, EntriesOfSections
<1>3. "delta_base" \in DOMAIN Entries(cfg, p) /\ Entries(cfg, p)["delta_base"] = FloatNode(cfg.delta_base)
  BY <1>2
<1>4. Append(p, "delta_base") = <<"quoters", "symmetric", "delta_base">>
  BY <1>1, ThreeKeys, NamesAre
<1>5. Dump(cfg)[<<"quoters", "symmetric", "delta_base">>] = FloatNode(cfg.delta_base)
  BY ZenonT(60), <1>1, <1>3, <1>4, FlatReads
<1>6. PICK q : q = <<"mc">> /\ q \in Flat
  BY DEF Flat
<1>7. Entries(cfg, q) = [n_paths |-> IntNode(cfg.n_paths)]
  BY <1>6, EntriesOfSections
<1>8. "n_paths" \in DOMAIN Entries(cfg, q) /\ Entries(cfg, q)["n_paths"] = IntNode(cfg.n_paths)
  BY <1>7
<1>9. Append(q, "n_paths") = <<"mc", "n_paths">>
  BY <1>6, TwoKeys, NamesAre
<1>10. Dump(cfg)[<<"mc", "n_paths">>] = IntNode(cfg.n_paths)
  BY ZenonT(60), <1>6, <1>8, <1>9, FlatReads
<1>11. PICK r : r = <<"output">> /\ r \in Flat
  BY DEF Flat
<1>12. Entries(cfg, r) = [dir |-> StrNode(cfg.dir), format |-> StrNode("parquet")]
  BY <1>11, EntriesOfRecords
<1>13. "dir" \in DOMAIN Entries(cfg, r) /\ Entries(cfg, r)["dir"] = StrNode(cfg.dir)
  BY <1>12
<1>14. Append(r, "dir") = <<"output", "dir">>
  BY <1>11, TwoKeys, NamesAre
<1>15. Dump(cfg)[<<"output", "dir">>] = StrNode(cfg.dir)
  BY ZenonT(60), <1>11, <1>13, <1>14, FlatReads
<1>16. IntAt(Dump(cfg), <<"mc", "n_paths">>) = cfg.n_paths
  BY <1>10, WholeNumber DEF IntAt
<1> QED BY <1>5, <1>15, <1>16, NodesAre DEF FloatAt

LEMMA AnalyticsRead ==
    ASSUME NEW cfg, Described(cfg)
    PROVE  /\ IntAt(Dump(cfg), <<"analytics", "adverse_selection_horizon_steps">>) = cfg.adverse
           /\ IntAt(Dump(cfg), <<"analytics", "bootstrap_iterations">>) = cfg.iterations
           /\ FloatAt(Dump(cfg), <<"analytics", "bootstrap_alpha">>) = cfg.alpha
           /\ FloatAt(Dump(cfg), <<"analytics", "sharpe_annualization_factor">>) = cfg.sharpe
<1>1. PICK p : p = <<"analytics">> /\ p \in Flat
  BY DEF Flat
<1>2. Entries(cfg, p) = [adverse_selection_horizon_steps |-> IntNode(cfg.adverse),
                         bootstrap_iterations |-> IntNode(cfg.iterations),
                         bootstrap_alpha |-> FloatNode(cfg.alpha),
                         sharpe_annualization_factor |-> FloatNode(cfg.sharpe)]
  BY <1>1, EntriesOfRecords DEF Described
<1>3. DOMAIN Entries(cfg, p) = {"adverse_selection_horizon_steps", "bootstrap_iterations",
                                "bootstrap_alpha", "sharpe_annualization_factor"}
  BY <1>2
<1>4. /\ Entries(cfg, p)["adverse_selection_horizon_steps"] = IntNode(cfg.adverse)
      /\ Entries(cfg, p)["bootstrap_iterations"] = IntNode(cfg.iterations)
      /\ Entries(cfg, p)["bootstrap_alpha"] = FloatNode(cfg.alpha)
      /\ Entries(cfg, p)["sharpe_annualization_factor"] = FloatNode(cfg.sharpe)
  BY <1>2
<1>5. /\ Append(p, "adverse_selection_horizon_steps") = <<"analytics", "adverse_selection_horizon_steps">>
      /\ Append(p, "bootstrap_iterations") = <<"analytics", "bootstrap_iterations">>
      /\ Append(p, "bootstrap_alpha") = <<"analytics", "bootstrap_alpha">>
      /\ Append(p, "sharpe_annualization_factor") = <<"analytics", "sharpe_annualization_factor">>
  BY <1>1, TwoKeys, NamesAre
<1>6. \A key \in DOMAIN Entries(cfg, p) : Dump(cfg)[Append(p, key)] = Entries(cfg, p)[key]
  BY <1>1, FlatReads DEF Described
<1>7. /\ Dump(cfg)[<<"analytics", "adverse_selection_horizon_steps">>] = IntNode(cfg.adverse)
      /\ Dump(cfg)[<<"analytics", "bootstrap_iterations">>] = IntNode(cfg.iterations)
      /\ Dump(cfg)[<<"analytics", "bootstrap_alpha">>] = FloatNode(cfg.alpha)
      /\ Dump(cfg)[<<"analytics", "sharpe_annualization_factor">>] = FloatNode(cfg.sharpe)
  BY <1>3, <1>4, <1>5, <1>6
<1>8. /\ IntAt(Dump(cfg), <<"analytics", "adverse_selection_horizon_steps">>) = cfg.adverse
      /\ IntAt(Dump(cfg), <<"analytics", "bootstrap_iterations">>) = cfg.iterations
  BY <1>7, WholeNumber DEF IntAt, Described
<1> QED BY <1>7, <1>8, NodesAre DEF FloatAt

LEMMA RegimeRead ==
    ASSUME NEW cfg, HasShape(cfg), NEW k \in 1 .. 3, k \in DOMAIN cfg.regimes
    PROVE  Regime(Dump(cfg), k) = [name |-> cfg.regimes[k].name, mu |-> cfg.regimes[k].mu,
                                   sigma |-> cfg.regimes[k].sigma, gamma |-> cfg.regimes[k].gamma]
<1>1. PICK p : p = RegimePath(k)
  OBVIOUS
<1>2. /\ Dump(cfg)[Append(p, "name")] = StrNode(cfg.regimes[k].name)
      /\ Dump(cfg)[Append(p, "mu")] = FloatNode(cfg.regimes[k].mu)
      /\ Dump(cfg)[Append(p, "sigma")] = FloatNode(cfg.regimes[k].sigma)
  BY <1>1, RegimeStands, RegimeEntries DEF Stands
<1>3. FloatOrNone(Dump(cfg), Append(p, "gamma")) = cfg.regimes[k].gamma
  <2>1. CASE cfg.regimes[k].gamma = None
    <3>1. KindAt(Dump(cfg), Append(p, "gamma")) = "absent"
      BY <1>1, <2>1, RegimeStands DEF KindAt
    <3> QED BY <2>1, <3>1 DEF FloatOrNone, Optional
  <2>2. CASE cfg.regimes[k].gamma # None
    <3>1. Stands(cfg, p, "gamma") /\ Entries(cfg, p)["gamma"] = FloatNode(cfg.regimes[k].gamma)
      BY <1>1, <2>2, RegimeStands, RegimeEntries
    <3>2. KindAt(Dump(cfg), Append(p, "gamma")) = "float"
      BY <3>1, KindOfStanding, NodesAre
    <3>3. FloatAt(Dump(cfg), Append(p, "gamma")) = cfg.regimes[k].gamma
      BY <3>1, NodesAre DEF FloatAt, Stands
    <3> QED BY <3>2, <3>3 DEF FloatOrNone, Optional
  <2> QED BY <2>1, <2>2
<1>4. Dump(cfg)[Append(p, "name")].text = cfg.regimes[k].name
  BY <1>2, NodesAre
<1>5. /\ FloatAt(Dump(cfg), Append(p, "mu")) = cfg.regimes[k].mu
      /\ FloatAt(Dump(cfg), Append(p, "sigma")) = cfg.regimes[k].sigma
  BY <1>2, NodesAre DEF FloatAt
<1> QED BY <1>1, <1>3, <1>4, <1>5 DEF Regime

LEMMA RowRead ==
    ASSUME NEW cfg, HasShape(cfg), NEW i \in 1 .. 3, cfg.matrix # None, i \in DOMAIN cfg.matrix,
           NEW j \in 1 .. 3, j \in DOMAIN cfg.matrix[i]
    PROVE  FloatAt(Dump(cfg), EntryPath(i, j)) = cfg.matrix[i][j]
<1>1. RowPath(i) \in Keys /\ Len(RowPath(i)) = 3 /\ Index[j] \in FieldNames
  BY ListPathsAre, IndexIsName
<1>2. EntryPath(i, j) \notin Inner(cfg)
  BY <1>1, UnderEntry DEF EntryPath
<1>3. RowPath(i) \in RowPaths(cfg)
  BY DEF RowPaths
<1>4. Entries(cfg, RowPath(i)) = DumpRow(cfg.matrix[i]) /\ RowPath(i) \in Inner(cfg)
  BY <1>3, EntriesOfRow, InnerIs
<1>5. Index[j] \in DOMAIN DumpRow(cfg.matrix[i]) /\ DumpRow(cfg.matrix[i])[Index[j]] = FloatNode(cfg.matrix[i][j])
  BY PositionIs DEF DumpRow
<1>6. Dump(cfg)[EntryPath(i, j)] = FloatNode(cfg.matrix[i][j])
  BY <1>2, <1>4, <1>5, LeafIs DEF EntryPath
<1> QED BY <1>6, NodesAre DEF FloatAt

LEMMA MatrixRead ==
    ASSUME NEW cfg, HasShape(cfg),
           cfg.matrix # None =>
              /\ cfg.matrix = [i \in DOMAIN cfg.matrix |-> cfg.matrix[i]]
              /\ \A i \in DOMAIN cfg.matrix : cfg.matrix[i] = [j \in DOMAIN cfg.matrix[i] |-> cfg.matrix[i][j]]
    PROVE  Matrix(Dump(cfg)) = cfg.matrix
<1>1. CASE cfg.matrix = None
  <2>1. KindAt(Dump(cfg), MatrixPath) = "null"
    BY <1>1, MatrixNotWritten
  <2> QED BY <1>1, <2>1 DEF Matrix, Optional
<1>2. CASE cfg.matrix # None
  <2>1. PICK n \in 0 .. 3 : DOMAIN cfg.matrix = 1 .. n
    BY <1>2 DEF HasShape, IsRow
  <2>2. Length(Dump(cfg), MatrixPath) = n
    BY <1>2, <2>1, MatrixCounted
  <2>3. KindAt(Dump(cfg), MatrixPath) = "list"
    <3>1. MatrixPath \in ListPaths(cfg)
      BY <1>2 DEF ListPaths
    <3>2. MatrixPath \notin MapPaths(cfg)
      BY SectionsAreNone DEF MapPaths, MatrixPath
    <3> QED BY <3>1, <3>2, ListIsWritten
  <2>4. ASSUME NEW i \in 1 .. n
        PROVE  [j \in 1 .. Length(Dump(cfg), RowPath(i)) |-> FloatAt(Dump(cfg), EntryPath(i, j))] = cfg.matrix[i]
    <3>1. PICK m \in 0 .. 3 : DOMAIN cfg.matrix[i] = 1 .. m
      BY <1>2, <2>1 DEF HasShape, IsRow
    <3>2. Length(Dump(cfg), RowPath(i)) = m
      BY SMTT(30), <1>2, <2>1, <3>1, RowCounted
    <3>3. \A j \in 1 .. m : FloatAt(Dump(cfg), EntryPath(i, j)) = cfg.matrix[i][j]
      BY <1>2, <2>1, <3>1, RowRead
    <3>4. cfg.matrix[i] = [j \in 1 .. m |-> cfg.matrix[i][j]]
      BY <1>2, <2>1, <3>1
    <3> QED BY <3>2, <3>3, <3>4
  <2>5. Matrix(Dump(cfg)) =
          [i \in 1 .. n |->
             [j \in 1 .. Length(Dump(cfg), RowPath(i)) |-> FloatAt(Dump(cfg), EntryPath(i, j))]]
    BY <2>2, <2>3 DEF Matrix, Optional
  <2>6. cfg.matrix = [i \in 1 .. n |-> cfg.matrix[i]]
    BY <1>2, <2>1
  <2> QED BY <2>4, <2>5, <2>6
<1> QED BY <1>1, <1>2

-----------------------------------------------------------------------------
(* A document that load_config accepts has every part it demands.          *)

LEMMA AcceptsParts ==
    ASSUME NEW doc, NEW a, NEW b, IsSeq(a), IsSeq(b), Accepts(doc, a \o b)
    PROVE  Accepts(doc, a) /\ Accepts(doc, b)
<1>1. Range(a \o b) = Range(a) \cup Range(b)
  BY ConcatSeqs
<1> QED BY <1>1 DEF Accepts

LEMMA MappingIsSeq ==
    ASSUME NEW path, NEW n \in Nat, NEW fields, DOMAIN fields = 1 .. n, NEW more
    PROVE  IsSeq(Mapping(path, fields, more))
<1> DEFINE c == Check(path, {"map"}, {fields[f].key : f \in DOMAIN fields} \cup more, {})
           rest == [f \in DOMAIN fields |->
                      Check(Append(path, fields[f].key), fields[f].kinds, {}, fields[f].words)]
<1>1. Mapping(path, fields, more) = <<c>> \o rest
  BY DEF Mapping
<1>2. DOMAIN rest = 1 .. n /\ rest = [f \in 1 .. n |-> rest[f]]
  OBVIOUS
<1> HIDE DEF c, rest
<1>3. IsSeq(rest) /\ IsSeq(<<c>>)
  BY <1>2, FunctionIsSeq, TuplesAreSeqs
<1> QED BY <1>1, <1>3, ConcatSeqs

LEMMA NumbersIsSeq ==
    ASSUME NEW path, NEW n \in Nat, NEW keys, DOMAIN keys = 1 .. n
    PROVE  IsSeq(Numbers(path, keys))
<1> DEFINE fields == [k \in DOMAIN keys |-> Field(keys[k], Number)]
<1>1. Numbers(path, keys) = Mapping(path, fields, {}) /\ DOMAIN fields = 1 .. n
  BY DEF Numbers
<1> HIDE DEF fields
<1> QED BY <1>1, MappingIsSeq

(* What a mapping demands of one of its fields.                            *)
Demands(doc, path, field) ==
    /\ KindAt(doc, Append(path, field.key)) \in field.kinds
    /\ field.words # {} => doc[Append(path, field.key)].text \in field.words

LEMMA MappingDemands ==
    ASSUME NEW doc, NEW path, NEW n \in Nat, NEW fields, DOMAIN fields = 1 .. n, NEW more,
           Accepts(doc, Mapping(path, fields, more))
    PROVE  \A f \in 1 .. n : Demands(doc, path, fields[f])
<1> TAKE f \in 1 .. n
<1> DEFINE c == Check(path, {"map"}, {fields[k].key : k \in DOMAIN fields} \cup more, {})
           rest == [k \in DOMAIN fields |->
                      Check(Append(path, fields[k].key), fields[k].kinds, {}, fields[k].words)]
<1>1. Mapping(path, fields, more) = <<c>> \o rest
  BY DEF Mapping
<1>2. DOMAIN rest = 1 .. n /\ rest = [k \in 1 .. n |-> rest[k]]
  OBVIOUS
<1>3. rest[f] = Check(Append(path, fields[f].key), fields[f].kinds, {}, fields[f].words)
  OBVIOUS
<1> HIDE DEF c, rest
<1>4. IsSeq(rest) /\ IsSeq(<<c>>)
  BY <1>2, FunctionIsSeq, TuplesAreSeqs
<1>5. Accepts(doc, rest)
  BY <1>1, <1>4, AcceptsParts
<1>6. rest[f] \in Range(rest)
  BY <1>2 DEF Range
<1>7. ~Rejects(doc, rest[f])
  BY <1>5, <1>6 DEF Accepts
<1>8. /\ rest[f].path = Append(path, fields[f].key) /\ rest[f].kinds = fields[f].kinds
      /\ rest[f].words = fields[f].words
  <2>1. PICK at, kinds, words :
          at = Append(path, fields[f].key) /\ kinds = fields[f].kinds /\ words = fields[f].words
    OBVIOUS
  <2>2. rest[f] = Check(at, kinds, {}, words)
    BY <1>3, <2>1
  <2>3. rest[f].path = at /\ rest[f].kinds = kinds /\ rest[f].words = words
    BY <2>2 DEF Check
  <2> QED BY <2>1, <2>3
<1> QED BY <1>7, <1>8 DEF Rejects, Demands

LEMMA MidPriceIsSeq ==
    ASSUME NEW doc
    PROVE  /\ IsSeq(MidPriceChecks(doc))
           /\ Accepts(doc, MidPriceChecks(doc)) =>
                Accepts(doc, Mapping(<<"mid_price">>, <<Word("model", {"gbm", "regime_switching"}),
                                                        Field("s0", Number), Field("regimes", {"list"})>>,
                                     {"transition_matrix"}))
<1>1. PICK n \in Nat, m \in Nat : n = Length(doc, <<"mid_price", "regimes">>) /\ m = Length(doc, MatrixPath)
  BY LengthIsNat
<1>2. PICK fields, a, b, c, d :
        /\ fields = <<Word("model", {"gbm", "regime_switching"}), Field("s0", Number), Field("regimes", {"list"})>>
        /\ a = Mapping(<<"mid_price">>, fields, {"transition_matrix"})
        /\ b = [k \in 1 .. n |-> RegimeChecks(k)]
        /\ c = Check(MatrixPath, {"list"} \cup Optional, {}, {})
        /\ d = [i \in 1 .. m |-> RowChecks(doc, i)]
  OBVIOUS
<1>3. IsSeq(a)
  <2>1. DOMAIN fields = 1 .. 3
    BY <1>2
  <2> QED BY <1>2, <2>1, MappingIsSeq
<1>4. IsSeq(FlattenSeq(b))
  <2>1. DOMAIN b = 1 .. n /\ b = [k \in 1 .. n |-> b[k]]
    BY <1>2
  <2>2. IsSeq(b) /\ Len(b) = n
    BY <2>1, FunctionIsSeq
  <2>3. ASSUME NEW k \in 1 .. n PROVE IsSeq(b[k])
    <3>1. PICK four : four = <<Field("name", {"str"}), Field("mu", Number), Field("sigma", Number),
                               Field("gamma", Number \cup Optional)>>
      OBVIOUS
    <3>2. DOMAIN four = 1 .. 4
      BY <3>1
    <3>3. b[k] = Mapping(RegimePath(k), four, {})
      BY <1>2, <3>1 DEF RegimeChecks
    <3> QED BY <3>2, <3>3, MappingIsSeq
  <2> QED BY <2>2, <2>3, FlattenSeqIs
<1>5. IsSeq(<<c>>)
  BY TuplesAreSeqs
<1>6. IsSeq(FlattenSeq(d))
  <2>1. DOMAIN d = 1 .. m /\ d = [k \in 1 .. m |-> d[k]]
    BY <1>2
  <2>2. IsSeq(d) /\ Len(d) = m
    BY <2>1, FunctionIsSeq
  <2>3. ASSUME NEW i \in 1 .. m PROVE IsSeq(d[i])
    <3>1. PICK head, tail, r : /\ head = Check(RowPath(i), {"list"}, {}, {})
                               /\ r = Length(doc, RowPath(i))
                               /\ tail = [j \in 1 .. r |-> Check(EntryPath(i, j), Number, {}, {})]
      OBVIOUS
    <3>2. d[i] = <<head>> \o tail
      BY <1>2, <3>1 DEF RowChecks
    <3>3. r \in Nat
      BY <3>1, LengthIsNat
    <3>4. DOMAIN tail = 1 .. r /\ tail = [j \in 1 .. r |-> tail[j]]
      BY <3>1
    <3>5. IsSeq(tail) /\ IsSeq(<<head>>)
      BY <3>3, <3>4, FunctionIsSeq, TuplesAreSeqs
    <3> QED BY <3>2, <3>5, ConcatSeqs
  <2> QED BY <2>2, <2>3, FlattenSeqIs
<1>7. MidPriceChecks(doc) = a \o FlattenSeq(b) \o <<c>> \o FlattenSeq(d)
  BY <1>1, <1>2 DEF MidPriceChecks
<1>8. IsSeq(a \o FlattenSeq(b)) /\ IsSeq(a \o FlattenSeq(b) \o <<c>>)
  BY <1>3, <1>4, <1>5, ConcatSeqs
<1>9. IsSeq(MidPriceChecks(doc))
  BY <1>6, <1>7, <1>8, ConcatSeqs
<1>10. ASSUME Accepts(doc, MidPriceChecks(doc))
       PROVE  Accepts(doc, a)
  <2>1. Accepts(doc, a \o FlattenSeq(b) \o <<c>>)
    BY <1>6, <1>7, <1>8, <1>10, AcceptsParts
  <2>2. Accepts(doc, a \o FlattenSeq(b))
    BY <1>5, <1>8, <2>1, AcceptsParts
  <2> QED BY <1>3, <1>4, <2>2, AcceptsParts
<1> QED BY <1>2, <1>9, <1>10

(* The parts of the structure, each accepted on its own.                   *)
LEMMA StructureIs ==
    ASSUME NEW doc
    PROVE  /\ IsSeq(StructuralChecks(doc))
           /\ Accepts(doc, StructuralChecks(doc)) =>
                /\ Accepts(doc, Mapping(<<>>, <<Field("master_seed", {"int"})>>,
                     {"horizon", "mid_price", "quoters", "fill", "risk", "mc", "analytics", "output"}))
                /\ Accepts(doc, Numbers(<<"horizon">>, <<"T", "dt">>))
                /\ Accepts(doc, MidPriceChecks(doc))
                /\ Accepts(doc, Mapping(<<"risk">>, <<Field("q_max", {"int"}),
                                                      Field("L_kill", Number \cup {"null"})>>, {}))
                /\ Accepts(doc, Mapping(<<"mc">>, <<Field("n_paths", {"int"})>>, {}))
                /\ Accepts(doc, Mapping(<<"analytics">>,
                     <<Field("adverse_selection_horizon_steps", {"int"}),
                       Field("bootstrap_iterations", {"int"}), Field("bootstrap_alpha", Number),
                       Field("sharpe_annualization_factor", Number)>>, {}))
<1>1. PICK a, b, c, d, e, f, g, h, i, j, k :
        /\ a = Mapping(<<>>, <<Field("master_seed", {"int"})>>,
                {"horizon", "mid_price", "quoters", "fill", "risk", "mc", "analytics", "output"})
        /\ b = Numbers(<<"horizon">>, <<"T", "dt">>)
        /\ c = MidPriceChecks(doc)
        /\ d = Mapping(<<"quoters">>, <<>>, {"avellaneda_stoikov", "symmetric"})
        /\ e = Numbers(<<"quoters", "avellaneda_stoikov">>, <<"gamma", "k", "A">>)
        /\ f = Numbers(<<"quoters", "symmetric">>, <<"delta_base">>)
        /\ g = Numbers(<<"fill">>, <<"A_b", "k_b", "A_a", "k_a">>)
        /\ h = Mapping(<<"risk">>, <<Field("q_max", {"int"}), Field("L_kill", Number \cup {"null"})>>, {})
        /\ i = Mapping(<<"mc">>, <<Field("n_paths", {"int"})>>, {})
        /\ j = Mapping(<<"analytics">>,
               <<Field("adverse_selection_horizon_steps", {"int"}),
                 Field("bootstrap_iterations", {"int"}), Field("bootstrap_alpha", Number),
                 Field("sharpe_annualization_factor", Number)>>, {})
        /\ k = Mapping(<<"output">>, <<Field("dir", {"str"}), Word("format", {"parquet"})>>, {})
  OBVIOUS
<1>2. StructuralChecks(doc) = a \o b \o c \o d \o e \o f \o g \o h \o i \o j \o k
  BY <1>1 DEF StructuralChecks
<1>3. /\ \A v : DOMAIN <<v>> = 1 .. 1
      /\ \A v, w : DOMAIN <<v, w>> = 1 .. 2
      /\ \A v, w, x : DOMAIN <<v, w, x>> = 1 .. 3
      /\ \A v, w, x, y : DOMAIN <<v, w, x, y>> = 1 .. 4
      /\ DOMAIN <<>> = 1 .. 0
  OBVIOUS
<1>4. IsSeq(a) /\ IsSeq(d) /\ IsSeq(h) /\ IsSeq(i) /\ IsSeq(j) /\ IsSeq(k)
  BY <1>1, <1>3, MappingIsSeq
<1>5. IsSeq(b) /\ IsSeq(e) /\ IsSeq(f) /\ IsSeq(g)
  BY <1>1, <1>3, NumbersIsSeq
<1>6. IsSeq(c)
  BY <1>1, MidPriceIsSeq
<1>7. /\ IsSeq(a \o b) /\ IsSeq(a \o b \o c) /\ IsSeq(a \o b \o c \o d)
      /\ IsSeq(a \o b \o c \o d \o e)
  BY <1>4, <1>5, <1>6, ConcatSeqs
<1>8. /\ IsSeq(a \o b \o c \o d \o e \o f) /\ IsSeq(a \o b \o c \o d \o e \o f \o g)
      /\ IsSeq(a \o b \o c \o d \o e \o f \o g \o h)
  BY <1>4, <1>5, <1>7, ConcatSeqs
<1>9. /\ IsSeq(a \o b \o c \o d \o e \o f \o g \o h \o i)
      /\ IsSeq(a \o b \o c \o d \o e \o f \o g \o h \o i \o j)
      /\ IsSeq(a \o b \o c \o d \o e \o f \o g \o h \o i \o j \o k)
  BY <1>4, <1>8, ConcatSeqs
<1>10. ASSUME Accepts(doc, StructuralChecks(doc))
       PROVE  /\ Accepts(doc, a) /\ Accepts(doc, b) /\ Accepts(doc, c)
              /\ Accepts(doc, h) /\ Accepts(doc, i) /\ Accepts(doc, j)
  <2>1. Accepts(doc, a \o b \o c \o d \o e \o f \o g \o h \o i \o j)
    BY <1>2, <1>4, <1>9, <1>10, AcceptsParts
  <2>2. Accepts(doc, a \o b \o c \o d \o e \o f \o g \o h \o i) /\ Accepts(doc, j)
    BY <1>4, <1>9, <2>1, AcceptsParts
  <2>3. Accepts(doc, a \o b \o c \o d \o e \o f \o g \o h) /\ Accepts(doc, i)
    BY <1>4, <1>8, <2>2, AcceptsParts
  <2>4. Accepts(doc, a \o b \o c \o d \o e \o f \o g) /\ Accepts(doc, h)
    BY <1>4, <1>8, <2>3, AcceptsParts
  <2>5. Accepts(doc, a \o b \o c \o d \o e \o f)
    BY <1>5, <1>8, <2>4, AcceptsParts
  <2>6. Accepts(doc, a \o b \o c \o d \o e)
    BY <1>5, <1>7, <1>8, <2>5, AcceptsParts
  <2>7. Accepts(doc, a \o b \o c \o d)
    BY <1>5, <1>7, <2>6, AcceptsParts
  <2>8. Accepts(doc, a \o b \o c)
    BY <1>4, <1>7, <2>7, AcceptsParts
  <2>9. Accepts(doc, a \o b) /\ Accepts(doc, c)
    BY <1>6, <1>7, <2>8, AcceptsParts
  <2>10. Accepts(doc, a) /\ Accepts(doc, b)
    BY <1>4, <1>5, <2>9, AcceptsParts
  <2> QED BY <2>2, <2>3, <2>4, <2>9, <2>10
<1>11. IsSeq(StructuralChecks(doc))
  BY <1>2, <1>9
<1> QED BY <1>1, <1>10, <1>11

LEMMA LoadedIsAccepted ==
    ASSUME NEW doc, LoadConfig(doc).raised = "none"
    PROVE  Accepts(doc, StructuralChecks(doc))
<1>1. PICK checks : checks = StructuralChecks(doc)
  OBVIOUS
<1>2. Rejection(doc, checks[FirstRejected(doc, checks)]).raised # "none"
  BY DEF Rejection, Failure
<1>3. FirstRejected(doc, checks) = 0
  BY <1>1, <1>2 DEF LoadConfig
<1> QED BY <1>1, <1>3, StructureIs, NoneBroken

LEMMA LengthIsSmall ==
    ASSUME NEW doc, NEW path
    PROVE  Length(doc, path) \in 0 .. 3
<1>1. PICK S : S = {k \in 1 .. 3 : Append(path, Index[k]) \in DOMAIN doc}
  OBVIOUS
<1>2. Length(doc, path) = Cardinality(S)
  BY <1>1, IndexIs DEF Length
<1>3. PICK a \in Int, b \in Int : a = 1 /\ b = 3
  OBVIOUS
<1>4. IsFiniteSet(a .. b) /\ Cardinality(a .. b) = 3
  <2>1. IsFiniteSet(a .. b) /\ Cardinality(a .. b) = IF a > b THEN 0 ELSE b - a + 1
    BY FS_Interval
  <2> QED BY <1>3, <2>1
<1>5. S \subseteq a .. b
  BY <1>1, <1>3
<1>6. Cardinality(S) \in Nat /\ Cardinality(S) <= Cardinality(a .. b)
  BY <1>4, <1>5, FS_Subset, FS_CardinalityType
<1> QED BY <1>2, <1>4, <1>6

LEMMA WholeAt ==
    ASSUME NEW doc, IsDocument(doc), NEW path, KindAt(doc, path) = "int"
    PROVE  IntAt(doc, path) \in Int
<1>1. path \in DOMAIN doc
  BY DEF KindAt
<1> QED BY <1>1 DEF IsDocument, IsNode, IntAt, One

LEMMA ConfigurationIs ==
    ASSUME NEW doc, NEW cfg, cfg = Configuration(doc)
    PROVE  /\ cfg.master_seed = IntAt(doc, <<"master_seed">>)
           /\ cfg.horizon = Floats(doc, <<"horizon">>, {"T", "dt"})
           /\ cfg.model = doc[<<"mid_price", "model">>].text
           /\ cfg.regimes = [k \in 1 .. Length(doc, <<"mid_price", "regimes">>) |-> Regime(doc, k)]
           /\ cfg.matrix = Matrix(doc)
           /\ cfg.quoter = Floats(doc, <<"quoters", "avellaneda_stoikov">>, {"gamma", "k", "A"})
           /\ cfg.fill = Floats(doc, <<"fill">>, {"A_b", "k_b", "A_a", "k_a"})
           /\ cfg.q_max = IntAt(doc, <<"risk", "q_max">>)
           /\ cfg.n_paths = IntAt(doc, <<"mc", "n_paths">>)
           /\ cfg.adverse = IntAt(doc, <<"analytics", "adverse_selection_horizon_steps">>)
           /\ cfg.iterations = IntAt(doc, <<"analytics", "bootstrap_iterations">>)
           /\ cfg.dir = PathOf(doc[<<"output", "dir">>].text)
  BY DEF Configuration

LEMMA ShapeIs ==
    ASSUME NEW doc
    PROVE  HasShape(Configuration(doc))
<1>1. PICK cfg : cfg = Configuration(doc)
  OBVIOUS
<1>0. /\ cfg.regimes = [k \in 1 .. Length(doc, <<"mid_price", "regimes">>) |-> Regime(doc, k)]
      /\ cfg.matrix = Matrix(doc)
      /\ cfg.horizon = Floats(doc, <<"horizon">>, {"T", "dt"})
      /\ cfg.quoter = Floats(doc, <<"quoters", "avellaneda_stoikov">>, {"gamma", "k", "A"})
      /\ cfg.fill = Floats(doc, <<"fill">>, {"A_b", "k_b", "A_a", "k_a"})
  BY <1>1, ConfigurationIs
<1>2. IsRow(cfg.regimes)
  <2>1. PICK n \in 0 .. 3 : n = Length(doc, <<"mid_price", "regimes">>)
    BY LengthIsSmall
  <2>2. DOMAIN cfg.regimes = 1 .. n
    BY <1>0, <2>1
  <2> QED BY <2>2 DEF IsRow
<1>3. ASSUME cfg.matrix # None
      PROVE  IsRow(cfg.matrix) /\ \A i \in DOMAIN cfg.matrix : IsRow(cfg.matrix[i])
  <2>1. PICK n \in 0 .. 3 : n = Length(doc, MatrixPath)
    BY LengthIsSmall
  <2>2. cfg.matrix = [i \in 1 .. n |-> [j \in 1 .. Length(doc, RowPath(i)) |-> FloatAt(doc, EntryPath(i, j))]]
    BY <1>0, <1>3, <2>1 DEF Matrix
  <2>3. ASSUME NEW i \in 1 .. n PROVE IsRow(cfg.matrix[i])
    <3>1. PICK m \in 0 .. 3 : m = Length(doc, RowPath(i))
      BY LengthIsSmall
    <3>2. DOMAIN cfg.matrix[i] = 1 .. m
      BY <2>2, <3>1
    <3> QED BY <3>2 DEF IsRow
  <2>4. DOMAIN cfg.matrix = 1 .. n
    BY <2>2
  <2> QED BY <2>3, <2>4 DEF IsRow
<1>4. /\ DOMAIN cfg.horizon = {"T", "dt"}
      /\ DOMAIN cfg.quoter = {"gamma", "k", "A"}
      /\ DOMAIN cfg.fill = {"A_b", "k_b", "A_a", "k_a"}
  BY <1>0 DEF Floats
<1> QED BY <1>1, <1>2, <1>3, <1>4 DEF HasShape

LEMMA DescribedIs ==
    ASSUME NEW doc, IsDocument(doc), LoadConfig(doc).raised = "none"
    PROVE  Described(Configuration(doc))
<1>1. PICK cfg : cfg = Configuration(doc)
  OBVIOUS
<1>0. /\ cfg.master_seed = IntAt(doc, <<"master_seed">>)
      /\ cfg.model = doc[<<"mid_price", "model">>].text
      /\ cfg.q_max = IntAt(doc, <<"risk", "q_max">>)
      /\ cfg.n_paths = IntAt(doc, <<"mc", "n_paths">>)
      /\ cfg.adverse = IntAt(doc, <<"analytics", "adverse_selection_horizon_steps">>)
      /\ cfg.iterations = IntAt(doc, <<"analytics", "bootstrap_iterations">>)
      /\ cfg.dir = PathOf(doc[<<"output", "dir">>].text)
  BY <1>1, ConfigurationIs
<1>2. Accepts(doc, StructuralChecks(doc))
  BY LoadedIsAccepted
<1>3. cfg.master_seed \in Int
  <2>1. PICK fields, more, p :
          /\ fields = <<Field("master_seed", {"int"})>> /\ p = <<>>
          /\ more = {"horizon", "mid_price", "quoters", "fill", "risk", "mc", "analytics", "output"}
    OBVIOUS
  <2>2. DOMAIN fields = 1 .. 1 /\ fields[1] = Field("master_seed", {"int"})
    BY <2>1
  <2>3. Accepts(doc, Mapping(p, fields, more))
    BY <1>2, <2>1, StructureIs
  <2>4. KindAt(doc, Append(p, "master_seed")) = "int"
    <3>1. \A f \in 1 .. 1 : Demands(doc, p, fields[f])
      BY <2>2, <2>3, MappingDemands
    <3> QED BY <2>2, <3>1 DEF Demands, Field
  <2>5. Append(p, "master_seed") = <<"master_seed">>
    BY <2>1, OneKey, NamesAre
  <2> QED BY <1>0, <2>4, <2>5, WholeAt
<1>4. cfg.q_max \in Int
  <2>1. PICK fields, more, p :
          /\ fields = <<Field("q_max", {"int"}), Field("L_kill", Number \cup {"null"})>>
          /\ p = <<"risk">> /\ more = {}
    OBVIOUS
  <2>2. DOMAIN fields = 1 .. 2 /\ fields[1] = Field("q_max", {"int"})
    BY <2>1
  <2>3. Accepts(doc, Mapping(p, fields, more))
    BY <1>2, <2>1, StructureIs
  <2>4. KindAt(doc, Append(p, "q_max")) = "int"
    <3>1. \A f \in 1 .. 2 : Demands(doc, p, fields[f])
      BY <2>2, <2>3, MappingDemands
    <3> QED BY <2>2, <3>1 DEF Demands, Field
  <2>5. Append(p, "q_max") = <<"risk", "q_max">>
    BY <2>1, TwoKeys, NamesAre
  <2> QED BY <1>0, <2>4, <2>5, WholeAt
<1>5. cfg.n_paths \in Int
  <2>1. PICK fields, more, p : fields = <<Field("n_paths", {"int"})>> /\ p = <<"mc">> /\ more = {}
    OBVIOUS
  <2>2. DOMAIN fields = 1 .. 1 /\ fields[1] = Field("n_paths", {"int"})
    BY <2>1
  <2>3. Accepts(doc, Mapping(p, fields, more))
    BY <1>2, <2>1, StructureIs
  <2>4. KindAt(doc, Append(p, "n_paths")) = "int"
    <3>1. \A f \in 1 .. 1 : Demands(doc, p, fields[f])
      BY <2>2, <2>3, MappingDemands
    <3> QED BY <2>2, <3>1 DEF Demands, Field
  <2>5. Append(p, "n_paths") = <<"mc", "n_paths">>
    BY <2>1, TwoKeys, NamesAre
  <2> QED BY <1>0, <2>4, <2>5, WholeAt
<1>6. cfg.adverse \in Int /\ cfg.iterations \in Int
  <2>1. PICK fields, more, p :
          /\ fields = <<Field("adverse_selection_horizon_steps", {"int"}),
                        Field("bootstrap_iterations", {"int"}), Field("bootstrap_alpha", Number),
                        Field("sharpe_annualization_factor", Number)>>
          /\ p = <<"analytics">> /\ more = {}
    OBVIOUS
  <2>2. /\ DOMAIN fields = 1 .. 4 /\ fields[1] = Field("adverse_selection_horizon_steps", {"int"})
        /\ fields[2] = Field("bootstrap_iterations", {"int"})
    BY <2>1
  <2>3. Accepts(doc, Mapping(p, fields, more))
    BY <1>2, <2>1, StructureIs
  <2>4. KindAt(doc, Append(p, "adverse_selection_horizon_steps")) = "int"
    <3>1. \A f \in 1 .. 4 : Demands(doc, p, fields[f])
      BY <2>2, <2>3, MappingDemands
    <3> QED BY <2>2, <3>1 DEF Demands, Field
  <2>5. KindAt(doc, Append(p, "bootstrap_iterations")) = "int"
    <3>1. \A f \in 1 .. 4 : Demands(doc, p, fields[f])
      BY <2>2, <2>3, MappingDemands
    <3> QED BY <2>2, <3>1 DEF Demands, Field
  <2>6. /\ Append(p, "adverse_selection_horizon_steps") = <<"analytics", "adverse_selection_horizon_steps">>
        /\ Append(p, "bootstrap_iterations") = <<"analytics", "bootstrap_iterations">>
    BY <2>1, TwoKeys, NamesAre
  <2> QED BY <1>0, <2>4, <2>5, <2>6, WholeAt
<1>7. cfg.model \in {"gbm", "regime_switching"}
  <2>1. PICK fields, more, p :
          /\ fields = <<Word("model", {"gbm", "regime_switching"}), Field("s0", Number), Field("regimes", {"list"})>>
          /\ p = <<"mid_price">> /\ more = {"transition_matrix"}
    OBVIOUS
  <2>2. DOMAIN fields = 1 .. 3 /\ fields[1] = Word("model", {"gbm", "regime_switching"})
    BY <2>1
  <2>3. Accepts(doc, Mapping(p, fields, more))
    BY <1>2, <2>1, StructureIs, MidPriceIsSeq
  <2>4. fields[1].key = "model" /\ fields[1].words = {"gbm", "regime_switching"}
    BY <2>2 DEF Word
  <2>5. doc[Append(p, "model")].text \in {"gbm", "regime_switching"}
    <3>1. \A f \in 1 .. 3 : Demands(doc, p, fields[f])
      BY <2>2, <2>3, MappingDemands
    <3> QED BY <2>4, <3>1 DEF Demands
  <2>6. Append(p, "model") = <<"mid_price", "model">>
    BY <2>1, TwoKeys, NamesAre
  <2> QED BY <1>0, <2>5, <2>6
<1>8. PathOf(cfg.dir) = cfg.dir
  BY <1>0 DEF PathOf
<1>9. HasShape(cfg)
  BY <1>1, ShapeIs
<1> QED BY <1>1, <1>3, <1>4, <1>5, <1>6, <1>7, <1>8, <1>9 DEF Described

LEMMA SectionsRead ==
    ASSUME NEW doc, NEW cfg, cfg = Configuration(doc), Described(cfg)
    PROVE  /\ Floats(Dump(cfg), <<"horizon">>, {"T", "dt"}) = cfg.horizon
           /\ Floats(Dump(cfg), <<"quoters", "avellaneda_stoikov">>, {"gamma", "k", "A"}) = cfg.quoter
           /\ Floats(Dump(cfg), <<"fill">>, {"A_b", "k_b", "A_a", "k_a"}) = cfg.fill
<1>1. HasShape(cfg)
  BY DEF Described
<1>2. PICK p, q, r : /\ p = <<"horizon">> /\ q = <<"quoters", "avellaneda_stoikov">> /\ r = <<"fill">>
                     /\ p \in Flat /\ q \in Flat /\ r \in Flat
  BY DEF Flat
<1>3. /\ Entries(cfg, p) = DumpFloats(cfg.horizon)
      /\ Entries(cfg, q) = DumpFloats(cfg.quoter)
      /\ Entries(cfg, r) = DumpFloats(cfg.fill)
  BY <1>1, <1>2, EntriesOfSections
<1>4. /\ DOMAIN cfg.horizon = {"T", "dt"}
      /\ DOMAIN cfg.quoter = {"gamma", "k", "A"}
      /\ DOMAIN cfg.fill = {"A_b", "k_b", "A_a", "k_a"}
  BY <1>1 DEF HasShape
<1>5. /\ cfg.horizon = Floats(doc, <<"horizon">>, {"T", "dt"})
      /\ cfg.quoter = Floats(doc, <<"quoters", "avellaneda_stoikov">>, {"gamma", "k", "A"})
      /\ cfg.fill = Floats(doc, <<"fill">>, {"A_b", "k_b", "A_a", "k_a"})
  BY ConfigurationIs
<1>6. /\ cfg.horizon = [key \in DOMAIN cfg.horizon |-> cfg.horizon[key]]
      /\ cfg.quoter = [key \in DOMAIN cfg.quoter |-> cfg.quoter[key]]
      /\ cfg.fill = [key \in DOMAIN cfg.fill |-> cfg.fill[key]]
  BY <1>5 DEF Floats
<1>7. Floats(Dump(cfg), p, {"T", "dt"}) = cfg.horizon
  BY <1>1, <1>2, <1>3, <1>4, <1>6, FloatsRead
<1>8. Floats(Dump(cfg), q, {"gamma", "k", "A"}) = cfg.quoter
  BY <1>1, <1>2, <1>3, <1>4, <1>6, FloatsRead
<1>9. Floats(Dump(cfg), r, {"A_b", "k_b", "A_a", "k_a"}) = cfg.fill
  BY <1>1, <1>2, <1>3, <1>4, <1>6, FloatsRead
<1> QED BY <1>2, <1>7, <1>8, <1>9

LEMMA RegimesRead ==
    ASSUME NEW doc, NEW cfg, cfg = Configuration(doc), Described(cfg)
    PROVE  [k \in 1 .. Length(Dump(cfg), <<"mid_price", "regimes">>) |-> Regime(Dump(cfg), k)] = cfg.regimes
<1>1. PICK n \in 0 .. 3 : n = Length(doc, <<"mid_price", "regimes">>)
  BY LengthIsSmall
<1>2. cfg.regimes = [k \in 1 .. n |-> Regime(doc, k)]
  BY <1>1, ConfigurationIs
<1>3. HasShape(cfg) /\ DOMAIN cfg.regimes = 1 .. n
  BY <1>2 DEF Described
<1>4. Length(Dump(cfg), <<"mid_price", "regimes">>) = n
  BY <1>3, RegimesCounted
<1>5. ASSUME NEW k \in 1 .. n
      PROVE  Regime(Dump(cfg), k) = cfg.regimes[k]
  <2>1. PICK g : g = cfg.regimes[k]
    OBVIOUS
  <2>2. g = Regime(doc, k)
    BY <1>2, <2>1
  <2>3. g = [name |-> g.name, mu |-> g.mu, sigma |-> g.sigma, gamma |-> g.gamma]
    BY <2>2 DEF Regime
  <2>4. Regime(Dump(cfg), k) = [name |-> g.name, mu |-> g.mu, sigma |-> g.sigma, gamma |-> g.gamma]
    BY <1>3, <2>1, RegimeRead
  <2> QED BY <2>1, <2>3, <2>4
<1>6. cfg.regimes = [k \in 1 .. n |-> cfg.regimes[k]]
  BY <1>2
<1> QED BY <1>4, <1>5, <1>6

LEMMA MatrixIsRead ==
    ASSUME NEW doc, NEW cfg, cfg = Configuration(doc), Described(cfg)
    PROVE  Matrix(Dump(cfg)) = cfg.matrix
<1>1. cfg.matrix = Matrix(doc)
  BY ConfigurationIs
<1>2. ASSUME cfg.matrix # None
      PROVE  /\ cfg.matrix = [i \in DOMAIN cfg.matrix |-> cfg.matrix[i]]
             /\ \A i \in DOMAIN cfg.matrix : cfg.matrix[i] = [j \in DOMAIN cfg.matrix[i] |-> cfg.matrix[i][j]]
  BY <1>1, <1>2 DEF Matrix
<1>3. HasShape(cfg)
  BY DEF Described
<1> QED BY <1>2, <1>3, MatrixRead

(* The configuration that is read from a dump is the one that was dumped.  *)
LEMMA ReadsBack ==
    ASSUME NEW doc, NEW cfg, cfg = Configuration(doc), Described(cfg)
    PROVE  Configuration(Dump(cfg)) = cfg
<1>1. PICK r, seed, horizon, model, s0, regimes, matrix, quoter, delta, fill, q, kill, n, adverse,
           iterations, alpha, sharpe, dir :
        /\ r = Dump(cfg)
        /\ seed = IntAt(r, <<"master_seed">>)
        /\ horizon = Floats(r, <<"horizon">>, {"T", "dt"})
        /\ model = r[<<"mid_price", "model">>].text
        /\ s0 = FloatAt(r, <<"mid_price", "s0">>)
        /\ regimes = [k \in 1 .. Length(r, <<"mid_price", "regimes">>) |-> Regime(r, k)]
        /\ matrix = Matrix(r)
        /\ quoter = Floats(r, <<"quoters", "avellaneda_stoikov">>, {"gamma", "k", "A"})
        /\ delta = FloatAt(r, <<"quoters", "symmetric", "delta_base">>)
        /\ fill = Floats(r, <<"fill">>, {"A_b", "k_b", "A_a", "k_a"})
        /\ q = IntAt(r, <<"risk", "q_max">>)
        /\ kill = FloatOrNone(r, <<"risk", "L_kill">>)
        /\ n = IntAt(r, <<"mc", "n_paths">>)
        /\ adverse = IntAt(r, <<"analytics", "adverse_selection_horizon_steps">>)
        /\ iterations = IntAt(r, <<"analytics", "bootstrap_iterations">>)
        /\ alpha = FloatAt(r, <<"analytics", "bootstrap_alpha">>)
        /\ sharpe = FloatAt(r, <<"analytics", "sharpe_annualization_factor">>)
        /\ dir = PathOf(r[<<"output", "dir">>].text)
  OBVIOUS
<1>2. Configuration(r) =
        [master_seed |-> seed, horizon |-> horizon, model |-> model, s0 |-> s0, regimes |-> regimes,
         matrix |-> matrix, quoter |-> quoter, delta_base |-> delta, fill |-> fill, q_max |-> q,
         L_kill |-> kill, n_paths |-> n, adverse |-> adverse, iterations |-> iterations,
         alpha |-> alpha, sharpe |-> sharpe, dir |-> dir]
  BY <1>1 DEF Configuration
<1>3. seed = cfg.master_seed /\ model = cfg.model /\ s0 = cfg.s0 /\ q = cfg.q_max /\ kill = cfg.L_kill
  BY <1>1, MasterSeedRead, MidPriceRead, RiskRead
<1>4. horizon = cfg.horizon /\ quoter = cfg.quoter /\ fill = cfg.fill
  BY <1>1, SectionsRead
<1>5. regimes = cfg.regimes /\ matrix = cfg.matrix
  BY <1>1, RegimesRead, MatrixIsRead
<1>6. delta = cfg.delta_base /\ n = cfg.n_paths /\ dir = cfg.dir
  BY <1>1, RestRead
<1>7. adverse = cfg.adverse /\ iterations = cfg.iterations /\ alpha = cfg.alpha /\ sharpe = cfg.sharpe
  BY <1>1, AnalyticsRead
<1>8. cfg = [master_seed |-> cfg.master_seed, horizon |-> cfg.horizon, model |-> cfg.model, s0 |-> cfg.s0,
             regimes |-> cfg.regimes, matrix |-> cfg.matrix, quoter |-> cfg.quoter,
             delta_base |-> cfg.delta_base, fill |-> cfg.fill, q_max |-> cfg.q_max,
             L_kill |-> cfg.L_kill, n_paths |-> cfg.n_paths, adverse |-> cfg.adverse,
             iterations |-> cfg.iterations, alpha |-> cfg.alpha, sharpe |-> cfg.sharpe, dir |-> cfg.dir]
  BY DEF Configuration
<1> QED BY <1>1, <1>2, <1>3, <1>4, <1>5, <1>6, <1>7, <1>8

(* dump_config and load_config: what a document describes, written to a    *)
(* file and loaded from it, is described by the file, whatever the document*)
(* looked like; so a stored configuration repeats the run it is of.        *)
THEOREM DumpLoads ==
    ASSUME NEW doc, IsDocument(doc), LoadConfig(doc).raised = "none"
    PROVE  LoadConfig(Dump(LoadConfig(doc).config)) = LoadConfig(doc)
<1>1. PICK cfg : cfg = Configuration(doc)
  OBVIOUS
<1>2. LoadConfig(doc).config = cfg /\ Described(cfg)
  BY <1>1, LoadedIs, DescribedIs
<1>3. LoadConfig(doc) = Validated(cfg)
  BY <1>1 DEF LoadConfig, Failure, Rejection
<1>4. Accepts(Dump(cfg), StructuralChecks(Dump(cfg)))
  BY <1>2, DumpAccepted DEF Described
<1>5. PICK written, checks : written = Dump(cfg) /\ checks = StructuralChecks(written)
  OBVIOUS
<1>6. FirstRejected(written, checks) = 0
  <2>1. IsSeq(checks)
    BY <1>5, StructureIs
  <2>2. Accepts(written, checks)
    BY <1>4, <1>5
  <2> QED BY <2>1, <2>2, NoneBroken
<1>7. LoadConfig(written) = Validated(Configuration(written))
  BY <1>5, <1>6 DEF LoadConfig
<1>8. Configuration(Dump(cfg)) = cfg
  BY <1>1, <1>2, ReadsBack
<1> QED BY <1>2, <1>3, <1>5, <1>7, <1>8
=============================================================================
