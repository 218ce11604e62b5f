----------------------------- MODULE StudyProofs -----------------------------
(***************************************************************************)
(* Theorems about a study: what load_config accepts no later stage         *)
(* refuses, the walk over the regimes follows the matrix, and the interval *)
(* of a comparison is one of the pairs.                                    *)
(***************************************************************************)
EXTENDS Study, ConfigProofs

-----------------------------------------------------------------------------
(* The time grid.                                                          *)

LEMMA RoundsUp ==
    ASSUME NEW a \in Nat, NEW b \in Nat \ {0}, a >= b
    PROVE  RoundHalfEven(a, b) \in Nat /\ RoundHalfEven(a, b) >= 1
<1>1. a \div b \in Int /\ a % b \in 0 .. b - 1 /\ a = b * (a \div b) + (a % b)
  BY DivMod
<1>2. a \div b >= 1
  <2>1. ASSUME a \div b <= 0 PROVE FALSE
    <3>1. b * (a \div b) <= 0
      BY <1>1, <2>1
    <3> QED BY <1>1, <3>1
  <2> QED BY <1>1, <2>1
<1> QED BY <1>1, <1>2 DEF RoundHalfEven

LEMMA LeastPower ==
    ASSUME NEW S, S \subseteq PowersOfTwo, S # {}
    PROVE  \E x \in S : \A y \in PowersOfTwo : y < x => y \notin S
<1>1. PowersOfTwo \subseteq Nat
  BY DEF PowersOfTwo
<1>2. S \subseteq Nat
  BY <1>1
<1>3. PICK x \in S : \A y \in S : x <= y
  BY <1>2, LeastNumber
<1>4. ASSUME NEW y \in PowersOfTwo, y < x PROVE y \notin S
  BY <1>1, <1>2, <1>3, <1>4
<1> QED BY <1>4

LEMMA HalfPower ==
    ASSUME NEW bit \in PowersOfTwo
    PROVE  /\ bit \in Nat \ {0}
           /\ bit = 1 \/ \E less \in PowersOfTwo : bit = 2 * less /\ less \in Nat \ {0}
<1>1. bit \in Nat \ {0}
  BY DEF PowersOfTwo
<1>2. ASSUME bit \in {2, 4, 8, 16, 32, 64, 128} PROVE \E less \in PowersOfTwo : bit = 2 * less /\ less \in Nat \ {0}
  BY <1>2 DEF PowersOfTwo
<1>3. ASSUME bit \in {256, 512, 1024, 2048, 4096, 8192, 16384} PROVE \E less \in PowersOfTwo : bit = 2 * less /\ less \in Nat \ {0}
  BY <1>3 DEF PowersOfTwo
<1>4. ASSUME bit \in {32768, 65536, 131072, 262144, 524288, 1048576} PROVE \E less \in PowersOfTwo : bit = 2 * less /\ less \in Nat \ {0}
  BY <1>4 DEF PowersOfTwo
<1>5. bit = 1 \/ bit \in {2, 4, 8, 16, 32, 64, 128} \/ bit \in {256, 512, 1024, 2048, 4096, 8192, 16384}
      \/ bit \in {32768, 65536, 131072, 262144, 524288, 1048576}
  BY DEF PowersOfTwo
<1> QED BY <1>1, <1>2, <1>3, <1>4, <1>5

(* The last bit is 1, or a number of which half does not fit.              *)
FitsIn(a, b, bit) == a < b * Significands * bit
LEMMA LastBitIs ==
    ASSUME NEW a \in Nat, NEW b \in Nat \ {0}, FitsIn(a, b, 1048576)
    PROVE  /\ LastBit(a, b) \in Nat \ {0}
           /\ LastBit(a, b) = 1 \/ a >= b * LastBit(a, b)
<1> DEFINE S == {bit \in PowersOfTwo : FitsIn(a, b, bit)}
<1>1. S \subseteq PowersOfTwo /\ S # {}
  BY DEF PowersOfTwo
<1>2. PICK low \in S : \A y \in PowersOfTwo : y < low => y \notin S
  <2> HIDE DEF S
  <2> QED BY <1>1, LeastPower
<1>3. PICK bit : bit = LastBit(a, b)
  OBVIOUS
<1>4. LastBit(a, b) = CHOOSE x \in PowersOfTwo :
                        FitsIn(a, b, x) /\ \A less \in PowersOfTwo : less < x => ~FitsIn(a, b, less)
  BY DEF LastBit, FitsIn
<1>5. bit \in PowersOfTwo /\ \A less \in PowersOfTwo : less < bit => ~FitsIn(a, b, less)
  <2>1. low \in PowersOfTwo /\ FitsIn(a, b, low)
        /\ \A less \in PowersOfTwo : less < low => ~FitsIn(a, b, less)
    BY <1>2
  <2> QED BY <1>3, <1>4, <2>1
<1>6. ASSUME NEW less \in PowersOfTwo, bit = 2 * less, less \in Nat \ {0}
      PROVE  a >= b * bit
  <2>1. less < bit
    BY <1>6
  <2>2. ~FitsIn(a, b, less)
    BY <1>5, <2>1
  <2>3. PICK c \in Nat : c = b * less
    BY <1>6
  <2>4. b * Significands * less = 64 * c /\ b * bit = 2 * c
    BY <1>6, <2>3 DEF Significands
  <2> QED BY <2>2, <2>3, <2>4 DEF FitsIn
<1>7. bit \in Nat \ {0}
  BY <1>5, HalfPower
<1> QED BY <1>3, <1>5, <1>6, <1>7, HalfPower

(* A positive number rounds to a positive float.                           *)
LEMMA FloatIsPositive ==
    ASSUME NEW a \in Nat, NEW b \in Nat \ {0}, b <= a, FitsIn(a, b, 1048576)
    PROVE  Float(a, b) \in Nat /\ Float(a, b) > 0
<1>1. PICK bit \in Nat \ {0} : bit = LastBit(a, b)
  BY LastBitIs
<1>2. b * bit \in Nat \ {0} /\ a >= b * bit
  <2>1. bit = 1 \/ a >= b * bit
    BY <1>1, LastBitIs
  <2> QED BY <1>1, <2>1
<1>3. PICK n \in Nat : n = RoundHalfEven(a, b * bit) /\ n >= 1
  BY <1>2, RoundsUp
<1>4. Float(a, b) = n * bit
  BY <1>1, <1>3 DEF Float
<1> QED BY <1>1, <1>3, <1>4

-----------------------------------------------------------------------------
(* What validate has checked of a configuration that is loaded.            *)

AllOk(s) == \A c \in Range(s) : c.ok

LEMMA PartsAreOk ==
    ASSUME NEW d, LoadConfig(d).raised = "none", NEW cfg, cfg = Configuration(d)
    PROVE  /\ AllOk(SeedClauses(cfg)) /\ AllOk(Positive(<<"horizon">>, HorizonFields(cfg)))
           /\ AllOk(PriceClauses(cfg)) /\ \A k \in DOMAIN cfg.regimes : AllOk(RegimeClauses(cfg, k))
           /\ AllOk(ModelClauses(cfg))
           /\ AllOk(Positive(<<"quoters", "avellaneda_stoikov">>, QuoterFields(cfg)))
           /\ AllOk(BaseClauses(cfg)) /\ AllOk(Positive(<<"fill">>, FillFields(cfg)))
           /\ AllOk(RunClauses(cfg))
<1>1. Valid(cfg)
  BY LoadedIs, LoadedIsValid
<1>2. AllOk(Clauses(cfg))
  BY <1>1 DEF Valid, AllOk, Range
<1>3. PICK parts : parts =
                 Range(SeedClauses(cfg)) \cup Range(Positive(<<"horizon">>, HorizonFields(cfg)))
                 \cup Range(PriceClauses(cfg)) \cup Range(FlattenSeq(EachRegime(cfg)))
                 \cup Range(ModelClauses(cfg))
                 \cup Range(Positive(<<"quoters", "avellaneda_stoikov">>, QuoterFields(cfg)))
                 \cup Range(BaseClauses(cfg)) \cup Range(Positive(<<"fill">>, FillFields(cfg)))
                 \cup Range(RunClauses(cfg))
  OBVIOUS
<1>4. Range(Clauses(cfg)) = parts
      /\ \A k \in DOMAIN cfg.regimes : Range(RegimeClauses(cfg, k)) \subseteq Range(FlattenSeq(EachRegime(cfg)))
  BY <1>3, ClausesAreParts
<1>5. \A c \in parts : c.ok
  BY <1>2, <1>4 DEF AllOk
<1> QED BY <1>3, <1>4, <1>5 DEF AllOk

LEMMA TupleHolds ==
    /\ \A a : AllOk(<<a>>) => a.ok
    /\ \A a, b, c : AllOk(<<a, b, c>>) => a.ok /\ b.ok /\ c.ok
    /\ \A a, b, c, d : AllOk(<<a, b, c, d>>) => a.ok /\ b.ok /\ c.ok /\ d.ok
<1>1. ASSUME NEW s, NEW n \in Nat, DOMAIN s = 1 .. n, AllOk(s) PROVE \A k \in 1 .. n : s[k].ok
  BY <1>1 DEF AllOk, Range
<1>2. ASSUME NEW a, AllOk(<<a>>) PROVE a.ok
  <2>1. PICK s : s = <<a>>
    OBVIOUS
  <2>2. DOMAIN s = 1 .. 1 /\ s[1] = a
    BY <2>1
  <2>3. \A k \in 1 .. 1 : s[k].ok
    BY <1>1, <1>2, <2>1, <2>2
  <2> QED BY <2>2, <2>3
<1>3. ASSUME NEW a, NEW b, NEW c, AllOk(<<a, b, c>>) PROVE a.ok /\ b.ok /\ c.ok
  <2>1. PICK s : s = <<a, b, c>>
    OBVIOUS
  <2>2. DOMAIN s = 1 .. 3 /\ s[1] = a /\ s[2] = b /\ s[3] = c
    BY <2>1
  <2>3. \A k \in 1 .. 3 : s[k].ok
    BY <1>1, <1>3, <2>1, <2>2
  <2> QED BY <2>2, <2>3
<1>4. ASSUME NEW a, NEW b, NEW c, NEW d, AllOk(<<a, b, c, d>>) PROVE a.ok /\ b.ok /\ c.ok /\ d.ok
  <2>1. PICK s : s = <<a, b, c, d>>
    OBVIOUS
  <2>2. DOMAIN s = 1 .. 4 /\ s[1] = a /\ s[2] = b /\ s[3] = c /\ s[4] = d
    BY <2>1
  <2>3. \A k \in 1 .. 4 : s[k].ok
    BY <1>1, <1>4, <2>1, <2>2
  <2> QED BY <2>2, <2>3
<1> QED BY <1>2, <1>3, <1>4

LEMMA SevenHold ==
    ASSUME NEW a, NEW b, NEW c, NEW d, NEW e, NEW f, NEW g, AllOk(<<a, b, c, d, e, f, g>>)
    PROVE  a.ok /\ b.ok /\ c.ok /\ d.ok /\ e.ok /\ f.ok /\ g.ok
<1>1. PICK s : s = <<a, b, c, d, e, f, g>>
  OBVIOUS
<1>2. DOMAIN s = 1 .. 7
  BY <1>1
<1>3. s[1] = a /\ s[2] = b /\ s[3] = c /\ s[4] = d /\ s[5] = e /\ s[6] = f /\ s[7] = g
  BY <1>1
<1>4. \A k \in 1 .. 7 : s[k].ok
  BY <1>1, <1>2 DEF AllOk, Range
<1> QED BY <1>3, <1>4

LEMMA PositiveHolds ==
    ASSUME NEW path, NEW n \in Nat, NEW fields, DOMAIN fields = 1 .. n, AllOk(Positive(path, fields))
    PROVE  \A k \in 1 .. n : fields[k][2] > 0
<1> TAKE k \in 1 .. n
<1>1. PICK c : c = Positive(path, fields)[k]
  OBVIOUS
<1>2. c \in Range(Positive(path, fields)) /\ c = Clause(Append(path, fields[k][1]), fields[k][2] > 0)
  BY <1>1 DEF Positive, Range
<1>3. c.ok
  BY <1>2 DEF AllOk
<1> QED BY <1>2, <1>3 DEF Clause

LEMMA ValidateHolds ==
    ASSUME NEW d, LoadConfig(d).raised = "none", NEW cfg, cfg = Configuration(d)
    PROVE  /\ cfg.master_seed >= 0 /\ cfg.horizon.T > 0 /\ cfg.horizon.dt > 0
           /\ DtGrains(cfg) <= TGrains(cfg) /\ cfg.s0 > 0 /\ cfg.regimes # <<>>
           /\ \A r \in DOMAIN cfg.regimes : cfg.regimes[r].sigma >= 0 /\ GammaOk(cfg.regimes[r])
           /\ cfg.quoter.gamma > 0 /\ cfg.quoter.k > 0 /\ cfg.delta_base >= 0
           /\ \A key \in DOMAIN cfg.fill : cfg.fill[key] > 0
           /\ cfg.q_max >= 0 /\ (cfg.L_kill # None => cfg.L_kill > 0) /\ cfg.n_paths >= 1
           /\ cfg.adverse >= 0 /\ cfg.iterations >= 1 /\ 0 < cfg.alpha /\ cfg.alpha < One
<1>1. cfg.master_seed >= 0
  <2>1. PICK c : c = Clause(<<"master_seed">>, cfg.master_seed >= 0)
    OBVIOUS
  <2>2. c.ok
    BY <2>1, PartsAreOk, TupleHolds DEF SeedClauses
  <2> QED BY <2>1, <2>2 DEF Clause
<1>2. cfg.horizon.T > 0 /\ cfg.horizon.dt > 0
  <2>1. PICK fields : fields = HorizonFields(cfg)
    OBVIOUS
  <2>2. DOMAIN fields = 1 .. 2 /\ fields[1][2] = cfg.horizon.T /\ fields[2][2] = cfg.horizon.dt
    BY <2>1 DEF HorizonFields
  <2>3. \A k \in 1 .. 2 : fields[k][2] > 0
    BY <2>1, <2>2, PartsAreOk, PositiveHolds
  <2> QED BY <2>2, <2>3
<1>3. DtGrains(cfg) <= TGrains(cfg) /\ cfg.s0 > 0 /\ cfg.regimes # <<>>
  <2>1. PICK a, b, c : /\ a = Clause(<<"horizon", "dt">>, DtGrains(cfg) <= TGrains(cfg))
                       /\ b = Clause(<<"mid_price", "s0">>, cfg.s0 > 0)
                       /\ c = Clause(<<"mid_price", "regimes">>, cfg.regimes # <<>>)
    OBVIOUS
  <2>2. PriceClauses(cfg) = <<a, b, c>>
    BY <2>1 DEF PriceClauses
  <2>3. a.ok /\ b.ok /\ c.ok
    BY <2>2, PartsAreOk, TupleHolds
  <2> QED BY <2>1, <2>3 DEF Clause
<1>4. ASSUME NEW r \in DOMAIN cfg.regimes PROVE cfg.regimes[r].sigma >= 0 /\ GammaOk(cfg.regimes[r])
  <2>1. PICK a, b, c, e :
          /\ a = Clause(Append(RegimePath(r), "name"), cfg.regimes[r].name # "")
          /\ b = Clause(Append(RegimePath(r), "name"), UniqueName(cfg, r))
          /\ c = Clause(Append(RegimePath(r), "sigma"), cfg.regimes[r].sigma >= 0)
          /\ e = Clause(Append(RegimePath(r), "gamma"), GammaOk(cfg.regimes[r]))
    OBVIOUS
  <2>2. RegimeClauses(cfg, r) = <<a, b, c, e>>
    BY <2>1 DEF RegimeClauses
  <2>3. c.ok /\ e.ok
    BY <1>4, <2>2, PartsAreOk, TupleHolds
  <2> QED BY <2>1, <2>3 DEF Clause
<1>5. cfg.quoter.gamma > 0 /\ cfg.quoter.k > 0
  <2>1. PICK fields : fields = QuoterFields(cfg)
    OBVIOUS
  <2>2. DOMAIN fields = 1 .. 3 /\ fields[1][2] = cfg.quoter.gamma /\ fields[2][2] = cfg.quoter.k
    BY <2>1 DEF QuoterFields
  <2>3. \A k \in 1 .. 3 : fields[k][2] > 0
    BY <2>1, <2>2, PartsAreOk, PositiveHolds
  <2> QED BY <2>2, <2>3
<1>6. cfg.delta_base >= 0
  <2>1. PICK c : c = Clause(<<"quoters", "symmetric", "delta_base">>, cfg.delta_base >= 0)
    OBVIOUS
  <2>2. c.ok
    BY <2>1, PartsAreOk, TupleHolds DEF BaseClauses
  <2> QED BY <2>1, <2>2 DEF Clause
<1>7. \A key \in DOMAIN cfg.fill : cfg.fill[key] > 0
  <2>1. PICK fields : fields = FillFields(cfg)
    OBVIOUS
  <2>2. /\ DOMAIN fields = 1 .. 4 /\ fields[1][2] = cfg.fill.A_b /\ fields[2][2] = cfg.fill.k_b
        /\ fields[3][2] = cfg.fill.A_a /\ fields[4][2] = cfg.fill.k_a
    BY <2>1 DEF FillFields
  <2>3. \A k \in 1 .. 4 : fields[k][2] > 0
    BY <2>1, <2>2, PartsAreOk, PositiveHolds
  <2>4. DOMAIN cfg.fill = {"A_b", "k_b", "A_a", "k_a"}
    BY ShapeIs DEF HasShape
  <2> QED BY <2>2, <2>3, <2>4
<1>8. /\ cfg.q_max >= 0 /\ (cfg.L_kill # None => cfg.L_kill > 0) /\ cfg.n_paths >= 1
      /\ cfg.adverse >= 0 /\ cfg.iterations >= 1 /\ 0 < cfg.alpha /\ cfg.alpha < One
  <2>1. PICK a, b, c, e, f, g, h :
          /\ a = Clause(<<"risk", "q_max">>, cfg.q_max >= 0)
          /\ b = Clause(<<"risk", "L_kill">>, cfg.L_kill # None => cfg.L_kill > 0)
          /\ c = Clause(<<"mc", "n_paths">>, cfg.n_paths >= 1)
          /\ e = Clause(<<"analytics", "adverse_selection_horizon_steps">>, cfg.adverse >= 0)
          /\ f = Clause(<<"analytics", "bootstrap_iterations">>, cfg.iterations >= 1)
          /\ g = Clause(<<"analytics", "bootstrap_alpha">>, 0 < cfg.alpha /\ cfg.alpha < One)
          /\ h = Clause(<<"analytics", "sharpe_annualization_factor">>, cfg.sharpe > 0)
    OBVIOUS
  <2>2. RunClauses(cfg) = <<a, b, c, e, f, g, h>>
    BY <2>1 DEF RunClauses
  <2>3. a.ok /\ b.ok /\ c.ok /\ e.ok /\ f.ok /\ g.ok
    BY <2>2, PartsAreOk, SevenHold
  <2> QED BY <2>1, <2>3 DEF Clause
<1> QED BY <1>1, <1>2, <1>3, <1>4, <1>5, <1>6, <1>7, <1>8

LEMMA AllOkParts ==
    ASSUME NEW a, NEW b, IsSeq(a), IsSeq(b), AllOk(a \o b)
    PROVE  AllOk(a) /\ AllOk(b)
<1>1. Range(a \o b) = Range(a) \cup Range(b)
  BY ConcatSeqs
<1> QED BY <1>1 DEF AllOk

(* The row of a matrix that validate has passed.                           *)
LEMMA RowHolds ==
    ASSUME NEW cfg, NEW i, NEW n \in Nat, DOMAIN cfg.matrix[i] = 1 .. n, AllOk(RowClauses(cfg, i))
    PROVE  /\ Len(cfg.matrix[i]) = Len(cfg.regimes)
           /\ \A j \in 1 .. n : cfg.matrix[i][j] \in 0 .. One
           /\ Near(RowSum(cfg.matrix[i]), Tolerance)
<1> DEFINE row == cfg.matrix[i]
           entries == [j \in DOMAIN row |-> Clause(EntryPath(i, j), row[j] \in 0 .. One)]
           last == Clause(RowPath(i), Near(RowSum(row), Tolerance))
           wrong == Clause(RowPath(i), FALSE)
<1>1. RowClauses(cfg, i) = IF Len(row) # Len(cfg.regimes) THEN <<wrong>> ELSE entries \o <<last>>
  BY DEF RowClauses
<1>2. wrong.ok = FALSE /\ last.ok = Near(RowSum(row), Tolerance)
  BY DEF Clause
<1>3. DOMAIN entries = 1 .. n /\ entries = [j \in 1 .. n |-> entries[j]]
  OBVIOUS
<1>4. ASSUME NEW j \in 1 .. n PROVE entries[j].ok = (row[j] \in 0 .. One)
  BY DEF Clause
<1> HIDE DEF entries, last, wrong, row
<1>5. Len(row) = Len(cfg.regimes)
  BY <1>1, <1>2, TupleHolds
<1>6. IsSeq(entries) /\ IsSeq(<<last>>)
  BY <1>3, FunctionIsSeq, TuplesAreSeqs
<1>7. AllOk(entries) /\ AllOk(<<last>>)
  BY <1>1, <1>5, <1>6, AllOkParts
<1>8. last.ok
  BY <1>7, TupleHolds
<1>9. ASSUME NEW j \in 1 .. n PROVE row[j] \in 0 .. One
  <2>1. entries[j] \in Range(entries)
    BY <1>3 DEF Range
  <2>2. entries[j].ok
    BY <1>7, <2>1 DEF AllOk
  <2> QED BY <1>4, <2>2
<1> QED BY <1>2, <1>5, <1>8, <1>9 DEF row

LEMMA MatrixHolds ==
    ASSUME NEW d, LoadConfig(d).raised = "none", NEW cfg, cfg = Configuration(d),
           cfg.model = "regime_switching"
    PROVE  /\ SquareMatrix(cfg) /\ IsRow(cfg.matrix)
           /\ \A i \in DOMAIN cfg.matrix : IsRow(cfg.matrix[i]) /\ AllOk(RowClauses(cfg, i))
<1> DEFINE rows == [i \in DOMAIN cfg.matrix |-> RowClauses(cfg, i)]
           head == Clause(MatrixPath, SquareMatrix(cfg))
           tail == IF SquareMatrix(cfg) THEN FlattenSeq(rows) ELSE <<>>
<1>1. AllOk(SwitchingClauses(cfg))
  BY PartsAreOk DEF ModelClauses
<1>2. SwitchingClauses(cfg) = <<head>> \o tail
  BY DEF SwitchingClauses
<1>3. head.ok = SquareMatrix(cfg)
  BY DEF Clause
<1>4. HasShape(cfg)
  BY ShapeIs
<1>5. ASSUME SquareMatrix(cfg)
      PROVE  /\ IsRow(cfg.matrix) /\ IsSeq(rows) /\ DOMAIN rows = DOMAIN cfg.matrix
             /\ Len(rows) \in Nat /\ DOMAIN rows = 1 .. Len(rows)
             /\ \A i \in DOMAIN cfg.matrix :
                   IsRow(cfg.matrix[i]) /\ rows[i] = RowClauses(cfg, i) /\ IsSeq(rows[i])
  <2>1. cfg.matrix # None
    BY <1>5 DEF SquareMatrix
  <2>2. IsRow(cfg.matrix) /\ \A i \in DOMAIN cfg.matrix : IsRow(cfg.matrix[i])
    BY <1>4, <2>1 DEF HasShape
  <2>3. PICK n \in 0 .. 3 : DOMAIN cfg.matrix = 1 .. n
    BY <2>2 DEF IsRow
  <2>4. DOMAIN rows = 1 .. n /\ rows = [i \in 1 .. n |-> rows[i]]
        /\ \A i \in 1 .. n : rows[i] = RowClauses(cfg, i)
    BY <2>3
  <2> HIDE DEF rows
  <2>5. IsSeq(rows) /\ Len(rows) = n
    BY <2>4, FunctionIsSeq
  <2>6. ASSUME NEW i \in 1 .. n PROVE IsSeq(rows[i])
    <3>1. PICK m \in 0 .. 3 : DOMAIN cfg.matrix[i] = 1 .. m
      BY <2>2, <2>3 DEF IsRow
    <3>2. m \in Nat
      BY <3>1
    <3> QED BY <2>4, <3>1, <3>2, RowClausesIsSeq
  <2> QED BY <2>2, <2>3, <2>4, <2>5, <2>6
<1> HIDE DEF rows, head
<1>6. IsSeq(<<head>>) /\ IsSeq(tail)
  <2>1. IsSeq(<<head>>) /\ IsSeq(<<>>)
    BY TuplesAreSeqs
  <2>2. ASSUME SquareMatrix(cfg) PROVE IsSeq(FlattenSeq(rows))
    <3>1. \A i \in 1 .. Len(rows) : IsSeq(rows[i])
      BY <1>5, <2>2
    <3> QED BY <1>5, <2>2, <3>1, FlattenSeqIs
  <2> QED BY <2>1, <2>2
<1>7. AllOk(<<head>>) /\ AllOk(tail)
  <2> HIDE DEF tail
  <2> QED BY <1>1, <1>2, <1>6, AllOkParts
<1>8. SquareMatrix(cfg)
  BY <1>3, <1>7, TupleHolds
<1>9. AllOk(FlattenSeq(rows))
  BY <1>7, <1>8
<1>10. ASSUME NEW i \in DOMAIN cfg.matrix PROVE AllOk(RowClauses(cfg, i))
  <2>1. \A k \in 1 .. Len(rows) : IsSeq(rows[k])
    BY <1>5, <1>8
  <2>2. \A k \in 1 .. Len(rows) : Range(rows[k]) \subseteq Range(FlattenSeq(rows))
    BY <1>5, <1>8, <2>1, FlattenSeqIs
  <2>3. Range(rows[i]) \subseteq Range(FlattenSeq(rows)) /\ rows[i] = RowClauses(cfg, i)
    BY <1>5, <1>8, <2>2
  <2> QED BY <1>9, <2>3 DEF AllOk
<1> QED BY <1>5, <1>8, <1>10

LEMMA MatrixIsAccepted ==
    ASSUME NEW d, LoadConfig(d).raised = "none", NEW cfg, cfg = Configuration(d),
           cfg.model = "regime_switching"
    PROVE  MatrixAccepted(cfg.matrix, NRegimes(cfg))
<1>1. SquareMatrix(cfg) /\ \A i \in DOMAIN cfg.matrix : IsRow(cfg.matrix[i]) /\ AllOk(RowClauses(cfg, i))
  BY MatrixHolds
<1>2. ASSUME NEW i \in DOMAIN cfg.matrix
      PROVE  /\ Len(cfg.matrix[i]) = Len(cfg.regimes) /\ Range(cfg.matrix[i]) \subseteq 0 .. One
             /\ Near(RowSum(cfg.matrix[i]), LooseTolerance)
  <2>1. PICK n \in 0 .. 3 : DOMAIN cfg.matrix[i] = 1 .. n
    BY <1>1 DEF IsRow
  <2>2. n \in Nat
    BY <2>1
  <2>3. /\ Len(cfg.matrix[i]) = Len(cfg.regimes) /\ Near(RowSum(cfg.matrix[i]), Tolerance)
        /\ \A j \in 1 .. n : cfg.matrix[i][j] \in 0 .. One
    BY <1>1, <2>1, <2>2, RowHolds
  <2>4. Range(cfg.matrix[i]) \subseteq 0 .. One
    BY <2>1, <2>3 DEF Range
  <2>5. Near(RowSum(cfg.matrix[i]), LooseTolerance)
    BY <2>3 DEF Near, Tolerance, LooseTolerance
  <2> QED BY <2>3, <2>4, <2>5
<1> QED BY <1>1, <1>2 DEF MatrixAccepted, SquareMatrix, NRegimes

(* No number of a document is beyond the floats of the time grid.          *)
IsSmall(d) == \A path \in DOMAIN d : d[path].num < LargestNumber

LEMMA NumberStands ==
    ASSUME NEW d, IsDocument(d), IsSmall(d), NEW path, KindAt(d, path) \in Number
    PROVE  FloatAt(d, path) \in Int /\ FloatAt(d, path) < LargestNumber
<1>1. path \in DOMAIN d
  BY DEF KindAt, Number
<1> QED BY <1>1 DEF IsDocument, IsNode, FloatAt, IsSmall

LEMMA NumbersDemand ==
    ASSUME NEW d, NEW path, NEW n \in Nat, NEW keys, DOMAIN keys = 1 .. n, Accepts(d, Numbers(path, keys))
    PROVE  \A k \in 1 .. n : KindAt(d, Append(path, keys[k])) \in Number
<1> DEFINE fields == [k \in DOMAIN keys |-> Field(keys[k], Number)]
<1>1. Numbers(path, keys) = Mapping(path, fields, {}) /\ DOMAIN fields = 1 .. n
  BY DEF Numbers
<1>2. \A k \in 1 .. n : fields[k].key = keys[k] /\ fields[k].kinds = Number
  BY DEF Field
<1> HIDE DEF fields
<1>3. \A k \in 1 .. n : Demands(d, path, fields[k])
  BY <1>1, MappingDemands
<1> QED BY <1>2, <1>3 DEF Demands

LEMMA HorizonIsWhole ==
    ASSUME NEW d, IsDocument(d), IsSmall(d), LoadConfig(d).raised = "none",
           NEW cfg, cfg = Configuration(d)
    PROVE  /\ cfg.horizon.T \in Int /\ cfg.horizon.T < LargestNumber
           /\ cfg.horizon.dt \in Int /\ cfg.horizon.dt < LargestNumber
<1>1. Accepts(d, StructuralChecks(d))
  BY LoadedIsAccepted
<1>2. PICK keys, p : keys = <<"T", "dt">> /\ p = <<"horizon">>
  OBVIOUS
<1>3. DOMAIN keys = 1 .. 2 /\ keys[1] = "T" /\ keys[2] = "dt"
  BY <1>2
<1>4. Accepts(d, Numbers(p, keys))
  BY <1>1, <1>2, StructureIs
<1>5. \A k \in 1 .. 2 : KindAt(d, Append(p, keys[k])) \in Number
  BY <1>3, <1>4, NumbersDemand
<1>6. KindAt(d, Append(p, "T")) \in Number /\ KindAt(d, Append(p, "dt")) \in Number
  BY <1>3, <1>5
<1>7. cfg.horizon = Floats(d, p, {"T", "dt"})
  BY <1>2, ConfigurationIs
<1>8. cfg.horizon.T = FloatAt(d, Append(p, "T")) /\ cfg.horizon.dt = FloatAt(d, Append(p, "dt"))
  BY <1>7 DEF Floats
<1> QED BY <1>6, <1>8, NumberStands

LEMMA GrainsArePositive ==
    ASSUME NEW x \in Int, x > 0, x < LargestNumber
    PROVE  Float(x * Grain, One) \in Nat /\ Float(x * Grain, One) > 0
<1>1. x * Grain \in Nat /\ One \in Nat \ {0} /\ One <= x * Grain /\ FitsIn(x * Grain, One, 1048576)
  BY DEF Grain, One, FitsIn, Significands, LargestNumber
<1> QED BY <1>1, FloatIsPositive

LEMMA GridIsPositive ==
    ASSUME NEW d, IsDocument(d), IsSmall(d), LoadConfig(d).raised = "none",
           NEW cfg, cfg = Configuration(d)
    PROVE  /\ TGrains(cfg) \in Nat /\ TGrains(cfg) > 0
           /\ DtGrains(cfg) \in Nat /\ DtGrains(cfg) > 0
<1>1. cfg.horizon.T > 0 /\ cfg.horizon.dt > 0
  BY ValidateHolds
<1>2. PICK t \in Int, dt \in Int : t = cfg.horizon.T /\ dt = cfg.horizon.dt
  BY HorizonIsWhole
<1>3. t > 0 /\ t < LargestNumber /\ dt > 0 /\ dt < LargestNumber
  BY <1>1, <1>2, HorizonIsWhole
<1> QED BY <1>2, <1>3, GrainsArePositive DEF TGrains, DtGrains

LEMMA AlphaIsWhole ==
    ASSUME NEW d, IsDocument(d), LoadConfig(d).raised = "none", NEW cfg, cfg = Configuration(d)
    PROVE  cfg.alpha \in Int
<1>1. Accepts(d, StructuralChecks(d))
  BY LoadedIsAccepted
<1>2. PICK fields, more, p :
        /\ fields = <<Field("adverse_selection_horizon_steps", {"int"}),
                      Field("bootstrap_iterations", {"int"}), Field("bootstrap_alpha", Number),
                      Field("sharpe_annualization_factor", Number)>>
        /\ p = <<"analytics">> /\ more = {}
  OBVIOUS
<1>3. DOMAIN fields = 1 .. 4 /\ fields[3] = Field("bootstrap_alpha", Number)
  BY <1>2
<1>4. Accepts(d, Mapping(p, fields, more))
  BY <1>1, <1>2, StructureIs
<1>5. KindAt(d, Append(p, "bootstrap_alpha")) \in Number
  <2>1. \A f \in 1 .. 4 : Demands(d, p, fields[f])
    BY <1>3, <1>4, MappingDemands
  <2> QED BY <1>3, <2>1 DEF Demands, Field
<1>6. Append(p, "bootstrap_alpha") = <<"analytics", "bootstrap_alpha">>
  BY <1>2, TwoKeys, NamesAre
<1>7. cfg.alpha = FloatAt(d, Append(p, "bootstrap_alpha"))
  BY <1>6 DEF Configuration
<1>8. Append(p, "bootstrap_alpha") \in DOMAIN d
  BY <1>5 DEF KindAt, Number
<1> QED BY <1>7, <1>8 DEF IsDocument, IsNode, FloatAt

(* A configuration that is loaded passes the checks of every later stage.  *)
THEOREM LoadedIsRunnable ==
    ASSUME NEW d, IsDocument(d), IsSmall(d), LoadConfig(d).raised = "none",
           NEW cfg, cfg = Configuration(d)
    PROVE  SweepAccepts(cfg) /\ (cfg.model = "regime_switching" => SwitchingAccepts(cfg))
<1>1. Described(cfg)
  BY DescribedIs
<1>2. cfg.master_seed \in Int /\ cfg.n_paths \in Int /\ cfg.iterations \in Int /\ cfg.q_max \in Int
  BY <1>1 DEF Described
<1>3. HorizonAccepts(cfg)
  BY GridIsPositive, ValidateHolds DEF HorizonAccepts
<1>4. IsRow(cfg.regimes)
  BY <1>1 DEF Described, HasShape
<1>5. PICK n \in 0 .. 3 : DOMAIN cfg.regimes = 1 .. n
  BY <1>4 DEF IsRow
<1>6. NRegimes(cfg) = n /\ n >= 1
  <2>1. PICK regimes : regimes = cfg.regimes
    OBVIOUS
  <2>2. regimes = [k \in 1 .. Length(d, <<"mid_price", "regimes">>) |-> Regime(d, k)]
    BY <2>1, ConfigurationIs
  <2>3. IsSeq(regimes) /\ Len(regimes) = n
    <3>1. DOMAIN regimes = 1 .. n /\ regimes = [k \in 1 .. n |-> regimes[k]] /\ n \in Nat
      BY <1>5, <2>1, <2>2
    <3> QED BY <3>1, FunctionIsSeq
  <2>4. regimes # <<>>
    BY <2>1, ValidateHolds
  <2>5. n # 0
    BY <2>3, <2>4, EmptySeq DEF IsSeq
  <2> QED BY <2>1, <2>3, <2>5 DEF NRegimes
<1>7. SeedTreeAccepts(cfg)
  BY <1>6, ValidateHolds DEF SeedTreeAccepts
<1>8. ASSUME NEW r \in DOMAIN cfg.regimes PROVE GbmAccepts(cfg, r) /\ ScheduleAccepts(cfg, r)
  <2>1. cfg.regimes[r].sigma >= 0 /\ GammaOk(cfg.regimes[r])
    BY <1>8, ValidateHolds
  <2>2. Gamma(cfg, r) > 0
    BY <2>1, ValidateHolds DEF Gamma, GammaOk
  <2> QED BY <1>3, <2>1, <2>2, ValidateHolds DEF GbmAccepts, ScheduleAccepts, HorizonAccepts
<1>9. RunPathAccepts(cfg)
  BY <1>3, ValidateHolds DEF RunPathAccepts, HorizonAccepts
<1>10. SymmetricAccepts(cfg) /\ AdverseSelectionAccepts(cfg)
  BY ValidateHolds DEF SymmetricAccepts, AdverseSelectionAccepts
<1>11. BootstrapAccepts(cfg)
  <2>1. cfg.alpha \in Int
    BY AlphaIsWhole
  <2>2. cfg.alpha \in 1 .. One - 1
    BY SMTT(30), <2>1, ValidateHolds DEF One
  <2> QED BY <2>2, ValidateHolds DEF BootstrapAccepts
<1>12. Valid(cfg)
  BY LoadedIs, LoadedIsValid
<1>13. SweepAccepts(cfg)
  BY <1>7, <1>8, <1>9, <1>10, <1>11, <1>12 DEF SweepAccepts
<1>14. ASSUME cfg.model = "regime_switching" PROVE SwitchingAccepts(cfg)
  BY <1>3, <1>14, ValidateHolds, MatrixIsAccepted DEF SwitchingAccepts
<1> QED BY <1>13, <1>14

-----------------------------------------------------------------------------
(* Edits leave a document with small numbers, in which every node stands   *)
(* in another.                                                             *)

HasParents(d) == \A path \in DOMAIN d \ {<<>>} : Front(path) \in DOMAIN d
IsTree(d) == IsDocument(d) /\ IsSmall(d) /\ HasParents(d)

LEMMA FirstPart ==
    ASSUME NEW S, NEW p \in Seq(S), NEW n \in 0 .. Len(p)
    PROVE  SubSeq(p, 1, n) \in Seq(S) /\ Len(SubSeq(p, 1, n)) = n
           /\ \A i \in 1 .. n : SubSeq(p, 1, n)[i] = p[i]
<1>1. n \in Int /\ Len(p) \in Nat
  BY LenProperties
<1>2. \A i \in 1 .. n : p[i] \in S
  BY <1>1, ElementOfSeq
<1>3. PICK q : q = SubSeq(p, 1, n)
  OBVIOUS
<1>4. q \in Seq(S) /\ Len(q) = (IF 1 <= n THEN n - 1 + 1 ELSE 0)
      /\ \A i \in 1 .. n - 1 + 1 : q[i] = p[1 + i - 1]
  BY <1>1, <1>2, <1>3, SubSeqProperties
<1> QED BY <1>1, <1>3, <1>4

LEMMA PrefixIs ==
    ASSUME NEW S, NEW p \in Seq(S), NEW q \in Seq(S)
    PROVE  IsPrefix(p, q) <=> Len(p) <= Len(q) /\ \A i \in 1 .. Len(p) : p[i] = q[i]
<1>1. PICK n \in Nat : n = Len(p)
  BY LenProperties
<1>2. Len(q) \in Nat
  BY LenProperties
<1>3. SubSeq(p, 1, n) = p
  BY <1>1, SubSeqFull
<1>4. ASSUME n <= Len(q)
      PROVE  SubSeq(q, 1, n) = p <=> \A i \in 1 .. n : p[i] = q[i]
  <2>1. PICK r : r = SubSeq(q, 1, n)
    OBVIOUS
  <2>2. n \in 0 .. Len(q)
    BY <1>2, <1>4
  <2>3. r \in Seq(S) /\ Len(r) = n /\ \A i \in 1 .. n : r[i] = q[i]
    BY <2>1, <2>2, FirstPart
  <2>4. ASSUME \A i \in 1 .. n : p[i] = q[i] PROVE r = p
    BY <1>1, <2>3, <2>4, SeqEqual
  <2> QED BY <2>1, <2>3, <2>4
<1> QED BY <1>1, <1>2, <1>3, <1>4 DEF IsPrefix

LEMMA FrontIs ==
    ASSUME NEW S, NEW p \in Seq(S), p # <<>>
    PROVE  /\ Front(p) \in Seq(S) /\ Len(p) \in Nat /\ Len(Front(p)) = Len(p) - 1
           /\ \A i \in 1 .. Len(p) - 1 : Front(p)[i] = p[i]
<1>1. Len(p) \in Nat /\ Len(p) # 0
  BY LenProperties, EmptySeq
<1>2. PICK n \in 0 .. Len(p) : n = Len(p) - 1
  BY SMTT(30), <1>1
<1>3. Front(p) = SubSeq(p, 1, n)
  BY <1>2 DEF Front
<1> QED BY <1>1, <1>2, <1>3, FirstPart

LEMMA PrefixOfFront ==
    ASSUME NEW S, NEW p \in Seq(S), p # <<>>, NEW q \in Seq(S), IsPrefix(q, Front(p))
    PROVE  IsPrefix(q, p) /\ q # p
<1>1. PICK r \in Seq(S) : r = Front(p)
  BY FrontIs
<1>2. /\ Len(p) \in Nat /\ Len(r) = Len(p) - 1 /\ Len(q) \in Nat
      /\ \A i \in 1 .. Len(p) - 1 : r[i] = p[i]
  BY <1>1, FrontIs, LenProperties
<1>3. Len(q) <= Len(r) /\ \A i \in 1 .. Len(q) : q[i] = r[i]
  BY <1>1, PrefixIs
<1>4. Len(q) <= Len(p) /\ \A i \in 1 .. Len(q) : q[i] = p[i]
  BY <1>2, <1>3
<1>5. Len(q) # Len(p)
  BY <1>2, <1>3
<1> QED BY <1>4, <1>5, PrefixIs

(* Once a path is gone with all below it, the others keep their parents.   *)
LEMMA ParentStays ==
    ASSUME IsTree(doc), NEW path \in DOMAIN doc, NEW p \in DOMAIN doc \ Below(path), p # <<>>
    PROVE  Front(p) \in DOMAIN doc \ Below(path)
<1>1. path \in Seq(STRING) /\ p \in Seq(STRING) /\ Front(p) \in DOMAIN doc
  BY DEF IsTree, IsDocument, HasParents
<1>2. ~IsPrefix(path, p)
  BY DEF Below
<1>3. ~IsPrefix(path, Front(p))
  BY <1>1, <1>2, PrefixOfFront
<1> QED BY <1>1, <1>3 DEF Below

LEMMA EraseIsTree ==
    ASSUME IsTree(doc), NEW path \in DOMAIN doc
    PROVE  IsTree(Erase(path))
<1>1. DOMAIN Erase(path) = DOMAIN doc \ Below(path)
      /\ \A p \in DOMAIN doc \ Below(path) : Erase(path)[p] = doc[p]
  BY DEF Erase
<1>2. IsDocument(Erase(path)) /\ IsSmall(Erase(path))
  BY <1>1 DEF IsTree, IsDocument, IsSmall
<1>3. HasParents(Erase(path))
  BY <1>1, ParentStays DEF HasParents
<1> QED BY <1>2, <1>3 DEF IsTree

LEMMA PutIsTree ==
    ASSUME IsTree(doc), NEW path \in DOMAIN doc, path # <<>>, NEW node, IsNode(node), node.num < LargestNumber
    PROVE  IsTree(Put(path, node))
<1>1. /\ DOMAIN Put(path, node) = (DOMAIN doc \ Below(path)) \cup {path}
      /\ \A p \in DOMAIN Put(path, node) : Put(path, node)[p] = IF p = path THEN node ELSE doc[p]
  BY DEF Put
<1>2. IsDocument(Put(path, node)) /\ IsSmall(Put(path, node))
  BY <1>1 DEF IsTree, IsDocument, IsSmall
<1>3. ASSUME NEW p \in DOMAIN Put(path, node) \ {<<>>}
      PROVE  Front(p) \in DOMAIN Put(path, node)
  <2>1. CASE p = path
    <3>1. path \in Seq(STRING) /\ Front(path) \in DOMAIN doc
      BY DEF IsTree, IsDocument, HasParents
    <3>2. ~IsPrefix(path, Front(path))
      BY <3>1, PrefixOfFront
    <3> QED BY <1>1, <2>1, <3>1, <3>2 DEF Below
  <2>2. CASE p # path
    BY <1>1, <1>3, <2>2, ParentStays
  <2> QED BY <2>1, <2>2
<1>4. HasParents(Put(path, node))
  BY <1>3 DEF HasParents
<1> QED BY <1>2, <1>4 DEF IsTree

LEMMA AppendTo ==
    ASSUME NEW S, NEW s \in Seq(S), NEW e \in S, NEW p, p = Append(s, e)
    PROVE  /\ p \in Seq(S) /\ Len(s) \in Nat /\ Len(p) = Len(s) + 1
           /\ \A i \in 1 .. Len(s) : p[i] = s[i]
<1>1. p \in Seq(S) /\ Len(p) = Len(s) + 1
  BY AppendProperties
<1>2. \A i \in 1 .. Len(s) : p[i] = s[i]
  BY AppendProperties
<1> QED BY <1>1, <1>2, LenProperties

LEMMA AddIsTree ==
    ASSUME IsTree(doc), NEW path \in DOMAIN doc, NEW key \in STRING
    PROVE  IsTree(Add(Append(path, key), IntNode(1))) /\ Append(path, key) \in Seq(STRING) \ {<<>>}
<1>1. PICK p, node, S : p = Append(path, key) /\ node = IntNode(1) /\ S = STRING
  OBVIOUS
<1>2. path \in Seq(S) /\ key \in S
  BY <1>1 DEF IsTree, IsDocument
<1>3. p \in Seq(S) /\ p # <<>> /\ Front(p) = path
  <2>1. p \in Seq(S) /\ Len(p) = Len(path) + 1 /\ Len(path) \in Nat
        /\ \A i \in 1 .. Len(path) : p[i] = path[i]
    <3>1. PICK word \in S : word = key
      BY <1>2
    <3>2. p = Append(path, word)
      BY <1>1, <3>1
    <3>3. p \in Seq(S)
      BY <1>2, <3>2, AppendTo
    <3>5. Len(p) = Len(path) + 1
      BY <1>2, <3>2, AppendTo
    <3>6. Len(path) \in Nat
      BY <1>2, LenProperties
    <3>4. \A i \in 1 .. Len(path) : p[i] = path[i]
      BY <1>2, <3>2, AppendTo
    <3> QED BY <3>3, <3>4, <3>5, <3>6
  <2>2. p # <<>>
    BY <2>1, EmptySeq
  <2>3. Front(p) \in Seq(S) /\ Len(Front(p)) = Len(path)
        /\ \A i \in 1 .. Len(path) : Front(p)[i] = path[i]
    BY <2>1, <2>2, FrontIs
  <2> QED BY <1>2, <2>1, <2>2, <2>3, SeqEqual
<1>4. IsNode(node) /\ node.num < LargestNumber
  <2>1. node.kind = "int" /\ node.num = 20
    <3>1. IntNode(1).kind = "int" /\ IntNode(1).num = 1 * One
      BY NodesAre
    <3> QED BY <1>1, <3>1 DEF One
  <2>2. node.kind \in Kinds
    BY <2>1 DEF Kinds
  <2> QED BY <2>1, <2>2 DEF IsNode, LargestNumber
<1>5. /\ DOMAIN Add(p, node) = DOMAIN doc \cup {p}
      /\ \A q \in DOMAIN Add(p, node) : Add(p, node)[q] = IF q \in DOMAIN doc THEN doc[q] ELSE node
  BY DEF Add
<1>6. IsDocument(Add(p, node)) /\ IsSmall(Add(p, node))
  BY <1>1, <1>3, <1>4, <1>5 DEF IsTree, IsDocument, IsSmall
<1>7. HasParents(Add(p, node))
  BY <1>3, <1>5 DEF IsTree, HasParents
<1> QED BY <1>1, <1>3, <1>6, <1>7 DEF IsTree

-----------------------------------------------------------------------------
(* The study.                                                              *)

Stages == {"file", "rejected", "loaded", "crashed", "swept", "walked", "compared"}
Comparable ==
    \E as, baseline \in [1 .. Cfg.n_paths -> Metrics],
       idx \in [1 .. Cfg.iterations -> [1 .. Cfg.n_paths -> 1 .. Cfg.n_paths]] :
        comparison = [as |-> as, baseline |-> baseline, idx |-> idx]

(* The inductive invariant: load is what load_config makes of the document *)
(* as it is, and no stage has refused it.                                  *)
StudyInv ==
    /\ IsTree(doc)
    /\ stage \in Stages
    /\ stage = "file" => load = None
    /\ stage # "file" => load = LoadConfig(doc)
    /\ Accepted => load.raised = "none"
    /\ stage = "rejected" => load.raised # "none"
    /\ stage = "walked" => Cfg.model = "regime_switching"
    /\ stage # "compared" => comparison = None
    /\ stage = "compared" => Comparable

LEMMA InitEstablishes ==
    ASSUME Init
    PROVE  StudyInv
<1>1. PICK base \in Bases : doc = base
  BY DEF Init
<1>2. IsTree(base)
  BY StudyAssumption DEF IsTree, IsSmall, HasParents
<1> QED BY <1>1, <1>2 DEF Init, StudyInv, Stages, Accepted

LEMMA EditKeeps ==
    ASSUME StudyInv, Edit
    PROVE  StudyInv'
<1>1. stage = "file" /\ stage' = "file" /\ load' = load /\ comparison' = comparison
  BY DEF Edit
<1>2. IsTree(doc')
  <2>1. PICK path \in DOMAIN doc \ {<<>>} :
          \/ doc' = Erase(path)
          \/ \E node \in Values \cup GridValues : doc' = Put(path, node)
          \/ \E key \in NewKeys : doc' = Add(Append(path, key), IntNode(1))
    BY DEF Edit
  <2>2. IsTree(doc)
    BY DEF StudyInv
  <2>3. CASE doc' = Erase(path)
    BY <2>2, <2>3, EraseIsTree
  <2>4. ASSUME NEW node \in Values \cup GridValues, doc' = Put(path, node)
        PROVE  IsTree(doc')
    BY <2>2, <2>4, PutIsTree, StudyAssumption
  <2>5. ASSUME NEW key \in NewKeys, doc' = Add(Append(path, key), IntNode(1))
        PROVE  IsTree(doc')
    <3>1. key \in STRING
      BY StudyAssumption
    <3> QED BY <2>2, <2>5, <3>1, AddIsTree
  <2> QED BY <2>1, <2>3, <2>4, <2>5
<1>3. IsTree(doc)'
  BY <1>2 DEF IsTree, IsDocument, IsSmall, HasParents
<1> QED BY <1>1, <1>3 DEF StudyInv, Stages, Accepted

LEMMA LoadKeeps ==
    ASSUME StudyInv, Load
    PROVE  StudyInv'
<1>1. stage = "file" /\ doc' = doc /\ comparison' = comparison /\ load' = LoadConfig(doc)
      /\ stage' = IF load'.raised = "none" THEN "loaded" ELSE "rejected"
  BY DEF Load
<1>2. IsTree(doc)'
  BY <1>1 DEF StudyInv, IsTree, IsDocument, IsSmall, HasParents
<1>3. (load = LoadConfig(doc))'
  BY <1>1
<1> QED BY <1>1, <1>2, <1>3 DEF StudyInv, Stages, Accepted

LEMMA LaterKeeps ==
    ASSUME StudyInv, Sweep \/ Switch
    PROVE  StudyInv'
<1>1. /\ stage = "loaded" /\ doc' = doc /\ load' = load /\ comparison' = comparison
      /\ stage' \in {"swept", "walked", "crashed"}
      /\ stage' = "walked" => Cfg.model = "regime_switching"
  BY DEF Sweep, Switch
<1>2. IsTree(doc)'
  BY <1>1 DEF StudyInv, IsTree, IsDocument, IsSmall, HasParents
<1>3. (load = LoadConfig(doc))'
  BY <1>1 DEF StudyInv
<1> QED BY <1>1, <1>2, <1>3 DEF StudyInv, Stages, Accepted, Cfg

LEMMA CompareKeeps ==
    ASSUME StudyInv, Compare
    PROVE  StudyInv'
<1>1. stage = "swept" /\ stage' = "compared" /\ doc' = doc /\ load' = load
  BY DEF Compare
<1>2. IsTree(doc)'
  BY <1>1 DEF StudyInv, IsTree, IsDocument, IsSmall, HasParents
<1>3. (load = LoadConfig(doc))'
  BY <1>1 DEF StudyInv
<1>4. Comparable'
  BY <1>1 DEF Compare, Comparable, Cfg
<1> QED BY <1>1, <1>2, <1>3, <1>4 DEF StudyInv, Stages, Accepted

LEMMA StudyIsInv == Spec => []StudyInv
<1>1. Init => StudyInv
  BY InitEstablishes
<1>2. StudyInv /\ [Next]_vars => StudyInv'
  <2> SUFFICES ASSUME StudyInv, [Next]_vars PROVE StudyInv'
    OBVIOUS
  <2>1. CASE Edit
    BY <2>1, EditKeeps
  <2>2. CASE Load
    BY <2>2, LoadKeeps
  <2>3. CASE Sweep \/ Switch
    BY <2>3, LaterKeeps
  <2>4. CASE Compare
    BY <2>4, CompareKeeps
  <2>5. CASE UNCHANGED vars
    BY <2>5 DEF vars, StudyInv, IsTree, IsDocument, IsSmall, HasParents, Stages, Accepted, Comparable, Cfg
  <2> QED BY <2>1, <2>2, <2>3, <2>4, <2>5 DEF Next
<1> QED BY <1>1, <1>2, PTL DEF Spec

(* A configuration that is loaded, as every later stage reads it.          *)
LEMMA CfgIs ==
    ASSUME StudyInv, Accepted
    PROVE  /\ IsDocument(doc) /\ IsSmall(doc) /\ LoadConfig(doc).raised = "none"
           /\ load = LoadConfig(doc) /\ Cfg = Configuration(doc)
<1>1. stage # "file"
  BY DEF Accepted
<1> QED BY <1>1, LoadedIs DEF StudyInv, IsTree, Cfg

(* No step of a later stage refuses the configuration it is given.         *)
LEMMA NeverCrashes == Spec => [](stage # "crashed")
<1>1. Init => stage # "crashed"
  BY DEF Init
<1>2. StudyInv /\ stage # "crashed" /\ [Next]_vars => (stage # "crashed")'
  <2> SUFFICES ASSUME StudyInv, stage # "crashed", [Next]_vars PROVE stage' # "crashed"
    OBVIOUS
  <2>1. CASE Sweep \/ Switch
    <3>1. stage = "loaded" /\ Accepted
      BY <2>1 DEF Sweep, Switch, Accepted
    <3>2. SweepAccepts(Cfg) /\ (Cfg.model = "regime_switching" => SwitchingAccepts(Cfg))
      BY <3>1, CfgIs, LoadedIsRunnable
    <3> QED BY <2>1, <3>2 DEF Sweep, Switch
  <2>2. CASE Edit
    BY <2>2 DEF Edit
  <2>3. CASE Load
    BY <2>3 DEF Load
  <2>4. CASE Compare
    BY <2>4 DEF Compare
  <2>5. CASE UNCHANGED vars
    BY <2>5 DEF vars
  <2> QED BY <2>1, <2>2, <2>3, <2>4, <2>5 DEF Next
<1> QED BY <1>1, <1>2, StudyIsInv, PTL DEF Spec

(* What load_config accepts, run_backtest, the simulators, the schedules,  *)
(* run_path and the bootstrap accept as well, each with checks of its own; *)
(* and it is written back as a file that loads as the same configuration.  *)
THEOREM LoadedRuns == Spec => []LoadedMeansRunnable
<1>1. StudyInv /\ stage # "crashed" => LoadedMeansRunnable
  <2> SUFFICES ASSUME StudyInv, stage = "loaded" PROVE LoadConfig(Dump(Cfg)) = load
    BY DEF LoadedMeansRunnable
  <2>1. IsDocument(doc) /\ LoadConfig(doc).raised = "none" /\ load = LoadConfig(doc)
    BY CfgIs DEF Accepted
  <2> QED BY <2>1, DumpLoads DEF Cfg
<1> QED BY <1>1, StudyIsInv, NeverCrashes, PTL

-----------------------------------------------------------------------------
(* The walk over the regimes.                                              *)

LEMMA SetSize ==
    ASSUME NEW a \in Int, NEW b \in Int
    PROVE  IsFiniteSet(a .. b) /\ Cardinality(a .. b) = IF a > b THEN 0 ELSE b - a + 1
  BY FS_Interval

(* Rows are sequences of probabilities.                                    *)
IsDistribution(row, n) == row \in Seq(0 .. One) /\ Len(row) = n
Partial(row, j) == SumFunctionOnSet(row, 1 .. j)

LEMMA PartialSums ==
    ASSUME NEW n \in Nat, NEW row, IsDistribution(row, n)
    PROVE  /\ Partial(row, 0) = 0
           /\ \A j \in 0 .. n : Partial(row, j) \in Int
           /\ \A j \in 1 .. n : Partial(row, j) = Partial(row, j - 1) + row[j] /\ row[j] \in 0 .. One
<1>1. Partial(row, 0) = 0
  <2>1. 1 .. 0 = {}
    OBVIOUS
  <2> QED BY <2>1, SumOfNone DEF Partial
<1>2. \A j \in 1 .. n : row[j] \in 0 .. One
  BY ElementOfSeq DEF IsDistribution
<1>3. ASSUME NEW j \in 1 .. n
      PROVE  Partial(row, j - 1) \in Int /\ Partial(row, j) = Partial(row, j - 1) + row[j]
  <2>1. IsFiniteSet(1 .. j - 1)
    BY SetSize
  <2>2. j \notin 1 .. j - 1 /\ (1 .. j - 1) \cup {j} = 1 .. j
    OBVIOUS
  <2>3. IntOn(row, (1 .. j - 1) \cup {j})
    BY <1>2, <2>2 DEF IntOn, One
  <2> QED BY <2>1, <2>2, <2>3, SumOfMore DEF Partial
<1>4. ASSUME NEW j \in 0 .. n PROVE Partial(row, j) \in Int
  <2>1. CASE j = 0
    BY <1>1, <2>1
  <2>2. CASE j # 0
    <3>1. j \in 1 .. n /\ row[j] \in Int
      BY <1>2, <2>2 DEF One
    <3> QED BY <1>3, <3>1
  <2> QED BY <2>1, <2>2
<1> QED BY <1>1, <1>2, <1>3, <1>4

(* Along a row the sums grow.                                              *)
Grows(c, n) == \A i, j \in 0 .. n : i <= j => c[i] <= c[j]

LEMMA StepsUp ==
    ASSUME NEW n \in Nat, NEW c \in [0 .. n -> Int], \A j \in 1 .. n : c[j - 1] <= c[j]
    PROVE  Grows(c, n)
<1> DEFINE T == {d \in Nat : \A i \in 0 .. n : i + d <= n => c[i] <= c[i + d]}
<1>1. 0 \in T
  OBVIOUS
<1>2. ASSUME NEW d \in Nat, d \in T PROVE d + 1 \in T
  <2> SUFFICES ASSUME NEW i \in 0 .. n, i + (d + 1) <= n PROVE c[i] <= c[i + (d + 1)]
    OBVIOUS
  <2>1. c[i] <= c[i + d]
    BY <1>2
  <2>2. i + (d + 1) \in 1 .. n /\ (i + (d + 1)) - 1 = i + d /\ i + d \in 0 .. n
    OBVIOUS
  <2>3. c[i + d] <= c[i + (d + 1)]
    BY <2>2
  <2>4. c[i] \in Int /\ c[i + d] \in Int /\ c[i + (d + 1)] \in Int
    BY <2>2
  <2> QED BY <2>1, <2>3, <2>4
<1>3. Nat \subseteq T
  <2> HIDE DEF T
  <2> QED BY <1>1, <1>2, SetInduction
<1>4. ASSUME NEW i \in 0 .. n, NEW j \in 0 .. n, i <= j PROVE c[i] <= c[j]
  <2>1. PICK d \in Nat : j = i + d
    BY <1>4
  <2>2. d \in T
    BY <1>3
  <2> QED BY <2>1, <2>2
<1> QED BY <1>4 DEF Grows

(* P_cum in terms of the sums c of the row.                                *)
Accumulates(row, n, c) ==
    /\ c \in [0 .. n -> Nat] /\ c[0] = 0 /\ Grows(c, n)
    /\ \A j \in 1 .. n : row[j] = c[j] - c[j - 1]
    /\ c[n] = RowSum(row)
    /\ \A j \in 1 .. n : Cumulative(row)[j] = IF j = n THEN One ELSE c[j]

LEMMA RowAccumulates ==
    ASSUME NEW n \in Nat, NEW row, IsDistribution(row, n)
    PROVE  \E c : Accumulates(row, n, c)
<1>1. PICK c : c = [j \in 0 .. n |-> Partial(row, j)]
  OBVIOUS
<1>2. c \in [0 .. n -> Int] /\ c[0] = 0
  BY <1>1, PartialSums
<1>3. \A j \in 1 .. n : c[j] = c[j - 1] + row[j] /\ row[j] \in 0 .. One
  BY <1>1, PartialSums
<1>4. ASSUME NEW j \in 1 .. n PROVE c[j - 1] <= c[j] /\ row[j] = c[j] - c[j - 1]
  <2>1. PICK a, b, d : a = c[j - 1] /\ b = c[j] /\ d = row[j]
    OBVIOUS
  <2>2. j - 1 \in 0 .. n /\ j \in 0 .. n
    OBVIOUS
  <2>3. a \in Int /\ b \in Int
    BY <1>2, <2>1, <2>2
  <2>4. d \in 0 .. 20 /\ b = a + d
    BY <1>3, <2>1 DEF One
  <2>5. a <= b /\ d = b - a
    BY <2>3, <2>4
  <2> QED BY <2>1, <2>5
<1>5. Grows(c, n)
  BY <1>2, <1>4, StepsUp
<1>6. c \in [0 .. n -> Nat]
  <2>1. \A j \in 0 .. n : c[0] <= c[j]
    BY <1>5 DEF Grows
  <2> QED BY <1>2, <2>1
<1>7. DOMAIN row = 1 .. n /\ Len(row) = n
  BY LenProperties DEF IsDistribution
<1>8. c[n] = RowSum(row)
  BY <1>1, <1>7 DEF RowSum, SumFunction, Partial
<1>9. ASSUME NEW j \in 1 .. n PROVE Cumulative(row)[j] = IF j = n THEN One ELSE c[j]
  <2>1. PICK q : q = SubSeq(row, 1, j)
    OBVIOUS
  <2>2. q \in Seq(0 .. One) /\ Len(q) = j /\ \A i \in 1 .. j : q[i] = row[i]
    <3>1. row \in Seq(0 .. One) /\ j \in 0 .. Len(row)
      BY <1>7 DEF IsDistribution
    <3> QED BY <2>1, <3>1, FirstPart
  <2>3. DOMAIN q = 1 .. j
    BY <2>2, LenProperties
  <2>4. IsFiniteSet(1 .. j) /\ IntOn(row, 1 .. j)
    <3>1. ASSUME NEW i \in 1 .. j PROVE row[i] \in Int
      <4>1. i \in 1 .. n
        OBVIOUS
      <4>2. row[i] \in 0 .. 20
        BY <1>3, <4>1 DEF One
      <4> QED BY <4>2
    <3>2. IsFiniteSet(1 .. j)
      BY SetSize
    <3> QED BY <3>1, <3>2 DEF IntOn
  <2>5. SumFunctionOnSet(q, 1 .. j) = SumFunctionOnSet(row, 1 .. j)
    BY <2>2, <2>4, SumOfSame
  <2>6. RowSum(q) = c[j]
    BY <1>1, <2>3, <2>5 DEF RowSum, SumFunction, Partial
  <2> QED BY <1>7, <2>1, <2>6 DEF Cumulative
<1> QED BY <1>2, <1>4, <1>5, <1>6, <1>8, <1>9 DEF Accumulates

(* The uniform numbers that lead to regime j.                              *)
Bucket(c, n, j, u) == c[j - 1] <= u /\ (j = n \/ u < c[j])

LEMMA NextRegimeIs ==
    ASSUME NEW P, NEW n \in Nat \ {0}, Len(P) = n, DOMAIN P = 1 .. n, NEW r \in 1 .. n,
           NEW c, Accumulates(P[r], n, c), NEW u \in Uniform, NEW j \in 1 .. n, Bucket(c, n, j, u)
    PROVE  NextRegime(P, r, u) = j
<1>1. PICK k \in Int, v \in Int : k = j - 1 /\ v = u
  BY DEF Uniform, One
<1>2. v >= 0 /\ v < 20
  BY <1>1 DEF Uniform, One
<1>3. c \in [0 .. n -> Nat] /\ \A i, m \in 0 .. n : i <= m => c[i] <= c[m]
  BY DEF Accumulates, Grows
<1>4. ASSUME NEW i \in 1 .. n PROVE Cumulative(P[r])[i] <= u <=> i \in 1 .. k
  <2>1. Cumulative(P[r])[i] = IF i = n THEN 20 ELSE c[i]
    BY DEF Accumulates, One
  <2>2. CASE i <= k
    <3>1. i # n /\ k \in 0 .. n /\ c[i] <= c[k] /\ c[k] <= v
      BY <1>1, <1>3, <2>2 DEF Bucket
    <3>2. c[i] \in Nat /\ c[k] \in Nat
      BY <1>3, <3>1
    <3> QED BY <1>1, <2>1, <2>2, <3>1, <3>2
  <2>3. CASE i > k /\ i = n
    BY <1>1, <1>2, <2>1, <2>3
  <2>4. CASE i > k /\ i # n
    <3>1. j # n /\ j <= i
      BY <1>1, <2>4
    <3>2. v < c[j] /\ c[j] <= c[i]
      BY <1>1, <1>3, <3>1 DEF Bucket
    <3>3. c[i] \in Nat /\ c[j] \in Nat
      BY <1>3
    <3> QED BY <1>1, <2>1, <2>4, <3>2, <3>3
  <2> QED BY <1>1, <2>2, <2>3, <2>4
<1>5. {i \in DOMAIN P : Cumulative(P[r])[i] <= u} = 1 .. k
  BY <1>1, <1>4
<1>6. Cardinality(1 .. k) = k
  <2>1. Cardinality(1 .. k) = IF 1 > k THEN 0 ELSE k - 1 + 1
    BY <1>1, SetSize
  <2> QED BY <1>1, <2>1
<1>7. PICK S : S = {i \in DOMAIN P : Cumulative(P[r])[i] <= u}
  OBVIOUS
<1>8. Cardinality(S) = k
  BY <1>5, <1>6, <1>7
<1>9. Cardinality(S) + 1 = j /\ ~(j > n)
  BY <1>1, <1>8
<1>10. NextRegime(P, r, u) = IF Cardinality(S) + 1 > Len(P) THEN Len(P) ELSE Cardinality(S) + 1
  BY <1>7 DEF NextRegime
<1> QED BY <1>9, <1>10

LEMMA BucketExists ==
    ASSUME NEW n \in Nat \ {0}, NEW c \in [0 .. n -> Nat], c[0] = 0, NEW u \in Uniform
    PROVE  \E j \in 1 .. n : Bucket(c, n, j, u)
<1> DEFINE T == {j \in 1 .. n : j = n \/ u < c[j]}
<1>1. T \subseteq Nat /\ T # {}
  OBVIOUS
<1>2. PICK j \in T : \A i \in T : j <= i
  <2> HIDE DEF T
  <2> QED BY <1>1, LeastNumber
<1>3. u \in Int /\ u >= 0
  BY DEF Uniform, One
<1>4. c[j - 1] <= u
  <2>1. CASE j = 1
    BY <1>3, <2>1
  <2>2. CASE j # 1
    <3>1. j - 1 \in 1 .. n /\ j - 1 \notin T
      BY <1>2, <2>2
    <3>2. c[j - 1] \in Nat /\ ~(u < c[j - 1])
      BY <3>1
    <3> QED BY <1>3, <3>2
  <2> QED BY <2>1, <2>2
<1> QED BY <1>2, <1>4 DEF Bucket

(* Each transition takes an interval of them.                              *)
LEMMA ShareIs ==
    ASSUME NEW P, NEW n \in Nat \ {0}, Len(P) = n, DOMAIN P = 1 .. n, NEW r \in 1 .. n,
           NEW c, Accumulates(P[r], n, c), NEW j \in 1 .. n
    PROVE  {u \in Uniform : NextRegime(P, r, u) = j} =
              c[j - 1] .. (IF j = n \/ c[j] > One THEN One - 1 ELSE c[j] - 1)
<1>1. c \in [0 .. n -> Nat] /\ c[0] = 0
  BY DEF Accumulates
<1>2. c[j - 1] \in Nat /\ c[j] \in Nat
  BY <1>1
<1>3. ASSUME NEW u \in Uniform PROVE NextRegime(P, r, u) = j <=> Bucket(c, n, j, u)
  <2>1. PICK k \in 1 .. n : Bucket(c, n, k, u)
    BY <1>1, BucketExists
  <2>2. NextRegime(P, r, u) = k
    BY <2>1, NextRegimeIs
  <2>3. Bucket(c, n, j, u) => NextRegime(P, r, u) = j
    BY NextRegimeIs
  <2> QED BY <2>1, <2>2, <2>3
<1>4. {u \in Uniform : NextRegime(P, r, u) = j} = {u \in Uniform : Bucket(c, n, j, u)}
  BY <1>3
<1>5. PICK a \in Nat, b \in Nat : a = c[j - 1] /\ b = c[j]
  BY <1>2
<1>6. {u \in Uniform : Bucket(c, n, j, u)} = {u \in 0 .. 19 : a <= u /\ (j = n \/ u < b)}
  BY <1>5 DEF Bucket, Uniform, One
<1>7. {u \in 0 .. 19 : a <= u /\ (j = n \/ u < b)} = a .. (IF j = n \/ b > 20 THEN 19 ELSE b - 1)
  <2>1. CASE j = n \/ b > 20
    <3>1. ASSUME NEW u \in 0 .. 19 PROVE j = n \/ u < b
      BY <2>1
    <3>2. {u \in 0 .. 19 : a <= u /\ (j = n \/ u < b)} = {u \in 0 .. 19 : a <= u}
      BY <3>1
    <3>3. {u \in 0 .. 19 : a <= u} = a .. 19
      <4>1. ASSUME NEW u \in 0 .. 19, a <= u PROVE u \in a .. 19
        BY <4>1
      <4>2. ASSUME NEW u \in a .. 19 PROVE u \in 0 .. 19 /\ a <= u
        OBVIOUS
      <4> QED BY <4>1, <4>2
    <3> QED BY <2>1, <3>2, <3>3
  <2>2. CASE ~(j = n \/ b > 20)
    <3>1. b <= 20 /\ j # n
      BY <2>2
    <3>2. {u \in 0 .. 19 : a <= u /\ (j = n \/ u < b)} = {u \in 0 .. 19 : a <= u /\ u < b}
      BY <3>1
    <3>3. {u \in 0 .. 19 : a <= u /\ u < b} = a .. b - 1
      <4>1. ASSUME NEW u \in 0 .. 19, a <= u, u < b PROVE u \in a .. b - 1
        BY <4>1
      <4>2. ASSUME NEW u \in a .. b - 1 PROVE u \in 0 .. 19 /\ a <= u /\ u < b
        BY <3>1
      <4> QED BY <4>1, <4>2
    <3> QED BY <2>2, <3>2, <3>3
  <2> QED BY <2>1, <2>2
<1> QED BY <1>4, <1>5, <1>6, <1>7 DEF One

(* A transition's share of the uniform numbers is the entry of the matrix, *)
(* but for what the row as a whole is off.                                 *)
LEMMA ShareIsOff ==
    ASSUME NEW P, NEW n \in Nat \ {0}, Len(P) = n, DOMAIN P = 1 .. n, NEW r \in 1 .. n,
           NEW c, Accumulates(P[r], n, c), NEW j \in 1 .. n
    PROVE  Share(P, r, j) - P[r][j] \in -Off(P[r]) .. Off(P[r])
<1>1. PICK a, b, t : a = c[j - 1] /\ b = c[j] /\ t = c[n]
  OBVIOUS
<1>2. a \in Nat /\ b \in Nat /\ t \in Nat
  BY <1>1 DEF Accumulates
<1>3. a <= b /\ b <= t /\ (j = n => b = t)
  <2>1. c[j - 1] <= c[j] /\ c[j] <= c[n]
    BY SMTT(30) DEF Accumulates, Grows
  <2> QED BY <1>1, <2>1
<1>4. P[r][j] = b - a /\ RowSum(P[r]) = t
  BY <1>1 DEF Accumulates
<1>5. PICK off \in Nat : off = Off(P[r]) /\ off = IF t > 20 THEN t - 20 ELSE 20 - t
  BY <1>2, <1>4 DEF Off, One
<1>6. PICK top \in Int : top = IF j = n \/ b > 20 THEN 19 ELSE b - 1
  BY <1>2
<1>7. {u \in Uniform : NextRegime(P, r, u) = j} = a .. top
  BY <1>1, <1>6, ShareIs DEF One
<1>8. Share(P, r, j) = IF a > top THEN 0 ELSE top - a + 1
  <2>1. Cardinality(a .. top) = IF a > top THEN 0 ELSE top - a + 1
    BY <1>2, SetSize
  <2> QED BY <1>7, <2>1 DEF Share
<1>9. PICK s \in Int : s = Share(P, r, j)
  BY <1>2, <1>8
<1>10. s - (b - a) \in -off .. off
  <2>1. CASE j = n
    BY <1>2, <1>3, <1>5, <1>6, <1>8, <1>9, <2>1
  <2>2. CASE j # n /\ b > 20
    BY <1>2, <1>3, <1>5, <1>6, <1>8, <1>9, <2>2
  <2>3. CASE j # n /\ b <= 20
    BY <1>2, <1>3, <1>5, <1>6, <1>8, <1>9, <2>3
  <2> QED BY <1>2, <2>1, <2>2, <2>3
<1> QED BY <1>4, <1>5, <1>9, <1>10

(* Two transitions, one after the other.                                   *)
Recurs(w, P, start, uniforms) ==
    w = [i \in DOMAIN uniforms |-> IF i = 1 THEN start ELSE NextRegime(P, w[i - 1], uniforms[i - 1])]

LEMMA WalkIs ==
    ASSUME NEW P, NEW start, NEW uniforms, DOMAIN uniforms = 1 .. 3,
           NEW w, w = Walk(P, start, uniforms)
    PROVE  /\ w = [i \in 1 .. 3 |-> w[i]] /\ w[1] = start
           /\ w[2] = NextRegime(P, start, uniforms[1])
           /\ w[3] = NextRegime(P, w[2], uniforms[2])
<1> DEFINE x == NextRegime(P, start, uniforms[1])
           y == NextRegime(P, x, uniforms[2])
           z == [i \in 1 .. 3 |-> IF i = 1 THEN start ELSE IF i = 2 THEN x ELSE y]
<1>1. Recurs(z, P, start, uniforms)
  <2>1. ASSUME NEW i \in 1 .. 3
        PROVE  z[i] = IF i = 1 THEN start ELSE NextRegime(P, z[i - 1], uniforms[i - 1])
    <3>1. i = 1 \/ i = 2 \/ i = 3
      OBVIOUS
    <3>2. z[1] = start /\ z[2] = x /\ z[3] = y
      OBVIOUS
    <3>3. 2 - 1 = 1 /\ 3 - 1 = 2
      OBVIOUS
    <3> HIDE DEF z
    <3> QED BY <3>1, <3>2, <3>3
  <2>2. z = [i \in 1 .. 3 |-> z[i]]
    OBVIOUS
  <2> HIDE DEF z
  <2>3. [i \in 1 .. 3 |-> z[i]] = [i \in 1 .. 3 |-> IF i = 1 THEN start ELSE NextRegime(P, z[i - 1], uniforms[i - 1])]
    BY <2>1
  <2> QED BY <2>2, <2>3 DEF Recurs
<1>2. Walk(P, start, uniforms) = CHOOSE f : Recurs(f, P, start, uniforms)
  BY DEF Walk, Recurs
<1>3. Recurs(w, P, start, uniforms)
  BY <1>1, <1>2
<1>4. w = [i \in 1 .. 3 |-> IF i = 1 THEN start ELSE NextRegime(P, w[i - 1], uniforms[i - 1])]
  BY <1>3 DEF Recurs
<1>5. DOMAIN w = 1 .. 3
  BY <1>4
<1>6. \A i \in 1 .. 3 : w[i] = IF i = 1 THEN start ELSE NextRegime(P, w[i - 1], uniforms[i - 1])
  BY <1>4
<1>7. w[1] = start
  BY <1>6
<1>8. w[2] = NextRegime(P, w[2 - 1], uniforms[2 - 1]) /\ w[3] = NextRegime(P, w[3 - 1], uniforms[3 - 1])
  BY <1>6
<1>9. 2 - 1 = 1 /\ 3 - 1 = 2
  OBVIOUS
<1>10. w = [i \in 1 .. 3 |-> w[i]]
  BY <1>4, <1>5
<1> QED BY <1>7, <1>8, <1>9, <1>10

LEMMA ThreeRegimes ==
    ASSUME NEW w, w = [i \in 1 .. 3 |-> w[i]], NEW x, NEW y, NEW z
    PROVE  w = <<x, y, z>> <=> w[1] = x /\ w[2] = y /\ w[3] = z
<1>1. <<x, y, z>> = [i \in 1 .. 3 |-> <<x, y, z>>[i]]
  OBVIOUS
<1>2. <<x, y, z>>[1] = x /\ <<x, y, z>>[2] = y /\ <<x, y, z>>[3] = z
  OBVIOUS
<1>3. ASSUME w[1] = x /\ w[2] = y /\ w[3] = z PROVE w = <<x, y, z>>
  <2>1. \A i \in 1 .. 3 : i = 1 \/ i = 2 \/ i = 3
    OBVIOUS
  <2>2. \A i \in 1 .. 3 : w[i] = <<x, y, z>>[i]
    BY <1>2, <1>3, <2>1
  <2> QED BY <1>1, <2>2
<1> QED BY <1>2, <1>3

Walks(P) == [uv \in Uniform \X Uniform |-> Walk(P, 1, <<uv[1], uv[2], 0>>)]

LEMMA PairsMultiply ==
    ASSUME NEW P, NEW j, NEW k
    PROVE  Cardinality({uv \in Uniform \X Uniform : Walks(P)[uv] = <<1, j, k>>})
               = Share(P, 1, j) * Share(P, j, k)
<1> DEFINE walks == Walks(P)
<1>0. walks = [uv \in Uniform \X Uniform |-> Walk(P, 1, <<uv[1], uv[2], 0>>)]
  BY DEF Walks
<1> HIDE DEF walks
<1>1. PICK S, T : /\ S = {u \in Uniform : NextRegime(P, 1, u) = j}
                  /\ T = {v \in Uniform : NextRegime(P, j, v) = k}
  OBVIOUS
<1>2. ASSUME NEW u \in Uniform, NEW v \in Uniform
      PROVE  walks[<<u, v>>] = <<1, j, k>> <=> u \in S /\ v \in T
  <2>1. walks[<<u, v>>] = Walk(P, 1, <<u, v, 0>>)
    BY <1>0
  <2>2. PICK w, uniforms : uniforms = <<u, v, 0>> /\ w = Walk(P, 1, uniforms)
    OBVIOUS
  <2>3. DOMAIN uniforms = 1 .. 3 /\ uniforms[1] = u /\ uniforms[2] = v
    BY <2>2
  <2>4. /\ w = [i \in 1 .. 3 |-> w[i]] /\ w[1] = 1 /\ w[2] = NextRegime(P, 1, u)
        /\ w[3] = NextRegime(P, w[2], v)
    BY <2>2, <2>3, WalkIs
  <2>5. w = <<1, j, k>> <=> w[1] = 1 /\ w[2] = j /\ w[3] = k
    BY <2>4, ThreeRegimes
  <2> QED BY <1>1, <2>1, <2>2, <2>4, <2>5
<1>3. {uv \in Uniform \X Uniform : walks[uv] = <<1, j, k>>} = S \X T
  <2>1. S \subseteq Uniform /\ T \subseteq Uniform
    BY <1>1
  <2>2. \A uv \in Uniform \X Uniform : \E u, v \in Uniform : uv = <<u, v>>
    OBVIOUS
  <2>3. \A u, v : <<u, v>> \in S \X T <=> u \in S /\ v \in T
    OBVIOUS
  <2>4. S \X T \subseteq Uniform \X Uniform
    BY <2>1
  <2>5. ASSUME NEW uv \in Uniform \X Uniform PROVE walks[uv] = <<1, j, k>> <=> uv \in S \X T
    <3>1. PICK u \in Uniform, v \in Uniform : uv = <<u, v>>
      BY <2>2
    <3> QED BY <1>2, <2>3, <3>1
  <2> QED BY <2>4, <2>5
<1>4. IsFiniteSet(S) /\ IsFiniteSet(T)
  <2>1. IsFiniteSet(0 .. 19)
    <3>1. PICK low \in Int, high \in Int : low = 0 /\ high = 19
      OBVIOUS
    <3>2. IsFiniteSet(low .. high)
      BY SetSize
    <3> QED BY <3>1, <3>2
  <2>2. Uniform = 0 .. 19
    BY DEF Uniform, One
  <2> QED BY <1>1, <2>1, <2>2, FS_Subset
<1>5. Cardinality(S \X T) = Cardinality(S) * Cardinality(T)
  BY <1>4, FS_Product
<1> QED BY <1>1, <1>3, <1>5 DEF Share, walks

LEMMA MatrixIsFollowed ==
    ASSUME NEW P, NEW n \in Nat \ {0}, Len(P) = n, DOMAIN P = 1 .. n,
           \A r \in 1 .. n : IsDistribution(P[r], n)
    PROVE  FollowsMatrix(P)
<1>1. ASSUME NEW r \in 1 .. n, NEW j \in 1 .. n
      PROVE  Share(P, r, j) - P[r][j] \in -Off(P[r]) .. Off(P[r])
  <2>1. PICK c : Accumulates(P[r], n, c)
    BY RowAccumulates
  <2> QED BY <2>1, ShareIsOff
<1> QED BY <1>1, PairsMultiply DEF FollowsMatrix, Walks

(* The walk over the regimes of a file is the Markov chain of its matrix:  *)
(* each row of a matrix that validate has passed is a distribution.        *)
LEMMA MatrixIsOfRows ==
    ASSUME NEW d, IsDocument(d), IsSmall(d), LoadConfig(d).raised = "none",
           NEW cfg, cfg = Configuration(d), cfg.model = "regime_switching"
    PROVE  FollowsMatrix(cfg.matrix)
<1>1. SwitchingAccepts(cfg)
  BY LoadedIsRunnable
<1>2. MatrixAccepted(cfg.matrix, NRegimes(cfg))
  BY <1>1 DEF SwitchingAccepts
<1>3. NRegimes(cfg) >= 1
  BY LoadedIsRunnable DEF SweepAccepts, SeedTreeAccepts
<1>4. IsRow(cfg.matrix) /\ \A i \in DOMAIN cfg.matrix : IsRow(cfg.matrix[i])
  BY MatrixHolds
<1>5. PICK P : P = cfg.matrix
  OBVIOUS
<1>6. PICK n \in 0 .. 3 : DOMAIN P = 1 .. n
  BY <1>4, <1>5 DEF IsRow
<1>10. P = [i \in DOMAIN P |-> P[i]] /\ \A i \in DOMAIN P : P[i] = [j \in DOMAIN P[i] |-> P[i][j]]
  <2>1. P = Matrix(d) /\ P # None
    <3>1. P = Matrix(d)
      BY <1>5, ConfigurationIs
    <3> QED BY <1>2, <1>5, <3>1 DEF MatrixAccepted
  <2>2. P = [i \in 1 .. Length(d, MatrixPath) |->
               [j \in 1 .. Length(d, RowPath(i)) |-> FloatAt(d, EntryPath(i, j))]]
    BY <2>1 DEF Matrix
  <2> QED BY <2>2
<1>7. Len(P) = n /\ NRegimes(cfg) = n /\ n >= 1
  <2>1. P = [i \in 1 .. n |-> P[i]] /\ n \in Nat
    BY <1>6, <1>10
  <2>2. Len(P) = n
    BY <1>6, <2>1, FunctionIsSeq
  <2> QED BY <1>2, <1>3, <1>5, <2>2 DEF MatrixAccepted
<1>8. ASSUME NEW r \in 1 .. n PROVE IsDistribution(P[r], n)
  <2>1. PICK m \in 0 .. 3 : DOMAIN P[r] = 1 .. m
    BY <1>4, <1>5, <1>6 DEF IsRow
  <2>2. Len(P[r]) = n /\ Range(P[r]) \subseteq 0 .. One
    BY <1>2, <1>5, <1>6, <1>7 DEF MatrixAccepted
  <2>3. PICK row : row = P[r]
    OBVIOUS
  <2>4. row = [j \in 1 .. m |-> row[j]] /\ m \in Nat /\ DOMAIN row = 1 .. m
    BY <1>6, <1>10, <2>1, <2>3
  <2>5. Len(row) = m /\ IsSeq(row)
    BY <2>4, FunctionIsSeq
  <2>6. row \in [1 .. n -> 0 .. One]
    BY <2>2, <2>3, <2>4, <2>5 DEF Range
  <2>7. row \in Seq(0 .. One)
    <3>1. n \in Nat
      OBVIOUS
    <3> QED BY <2>6, <3>1, SeqDef
  <2> QED BY <2>2, <2>3, <2>7 DEF IsDistribution
<1>9. n \in Nat \ {0}
  BY <1>7
<1> QED BY <1>5, <1>6, <1>7, <1>8, <1>9, MatrixIsFollowed

THEOREM WalksFollow == Spec => []WalkFollowsMatrix
<1>1. StudyInv => WalkFollowsMatrix
  <2> SUFFICES ASSUME StudyInv, stage = "walked" PROVE FollowsMatrix(Cfg.matrix)
    BY DEF WalkFollowsMatrix
  <2>1. Cfg.model = "regime_switching"
    BY DEF StudyInv
  <2> QED BY <2>1, CfgIs, MatrixIsOfRows DEF Accepted
<1> QED BY <1>1, StudyIsInv, PTL

-----------------------------------------------------------------------------
(* Order statistics.  A sample is a sequence of m integers.                *)

IsSample(v, m) == m \in Nat \ {0} /\ v \in [1 .. m -> Int]
Under(v, x) == {i \in DOMAIN v : v[i] < x}
AtMost(v, x) == {i \in DOMAIN v : v[i] <= x}
IsOrder(v, k, x) ==
    /\ x \in ToSet(v)
    /\ Cardinality(Under(v, x)) < k
    /\ k <= Cardinality(AtMost(v, x))

(* The least and the greatest of finitely many terms.                      *)
LEMMA Extremes ==
    ASSUME NEW S, IsFiniteSet(S), S # {}, NEW v, IntOn(v, S)
    PROVE  /\ \E i \in S : \A j \in S : v[i] <= v[j]
           /\ \E i \in S : \A j \in S : v[j] <= v[i]
<1> DEFINE T == {s \in SUBSET S : s # {} => /\ \E i \in s : \A j \in s : v[i] <= v[j]
                                            /\ \E i \in s : \A j \in s : v[j] <= v[i]}
<1>1. {} \in T
  OBVIOUS
<1>2. ASSUME NEW s \in SUBSET S, NEW x \in S, s \in T, x \notin s PROVE s \cup {x} \in T
  <2>1. \A i \in S : v[i] \in Int
    BY DEF IntOn
  <2>2. CASE s = {}
    <3>1. s \cup {x} = {x} /\ v[x] <= v[x]
      BY <2>1, <2>2
    <3> QED BY <3>1
  <2>3. CASE s # {}
    <3>1. PICK a \in s, b \in s : (\A j \in s : v[a] <= v[j]) /\ (\A j \in s : v[j] <= v[b])
      BY <1>2, <2>3
    <3>2. \E i \in s \cup {x} : \A j \in s \cup {x} : v[i] <= v[j]
      <4>1. CASE v[a] <= v[x]
        <5>1. \A j \in s \cup {x} : v[a] <= v[j]
          BY <3>1, <4>1
        <5> QED BY <5>1
      <4>2. CASE ~(v[a] <= v[x])
        <5>1. ASSUME NEW j \in s \cup {x} PROVE v[x] <= v[j]
          <6>1. v[x] \in Int /\ v[a] \in Int /\ v[j] \in Int
            BY <2>1
          <6> QED BY <3>1, <4>2, <6>1
        <5> QED BY <5>1
      <4> QED BY <4>1, <4>2
    <3>3. \E i \in s \cup {x} : \A j \in s \cup {x} : v[j] <= v[i]
      <4>1. CASE v[x] <= v[b]
        <5>1. \A j \in s \cup {x} : v[j] <= v[b]
          BY <3>1, <4>1
        <5> QED BY <5>1
      <4>2. CASE ~(v[x] <= v[b])
        <5>1. ASSUME NEW j \in s \cup {x} PROVE v[j] <= v[x]
          <6>1. v[x] \in Int /\ v[b] \in Int /\ v[j] \in Int
            BY <2>1
          <6> QED BY <3>1, <4>2, <6>1
        <5> QED BY <5>1
      <4> QED BY <4>1, <4>2
    <3> QED BY <3>2, <3>3
  <2> QED BY <2>2, <2>3
<1>3. S \in T
  <2> HIDE DEF T
  <2> QED BY <1>1, <1>2, SubsetInduction
<1> QED BY <1>3

LEMMA SampleIs ==
    ASSUME NEW m, NEW v, IsSample(v, m)
    PROVE  /\ Len(v) = m /\ DOMAIN v = 1 .. m /\ IsFiniteSet(DOMAIN v) /\ Cardinality(DOMAIN v) = m
           /\ \A i \in 1 .. m : v[i] \in Int
           /\ ToSet(v) \subseteq Int /\ ToSet(v) = {v[i] : i \in 1 .. m}
<1>1. m \in Nat /\ m # 0 /\ v \in [1 .. m -> Int]
  BY DEF IsSample
<1>2. Len(v) = m
  BY <1>1, SeqIs
<1>3. DOMAIN v = 1 .. m /\ \A i \in 1 .. m : v[i] \in Int
  BY <1>1
<1>4. IsFiniteSet(1 .. m) /\ Cardinality(1 .. m) = m
  <2>1. IsFiniteSet(1 .. m) /\ Cardinality(1 .. m) = IF 1 > m THEN 0 ELSE m - 1 + 1
    BY <1>1, SetSize
  <2> QED BY <1>1, <2>1
<1> QED BY <1>2, <1>3, <1>4 DEF ToSet

LEMMA Counts ==
    ASSUME NEW m, NEW v, IsSample(v, m), NEW x
    PROVE  /\ Under(v, x) \subseteq DOMAIN v /\ AtMost(v, x) \subseteq DOMAIN v
           /\ IsFiniteSet(Under(v, x)) /\ Cardinality(Under(v, x)) \in 0 .. m
           /\ IsFiniteSet(AtMost(v, x)) /\ Cardinality(AtMost(v, x)) \in 0 .. m
<1>1. Under(v, x) \in SUBSET (DOMAIN v) /\ AtMost(v, x) \in SUBSET (DOMAIN v)
  BY DEF Under, AtMost
<1>2. IsFiniteSet(DOMAIN v) /\ Cardinality(DOMAIN v) = m /\ m \in Nat
  BY SampleIs DEF IsSample
<1>3. ASSUME NEW S \in SUBSET (DOMAIN v) PROVE IsFiniteSet(S) /\ Cardinality(S) \in 0 .. m
  <2>1. IsFiniteSet(S) /\ Cardinality(S) <= m
    BY <1>2, FS_Subset
  <2>2. Cardinality(S) \in Nat
    BY <2>1, FS_CardinalityType
  <2> QED BY <1>2, <2>1, <2>2
<1> QED BY <1>1, <1>3

LEMMA OrderIsAtMost ==
    ASSUME NEW m, NEW v, IsSample(v, m), NEW k \in Int, NEW l \in Int, k <= l,
           NEW x, IsOrder(v, k, x), NEW y, IsOrder(v, l, y)
    PROVE  x <= y
<1>1. x \in Int /\ y \in Int
  BY SampleIs DEF IsOrder
<1> SUFFICES ASSUME y < x PROVE FALSE
  BY <1>1
<1>2. AtMost(v, y) \subseteq Under(v, x)
  <2>1. ASSUME NEW i \in DOMAIN v, v[i] <= y PROVE v[i] < x
    <3>1. v[i] \in Int
      BY SampleIs
    <3> QED BY <1>1, <2>1, <3>1
  <2> QED BY <2>1 DEF AtMost, Under
<1>3. Cardinality(AtMost(v, y)) <= Cardinality(Under(v, x))
  BY <1>2, Counts, FS_Subset
<1>4. Cardinality(AtMost(v, y)) \in Int /\ Cardinality(Under(v, x)) \in Int
  BY Counts
<1>5. Cardinality(Under(v, x)) < k /\ l <= Cardinality(AtMost(v, y))
  BY DEF IsOrder
<1> QED BY <1>3, <1>4, <1>5

LEMMA OrderExists ==
    ASSUME NEW m, NEW v, IsSample(v, m), NEW k \in 1 .. m
    PROVE  \E x : IsOrder(v, k, x)
<1> DEFINE C == {i \in DOMAIN v : k <= Cardinality(AtMost(v, v[i]))}
<1>1. IsFiniteSet(DOMAIN v) /\ DOMAIN v # {} /\ IntOn(v, DOMAIN v) /\ Cardinality(DOMAIN v) = m
      /\ m \in Nat /\ DOMAIN v = 1 .. m
  <2>1. m \in Nat \ {0}
    BY DEF IsSample
  <2> QED BY <2>1, SampleIs DEF IntOn
<1>2. C # {}
  <2>1. PICK i \in DOMAIN v : \A j \in DOMAIN v : v[j] <= v[i]
    BY <1>1, Extremes
  <2>2. AtMost(v, v[i]) = DOMAIN v
    BY <2>1 DEF AtMost
  <2>3. k <= Cardinality(AtMost(v, v[i]))
    BY <1>1, <2>2
  <2> QED BY <2>3
<1>3. IsFiniteSet(C) /\ IntOn(v, C) /\ C \subseteq DOMAIN v
  <2>1. C \in SUBSET (DOMAIN v)
    OBVIOUS
  <2> HIDE DEF C
  <2> QED BY <1>1, <2>1, FS_Subset DEF IntOn
<1>4. PICK i \in C : \A j \in C : v[i] <= v[j]
  <2> HIDE DEF C
  <2> QED BY <1>2, <1>3, Extremes
<1>5. Cardinality(Under(v, v[i])) < k
  <2> SUFFICES ASSUME ~(Cardinality(Under(v, v[i])) < k) PROVE FALSE
    OBVIOUS
  <2>1. Cardinality(Under(v, v[i])) \in Int /\ IsFiniteSet(Under(v, v[i]))
        /\ Under(v, v[i]) \subseteq DOMAIN v
    BY Counts
  <2>2. k <= Cardinality(Under(v, v[i]))
    BY <2>1
  <2>3. Under(v, v[i]) # {}
    <3>1. Cardinality({}) = 0
      BY FS_EmptySet
    <3> QED BY <2>2, <3>1
  <2>4. IntOn(v, Under(v, v[i]))
    BY <1>1, <2>1 DEF IntOn
  <2>5. PICK j \in Under(v, v[i]) : \A l \in Under(v, v[i]) : v[l] <= v[j]
    BY <2>1, <2>3, <2>4, Extremes
  <2>6. j \in DOMAIN v /\ v[j] < v[i]
    BY <2>5 DEF Under
  <2>7. AtMost(v, v[j]) = Under(v, v[i])
    <3>1. ASSUME NEW l \in DOMAIN v PROVE v[l] <= v[j] <=> v[l] < v[i]
      <4>1. v[l] \in Int /\ v[j] \in Int /\ v[i] \in Int
        BY <1>1, <1>3, <2>6 DEF IntOn
      <4>2. v[l] < v[i] => v[l] <= v[j]
        BY <2>5 DEF Under
      <4> QED BY <2>6, <4>1, <4>2
    <3> QED BY <3>1 DEF AtMost, Under
  <2>8. j \in C
    BY <2>2, <2>6, <2>7
  <2>9. v[i] <= v[j] /\ v[i] \in Int /\ v[j] \in Int
    BY <1>1, <1>3, <1>4, <2>6, <2>8 DEF IntOn
  <2> QED BY <2>6, <2>9
<1>6. v[i] \in ToSet(v) /\ k <= Cardinality(AtMost(v, v[i]))
  BY DEF ToSet
<1> QED BY <1>5, <1>6 DEF IsOrder

LEMMA OrderIs ==
    ASSUME NEW m, NEW v, IsSample(v, m), NEW k \in 1 .. m
    PROVE  /\ IsOrder(v, k, OrderStatistic(v, k)) /\ OrderStatistic(v, k) \in Int
           /\ \E i \in 1 .. m : OrderStatistic(v, k) = v[i]
<1>1. OrderStatistic(v, k) = CHOOSE x \in ToSet(v) : /\ Cardinality(Under(v, x)) < k
                                                     /\ k <= Cardinality(AtMost(v, x))
  BY DEF OrderStatistic, Under, AtMost
<1>2. PICK x : IsOrder(v, k, x)
  BY OrderExists
<1>3. IsOrder(v, k, OrderStatistic(v, k))
  BY <1>1, <1>2 DEF IsOrder
<1> QED BY <1>3, SampleIs DEF IsOrder

LEMMA OrderGrows ==
    ASSUME NEW m, NEW v, IsSample(v, m), NEW k \in 1 .. m, NEW l \in 1 .. m, k <= l
    PROVE  OrderStatistic(v, k) <= OrderStatistic(v, l)
  BY OrderIs, OrderIsAtMost

(* The order statistics of the negated sample, from the other end.         *)
Mirrors(w, v, m) == w \in [1 .. m -> Int] /\ \A i \in 1 .. m : w[i] = -v[i]

LEMMA OrderMirrors ==
    ASSUME NEW m, NEW v, IsSample(v, m), NEW w, Mirrors(w, v, m), NEW k \in 1 .. m
    PROVE  OrderStatistic(w, k) = -OrderStatistic(v, m + 1 - k)
<1>1. m \in Nat /\ IsSample(w, m) /\ m + 1 - k \in 1 .. m
  BY DEF IsSample, Mirrors
<1>2. PICK x : x = OrderStatistic(v, m + 1 - k)
  OBVIOUS
<1>3. IsOrder(v, m + 1 - k, x) /\ x \in Int /\ \E i \in 1 .. m : x = v[i]
  BY <1>1, <1>2, OrderIs
<1>4. /\ DOMAIN v = 1 .. m /\ DOMAIN w = 1 .. m /\ IsFiniteSet(1 .. m) /\ Cardinality(1 .. m) = m
      /\ \A i \in 1 .. m : v[i] \in Int /\ w[i] \in Int /\ w[i] = -v[i]
  <2>1. DOMAIN v = 1 .. m /\ IsFiniteSet(1 .. m) /\ Cardinality(1 .. m) = m /\ \A i \in 1 .. m : v[i] \in Int
    BY SampleIs
  <2> QED BY <2>1 DEF Mirrors
<1>5. Under(w, -x) = (1 .. m) \ AtMost(v, x)
  <2>1. ASSUME NEW i \in 1 .. m PROVE w[i] < -x <=> ~(v[i] <= x)
    BY <1>3, <1>4
  <2> QED BY <1>4, <2>1 DEF Under, AtMost
<1>6. AtMost(w, -x) = (1 .. m) \ Under(v, x)
  <2>1. ASSUME NEW i \in 1 .. m PROVE w[i] <= -x <=> ~(v[i] < x)
    BY <1>3, <1>4
  <2> QED BY <1>4, <2>1 DEF Under, AtMost
<1>7. ASSUME NEW S \in SUBSET (1 .. m) PROVE Cardinality((1 .. m) \ S) = m - Cardinality(S)
  <2>1. PICK U : U = 1 .. m
    OBVIOUS
  <2>2. IsFiniteSet(U) /\ Cardinality(U) = m /\ U \cap S = S
    BY <1>4, <2>1
  <2>3. Cardinality(U \ S) = Cardinality(U) - Cardinality(U \cap S)
    BY <2>2, FS_Difference
  <2> QED BY <2>1, <2>2, <2>3
<1>8. /\ AtMost(v, x) \in SUBSET (1 .. m) /\ Under(v, x) \in SUBSET (1 .. m)
      /\ Cardinality(AtMost(v, x)) \in Int /\ Cardinality(Under(v, x)) \in Int
  <2>1. AtMost(v, x) \subseteq DOMAIN v /\ Under(v, x) \subseteq DOMAIN v
    BY DEF AtMost, Under
  <2>2. Cardinality(AtMost(v, x)) \in 0 .. m /\ Cardinality(Under(v, x)) \in 0 .. m
    BY Counts
  <2> QED BY <1>4, <2>1, <2>2
<1>9. PICK a \in Int, b \in Int : a = Cardinality(AtMost(v, x)) /\ b = Cardinality(Under(v, x))
  BY <1>8
<1>10. Cardinality(Under(w, -x)) = m - a /\ Cardinality(AtMost(w, -x)) = m - b
  BY <1>5, <1>6, <1>7, <1>8, <1>9
<1>11. b < m + 1 - k /\ m + 1 - k <= a
  BY <1>3, <1>9 DEF IsOrder
<1>12. m - a < k /\ k <= m - b
  BY <1>1, <1>9, <1>11
<1>13. -x \in ToSet(w)
  BY <1>3, <1>4 DEF ToSet
<1>14. IsOrder(w, k, -x)
  BY <1>10, <1>12, <1>13 DEF IsOrder
<1>15. IsOrder(w, k, OrderStatistic(w, k)) /\ OrderStatistic(w, k) \in Int
  BY <1>1, OrderIs
<1>16. -x <= OrderStatistic(w, k) /\ OrderStatistic(w, k) <= -x
  <2>1. k \in Int /\ k <= k
    OBVIOUS
  <2>2. -x <= OrderStatistic(w, k)
    BY <1>1, <1>14, <1>15, <2>1, OrderIsAtMost
  <2>3. OrderStatistic(w, k) <= -x
    BY <1>1, <1>14, <1>15, <2>1, OrderIsAtMost
  <2> QED BY <2>2, <2>3
<1> QED BY <1>2, <1>3, <1>15, <1>16

-----------------------------------------------------------------------------
(* Quantiles.                                                              *)

LEMMA TimesGrows ==
    ASSUME NEW a \in Nat, NEW b \in Int, NEW c \in Int, b <= c
    PROVE  a * b \in Int /\ a * c \in Int /\ a * b <= a * c
<1>1. PICK d \in Nat : c = b + d
  <2>1. c - b \in Nat /\ c = b + (c - b)
    OBVIOUS
  <2> QED BY <2>1
<1>2. a * c = a * b + a * d /\ a * d >= 0 /\ a * b \in Int /\ a * d \in Int
  BY <1>1
<1> QED BY <1>2

(* Between neighbours x and y, f fortieths of the way.                     *)
Mix(x, y, f) == x * (40 - f) + y * f

LEMMA MixIs ==
    ASSUME NEW x \in Int, NEW y \in Int, x <= y, NEW f \in 0 .. 40
    PROVE  Mix(x, y, f) \in Int /\ x * 40 <= Mix(x, y, f) /\ Mix(x, y, f) <= y * 40
<1>1. PICK d \in Nat : y = x + d
  <2>1. y - x \in Nat /\ y = x + (y - x)
    OBVIOUS
  <2> QED BY <2>1
<1>2. Mix(x, y, f) = x * 40 + d * f
  BY <1>1 DEF Mix
<1>3. d * 0 <= d * f /\ d * f <= d * 40 /\ d * f \in Int
  BY TimesGrows
<1> QED BY <1>1, <1>2, <1>3

LEMMA MixGrows ==
    ASSUME NEW x \in Int, NEW y \in Int, x <= y, NEW f \in 0 .. 40, NEW g \in 0 .. 40, f <= g
    PROVE  Mix(x, y, f) <= Mix(x, y, g)
<1>1. PICK d \in Nat : y = x + d
  <2>1. y - x \in Nat /\ y = x + (y - x)
    OBVIOUS
  <2> QED BY <2>1
<1>2. Mix(x, y, f) = x * 40 + d * f /\ Mix(x, y, g) = x * 40 + d * g
  BY <1>1 DEF Mix
<1>3. d * f <= d * g /\ d * f \in Int /\ d * g \in Int
  BY TimesGrows
<1> QED BY <1>2, <1>3

LEMMA MixMirrors ==
    ASSUME NEW x \in Int, NEW y \in Int, NEW f \in 0 .. 40
    PROVE  Mix(-y, -x, 40 - f) = -Mix(x, y, f)
  BY DEF Mix

(* Where a quantile of m values lies: between the order statistics q + 1   *)
(* and q + 2, or on the former if f is 0.                                  *)
IsAt(m, level, q, f) ==
    /\ q \in 0 .. m - 1 /\ f \in 0 .. 39 /\ (m - 1) * level = 40 * q + f
    /\ f # 0 => q + 2 <= m
Upper(v, m, q) == IF q + 2 <= m THEN OrderStatistic(v, q + 2) ELSE OrderStatistic(v, q + 1)

LEMMA PlaceIs ==
    ASSUME NEW m \in Nat \ {0}, NEW level \in 0 .. 40, NEW h, h = (m - 1) * level
    PROVE  \E q, f : q = h \div 40 /\ f = h % 40 /\ IsAt(m, level, q, f)
<1>1. PICK n \in Nat : n = m - 1
  OBVIOUS
<1>2. n * 0 <= n * level /\ n * level <= n * 40 /\ n * level \in Int
  BY TimesGrows
<1>3. h \in Int /\ 0 <= h /\ h <= 40 * (m - 1)
  BY <1>1, <1>2
<1>4. PICK q, f : q = h \div 40 /\ f = h % 40
  OBVIOUS
<1>5. q \in Int /\ f \in 0 .. 39 /\ h = 40 * q + f
  BY <1>3, <1>4
<1>6. q \in 0 .. m - 1 /\ (f # 0 => q + 2 <= m)
  BY <1>3, <1>5
<1>7. IsAt(m, level, q, f)
  BY <1>3, <1>5, <1>6 DEF IsAt
<1> QED BY <1>4, <1>7

LEMMA UpperIs ==
    ASSUME NEW m, NEW v, IsSample(v, m), NEW q \in 0 .. m - 1
    PROVE  /\ OrderStatistic(v, q + 1) \in Int /\ Upper(v, m, q) \in Int
           /\ OrderStatistic(v, q + 1) <= Upper(v, m, q)
<1>1. m \in Nat /\ q + 1 \in 1 .. m
  BY DEF IsSample
<1>2. OrderStatistic(v, q + 1) \in Int
  BY <1>1, OrderIs
<1>3. CASE q + 2 <= m
  <2>1. q + 2 \in 1 .. m /\ q + 1 <= q + 2
    BY <1>1, <1>3
  <2>2. OrderStatistic(v, q + 2) \in Int
    BY <2>1, OrderIs
  <2>3. OrderStatistic(v, q + 1) <= OrderStatistic(v, q + 2)
    BY <1>1, <2>1, OrderGrows
  <2> QED BY <1>2, <1>3, <2>2, <2>3 DEF Upper
<1>4. CASE ~(q + 2 <= m)
  BY <1>2, <1>4 DEF Upper
<1> QED BY <1>3, <1>4

LEMMA QuantileIs ==
    ASSUME NEW m, NEW v, IsSample(v, m), NEW level \in 0 .. 40
    PROVE  \E q, f : /\ IsAt(m, level, q, f)
                     /\ Quantile(v, level) = Mix(OrderStatistic(v, q + 1), Upper(v, m, q), f)
<1>1. m \in Nat \ {0} /\ Len(v) = m
  BY SampleIs DEF IsSample
<1>2. PICK h : h = (m - 1) * level
  OBVIOUS
<1>3. PICK q, f : q = h \div 40 /\ f = h % 40 /\ IsAt(m, level, q, f)
  <2>1. m \in Nat \ {0} /\ level \in 0 .. 40
    BY <1>1
  <2> QED BY <1>2, <2>1, PlaceIs
<1>4. Quantile(v, level) = IF f = 0 THEN OrderStatistic(v, q + 1) * 40
                           ELSE OrderStatistic(v, q + 1) * (40 - f) + OrderStatistic(v, (q + 1) + 1) * f
  BY <1>1, <1>2, <1>3 DEF Quantile, Levels
<1>5. q \in 0 .. m - 1 /\ f \in 0 .. 39 /\ (f # 0 => q + 2 <= m)
  BY <1>3 DEF IsAt
<1>6. PICK x \in Int, y \in Int : x = OrderStatistic(v, q + 1) /\ y = Upper(v, m, q)
  BY <1>5, UpperIs
<1>7. CASE f = 0
  <2>1. x * 40 = x * (40 - 0) + y * 0
    BY <1>6
  <2> QED BY <1>3, <1>4, <1>6, <1>7, <2>1 DEF Mix
<1>8. CASE f # 0
  <2>1. (q + 1) + 1 = q + 2
    BY <1>5
  <2>2. y = OrderStatistic(v, (q + 1) + 1)
    BY <1>5, <1>6, <1>8, <2>1 DEF Upper
  <2> QED BY <1>3, <1>4, <1>6, <1>8, <2>2 DEF Mix
<1> QED BY <1>7, <1>8

LEMMA QuantileGrows ==
    ASSUME NEW m, NEW v, IsSample(v, m), NEW level \in 0 .. 40, NEW higher \in 0 .. 40, level <= higher
    PROVE  Quantile(v, level) \in Int /\ Quantile(v, level) <= Quantile(v, higher)
<1>1. PICK q, f : IsAt(m, level, q, f) /\ Quantile(v, level) = Mix(OrderStatistic(v, q + 1), Upper(v, m, q), f)
  BY QuantileIs
<1>2. PICK p, g : IsAt(m, higher, p, g) /\ Quantile(v, higher) = Mix(OrderStatistic(v, p + 1), Upper(v, m, p), g)
  BY QuantileIs
<1>3. /\ m \in Nat \ {0} /\ q \in 0 .. m - 1 /\ f \in 0 .. 39 /\ p \in 0 .. m - 1 /\ g \in 0 .. 39
      /\ (m - 1) * level = 40 * q + f /\ (m - 1) * higher = 40 * p + g
  BY <1>1, <1>2 DEF IsAt, IsSample
<1>4. 40 * q + f <= 40 * p + g
  <2>1. m - 1 \in Nat
    BY <1>3
  <2> QED BY <1>3, <2>1, TimesGrows
<1>5. q <= p /\ (q = p => f <= g)
  BY <1>3, <1>4
<1>6. PICK x \in Int, y \in Int, r \in Int, s \in Int :
        /\ x = OrderStatistic(v, q + 1) /\ y = Upper(v, m, q) /\ x <= y
        /\ r = OrderStatistic(v, p + 1) /\ s = Upper(v, m, p) /\ r <= s
  BY <1>3, UpperIs
<1>7. f \in 0 .. 40 /\ g \in 0 .. 40
  BY <1>3
<1>8. Mix(x, y, f) \in Int /\ Mix(x, y, f) <= y * 40 /\ Mix(r, s, g) \in Int /\ r * 40 <= Mix(r, s, g)
  BY <1>6, <1>7, MixIs
<1>9. Mix(x, y, f) <= Mix(r, s, g)
  <2>1. CASE q = p
    BY <1>5, <1>6, <1>7, <2>1, MixGrows
  <2>2. CASE q < p
    <3>1. q + 2 \in 1 .. m /\ p + 1 \in 1 .. m /\ q + 2 <= p + 1 /\ q + 2 <= m
      BY <1>3, <2>2
    <3>2. OrderStatistic(v, q + 2) <= OrderStatistic(v, p + 1)
      BY <3>1, OrderGrows
    <3>3. y <= r
      BY <1>6, <3>1, <3>2 DEF Upper
    <3>4. PICK a \in Int, b \in Int : a = Mix(x, y, f) /\ b = Mix(r, s, g) /\ a <= y * 40 /\ r * 40 <= b
      BY <1>8
    <3>5. a <= b
      BY <3>3, <3>4
    <3> QED BY <3>4, <3>5
  <2>3. q = p \/ q < p
    BY <1>3, <1>5
  <2> QED BY <2>1, <2>2, <2>3
<1> QED BY <1>1, <1>2, <1>6, <1>8, <1>9

Opposite(level, other) == level \in 0 .. 40 /\ other = 40 - level

(* Exchanging the ends of the scale and of the level mirrors a quantile.   *)
LEMMA QuantileMirrors ==
    ASSUME NEW m, NEW v, IsSample(v, m), NEW w, Mirrors(w, v, m),
           NEW level, NEW other, Opposite(level, other)
    PROVE  Quantile(w, other) = -Quantile(v, level)
<1> SUFFICES ASSUME level \in 0 .. 40 PROVE Quantile(w, 40 - level) = -Quantile(v, level)
  BY DEF Opposite
<1>0. m \in Nat \ {0} /\ IsSample(w, m) /\ 40 - level \in 0 .. 40
  BY DEF IsSample, Mirrors
<1>1. PICK q, f : IsAt(m, level, q, f) /\ Quantile(v, level) = Mix(OrderStatistic(v, q + 1), Upper(v, m, q), f)
  BY QuantileIs
<1>2. PICK p, g : /\ IsAt(m, 40 - level, p, g)
                  /\ Quantile(w, 40 - level) = Mix(OrderStatistic(w, p + 1), Upper(w, m, p), g)
  BY <1>0, QuantileIs
<1>3. /\ q \in 0 .. m - 1 /\ f \in 0 .. 39 /\ p \in 0 .. m - 1 /\ g \in 0 .. 39
      /\ (f # 0 => q + 2 <= m) /\ (g # 0 => p + 2 <= m)
      /\ (m - 1) * level = 40 * q + f /\ (m - 1) * (40 - level) = 40 * p + g
  BY <1>1, <1>2 DEF IsAt
<1>4. 40 * q + f + 40 * p + g = 40 * (m - 1)
  <2>1. (m - 1) * (40 - level) = (m - 1) * 40 - (m - 1) * level
    BY <1>0
  <2>2. PICK h \in Int : h = (m - 1) * level
    BY <1>0
  <2>3. h = 40 * q + f /\ (m - 1) * 40 - h = 40 * p + g
    BY <1>3, <2>1, <2>2
  <2> QED BY <1>0, <1>3, <2>3
<1>5. PICK x \in Int, y \in Int : x = OrderStatistic(v, q + 1) /\ y = Upper(v, m, q)
  BY <1>3, UpperIs
<1>6. PICK r \in Int, s \in Int : r = OrderStatistic(w, p + 1) /\ s = Upper(w, m, p)
  BY <1>0, <1>3, UpperIs
<1>7. ASSUME NEW k \in 1 .. m PROVE OrderStatistic(w, k) = -OrderStatistic(v, m + 1 - k)
  BY OrderMirrors
<1>8. CASE f = 0
  <2>1. g = 0 /\ p + 1 \in 1 .. m /\ m + 1 - (p + 1) = q + 1
    BY <1>0, <1>3, <1>4, <1>8
  <2>2. r = -x
    BY <1>5, <1>6, <1>7, <2>1
  <2>3. Mix(x, y, 0) = x * 40 /\ Mix(r, s, 0) = r * 40
    BY DEF Mix
  <2> QED BY <1>1, <1>2, <1>5, <1>6, <1>8, <2>1, <2>2, <2>3
<1>9. CASE f # 0
  <2>1. /\ g = 40 - f /\ p + 1 \in 1 .. m /\ m + 1 - (p + 1) = q + 2
        /\ p + 2 \in 1 .. m /\ p + 2 <= m /\ m + 1 - (p + 2) = q + 1 /\ q + 2 <= m
    BY <1>0, <1>3, <1>4, <1>9
  <2>2. y = OrderStatistic(v, q + 2) /\ s = OrderStatistic(w, p + 2)
    BY <1>5, <1>6, <2>1 DEF Upper
  <2>3. r = -y
    BY <1>6, <1>7, <2>1, <2>2
  <2>4. s = -x
    BY <1>5, <1>7, <2>1, <2>2
  <2>5. Mix(-y, -x, 40 - f) = -Mix(x, y, f)
    <3>1. f \in 0 .. 40
      BY <1>3
    <3> QED BY <3>1, MixMirrors
  <2> QED BY <1>1, <1>2, <1>5, <1>6, <2>1, <2>3, <2>4, <2>5
<1> QED BY <1>8, <1>9

(* A quantile is within the values.                                        *)
LEMMA QuantileBetween ==
    ASSUME NEW m, NEW v, IsSample(v, m), NEW level \in 0 .. 40, NEW low \in Int, NEW high \in Int,
           \A i \in 1 .. m : low <= v[i] /\ v[i] <= high
    PROVE  low * 40 <= Quantile(v, level) /\ Quantile(v, level) <= high * 40
<1>1. PICK q, f : IsAt(m, level, q, f) /\ Quantile(v, level) = Mix(OrderStatistic(v, q + 1), Upper(v, m, q), f)
  BY QuantileIs
<1>2. m \in Nat /\ q \in 0 .. m - 1 /\ f \in 0 .. 40
  BY <1>1 DEF IsAt, IsSample
<1>3. ASSUME NEW k \in 1 .. m PROVE low <= OrderStatistic(v, k) /\ OrderStatistic(v, k) <= high
  BY OrderIs
<1>4. PICK x \in Int, y \in Int : x = OrderStatistic(v, q + 1) /\ y = Upper(v, m, q) /\ x <= y
  BY <1>2, UpperIs
<1>5. low <= x
  <2>1. q + 1 \in 1 .. m
    BY <1>2
  <2> QED BY <1>3, <1>4, <2>1
<1>6. y <= high
  <2>1. q + 1 \in 1 .. m /\ (q + 2 <= m => q + 2 \in 1 .. m)
    BY <1>2
  <2> QED BY <1>3, <1>4, <2>1 DEF Upper
<1>7. PICK a \in Int : a = Mix(x, y, f) /\ x * 40 <= a /\ a <= y * 40
  BY <1>2, <1>4, MixIs
<1>8. low * 40 <= a /\ a <= high * 40
  BY <1>5, <1>6, <1>7
<1> QED BY <1>1, <1>4, <1>7, <1>8

-----------------------------------------------------------------------------
(* The comparison of two cells of n paths.                                 *)

IsCell(s, n) == n \in Nat \ {0} /\ s \in [1 .. n -> Int]

LEMMA CellIs ==
    ASSUME NEW n, NEW s, IsCell(s, n)
    PROVE  /\ DOMAIN s = 1 .. n /\ Len(s) = n /\ IsFiniteSet(1 .. n) /\ Cardinality(1 .. n) = n
           /\ IntOn(s, 1 .. n) /\ \A i \in 1 .. n : s[i] \in Int
           /\ Total(s) = SumFunctionOnSet(s, 1 .. n)
<1>1. IsSample(s, n)
  BY DEF IsCell, IsSample
<1>2. /\ DOMAIN s = 1 .. n /\ Len(s) = n /\ IsFiniteSet(1 .. n) /\ Cardinality(1 .. n) = n
      /\ \A i \in 1 .. n : s[i] \in Int
  BY <1>1, SampleIs
<1> QED BY <1>2 DEF IntOn, Total, SumFunction

LEMMA TotalBetween ==
    ASSUME NEW n, NEW s, IsCell(s, n), NEW low \in Int, NEW high \in Int,
           \A i \in 1 .. n : low <= s[i] /\ s[i] <= high
    PROVE  Total(s) \in Int /\ n * low <= Total(s) /\ Total(s) <= n * high
<1>1. PICK S : S = 1 .. n
  OBVIOUS
<1>2. IsFiniteSet(S) /\ Cardinality(S) = n /\ IntOn(s, S) /\ Total(s) = SumFunctionOnSet(s, S)
  BY <1>1, CellIs
<1>3. \A i \in S : low <= s[i] /\ s[i] <= high
  BY <1>1
<1>4. /\ SumFunctionOnSet(s, S) \in Int /\ Cardinality(S) * low <= SumFunctionOnSet(s, S)
      /\ SumFunctionOnSet(s, S) <= Cardinality(S) * high
  BY <1>2, <1>3, SumIsBounded
<1> QED BY <1>2, <1>4

LEMMA TotalIsInt ==
    ASSUME NEW n, NEW s, IsCell(s, n)
    PROVE  Total(s) \in Int
<1>1. PICK S : S = 1 .. n
  OBVIOUS
<1>2. IsFiniteSet(S) /\ IntOn(s, S) /\ Total(s) = SumFunctionOnSet(s, S)
  BY <1>1, CellIs
<1> QED BY <1>2, SumOfSame

LEMMA TotalsAdd ==
    ASSUME NEW n, NEW a, IsCell(a, n), NEW b, IsCell(b, n), NEW c, IsCell(c, n),
           \A i \in 1 .. n : c[i] = a[i] + b[i]
    PROVE  Total(c) = Total(a) + Total(b)
<1>1. PICK S : S = 1 .. n
  OBVIOUS
<1>2. /\ IsFiniteSet(S) /\ IntOn(a, S) /\ IntOn(b, S) /\ Total(a) = SumFunctionOnSet(a, S)
      /\ Total(b) = SumFunctionOnSet(b, S) /\ Total(c) = SumFunctionOnSet(c, S)
  BY <1>1, CellIs
<1>3. \A i \in S : c[i] = a[i] + b[i]
  BY <1>1
<1>4. SumFunctionOnSet(c, S) = SumFunctionOnSet(a, S) + SumFunctionOnSet(b, S)
  BY <1>2, <1>3, SumOfBoth
<1> QED BY <1>2, <1>4

LEMMA TotalNegates ==
    ASSUME NEW n, NEW a, IsCell(a, n), NEW b, IsCell(b, n), \A i \in 1 .. n : b[i] = -a[i]
    PROVE  Total(b) = -Total(a)
<1>1. PICK z : z = [i \in 1 .. n |-> 0]
  OBVIOUS
<1>2. IsCell(z, n) /\ \A i \in 1 .. n : 0 <= z[i] /\ z[i] <= 0
  BY <1>1 DEF IsCell
<1>3. Total(z) = 0
  <2>1. PICK zero \in Int : zero = 0
    OBVIOUS
  <2>2. \A i \in 1 .. n : zero <= z[i] /\ z[i] <= zero
    BY <1>2, <2>1
  <2>3. Total(z) \in Int /\ n * zero <= Total(z) /\ Total(z) <= n * zero
    BY <1>2, <2>2, TotalBetween
  <2>4. n * zero = 0
    BY <2>1 DEF IsCell
  <2> QED BY <2>3, <2>4
<1>4. ASSUME NEW i \in 1 .. n PROVE z[i] = a[i] + b[i]
  <2>1. a[i] \in Int /\ b[i] = -a[i] /\ z[i] = 0
    BY <1>1, CellIs
  <2> QED BY <2>1
<1>5. Total(z) = Total(a) + Total(b)
  BY <1>2, <1>4, TotalsAdd
<1>6. Total(a) \in Int /\ Total(b) \in Int
  BY TotalIsInt
<1> QED BY <1>3, <1>5, <1>6

LEMMA PairsDiffer ==
    ASSUME NEW n, NEW a, IsCell(a, n), NEW b, IsCell(b, n), NEW d, d = Differences(a, b)
    PROVE  /\ IsCell(d, n) /\ \A i \in 1 .. n : d[i] = a[i] - b[i]
           /\ Total(d) = Total(a) - Total(b)
<1>1. n \in Nat \ {0} /\ DOMAIN a = 1 .. n /\ \A i \in 1 .. n : a[i] \in Int /\ b[i] \in Int
  BY CellIs DEF IsCell
<1>2. d = [i \in 1 .. n |-> a[i] - b[i]]
  BY <1>1 DEF Differences
<1>3. IsCell(d, n) /\ \A i \in 1 .. n : d[i] = a[i] - b[i]
  BY <1>1, <1>2 DEF IsCell
<1>4. \A i \in 1 .. n : a[i] = d[i] + b[i]
  BY <1>1, <1>3
<1>5. Total(a) = Total(d) + Total(b)
  BY <1>3, <1>4, TotalsAdd
<1>6. Total(a) \in Int /\ Total(d) \in Int /\ Total(b) \in Int
  BY <1>3, TotalIsInt
<1> QED BY <1>3, <1>5, <1>6

(* The bootstrap: m resamples of the n paths.                              *)
IsDraw(idx, m, n) == m \in Nat \ {0} /\ idx \in [1 .. m -> [1 .. n -> 1 .. n]]
Drawn(diff, picked) == [k \in DOMAIN picked |-> diff[picked[k]]]
Picks(s, diff, picked, n) == \A k \in 1 .. n : picked[k] \in 1 .. n /\ s[k] = diff[picked[k]]

LEMMA DrawnIs ==
    ASSUME NEW n, NEW d, IsCell(d, n), NEW picked \in [1 .. n -> 1 .. n]
    PROVE  IsCell(Drawn(d, picked), n) /\ Picks(Drawn(d, picked), d, picked, n)
<1>1. n \in Nat \ {0} /\ \A i \in 1 .. n : d[i] \in Int
  BY CellIs DEF IsCell
<1>2. DOMAIN picked = 1 .. n /\ \A k \in 1 .. n : picked[k] \in 1 .. n
  OBVIOUS
<1> QED BY <1>1, <1>2 DEF IsCell, Drawn, Picks

LEMMA ResampleIs ==
    ASSUME NEW n, NEW d, IsCell(d, n), NEW m, NEW idx, IsDraw(idx, m, n),
           NEW v, v = Resample(d, idx)
    PROVE  /\ IsSample(v, m)
           /\ \A b \in 1 .. m : idx[b] \in [1 .. n -> 1 .. n] /\ v[b] = Total(Drawn(d, idx[b]))
<1>1. m \in Nat \ {0} /\ DOMAIN idx = 1 .. m /\ \A b \in 1 .. m : idx[b] \in [1 .. n -> 1 .. n]
  BY DEF IsDraw
<1>2. v = [b \in 1 .. m |-> Total(Drawn(d, idx[b]))]
  BY <1>1 DEF Resample, Drawn
<1>3. ASSUME NEW b \in 1 .. m PROVE Total(Drawn(d, idx[b])) \in Int
  BY <1>1, DrawnIs, TotalIsInt
<1>4. v \in [1 .. m -> Int] /\ \A b \in 1 .. m : v[b] = Total(Drawn(d, idx[b]))
  BY <1>2, <1>3
<1> QED BY <1>1, <1>4 DEF IsSample

LEMMA ResampleMirrors ==
    ASSUME NEW n, NEW d, IsCell(d, n), NEW e, IsCell(e, n), \A i \in 1 .. n : e[i] = -d[i],
           NEW m, NEW idx, IsDraw(idx, m, n)
    PROVE  Mirrors(Resample(e, idx), Resample(d, idx), m)
<1>1. PICK v, w : v = Resample(d, idx) /\ w = Resample(e, idx)
  OBVIOUS
<1>2. IsSample(w, m)
  BY <1>1, ResampleIs
<1>3. ASSUME NEW b \in 1 .. m PROVE w[b] = -v[b]
  <2>1. PICK picked : picked = idx[b]
    OBVIOUS
  <2>2. picked \in [1 .. n -> 1 .. n] /\ v[b] = Total(Drawn(d, picked))
    BY <1>1, <2>1, ResampleIs
  <2>3. w[b] = Total(Drawn(e, picked))
    BY <1>1, <2>1, ResampleIs
  <2>4. IsCell(Drawn(d, picked), n) /\ IsCell(Drawn(e, picked), n)
    BY <2>2, DrawnIs
  <2>5. \A k \in 1 .. n : Drawn(e, picked)[k] = -Drawn(d, picked)[k]
    <3>1. Picks(Drawn(e, picked), e, picked, n) /\ Picks(Drawn(d, picked), d, picked, n)
      BY <2>2, DrawnIs
    <3> QED BY <3>1 DEF Picks
  <2>6. Total(Drawn(e, picked)) = -Total(Drawn(d, picked))
    BY <2>4, <2>5, TotalNegates
  <2> QED BY <2>2, <2>3, <2>6
<1> QED BY <1>1, <1>2, <1>3 DEF Mirrors, IsSample

LEMMA ResampleBetween ==
    ASSUME NEW n, NEW d, IsCell(d, n), NEW m, NEW idx, IsDraw(idx, m, n),
           NEW low \in Int, NEW high \in Int, \A i \in 1 .. n : low <= d[i] /\ d[i] <= high,
           NEW v, v = Resample(d, idx)
    PROVE  \A b \in 1 .. m : n * low <= v[b] /\ v[b] <= n * high
<1> SUFFICES ASSUME NEW b \in 1 .. m PROVE n * low <= v[b] /\ v[b] <= n * high
  OBVIOUS
<1>1. PICK picked : picked = idx[b]
  OBVIOUS
<1>2. picked \in [1 .. n -> 1 .. n] /\ v[b] = Total(Drawn(d, picked))
  BY <1>1, ResampleIs
<1>3. PICK s : s = Drawn(d, picked)
  OBVIOUS
<1>4. IsCell(s, n) /\ Picks(s, d, picked, n)
  BY <1>2, <1>3, DrawnIs
<1>5. \A k \in 1 .. n : low <= s[k] /\ s[k] <= high
  BY <1>4 DEF Picks
<1>6. n * low <= Total(s) /\ Total(s) <= n * high
  BY <1>4, <1>5, TotalBetween
<1> QED BY <1>2, <1>3, <1>6

LEMMA LeastAndGreatest ==
    ASSUME NEW n, NEW s, IsCell(s, n)
    PROVE  /\ MinOf(s) \in Int /\ MaxOf(s) \in Int
           /\ \A i \in 1 .. n : MinOf(s) <= s[i] /\ s[i] <= MaxOf(s)
<1>1. DOMAIN s = 1 .. n /\ (1 .. n) # {} /\ \A i \in 1 .. n : s[i] \in Int
  <2>1. n \in Nat \ {0}
    BY DEF IsCell
  <2> QED BY <2>1, CellIs
<1>2. ToSet(s) \subseteq Int /\ \A i \in 1 .. n : s[i] \in ToSet(s)
  BY <1>1 DEF ToSet
<1>3. PICK S : S = 1 .. n
  OBVIOUS
<1>4. IsFiniteSet(S) /\ S # {} /\ IntOn(s, S)
  BY <1>1, <1>3, CellIs
<1>5. PICK i \in S, j \in S : (\A k \in S : s[i] <= s[k]) /\ (\A k \in S : s[k] <= s[j])
  BY <1>4, Extremes
<1>6. (\A x \in ToSet(s) : s[i] <= x) /\ (\A x \in ToSet(s) : x <= s[j])
  BY <1>1, <1>3, <1>5 DEF ToSet
<1>7. MinOf(s) \in ToSet(s) /\ \A x \in ToSet(s) : MinOf(s) <= x
  BY <1>2, <1>3, <1>5, <1>6 DEF MinOf
<1>8. MaxOf(s) \in ToSet(s) /\ \A x \in ToSet(s) : x <= MaxOf(s)
  BY <1>2, <1>3, <1>5, <1>6 DEF MaxOf
<1> QED BY <1>2, <1>7, <1>8

(* What happens to both cells alike does not change their differences.     *)
LEMMA ShocksCancel ==
    ASSUME NEW n, NEW a, IsCell(a, n), NEW b, IsCell(b, n), NEW shock \in Seq(Int), shock # <<>>,
           NEW c, c = [p \in DOMAIN a |-> a[p] + shock[(p % Len(shock)) + 1]],
           NEW d, d = [p \in DOMAIN b |-> b[p] + shock[(p % Len(shock)) + 1]]
    PROVE  Differences(c, d) = Differences(a, b)
<1>1. DOMAIN a = 1 .. n /\ DOMAIN b = 1 .. n /\ n \in Nat /\ \A i \in 1 .. n : a[i] \in Int /\ b[i] \in Int
  BY CellIs DEF IsCell
<1>2. Len(shock) \in Nat \ {0}
  BY EmptySeq, LenProperties
<1>3. ASSUME NEW p \in 1 .. n PROVE c[p] - d[p] = a[p] - b[p]
  <2>1. PICK l \in Nat \ {0} : l = Len(shock)
    BY <1>2
  <2>2. p \in Int /\ p % l \in 0 .. l - 1
    <3>1. p \in Int
      OBVIOUS
    <3> QED BY <3>1, DivMod
  <2>3. (p % l) + 1 \in 1 .. Len(shock)
    BY <2>1, <2>2
  <2>4. PICK x : x = shock[(p % l) + 1]
    OBVIOUS
  <2>5. x \in Int
    BY <2>3, <2>4, ElementOfSeq
  <2>6. c[p] = a[p] + x /\ d[p] = b[p] + x
    BY <1>1, <2>1, <2>4
  <2> QED BY <1>1, <2>5, <2>6
<1>4. DOMAIN c = 1 .. n
  BY <1>1
<1> QED BY <1>1, <1>3, <1>4 DEF Differences

LEMMA IntervalHolds ==
    ASSUME NEW n, NEW a, IsCell(a, n), NEW b, IsCell(b, n), NEW m, NEW idx, IsDraw(idx, m, n),
           NEW alpha \in 1 .. 19, NEW shock \in Seq(Int), shock # <<>>
    PROVE  IntervalOfPairs(a, b, idx, alpha, shock)
<1>1. PICK d, e, v, w :
        /\ d = Differences(a, b) /\ e = Differences(b, a)
        /\ v = Resample(d, idx) /\ w = Resample(e, idx)
  OBVIOUS
<1>2. IsCell(d, n) /\ Total(d) = Total(a) - Total(b) /\ \A i \in 1 .. n : d[i] = a[i] - b[i]
  BY <1>1, PairsDiffer
<1>3. IsCell(e, n) /\ \A i \in 1 .. n : e[i] = b[i] - a[i]
  BY <1>1, PairsDiffer
<1>4. \A i \in 1 .. n : e[i] = -d[i]
  <2>1. \A i \in 1 .. n : a[i] \in Int /\ b[i] \in Int
    BY CellIs
  <2> QED BY <1>2, <1>3, <2>1
<1>5. Total(e) = -Total(d)
  BY <1>2, <1>3, <1>4, TotalNegates
<1>6. IsSample(v, m) /\ Mirrors(w, v, m)
  BY <1>1, <1>2, <1>3, <1>4, ResampleIs, ResampleMirrors
<1>7. alpha \in 0 .. 40 /\ 40 - alpha \in 0 .. 40 /\ alpha <= 40 - alpha /\ 40 - (40 - alpha) = alpha
  OBVIOUS
<1>8. PICK low, high : low = Quantile(v, alpha) /\ high = Quantile(v, 40 - alpha)
  OBVIOUS
<1>9. Paired(a, b, idx, alpha) = [point |-> Total(d), lo |-> low, hi |-> high]
  BY <1>1, <1>8 DEF Paired, BootstrapCI, Levels
<1>10. Quantile(w, 40 - alpha) = -low /\ Quantile(w, alpha) = -high
  <2>1. PICK other : other = 40 - alpha /\ Opposite(alpha, other) /\ Opposite(other, alpha)
    BY <1>7 DEF Opposite
  <2>2. Quantile(w, other) = -Quantile(v, alpha)
    BY <1>6, <2>1, QuantileMirrors
  <2>3. Quantile(w, alpha) = -Quantile(v, other)
    BY <1>6, <2>1, QuantileMirrors
  <2> QED BY <1>8, <2>1, <2>2, <2>3
<1>11. Paired(b, a, idx, alpha) = [point |-> -Total(d), lo |-> -high, hi |-> -low]
  <2>1. Paired(b, a, idx, alpha) = [point |-> Total(e), lo |-> Quantile(w, alpha), hi |-> Quantile(w, 40 - alpha)]
    BY <1>1 DEF Paired, BootstrapCI, Levels
  <2> QED BY <1>5, <1>10, <2>1
<1>12. low <= high
  BY <1>6, <1>7, <1>8, QuantileGrows
<1>13. n * MinOf(d) * 40 <= low /\ high <= n * MaxOf(d) * 40
  <2>1. PICK x \in Int, y \in Int : /\ x = MinOf(d) /\ y = MaxOf(d)
                                    /\ \A i \in 1 .. n : x <= d[i] /\ d[i] <= y
    BY <1>2, LeastAndGreatest
  <2>2. PICK r \in Int, s \in Int : r = n * x /\ s = n * y
    BY DEF IsCell
  <2>3. \A i \in 1 .. m : r <= v[i] /\ v[i] <= s
    BY <1>1, <1>2, <2>1, <2>2, ResampleBetween
  <2>4. r * 40 <= low
    BY <1>6, <1>7, <1>8, <2>3, QuantileBetween
  <2>5. high <= s * 40
    BY <1>6, <1>7, <1>8, <2>3, QuantileBetween
  <2> QED BY <2>1, <2>2, <2>4, <2>5
<1>14. Summary(a).total = Total(a) /\ Summary(b).total = Total(b)
  <2>1. a # <<>> /\ b # <<>>
    <3>1. Len(a) # 0 /\ Len(b) # 0
      BY CellIs DEF IsCell
    <3> QED BY <3>1, EmptySeq
  <2> QED BY <2>1 DEF Summary
<1>15. ASSUME NEW c, c = [p \in DOMAIN a |-> a[p] + shock[(p % Len(shock)) + 1]],
              NEW f, f = [p \in DOMAIN b |-> b[p] + shock[(p % Len(shock)) + 1]]
       PROVE  Paired(c, f, idx, alpha) = Paired(a, b, idx, alpha)
  <2>1. Differences(c, f) = Differences(a, b)
    BY <1>15, ShocksCancel
  <2> QED BY <2>1 DEF Paired
<1>16. Paired([p \in DOMAIN a |-> a[p] + shock[(p % Len(shock)) + 1]],
              [p \in DOMAIN b |-> b[p] + shock[(p % Len(shock)) + 1]], idx, alpha) = Paired(a, b, idx, alpha)
  BY <1>15
<1>17. d = [p \in DOMAIN a |-> a[p] - b[p]] /\ Len(a) = n
  BY <1>1, CellIs DEF Differences
<1>18. PICK ci : ci = Paired(a, b, idx, alpha) /\ ci.point = Total(d) /\ ci.lo = low /\ ci.hi = high
  BY <1>9
<1>19. /\ Paired(b, a, idx, alpha) = [point |-> -ci.point, lo |-> -ci.hi, hi |-> -ci.lo]
       /\ ci.point = Summary(a).total - Summary(b).total
       /\ Len(a) * MinOf(d) * Levels <= ci.lo /\ ci.lo <= ci.hi /\ ci.hi <= Len(a) * MaxOf(d) * Levels
  <2>1. Paired(b, a, idx, alpha) = [point |-> -ci.point, lo |-> -ci.hi, hi |-> -ci.lo]
    BY <1>11, <1>18
  <2>2. ci.point = Summary(a).total - Summary(b).total
    BY <1>2, <1>14, <1>18
  <2>3. Len(a) * MinOf(d) * Levels <= ci.lo /\ ci.lo <= ci.hi /\ ci.hi <= Len(a) * MaxOf(d) * Levels
    BY <1>12, <1>13, <1>17, <1>18 DEF Levels
  <2> QED BY <2>1, <2>2, <2>3
<1> QED BY <1>16, <1>17, <1>18, <1>19 DEF IntervalOfPairs

LEMMA SummaryHolds ==
    ASSUME NEW n, NEW a, IsCell(a, n)
    PROVE  SummaryOrdered(a)
<1>1. IsSample(a, n)
  BY DEF IsCell, IsSample
<1>2. a # <<>>
  <2>1. Len(a) # 0
    BY CellIs DEF IsCell
  <2> QED BY <2>1, EmptySeq
<1>3. PICK s : s = Summary(a)
  OBVIOUS
<1>4. s.p05 = Quantile(a, 2) /\ s.p50 = Quantile(a, 20) /\ s.p95 = Quantile(a, 38)
  <2>1. Levels \div 20 = 2 /\ Levels \div 2 = 20 /\ Levels - Levels \div 20 = 38
    BY DEF Levels
  <2> QED BY <1>2, <1>3, <2>1 DEF Summary
<1>5. PICK low \in Int, high \in Int : /\ low = MinOf(a) /\ high = MaxOf(a)
                                       /\ \A i \in 1 .. n : low <= a[i] /\ a[i] <= high
  BY LeastAndGreatest
<1>6. low * 40 <= Quantile(a, 2)
  BY <1>1, <1>5, QuantileBetween
<1>7. Quantile(a, 38) <= high * 40
  BY <1>1, <1>5, QuantileBetween
<1>8. ASSUME NEW l \in 0 .. 40, NEW h \in 0 .. 40, l <= h PROVE Quantile(a, l) <= Quantile(a, h)
  BY <1>1, <1>8, QuantileGrows
<1>9. Quantile(a, 2) <= Quantile(a, 20) /\ Quantile(a, 20) <= Quantile(a, 38)
  BY <1>8
<1> QED BY <1>3, <1>4, <1>5, <1>6, <1>7, <1>9 DEF SummaryOrdered, Levels

(* The interval that is reported for two strategies is one of the pairs,   *)
(* for any results, draws and accepted level.                              *)
THEOREM IntervalsAreOfPairs == Spec => []IntervalIsOfPairs
<1>1. StudyInv => IntervalIsOfPairs
  <2> SUFFICES ASSUME StudyInv, stage = "compared"
               PROVE  /\ IntervalOfPairs(comparison.as, comparison.baseline, comparison.idx, Cfg.alpha, Shock)
                      /\ SummaryOrdered(comparison.as)
    BY DEF IntervalIsOfPairs
  <2>1. PICK n, m, alpha : n = Cfg.n_paths /\ m = Cfg.iterations /\ alpha = Cfg.alpha
    OBVIOUS
  <2>2. n \in Nat \ {0} /\ m \in Nat \ {0} /\ alpha \in 1 .. 19
    <3>1. PICK cfg : cfg = Cfg /\ cfg = Configuration(doc) /\ IsDocument(doc) /\ LoadConfig(doc).raised = "none"
      BY CfgIs DEF Accepted
    <3>2. SweepAccepts(cfg)
      BY <3>1, CfgIs, LoadedIsRunnable DEF Accepted
    <3>3. cfg.n_paths \in Int /\ cfg.iterations \in Int
      BY <3>1, DescribedIs DEF Described
    <3>4. cfg.n_paths >= 1 /\ cfg.iterations >= 1 /\ cfg.alpha \in 1 .. 20 - 1
      BY <3>2 DEF SweepAccepts, BootstrapAccepts, One
    <3> QED BY <2>1, <3>1, <3>3, <3>4
  <2>3. PICK as \in [1 .. n -> Metrics], baseline \in [1 .. n -> Metrics],
             idx \in [1 .. m -> [1 .. n -> 1 .. n]] :
          comparison = [as |-> as, baseline |-> baseline, idx |-> idx]
    BY <2>1 DEF StudyInv, Comparable
  <2>4. IsCell(as, n) /\ IsCell(baseline, n) /\ IsDraw(idx, m, n)
    <3>1. Metrics \subseteq Int
      BY StudyAssumption
    <3> QED BY <2>2, <2>3, <3>1 DEF IsCell, IsDraw
  <2>5. Shock \in Seq(Int) /\ Shock # <<>>
    BY StudyAssumption
  <2>6. IntervalOfPairs(as, baseline, idx, alpha, Shock)
    BY <2>2, <2>4, <2>5, IntervalHolds
  <2>7. SummaryOrdered(as)
    BY <2>4, SummaryHolds
  <2> QED BY <2>1, <2>3, <2>6, <2>7
<1> QED BY <1>1, StudyIsInv, PTL

-----------------------------------------------------------------------------
(* What an edit leaves alone.  The paths of a file are sequences of        *)
(* strings, the paths that the checks name sequences of names.             *)

Texts == STRING \cup FieldNames
Beside(e, f) == IsPrefix(e, f) \/ IsPrefix(f, e)

(* A document d that came from base by editing the paths in E: a node was  *)
(* edited or stands as it did, one that is gone was removed with a path    *)
(* edited, and one that is new was added to a mapping.                     *)
Edits(base, d, E) ==
    /\ E \subseteq Seq(Texts) \ {<<>>}
    /\ \A p \in DOMAIN d : p \in E \/ (p \in DOMAIN base /\ d[p] = base[p])
    /\ \A p \in DOMAIN base \ DOMAIN d : \E e \in E : IsPrefix(e, p)
    /\ \A p \in DOMAIN d \ DOMAIN base : p # <<>> => d[Front(p)].kind = "map"

Known(base, d) == DOMAIN base \subseteq Seq(Texts) /\ DOMAIN d \subseteq Seq(Texts)
Untouched(E, f) == f \in Seq(Texts) /\ \A e \in E : ~Beside(e, f)
Same(base, d, f) ==
    \A p \in Seq(Texts) :
        IsPrefix(f, p) => /\ p \in DOMAIN d <=> p \in DOMAIN base
                          /\ p \in DOMAIN d => d[p] = base[p]

LEMMA OnePath ==
    ASSUME NEW p \in Seq(Texts), NEW q \in Seq(Texts), NEW r \in Seq(Texts), IsPrefix(p, r), IsPrefix(q, r)
    PROVE  Beside(p, q)
<1>1. Len(p) \in Nat /\ Len(q) \in Nat
  BY LenProperties
<1>2. /\ Len(p) <= Len(r) /\ \A i \in 1 .. Len(p) : p[i] = r[i]
      /\ Len(q) <= Len(r) /\ \A i \in 1 .. Len(q) : q[i] = r[i]
  BY PrefixIs
<1>3. CASE Len(p) <= Len(q)
  <2>1. \A i \in 1 .. Len(p) : p[i] = q[i]
    BY <1>1, <1>2, <1>3
  <2> QED BY <1>3, <2>1, PrefixIs DEF Beside
<1>4. CASE Len(q) <= Len(p)
  <2>1. \A i \in 1 .. Len(q) : q[i] = p[i]
    BY <1>1, <1>2, <1>4
  <2> QED BY <1>4, <2>1, PrefixIs DEF Beside
<1> QED BY <1>1, <1>3, <1>4

LEMMA PrefixSteps ==
    ASSUME NEW p \in Seq(Texts), NEW q \in Seq(Texts), NEW r \in Seq(Texts)
    PROVE  IsPrefix(p, p) /\ (IsPrefix(p, q) /\ IsPrefix(q, r) => IsPrefix(p, r))
<1>1. Len(p) \in Nat /\ Len(q) \in Nat /\ Len(r) \in Nat
  BY LenProperties
<1>2. IsPrefix(p, p)
  BY <1>1, PrefixIs
<1>3. ASSUME IsPrefix(p, q), IsPrefix(q, r) PROVE IsPrefix(p, r)
  <2>1. /\ Len(p) <= Len(q) /\ \A i \in 1 .. Len(p) : p[i] = q[i]
        /\ Len(q) <= Len(r) /\ \A i \in 1 .. Len(q) : q[i] = r[i]
    BY <1>3, PrefixIs
  <2>2. Len(p) <= Len(r) /\ \A i \in 1 .. Len(p) : p[i] = r[i]
    BY <1>1, <2>1
  <2> QED BY <2>2, PrefixIs
<1> QED BY <1>2, <1>3

LEMMA UntouchedIsSame ==
    ASSUME NEW base, NEW d, NEW E, Edits(base, d, E), Known(base, d), NEW f, Untouched(E, f)
    PROVE  Same(base, d, f)
<1> SUFFICES ASSUME NEW p \in Seq(Texts), IsPrefix(f, p)
             PROVE  /\ p \in DOMAIN d <=> p \in DOMAIN base
                    /\ p \in DOMAIN d => d[p] = base[p]
  BY DEF Same
<1>1. p \notin E
  BY DEF Untouched, Beside
<1>2. ASSUME p \in DOMAIN base, p \notin DOMAIN d PROVE FALSE
  <2>1. PICK e \in E : IsPrefix(e, p)
    BY <1>2 DEF Edits
  <2>2. e \in Seq(Texts) /\ f \in Seq(Texts)
    BY DEF Edits, Untouched
  <2>3. Beside(e, f)
    BY <2>1, <2>2, OnePath
  <2> QED BY <2>3 DEF Untouched
<1> QED BY <1>1, <1>2 DEF Edits

LEMMA KeysAreTexts ==
    ASSUME NEW p \in Keys
    PROVE  p \in Seq(Texts)
<1>1. PICK S, T, U : S = FieldNames /\ U = STRING /\ T = U \cup S /\ T = Texts
  BY DEF Texts
<1>2. S \subseteq T /\ p \in Seq(S)
  BY <1>1 DEF Keys
<1>3. p \in Seq(T)
  BY <1>2, SeqMonotonic
<1> QED BY <1>1, <1>3

LEMMA AppendText ==
    ASSUME NEW p \in Seq(Texts), NEW key \in Texts
    PROVE  Append(p, key) \in Seq(Texts) /\ IsPrefix(p, Append(p, key))
<1>1. PICK q : q = Append(p, key)
  OBVIOUS
<1>2. q \in Seq(Texts) /\ Len(p) \in Nat /\ Len(q) = Len(p) + 1
  BY <1>1, AppendTo
<1>3. \A i \in 1 .. Len(p) : q[i] = p[i]
  BY <1>1, AppendTo
<1>4. IsPrefix(p, q)
  BY <1>2, <1>3, PrefixIs
<1> QED BY <1>1, <1>2, <1>4

(* A check looks at the node at its path and at the keys there: it says    *)
(* the same of two documents that agree from its path on.                  *)
LEMMA SameIsKept ==
    ASSUME NEW base, NEW d, Known(base, d), NEW f \in Seq(Texts), Same(base, d, f)
    PROVE  /\ f \in DOMAIN d <=> f \in DOMAIN base
           /\ f \in DOMAIN d => d[f] = base[f]
           /\ KindAt(d, f) = KindAt(base, f)
           /\ KeysOf(d, f) = KeysOf(base, f)
<1>1. IsPrefix(f, f)
  BY PrefixSteps
<1>2. (f \in DOMAIN d <=> f \in DOMAIN base) /\ (f \in DOMAIN d => d[f] = base[f])
  BY <1>1 DEF Same
<1>3. {q \in DOMAIN d : Len(q) = Len(f) + 1 /\ IsPrefix(f, q)} =
         {q \in DOMAIN base : Len(q) = Len(f) + 1 /\ IsPrefix(f, q)}
  BY DEF Same, Known
<1>4. KeysOf(d, f) = KeysOf(base, f)
  BY <1>3 DEF KeysOf
<1> QED BY <1>2, <1>4 DEF KindAt

LEMMA SameIsRejected ==
    ASSUME NEW base, NEW d, Known(base, d), NEW c, c.path \in Seq(Texts), Same(base, d, c.path),
           c.words = {} \/ "absent" \notin c.kinds, ~Rejects(base, c)
    PROVE  ~Rejects(d, c)
<1>1. /\ KindAt(d, c.path) = KindAt(base, c.path) /\ KeysOf(d, c.path) = KeysOf(base, c.path)
      /\ c.path \in DOMAIN d => d[c.path] = base[c.path]
  BY SameIsKept
<1>2. UnknownKeys(d, c) = UnknownKeys(base, c)
  BY <1>1 DEF UnknownKeys
<1>3. ASSUME "absent" \notin c.kinds
      PROVE  c.path \in DOMAIN d
  BY <1>1, <1>3 DEF Rejects, KindAt
<1> QED BY <1>1, <1>2, <1>3 DEF Rejects

-----------------------------------------------------------------------------
(* The checks of load_config, part by part.                                *)

RootPart ==
    Mapping(<<>>, <<Field("master_seed", {"int"})>>,
            {"horizon", "mid_price", "quoters", "fill", "risk", "mc", "analytics", "output"})
HorizonPart == Numbers(<<"horizon">>, <<"T", "dt">>)
PricePart ==
    Mapping(<<"mid_price">>, <<Word("model", {"gbm", "regime_switching"}), Field("s0", Number),
                               Field("regimes", {"list"})>>, {"transition_matrix"})
MatrixCheck == Check(MatrixPath, {"list"} \cup Optional, {}, {})
QuotersPart == Mapping(<<"quoters">>, <<>>, {"avellaneda_stoikov", "symmetric"})
AsPart == Numbers(<<"quoters", "avellaneda_stoikov">>, <<"gamma", "k", "A">>)
SymmetricPart == Numbers(<<"quoters", "symmetric">>, <<"delta_base">>)
FillPart == Numbers(<<"fill">>, <<"A_b", "k_b", "A_a", "k_a">>)
RiskPart == Mapping(<<"risk">>, <<Field("q_max", {"int"}), Field("L_kill", Number \cup {"null"})>>, {})
McPart == Mapping(<<"mc">>, <<Field("n_paths", {"int"})>>, {})
AnalyticsPart ==
    Mapping(<<"analytics">>,
            <<Field("adverse_selection_horizon_steps", {"int"}),
              Field("bootstrap_iterations", {"int"}), Field("bootstrap_alpha", Number),
              Field("sharpe_annualization_factor", Number)>>, {})
OutputPart == Mapping(<<"output">>, <<Field("dir", {"str"}), Word("format", {"parquet"})>>, {})

(* The checks that do not depend on the document.                          *)
FixedChecks ==
    Range(RootPart) \cup Range(HorizonPart) \cup Range(QuotersPart) \cup Range(AsPart)
    \cup Range(SymmetricPart) \cup Range(FillPart) \cup Range(RiskPart) \cup Range(McPart)
    \cup Range(AnalyticsPart) \cup Range(OutputPart)

LEMMA PartsAreSeqs ==
    /\ IsSeq(RootPart) /\ IsSeq(HorizonPart) /\ IsSeq(PricePart) /\ IsSeq(QuotersPart) /\ IsSeq(AsPart)
    /\ IsSeq(SymmetricPart) /\ IsSeq(FillPart) /\ IsSeq(RiskPart) /\ IsSeq(McPart)
    /\ IsSeq(AnalyticsPart) /\ IsSeq(OutputPart)
<1>1. /\ \A v : DOMAIN <<v>> = 1 .. 1
      /\ \A v, w : DOMAIN <<v, w>> = 1 .. 2
      /\ \A v, w, x : DOMAIN <<v, w, x>> = 1 .. 3
      /\ \A v, w, x, y : DOMAIN <<v, w, x, y>> = 1 .. 4
      /\ DOMAIN <<>> = 1 .. 0
  OBVIOUS
<1>2. IsSeq(RootPart) /\ IsSeq(McPart)
  BY <1>1, MappingIsSeq DEF RootPart, McPart
<1>3. IsSeq(PricePart)
  BY <1>1, MappingIsSeq DEF PricePart
<1>4. IsSeq(QuotersPart)
  BY <1>1, MappingIsSeq DEF QuotersPart
<1>5. IsSeq(RiskPart) /\ IsSeq(OutputPart)
  BY <1>1, MappingIsSeq DEF RiskPart, OutputPart
<1>6. IsSeq(AnalyticsPart)
  BY <1>1, MappingIsSeq DEF AnalyticsPart
<1>7. IsSeq(HorizonPart) /\ IsSeq(AsPart) /\ IsSeq(SymmetricPart) /\ IsSeq(FillPart)
  BY <1>1, NumbersIsSeq DEF HorizonPart, AsPart, SymmetricPart, FillPart
<1> QED BY <1>2, <1>3, <1>4, <1>5, <1>6, <1>7

LEMMA ChecksAre ==
    ASSUME NEW d
    PROVE  /\ IsSeq(StructuralChecks(d))
           /\ Range(StructuralChecks(d)) = FixedChecks \cup Range(MidPriceChecks(d))
<1>1. PICK a, b, c, e, f, g, h, i, j, k, l :
        /\ a = RootPart /\ b = HorizonPart /\ c = MidPriceChecks(d) /\ e = QuotersPart /\ f = AsPart
        /\ g = SymmetricPart /\ h = FillPart /\ i = RiskPart /\ j = McPart /\ k = AnalyticsPart
        /\ l = OutputPart
  OBVIOUS
<1>2. StructuralChecks(d) = a \o b \o c \o e \o f \o g \o h \o i \o j \o k \o l
  BY <1>1 DEF StructuralChecks, RootPart, HorizonPart, QuotersPart, AsPart, SymmetricPart, FillPart,
              RiskPart, McPart, AnalyticsPart, OutputPart
<1>3. /\ IsSeq(a) /\ IsSeq(b) /\ IsSeq(c) /\ IsSeq(e) /\ IsSeq(f) /\ IsSeq(g) /\ IsSeq(h) /\ IsSeq(i)
      /\ IsSeq(j) /\ IsSeq(k) /\ IsSeq(l)
  BY <1>1, PartsAreSeqs, MidPriceIsSeq
<1>4. PICK w : w = a \o b /\ IsSeq(w) /\ Range(w) = Range(a) \cup Range(b)
  BY <1>3, ConcatSeqs
<1>5. PICK x : x = w \o c /\ IsSeq(x) /\ Range(x) = Range(w) \cup Range(c)
  BY <1>3, <1>4, ConcatSeqs
<1>6. PICK y : y = x \o e /\ IsSeq(y) /\ Range(y) = Range(x) \cup Range(e)
  BY <1>3, <1>5, ConcatSeqs
<1>7. PICK z : z = y \o f /\ IsSeq(z) /\ Range(z) = Range(y) \cup Range(f)
  BY <1>3, <1>6, ConcatSeqs
<1>8. PICK m : m = z \o g /\ IsSeq(m) /\ Range(m) = Range(z) \cup Range(g)
  BY <1>3, <1>7, ConcatSeqs
<1>9. PICK n : n = m \o h /\ IsSeq(n) /\ Range(n) = Range(m) \cup Range(h)
  BY <1>3, <1>8, ConcatSeqs
<1>10. PICK o : o = n \o i /\ IsSeq(o) /\ Range(o) = Range(n) \cup Range(i)
  BY <1>3, <1>9, ConcatSeqs
<1>11. PICK p : p = o \o j /\ IsSeq(p) /\ Range(p) = Range(o) \cup Range(j)
  BY <1>3, <1>10, ConcatSeqs
<1>12. PICK q : q = p \o k /\ IsSeq(q) /\ Range(q) = Range(p) \cup Range(k)
  BY <1>3, <1>11, ConcatSeqs
<1>13. IsSeq(q \o l) /\ Range(q \o l) = Range(q) \cup Range(l)
  BY <1>3, <1>12, ConcatSeqs
<1>14. StructuralChecks(d) = q \o l
  BY <1>2, <1>4, <1>5, <1>6, <1>7, <1>8, <1>9, <1>10, <1>11, <1>12
<1>15. Range(q \o l) = Range(a) \cup Range(b) \cup Range(c) \cup Range(e) \cup Range(f) \cup Range(g)
                       \cup Range(h) \cup Range(i) \cup Range(j) \cup Range(k) \cup Range(l)
  BY <1>4, <1>5, <1>6, <1>7, <1>8, <1>9, <1>10, <1>11, <1>12, <1>13
<1>16. FixedChecks = Range(a) \cup Range(b) \cup Range(e) \cup Range(f) \cup Range(g) \cup Range(h)
                     \cup Range(i) \cup Range(j) \cup Range(k) \cup Range(l)
  BY <1>1 DEF FixedChecks
<1>17. Range(StructuralChecks(d)) = FixedChecks \cup Range(c)
  BY <1>14, <1>15, <1>16
<1> QED BY <1>1, <1>13, <1>14, <1>17

RowCheck(i) == Check(RowPath(i), {"list"}, {}, {})
EntryCheck(i, j) == Check(EntryPath(i, j), Number, {}, {})

LEMMA RowChecksAre ==
    ASSUME NEW d, NEW i
    PROVE  /\ IsSeq(RowChecks(d, i))
           /\ \A c : c \in Range(RowChecks(d, i)) <=>
                        \/ c = RowCheck(i)
                        \/ \E j \in 1 .. Length(d, RowPath(i)) : c = EntryCheck(i, j)
<1>1. PICK n \in Nat : n = Length(d, RowPath(i))
  BY LengthIsNat
<1>2. PICK tail : tail = [j \in 1 .. n |-> EntryCheck(i, j)]
  OBVIOUS
<1>3. RowChecks(d, i) = <<RowCheck(i)>> \o tail
  BY <1>1, <1>2 DEF RowChecks, RowCheck, EntryCheck
<1>4. DOMAIN tail = 1 .. n /\ tail = [j \in 1 .. n |-> tail[j]]
  BY <1>2
<1>5. IsSeq(tail) /\ IsSeq(<<RowCheck(i)>>)
  BY <1>4, FunctionIsSeq, TuplesAreSeqs
<1>6. Range(tail) = {EntryCheck(i, j) : j \in 1 .. n}
  BY <1>2 DEF Range
<1>7. Range(<<RowCheck(i)>>) = {RowCheck(i)}
  BY DEF Range
<1>8. IsSeq(RowChecks(d, i)) /\ Range(RowChecks(d, i)) = {RowCheck(i)} \cup {EntryCheck(i, j) : j \in 1 .. n}
  BY <1>3, <1>5, <1>6, <1>7, ConcatSeqs
<1> QED BY <1>1, <1>8

RegimeFields ==
    <<Field("name", {"str"}), Field("mu", Number), Field("sigma", Number),
      Field("gamma", Number \cup Optional)>>
LEMMA RegimeChecksAre ==
    ASSUME NEW k
    PROVE  /\ RegimeChecks(k) = Mapping(RegimePath(k), RegimeFields, {}) /\ DOMAIN RegimeFields = 1 .. 4
           /\ IsSeq(RegimeChecks(k))
<1>1. RegimeChecks(k) = Mapping(RegimePath(k), RegimeFields, {})
  BY DEF RegimeChecks, RegimeFields
<1>2. DOMAIN RegimeFields = 1 .. 4
  BY DEF RegimeFields
<1> QED BY <1>1, <1>2, MappingIsSeq

LEMMA MidPriceChecksAre ==
    ASSUME NEW d, NEW c
    PROVE  c \in Range(MidPriceChecks(d)) <=>
              \/ c \in Range(PricePart)
              \/ c = MatrixCheck
              \/ \E k \in 1 .. Length(d, RegimesPath) : c \in Range(RegimeChecks(k))
              \/ \E i \in 1 .. Length(d, MatrixPath) : c \in Range(RowChecks(d, i))
<1>1. PICK n \in Nat, m \in Nat : n = Length(d, RegimesPath) /\ m = Length(d, MatrixPath)
  BY LengthIsNat
<1>2. PICK each, rows : /\ each = [k \in 1 .. n |-> RegimeChecks(k)]
                        /\ rows = [i \in 1 .. m |-> RowChecks(d, i)]
  OBVIOUS
<1>3. MidPriceChecks(d) = PricePart \o FlattenSeq(each) \o <<MatrixCheck>> \o FlattenSeq(rows)
  BY <1>1, <1>2 DEF MidPriceChecks, PricePart, MatrixCheck, RegimesPath
<1>4. /\ IsSeq(FlattenSeq(each))
      /\ c \in Range(FlattenSeq(each)) <=> \E k \in 1 .. n : c \in Range(RegimeChecks(k))
  <2>1. DOMAIN each = 1 .. n /\ each = [k \in 1 .. n |-> each[k]]
    BY <1>2
  <2>2. IsSeq(each) /\ Len(each) = n
    BY <2>1, FunctionIsSeq
  <2>3. \A k \in 1 .. Len(each) : IsSeq(each[k])
    BY <1>2, <2>2, RegimeChecksAre
  <2>4. /\ IsSeq(FlattenSeq(each)) /\ \A k \in 1 .. Len(each) : Range(each[k]) \subseteq Range(FlattenSeq(each))
        /\ \A x \in Range(FlattenSeq(each)) : \E k \in 1 .. Len(each) : x \in Range(each[k])
    BY <2>2, <2>3, FlattenSeqIs
  <2> QED BY <1>2, <2>2, <2>4
<1>5. /\ IsSeq(FlattenSeq(rows))
      /\ c \in Range(FlattenSeq(rows)) <=> \E i \in 1 .. m : c \in Range(RowChecks(d, i))
  <2>1. DOMAIN rows = 1 .. m /\ rows = [i \in 1 .. m |-> rows[i]]
    BY <1>2
  <2>2. IsSeq(rows) /\ Len(rows) = m
    BY <2>1, FunctionIsSeq
  <2>3. \A i \in 1 .. Len(rows) : IsSeq(rows[i])
    BY <1>2, <2>2, RowChecksAre
  <2>4. /\ IsSeq(FlattenSeq(rows)) /\ \A i \in 1 .. Len(rows) : Range(rows[i]) \subseteq Range(FlattenSeq(rows))
        /\ \A x \in Range(FlattenSeq(rows)) : \E i \in 1 .. Len(rows) : x \in Range(rows[i])
    BY <2>2, <2>3, FlattenSeqIs
  <2> QED BY <1>2, <2>2, <2>4
<1>6. IsSeq(<<MatrixCheck>>) /\ Range(<<MatrixCheck>>) = {MatrixCheck}
  BY TuplesAreSeqs DEF Range
<1>7. PICK r, s, t : r = FlattenSeq(each) /\ s = <<MatrixCheck>> /\ t = FlattenSeq(rows)
  OBVIOUS
<1>8. IsSeq(PricePart \o r) /\ Range(PricePart \o r) = Range(PricePart) \cup Range(r)
  BY <1>4, <1>7, PartsAreSeqs, ConcatSeqs
<1>9. IsSeq(PricePart \o r \o s) /\ Range(PricePart \o r \o s) = Range(PricePart) \cup Range(r) \cup Range(s)
  BY <1>6, <1>7, <1>8, ConcatSeqs
<1>10. Range(PricePart \o r \o s \o t) = Range(PricePart) \cup Range(r) \cup Range(s) \cup Range(t)
  BY <1>5, <1>7, <1>9, ConcatSeqs
<1>11. c \in Range(MidPriceChecks(d)) <=>
          c \in Range(PricePart) \/ c \in Range(r) \/ c \in Range(s) \/ c \in Range(t)
  BY <1>3, <1>7, <1>10
<1> QED BY <1>1, <1>4, <1>5, <1>6, <1>7, <1>11

-----------------------------------------------------------------------------
(* Every check is of a path of names, and none reads the text of a node    *)
(* that may be absent.                                                     *)
Sound(c) == c.path \in Keys /\ (c.words = {} \/ "absent" \notin c.kinds)
FieldsSound(fields) ==
    \A f \in DOMAIN fields :
        fields[f].key \in FieldNames /\ (fields[f].words = {} \/ "absent" \notin fields[f].kinds)
FromPath(path, c) == Sound(c) /\ IsPrefix(path, c.path)

LEMMA MappingIsSound ==
    ASSUME NEW path \in Keys, NEW n \in Nat, NEW fields, DOMAIN fields = 1 .. n, FieldsSound(fields),
           NEW more, NEW c \in Range(Mapping(path, fields, more))
    PROVE  FromPath(path, c)
<1> DEFINE head == Check(path, {"map"}, {fields[k].key : k \in DOMAIN fields} \cup more, {})
           rest == [k \in DOMAIN fields |->
                      Check(Append(path, fields[k].key), fields[k].kinds, {}, fields[k].words)]
<1>1. Mapping(path, fields, more) = <<head>> \o rest
  BY DEF Mapping
<1>2. DOMAIN rest = 1 .. n /\ rest = [k \in 1 .. n |-> rest[k]]
  OBVIOUS
<1>3. ASSUME NEW f \in 1 .. n
      PROVE  rest[f] = Check(Append(path, fields[f].key), fields[f].kinds, {}, fields[f].words)
  BY <1>3
<1>4. head.path = path /\ head.words = {}
  BY DEF Check
<1> HIDE DEF head, rest
<1>5. IsSeq(rest) /\ IsSeq(<<head>>) /\ Range(<<head>>) = {head}
  BY <1>2, FunctionIsSeq, TuplesAreSeqs DEF Range
<1>6. Range(Mapping(path, fields, more)) = {head} \cup Range(rest)
  BY <1>1, <1>5, ConcatSeqs
<1>7. FromPath(path, head)
  <2>1. path \in Seq(Texts)
    BY KeysAreTexts
  <2>2. IsPrefix(path, path)
    BY <2>1, PrefixSteps
  <2> QED BY <1>4, <2>2 DEF FromPath, Sound
<1>8. ASSUME NEW f \in 1 .. n PROVE FromPath(path, rest[f])
  <2>1. PICK p, kinds, words : p = Append(path, fields[f].key) /\ kinds = fields[f].kinds /\ words = fields[f].words
    OBVIOUS
  <2>2. rest[f] = Check(p, kinds, {}, words)
    BY <1>3, <2>1
  <2>3. rest[f].path = p /\ rest[f].kinds = kinds /\ rest[f].words = words
    BY <2>2 DEF Check
  <2>4. fields[f].key \in FieldNames /\ (words = {} \/ "absent" \notin kinds)
    BY <1>8, <2>1 DEF FieldsSound
  <2>5. p \in Keys /\ IsPrefix(path, p)
    BY <2>1, <2>4, BelowIs
  <2> QED BY <2>3, <2>4, <2>5 DEF FromPath, Sound
<1> QED BY <1>2, <1>6, <1>7, <1>8 DEF Range

LEMMA NumbersAreSound ==
    ASSUME NEW path \in Keys, NEW n \in Nat, NEW keys, DOMAIN keys = 1 .. n,
           \A k \in 1 .. n : keys[k] \in FieldNames, NEW c \in Range(Numbers(path, keys))
    PROVE  Sound(c)
<1> DEFINE fields == [k \in DOMAIN keys |-> Field(keys[k], Number)]
<1>1. Numbers(path, keys) = Mapping(path, fields, {}) /\ DOMAIN fields = 1 .. n
  BY DEF Numbers
<1>2. FieldsSound(fields)
  BY DEF FieldsSound, Field
<1> HIDE DEF fields
<1> QED BY <1>1, <1>2, MappingIsSound DEF FromPath

LEMMA FieldsAreSound ==
    /\ \A key \in FieldNames : \A kinds : FieldsSound(<<Field(key, kinds)>>)
    /\ FieldsSound(<<>>)
<1>1. ASSUME NEW key \in FieldNames, NEW kinds PROVE FieldsSound(<<Field(key, kinds)>>)
  BY DEF FieldsSound, Field
<1>2. FieldsSound(<<>>)
  BY DEF FieldsSound
<1> QED BY <1>1, <1>2

LEMMA RegimeFieldsAreSound == FieldsSound(RegimeFields)
<1>1. PICK s : s = RegimeFields
  OBVIOUS
<1>2. DOMAIN s = 1 .. 4
  BY <1>1 DEF RegimeFields
<1>3. /\ s[1].key = "name" /\ s[1].words = {} /\ s[2].key = "mu" /\ s[2].words = {}
      /\ s[3].key = "sigma" /\ s[3].words = {} /\ s[4].key = "gamma" /\ s[4].words = {}
  BY <1>1 DEF RegimeFields, Field
<1> QED BY <1>1, <1>2, <1>3, NamesAre DEF FieldsSound

-----------------------------------------------------------------------------
(* Each part of the checks in turn, then all of them.                      *)
LEMMA FixedAreSound ==
    ASSUME NEW c \in FixedChecks
    PROVE  Sound(c)
<1>1. CASE c \in Range(RootPart)
  <2>1. PICK fields, p, more :
          /\ fields = <<Field("master_seed", {"int"})>> /\ p = <<>>
          /\ more = {"horizon", "mid_price", "quoters", "fill", "risk", "mc", "analytics", "output"}
    OBVIOUS
  <2>2. DOMAIN fields = 1 .. 1 /\ FieldsSound(fields) /\ p \in Keys
    BY <2>1, FieldsAreSound, NamesAre, SectionsAre
  <2>3. c \in Range(Mapping(p, fields, more))
    BY <1>1, <2>1 DEF RootPart
  <2> QED BY <2>2, <2>3, MappingIsSound DEF FromPath
<1>2. CASE c \in Range(HorizonPart)
  <2>1. PICK keys, p : keys = <<"T", "dt">> /\ p = <<"horizon">>
    OBVIOUS
  <2>2. DOMAIN keys = 1 .. 2 /\ p \in Keys /\ \A k \in 1 .. 2 : keys[k] \in FieldNames
    BY <2>1, NamesAre, SectionsAre
  <2> QED BY <1>2, <2>1, <2>2, NumbersAreSound DEF HorizonPart
<1>3. CASE c \in Range(QuotersPart)
  <2>1. PICK fields, p, more :
          fields = <<>> /\ p = <<"quoters">> /\ more = {"avellaneda_stoikov", "symmetric"}
    OBVIOUS
  <2>2. DOMAIN fields = 1 .. 0 /\ FieldsSound(fields) /\ p \in Keys
    BY <2>1, FieldsAreSound, SectionsAre
  <2>3. c \in Range(Mapping(p, fields, more))
    BY <1>3, <2>1 DEF QuotersPart
  <2> QED BY <2>2, <2>3, MappingIsSound DEF FromPath
<1>4. CASE c \in Range(AsPart)
  <2>1. PICK keys, p : keys = <<"gamma", "k", "A">> /\ p = <<"quoters", "avellaneda_stoikov">>
    OBVIOUS
  <2>2. DOMAIN keys = 1 .. 3 /\ p \in Keys /\ \A k \in 1 .. 3 : keys[k] \in FieldNames
    BY <2>1, NamesAre, SectionsAre
  <2> QED BY <1>4, <2>1, <2>2, NumbersAreSound DEF AsPart
<1>5. CASE c \in Range(SymmetricPart)
  <2>1. PICK keys, p : keys = <<"delta_base">> /\ p = <<"quoters", "symmetric">>
    OBVIOUS
  <2>2. DOMAIN keys = 1 .. 1 /\ p \in Keys /\ \A k \in 1 .. 1 : keys[k] \in FieldNames
    BY <2>1, NamesAre, SectionsAre
  <2> QED BY <1>5, <2>1, <2>2, NumbersAreSound DEF SymmetricPart
<1>6. CASE c \in Range(FillPart)
  <2>1. PICK keys, p : keys = <<"A_b", "k_b", "A_a", "k_a">> /\ p = <<"fill">>
    OBVIOUS
  <2>2. DOMAIN keys = 1 .. 4 /\ p \in Keys /\ \A k \in 1 .. 4 : keys[k] \in FieldNames
    BY <2>1, NamesAre, SectionsAre
  <2> QED BY <1>6, <2>1, <2>2, NumbersAreSound DEF FillPart
<1>7. CASE c \in Range(RiskPart)
  <2>1. PICK fields, p, more :
          /\ fields = <<Field("q_max", {"int"}), Field("L_kill", Number \cup {"null"})>>
          /\ p = <<"risk">> /\ more = {}
    OBVIOUS
  <2>2. DOMAIN fields = 1 .. 2 /\ p \in Keys
    BY <2>1, SectionsAre
  <2>3. fields[1].key = "q_max" /\ fields[1].words = {} /\ fields[2].key = "L_kill" /\ fields[2].words = {}
    BY <2>1 DEF Field
  <2>4. FieldsSound(fields)
    BY <2>2, <2>3, NamesAre DEF FieldsSound
  <2>5. c \in Range(Mapping(p, fields, more))
    BY <1>7, <2>1 DEF RiskPart
  <2> QED BY <2>2, <2>4, <2>5, MappingIsSound DEF FromPath
<1>8. CASE c \in Range(McPart)
  <2>1. PICK fields, p, more : fields = <<Field("n_paths", {"int"})>> /\ p = <<"mc">> /\ more = {}
    OBVIOUS
  <2>2. DOMAIN fields = 1 .. 1 /\ FieldsSound(fields) /\ p \in Keys
    BY <2>1, FieldsAreSound, NamesAre, SectionsAre
  <2>3. c \in Range(Mapping(p, fields, more))
    BY <1>8, <2>1 DEF McPart
  <2> QED BY <2>2, <2>3, MappingIsSound DEF FromPath
<1>9. CASE c \in Range(AnalyticsPart)
  <2>1. PICK fields, p, more :
          /\ fields = <<Field("adverse_selection_horizon_steps", {"int"}),
                        Field("bootstrap_iterations", {"int"}), Field("bootstrap_alpha", Number),
                        Field("sharpe_annualization_factor", Number)>>
          /\ p = <<"analytics">> /\ more = {}
    OBVIOUS
  <2>2. DOMAIN fields = 1 .. 4 /\ p \in Keys
    BY <2>1, SectionsAre
  <2>3. /\ fields[1].key = "adverse_selection_horizon_steps" /\ fields[1].words = {}
        /\ fields[2].key = "bootstrap_iterations" /\ fields[2].words = {}
        /\ fields[3].key = "bootstrap_alpha" /\ fields[3].words = {}
        /\ fields[4].key = "sharpe_annualization_factor" /\ fields[4].words = {}
    BY <2>1 DEF Field
  <2>4. FieldsSound(fields)
    BY <2>2, <2>3, NamesAre DEF FieldsSound
  <2>5. c \in Range(Mapping(p, fields, more))
    BY <1>9, <2>1 DEF AnalyticsPart
  <2> QED BY <2>2, <2>4, <2>5, MappingIsSound DEF FromPath
<1>10. CASE c \in Range(OutputPart)
  <2>1. PICK fields, p, more :
          fields = <<Field("dir", {"str"}), Word("format", {"parquet"})>> /\ p = <<"output">> /\ more = {}
    OBVIOUS
  <2>2. DOMAIN fields = 1 .. 2 /\ p \in Keys
    BY <2>1, SectionsAre
  <2>3. fields[1].key = "dir" /\ fields[1].words = {} /\ fields[2].key = "format" /\ fields[2].kinds = {"str"}
    BY <2>1 DEF Field, Word
  <2>4. FieldsSound(fields)
    BY <2>2, <2>3, NamesAre DEF FieldsSound
  <2>5. c \in Range(Mapping(p, fields, more))
    BY <1>10, <2>1 DEF OutputPart
  <2> QED BY <2>2, <2>4, <2>5, MappingIsSound DEF FromPath
<1> QED BY <1>1, <1>2, <1>3, <1>4, <1>5, <1>6, <1>7, <1>8, <1>9, <1>10 DEF FixedChecks

(* What the section of the prices demands of its own fields.               *)
PriceFields ==
    <<Word("model", {"gbm", "regime_switching"}), Field("s0", Number), Field("regimes", {"list"})>>
LEMMA PriceFieldsAre ==
    /\ PricePart = Mapping(<<"mid_price">>, PriceFields, {"transition_matrix"})
    /\ DOMAIN PriceFields = 1 .. 3 /\ FieldsSound(PriceFields)
    /\ PriceFields[1] = Word("model", {"gbm", "regime_switching"})
    /\ PriceFields[2] = Field("s0", Number) /\ PriceFields[3] = Field("regimes", {"list"})
<1>1. PricePart = Mapping(<<"mid_price">>, PriceFields, {"transition_matrix"})
  BY DEF PricePart, PriceFields
<1>2. PICK s : s = PriceFields
  OBVIOUS
<1>3. /\ DOMAIN s = 1 .. 3 /\ s[1] = Word("model", {"gbm", "regime_switching"})
      /\ s[2] = Field("s0", Number) /\ s[3] = Field("regimes", {"list"})
  BY <1>2 DEF PriceFields
<1>4. /\ s[1].key = "model" /\ s[1].kinds = {"str"} /\ s[2].key = "s0" /\ s[2].words = {}
      /\ s[3].key = "regimes" /\ s[3].words = {}
  BY <1>3 DEF Field, Word
<1>5. FieldsSound(s)
  BY <1>3, <1>4, NamesAre DEF FieldsSound
<1> QED BY <1>1, <1>2, <1>3, <1>5

LEMMA EntryPathsAre ==
    ASSUME NEW i \in 1 .. 3, NEW j \in 1 .. 3
    PROVE  /\ RowPath(i) \in Keys /\ EntryPath(i, j) \in Keys
           /\ IsPrefix(MatrixPath, RowPath(i)) /\ IsPrefix(RowPath(i), EntryPath(i, j))
           /\ IsPrefix(RegimesPath, RegimePath(i)) /\ RegimePath(i) \in Keys
           /\ RegimesPath \in Keys /\ RegimePath(i) = Append(RegimesPath, Index[i])
<1>1. MatrixPath \in Keys /\ RowPath(i) \in Keys
  BY ListPathsAre
<1>2. RegimesPath \in Keys /\ RegimePath(i) \in Keys /\ RegimePath(i) = Append(RegimesPath, Index[i])
  BY ListPathsAre DEF RegimesPath
<1>3. EntryPath(i, j) \in Keys /\ IsPrefix(RowPath(i), EntryPath(i, j))
  BY <1>1, IndexIsName, BelowIs DEF EntryPath
<1>4. IsPrefix(MatrixPath, RowPath(i))
  BY <1>1, IndexIsName, BelowIs DEF RowPath
<1>5. IsPrefix(RegimesPath, RegimePath(i))
  BY <1>2, IndexIsName, BelowIs
<1> QED BY <1>1, <1>2, <1>3, <1>4, <1>5

LEMMA AllAreSound ==
    ASSUME NEW d, NEW c \in Range(StructuralChecks(d))
    PROVE  Sound(c)
<1>1. CASE c \in FixedChecks
  BY <1>1, FixedAreSound
<1>2. CASE c \in Range(PricePart)
  BY <1>2, PriceFieldsAre, SectionsAre, MappingIsSound DEF FromPath
<1>3. CASE c = MatrixCheck
  BY <1>3, EntryPathsAre, ListPathsAre DEF MatrixCheck, Check, Sound
<1>4. ASSUME NEW k \in 1 .. Length(d, RegimesPath), c \in Range(RegimeChecks(k)) PROVE Sound(c)
  <2>1. k \in 1 .. 3
    BY LengthIsSmall
  <2> QED BY <1>4, <2>1, EntryPathsAre, RegimeChecksAre, RegimeFieldsAreSound, MappingIsSound DEF FromPath
<1>5. ASSUME NEW i \in 1 .. Length(d, MatrixPath), c \in Range(RowChecks(d, i)) PROVE Sound(c)
  <2>1. i \in 1 .. 3
    BY LengthIsSmall
  <2>2. CASE c = RowCheck(i)
    BY <2>1, <2>2, EntryPathsAre DEF RowCheck, Check, Sound
  <2>3. ASSUME NEW j \in 1 .. Length(d, RowPath(i)), c = EntryCheck(i, j) PROVE Sound(c)
    <3>1. j \in 1 .. 3
      BY LengthIsSmall
    <3> QED BY <2>1, <2>3, <3>1, EntryPathsAre DEF EntryCheck, Check, Sound
  <2> QED BY <1>5, <2>2, <2>3, RowChecksAre
<1>6. c \in FixedChecks \/ c \in Range(MidPriceChecks(d))
  BY ChecksAre
<1> QED BY <1>1, <1>2, <1>3, <1>4, <1>5, <1>6, MidPriceChecksAre

-----------------------------------------------------------------------------
(* A list changes its length only by an edit: to a longer one that list was *)
(* edited, to a shorter one a path that contains one of its elements.       *)

LEMMA NewIsEdited ==
    ASSUME NEW base, NEW d, NEW E, Edits(base, d, E), HasParents(d), NEW p \in Keys, NEW k \in 1 .. 3,
           Append(p, Index[k]) \in DOMAIN d \ DOMAIN base, KindAt(base, p) # "map"
    PROVE  p \in E
<1>1. PICK q : q = Append(p, Index[k])
  OBVIOUS
<1>2. q # <<>> /\ Front(q) = p
  BY <1>1, IndexIsName, BelowIs
<1>3. p \in DOMAIN d /\ d[p].kind = "map"
  BY <1>1, <1>2 DEF HasParents, Edits
<1>4. ASSUME p \in DOMAIN base, d[p] = base[p] PROVE FALSE
  BY <1>3, <1>4 DEF KindAt
<1> QED BY <1>3, <1>4 DEF Edits

Members(d, p) == {k \in 1 .. 3 : Append(p, Index[k]) \in DOMAIN d}
LEMMA MembersAre ==
    ASSUME NEW d, NEW p
    PROVE  Length(d, p) = Cardinality(Members(d, p)) /\ IsFiniteSet(Members(d, p))
<1>1. Length(d, p) = Cardinality(Members(d, p))
  BY IndexIs DEF Length, Members
<1>2. IsFiniteSet(1 .. 3)
  <2>1. PICK a \in Int, b \in Int : a = 1 /\ b = 3
    OBVIOUS
  <2>2. IsFiniteSet(a .. b)
    BY FS_Interval
  <2> QED BY <2>1, <2>2
<1>3. Members(d, p) \subseteq 1 .. 3
  BY DEF Members
<1> QED BY <1>1, <1>2, <1>3, FS_Subset

LEMMA MoreMembers ==
    ASSUME NEW d, NEW base, NEW p, Length(base, p) < Length(d, p)
    PROVE  \E k \in 1 .. 3 : Append(p, Index[k]) \in DOMAIN d \ DOMAIN base
<1>1. PICK S, T : S = Members(d, p) /\ T = Members(base, p)
  OBVIOUS
<1>2. /\ IsFiniteSet(T) /\ Cardinality(T) = Length(base, p)
      /\ Cardinality(S) = Length(d, p)
  BY <1>1, MembersAre
<1>3. ~(S \subseteq T)
  <2> SUFFICES ASSUME S \subseteq T PROVE FALSE
    OBVIOUS
  <2>1. Cardinality(S) <= Cardinality(T)
    BY <1>2, FS_Subset
  <2>2. Length(base, p) \in Nat /\ Length(d, p) \in Nat
    BY LengthIsNat
  <2> QED BY <1>2, <2>1, <2>2
<1> QED BY <1>1, <1>3 DEF Members

LEMMA LongerIsEdited ==
    ASSUME NEW base, NEW d, NEW E, Edits(base, d, E), HasParents(d), NEW p \in Keys,
           Length(base, p) < Length(d, p), KindAt(base, p) # "map"
    PROVE  p \in E
  BY MoreMembers, NewIsEdited

LEMMA ShorterIsEdited ==
    ASSUME NEW base, NEW d, NEW E, Edits(base, d, E), NEW p, Length(d, p) < Length(base, p)
    PROVE  \E k \in 1 .. 3, e \in E : IsPrefix(e, Append(p, Index[k]))
<1>1. PICK k \in 1 .. 3 : Append(p, Index[k]) \in DOMAIN base \ DOMAIN d
  BY MoreMembers
<1> QED BY <1>1 DEF Edits

(* The lists of a document that is accepted are none of them mappings.     *)
LEMMA ListsAreLists ==
    ASSUME NEW base, Accepts(base, StructuralChecks(base))
    PROVE  /\ KindAt(base, RegimesPath) = "list" /\ KindAt(base, MatrixPath) \in {"list"} \cup Optional
           /\ \A i \in 1 .. Length(base, MatrixPath) : KindAt(base, RowPath(i)) = "list"
<1>1. \A c : c \in FixedChecks \/ c \in Range(MidPriceChecks(base)) => ~Rejects(base, c)
  BY ChecksAre DEF Accepts
<1>2. KindAt(base, RegimesPath) = "list"
  <2>1. IsSeq(PricePart)
    BY PartsAreSeqs
  <2>2. Accepts(base, PricePart)
    BY <1>1, <2>1, MidPriceChecksAre DEF Accepts
  <2>3. \A f \in 1 .. 3 : Demands(base, <<"mid_price">>, PriceFields[f])
    BY <2>2, PriceFieldsAre, MappingDemands
  <2>4. Demands(base, <<"mid_price">>, Field("regimes", {"list"}))
    BY <2>3, PriceFieldsAre
  <2>5. KindAt(base, Append(<<"mid_price">>, "regimes")) = "list"
    BY <2>4 DEF Demands, Field
  <2>6. Append(<<"mid_price">>, "regimes") = RegimesPath
    BY NamesAre, TwoKeys DEF RegimesPath
  <2> QED BY <2>5, <2>6
<1>3. KindAt(base, MatrixPath) \in {"list"} \cup Optional
  <2>1. ~Rejects(base, MatrixCheck)
    BY <1>1, MidPriceChecksAre
  <2>2. MatrixCheck.path = MatrixPath /\ MatrixCheck.kinds = {"list"} \cup Optional
    BY DEF MatrixCheck, Check
  <2> QED BY <2>1, <2>2 DEF Rejects
<1>4. ASSUME NEW i \in 1 .. Length(base, MatrixPath) PROVE KindAt(base, RowPath(i)) = "list"
  <2>1. RowCheck(i) \in Range(RowChecks(base, i))
    BY RowChecksAre
  <2>2. ~Rejects(base, RowCheck(i))
    BY <1>1, <2>1, MidPriceChecksAre
  <2>3. RowCheck(i).path = RowPath(i) /\ RowCheck(i).kinds = {"list"}
    BY DEF RowCheck, Check
  <2> QED BY <2>2, <2>3 DEF Rejects
<1> QED BY <1>2, <1>3, <1>4

(* A check that rejects a document is of a path next to one edited since   *)
(* the document was accepted.                                              *)
LEMMA RejectedIsBeside ==
    ASSUME NEW base, NEW d, NEW E, Edits(base, d, E), Known(base, d), HasParents(d),
           Accepts(base, StructuralChecks(base)), NEW c \in Range(StructuralChecks(d)), Rejects(d, c)
    PROVE  \E e \in E : Beside(e, c.path)
<1> SUFFICES ASSUME \A e \in E : ~Beside(e, c.path) PROVE FALSE
  OBVIOUS
<1>1. Sound(c) /\ c.path \in Keys /\ c.path \in Seq(Texts)
  BY AllAreSound, KeysAreTexts DEF Sound
<1>2. Untouched(E, c.path)
  BY <1>1 DEF Untouched
<1>3. \A p \in Keys : IsPrefix(p, c.path) => p \notin E
  BY <1>2 DEF Untouched, Beside
<1>4. ASSUME c \in Range(StructuralChecks(base)) PROVE FALSE
  <2>1. ~Rejects(base, c)
    BY <1>4 DEF Accepts
  <2>2. Same(base, d, c.path)
    BY <1>2, UntouchedIsSame
  <2> QED BY <1>1, <2>1, <2>2, SameIsRejected DEF Sound
<1>5. ASSUME NEW k \in 1 .. Length(d, RegimesPath), c \in Range(RegimeChecks(k)) PROVE FALSE
  <2>1. k \in 1 .. 3 /\ k \in Int /\ Length(d, RegimesPath) \in Int /\ Length(base, RegimesPath) \in Int
    BY LengthIsSmall
  <2>2. IsPrefix(RegimePath(k), c.path)
    BY <1>5, <2>1, EntryPathsAre, RegimeChecksAre, RegimeFieldsAreSound, MappingIsSound DEF FromPath
  <2>3. IsPrefix(RegimesPath, c.path)
    <3>1. RegimesPath \in Seq(Texts) /\ RegimePath(k) \in Seq(Texts) /\ IsPrefix(RegimesPath, RegimePath(k))
      BY <2>1, EntryPathsAre, KeysAreTexts
    <3> QED BY <1>1, <2>2, <3>1, PrefixSteps
  <2>4. RegimesPath \in Keys /\ RegimesPath \notin E
    BY <1>3, <2>1, <2>3, EntryPathsAre
  <2>5. KindAt(base, RegimesPath) # "map"
    BY ListsAreLists
  <2>6. ~(Length(base, RegimesPath) < Length(d, RegimesPath))
    BY <2>4, <2>5, LongerIsEdited
  <2>7. k \in 1 .. Length(base, RegimesPath)
    BY <1>5, <2>1, <2>6
  <2>8. c \in Range(StructuralChecks(base))
    BY <1>5, <2>7, ChecksAre, MidPriceChecksAre
  <2> QED BY <1>4, <2>8
<1>6. ASSUME NEW i \in 1 .. Length(d, MatrixPath), c \in Range(RowChecks(d, i)) PROVE FALSE
  <2>1. i \in 1 .. 3 /\ i \in Int /\ Length(d, MatrixPath) \in Int /\ Length(base, MatrixPath) \in Int
    BY LengthIsSmall
  <2>2. RowPath(i) \in Keys /\ MatrixPath \in Keys /\ IsPrefix(MatrixPath, RowPath(i))
        /\ RowPath(i) \in Seq(Texts) /\ MatrixPath \in Seq(Texts)
    BY <2>1, EntryPathsAre, ListPathsAre, KeysAreTexts
  <2>3. IsPrefix(RowPath(i), c.path)
    <3>1. CASE c = RowCheck(i)
      <4>1. c.path = RowPath(i)
        BY <3>1 DEF RowCheck, Check
      <4> QED BY <2>2, <4>1, PrefixSteps
    <3>2. ASSUME NEW j \in 1 .. Length(d, RowPath(i)), c = EntryCheck(i, j) PROVE IsPrefix(RowPath(i), c.path)
      <4>1. j \in 1 .. 3
        BY LengthIsSmall
      <4>2. c.path = EntryPath(i, j)
        BY <3>2 DEF EntryCheck, Check
      <4> QED BY <2>1, <4>1, <4>2, EntryPathsAre
    <3> QED BY <1>6, <3>1, <3>2, RowChecksAre
  <2>4. IsPrefix(MatrixPath, c.path)
    BY <1>1, <2>2, <2>3, PrefixSteps
  <2>5. RowPath(i) \notin E /\ MatrixPath \notin E
    BY <1>3, <2>2, <2>3, <2>4
  <2>6. i \in 1 .. Length(base, MatrixPath)
    <3>1. KindAt(base, MatrixPath) # "map"
      BY ListsAreLists DEF Optional
    <3>2. ~(Length(base, MatrixPath) < Length(d, MatrixPath))
      BY <2>2, <2>5, <3>1, LongerIsEdited
    <3> QED BY <1>6, <2>1, <3>2
  <2>7. c \in Range(RowChecks(base, i))
    <3>1. CASE c = RowCheck(i)
      BY <3>1, RowChecksAre
    <3>2. ASSUME NEW j \in 1 .. Length(d, RowPath(i)), c = EntryCheck(i, j) PROVE c \in Range(RowChecks(base, i))
      <4>1. KindAt(base, RowPath(i)) # "map"
        BY <2>6, ListsAreLists
      <4>2. ~(Length(base, RowPath(i)) < Length(d, RowPath(i)))
        BY <2>2, <2>5, <4>1, LongerIsEdited
      <4>3. Length(d, RowPath(i)) \in Int /\ Length(base, RowPath(i)) \in Int
        BY LengthIsSmall
      <4>4. j \in 1 .. Length(base, RowPath(i))
        BY <4>2, <4>3
      <4> QED BY <3>2, <4>4, RowChecksAre
    <3> QED BY <1>6, <3>1, <3>2, RowChecksAre
  <2>8. c \in Range(StructuralChecks(base))
    BY <2>6, <2>7, ChecksAre, MidPriceChecksAre
  <2> QED BY <1>4, <2>8
<1>7. c \in FixedChecks \/ c \in Range(PricePart) \/ c = MatrixCheck => c \in Range(StructuralChecks(base))
  BY ChecksAre, MidPriceChecksAre
<1>8. c \in FixedChecks \/ c \in Range(MidPriceChecks(d))
  BY ChecksAre
<1> QED BY <1>4, <1>5, <1>6, <1>7, <1>8, MidPriceChecksAre

-----------------------------------------------------------------------------
(* A clause of validate that is broken names a field next to one edited,   *)
(* or one that it relates to it.                                           *)

Explained(E, f) ==
    f \in Keys /\ \E e \in E : IsPrefix(f, e) \/ IsPrefix(e, f) \/ Related(e, f)

LEMMA EditIsExplained ==
    ASSUME NEW E, NEW p \in Keys, p \in E
    PROVE  Explained(E, p)
<1>1. p \in Seq(Texts)
  BY KeysAreTexts
<1>2. IsPrefix(p, p)
  BY <1>1, PrefixSteps
<1> QED BY <1>2 DEF Explained

LEMMA EditAboveIsExplained ==
    ASSUME NEW E, NEW p \in E, NEW f \in Keys, IsPrefix(p, f)
    PROVE  Explained(E, f)
  BY DEF Explained

LEMMA ValueIsKept ==
    ASSUME NEW base, NEW d, NEW E, Edits(base, d, E), NEW p \in Keys, p \in DOMAIN d, ~Explained(E, p)
    PROVE  /\ p \in DOMAIN base /\ d[p] = base[p] /\ KindAt(d, p) = KindAt(base, p)
           /\ FloatAt(d, p) = FloatAt(base, p) /\ IntAt(d, p) = IntAt(base, p)
           /\ FloatOrNone(d, p) = FloatOrNone(base, p)
<1>1. p \in DOMAIN base /\ d[p] = base[p]
  BY EditIsExplained DEF Edits
<1>2. KindAt(d, p) = KindAt(base, p) /\ FloatAt(d, p) = FloatAt(base, p) /\ IntAt(d, p) = IntAt(base, p)
  BY <1>1 DEF KindAt, FloatAt, IntAt
<1> QED BY <1>1, <1>2 DEF FloatOrNone

(* The parts of a document that is accepted.                               *)
LEMMA PartsAccepted ==
    ASSUME NEW d, Accepts(d, StructuralChecks(d))
    PROVE  /\ Accepts(d, RootPart) /\ Accepts(d, HorizonPart) /\ Accepts(d, AsPart) /\ Accepts(d, SymmetricPart)
           /\ Accepts(d, FillPart) /\ Accepts(d, RiskPart) /\ Accepts(d, McPart) /\ Accepts(d, AnalyticsPart)
           /\ Accepts(d, PricePart)
<1>1. \A c : c \in FixedChecks \/ c \in Range(MidPriceChecks(d)) => ~Rejects(d, c)
  BY ChecksAre DEF Accepts
<1>2. \A c \in Range(PricePart) : ~Rejects(d, c)
  BY <1>1, MidPriceChecksAre
<1>3. \A c \in FixedChecks : ~Rejects(d, c)
  BY <1>1
<1> QED BY <1>2, <1>3, PartsAreSeqs DEF Accepts, FixedChecks

LEMMA FieldStands ==
    ASSUME NEW d, NEW path \in Keys, NEW n \in Nat, NEW fields, DOMAIN fields = 1 .. n, NEW more,
           Accepts(d, Mapping(path, fields, more)), NEW f \in 1 .. n, "absent" \notin fields[f].kinds
    PROVE  Append(path, fields[f].key) \in DOMAIN d
<1>1. Demands(d, path, fields[f])
  BY MappingDemands
<1> QED BY <1>1 DEF Demands, KindAt

LEMMA NumberStandsAt ==
    ASSUME NEW d, NEW path \in Keys, NEW n \in Nat, NEW keys, DOMAIN keys = 1 .. n,
           Accepts(d, Numbers(path, keys)), NEW k \in 1 .. n
    PROVE  Append(path, keys[k]) \in DOMAIN d
<1>1. KindAt(d, Append(path, keys[k])) \in Number
  BY NumbersDemand
<1> QED BY <1>1 DEF KindAt, Number

(* The numbers that have to be positive, as they are read.                 *)
ReadAs(d, path, n, keys, fields) ==
    /\ DOMAIN fields = 1 .. n
    /\ \A k \in 1 .. n : fields[k][1] = keys[k] /\ fields[k][2] = FloatAt(d, Append(path, keys[k]))

LEMMA PositiveIsExplained ==
    ASSUME NEW base, NEW d, NEW E, Edits(base, d, E), NEW path \in Keys, NEW n \in Nat, NEW keys,
           DOMAIN keys = 1 .. n, \A k \in 1 .. n : keys[k] \in FieldNames, Accepts(d, Numbers(path, keys)),
           NEW fields, ReadAs(d, path, n, keys, fields), NEW was, ReadAs(base, path, n, keys, was),
           AllOk(Positive(path, was)), NEW c \in Range(Positive(path, fields)), ~c.ok
    PROVE  Explained(E, c.field)
<1>1. PICK k \in 1 .. n : c = Clause(Append(path, fields[k][1]), fields[k][2] > 0)
  BY DEF Positive, Range, ReadAs
<1>2. PICK p : p = Append(path, keys[k])
  OBVIOUS
<1>3. p \in Keys /\ p \in DOMAIN d
  BY <1>2, BelowIs, NumberStandsAt
<1>4. c.field = p /\ c.ok = (FloatAt(d, p) > 0)
  BY <1>1, <1>2 DEF ReadAs, Clause
<1>5. FloatAt(base, p) > 0
  <2>1. DOMAIN was = 1 .. n
    BY DEF ReadAs
  <2>2. \A j \in 1 .. n : was[j][2] > 0
    BY <2>1, PositiveHolds
  <2> QED BY <1>2, <2>2 DEF ReadAs
<1> QED BY <1>3, <1>4, <1>5, ValueIsKept

-----------------------------------------------------------------------------
(* The positive fields: which there are, and that each stands where it is  *)
(* read.                                                                   *)
LEMMA SectionsReadAs ==
    ASSUME NEW d, NEW cfg, cfg = Configuration(d)
    PROVE  /\ ReadAs(d, <<"horizon">>, 2, <<"T", "dt">>, HorizonFields(cfg))
           /\ ReadAs(d, <<"quoters", "avellaneda_stoikov">>, 3, <<"gamma", "k", "A">>, QuoterFields(cfg))
           /\ ReadAs(d, <<"fill">>, 4, <<"A_b", "k_b", "A_a", "k_a">>, FillFields(cfg))
<1>1. PICK p, q, r : p = <<"horizon">> /\ q = <<"quoters", "avellaneda_stoikov">> /\ r = <<"fill">>
  OBVIOUS
<1>2. /\ cfg.horizon = Floats(d, p, {"T", "dt"}) /\ cfg.quoter = Floats(d, q, {"gamma", "k", "A"})
      /\ cfg.fill = Floats(d, r, {"A_b", "k_b", "A_a", "k_a"})
  BY <1>1, ConfigurationIs
<1>3. ReadAs(d, p, 2, <<"T", "dt">>, HorizonFields(cfg))
  <2>1. PICK keys, fields : keys = <<"T", "dt">> /\ fields = HorizonFields(cfg)
    OBVIOUS
  <2>2. /\ DOMAIN fields = 1 .. 2 /\ fields[1][1] = "T" /\ fields[1][2] = cfg.horizon.T
        /\ fields[2][1] = "dt" /\ fields[2][2] = cfg.horizon.dt
    BY <2>1 DEF HorizonFields
  <2>3. cfg.horizon.T = FloatAt(d, Append(p, "T")) /\ cfg.horizon.dt = FloatAt(d, Append(p, "dt"))
    BY <1>2 DEF Floats
  <2>4. keys[1] = "T" /\ keys[2] = "dt"
    BY <2>1
  <2>5. \A k \in 1 .. 2 : k = 1 \/ k = 2
    OBVIOUS
  <2> QED BY <2>1, <2>2, <2>3, <2>4, <2>5 DEF ReadAs
<1>4. ReadAs(d, q, 3, <<"gamma", "k", "A">>, QuoterFields(cfg))
  <2>1. PICK keys, fields : keys = <<"gamma", "k", "A">> /\ fields = QuoterFields(cfg)
    OBVIOUS
  <2>2. /\ DOMAIN fields = 1 .. 3 /\ fields[1][1] = "gamma" /\ fields[1][2] = cfg.quoter.gamma
        /\ fields[2][1] = "k" /\ fields[2][2] = cfg.quoter.k
        /\ fields[3][1] = "A" /\ fields[3][2] = cfg.quoter.A
    BY <2>1 DEF QuoterFields
  <2>3. /\ cfg.quoter.gamma = FloatAt(d, Append(q, "gamma")) /\ cfg.quoter.k = FloatAt(d, Append(q, "k"))
        /\ cfg.quoter.A = FloatAt(d, Append(q, "A"))
    BY <1>2 DEF Floats
  <2>4. keys[1] = "gamma" /\ keys[2] = "k" /\ keys[3] = "A"
    BY <2>1
  <2>5. \A k \in 1 .. 3 : k = 1 \/ k = 2 \/ k = 3
    OBVIOUS
  <2> QED BY <2>1, <2>2, <2>3, <2>4, <2>5 DEF ReadAs
<1>5. ReadAs(d, r, 4, <<"A_b", "k_b", "A_a", "k_a">>, FillFields(cfg))
  <2>1. PICK keys, fields : keys = <<"A_b", "k_b", "A_a", "k_a">> /\ fields = FillFields(cfg)
    OBVIOUS
  <2>2. /\ DOMAIN fields = 1 .. 4 /\ fields[1][1] = "A_b" /\ fields[1][2] = cfg.fill.A_b
        /\ fields[2][1] = "k_b" /\ fields[2][2] = cfg.fill.k_b
        /\ fields[3][1] = "A_a" /\ fields[3][2] = cfg.fill.A_a
        /\ fields[4][1] = "k_a" /\ fields[4][2] = cfg.fill.k_a
    BY <2>1 DEF FillFields
  <2>3. /\ cfg.fill.A_b = FloatAt(d, Append(r, "A_b")) /\ cfg.fill.k_b = FloatAt(d, Append(r, "k_b"))
        /\ cfg.fill.A_a = FloatAt(d, Append(r, "A_a")) /\ cfg.fill.k_a = FloatAt(d, Append(r, "k_a"))
    BY <1>2 DEF Floats
  <2>4. keys[1] = "A_b" /\ keys[2] = "k_b" /\ keys[3] = "A_a" /\ keys[4] = "k_a"
    BY <2>1
  <2>5. \A k \in 1 .. 4 : k = 1 \/ k = 2 \/ k = 3 \/ k = 4
    OBVIOUS
  <2> QED BY <2>1, <2>2, <2>3, <2>4, <2>5 DEF ReadAs
<1> QED BY <1>1, <1>3, <1>4, <1>5

(* A document d that was accepted part by part, edited from an accepted one. *)
Edition(base, d, E) ==
    /\ Edits(base, d, E) /\ Known(base, d) /\ HasParents(d)
    /\ LoadConfig(base).raised = "none" /\ Accepts(d, StructuralChecks(d))

(* T and dt, the AS parameters and those of the fills, which must be       *)
(* positive.                                                               *)
LEMMA PositivesAreExplained ==
    ASSUME NEW base, NEW d, NEW E, Edition(base, d, E), NEW cfg, cfg = Configuration(d), NEW c, ~c.ok,
           \/ c \in Range(Positive(<<"horizon">>, HorizonFields(cfg)))
           \/ c \in Range(Positive(<<"quoters", "avellaneda_stoikov">>, QuoterFields(cfg)))
           \/ c \in Range(Positive(<<"fill">>, FillFields(cfg)))
    PROVE  Explained(E, c.field)
<1>1. PICK was : was = Configuration(base)
  OBVIOUS
<1>2. /\ AllOk(Positive(<<"horizon">>, HorizonFields(was)))
      /\ AllOk(Positive(<<"quoters", "avellaneda_stoikov">>, QuoterFields(was)))
      /\ AllOk(Positive(<<"fill">>, FillFields(was)))
  BY <1>1, PartsAreOk DEF Edition
<1>3. Edits(base, d, E) /\ Accepts(d, HorizonPart) /\ Accepts(d, AsPart) /\ Accepts(d, FillPart)
  BY PartsAccepted DEF Edition
<1>4. CASE c \in Range(Positive(<<"horizon">>, HorizonFields(cfg)))
  <2>1. PICK p, keys, fields, old :
          p = <<"horizon">> /\ keys = <<"T", "dt">> /\ fields = HorizonFields(cfg) /\ old = HorizonFields(was)
    OBVIOUS
  <2>2. p \in Keys /\ DOMAIN keys = 1 .. 2 /\ \A k \in 1 .. 2 : keys[k] \in FieldNames
    BY <2>1, NamesAre, SectionsAre
  <2>3. ReadAs(d, p, 2, keys, fields) /\ ReadAs(base, p, 2, keys, old)
    BY <1>1, <2>1, SectionsReadAs
  <2>4. Accepts(d, Numbers(p, keys)) /\ AllOk(Positive(p, old)) /\ c \in Range(Positive(p, fields))
    BY <1>2, <1>3, <1>4, <2>1 DEF HorizonPart
  <2> QED BY <1>3, <2>2, <2>3, <2>4, PositiveIsExplained
<1>5. CASE c \in Range(Positive(<<"quoters", "avellaneda_stoikov">>, QuoterFields(cfg)))
  <2>1. PICK p, keys, fields, old :
          /\ p = <<"quoters", "avellaneda_stoikov">> /\ keys = <<"gamma", "k", "A">>
          /\ fields = QuoterFields(cfg) /\ old = QuoterFields(was)
    OBVIOUS
  <2>2. p \in Keys /\ DOMAIN keys = 1 .. 3 /\ \A k \in 1 .. 3 : keys[k] \in FieldNames
    BY <2>1, NamesAre, SectionsAre
  <2>3. ReadAs(d, p, 3, keys, fields) /\ ReadAs(base, p, 3, keys, old)
    BY <1>1, <2>1, SectionsReadAs
  <2>4. Accepts(d, Numbers(p, keys)) /\ AllOk(Positive(p, old)) /\ c \in Range(Positive(p, fields))
    BY <1>2, <1>3, <1>5, <2>1 DEF AsPart
  <2> QED BY <1>3, <2>2, <2>3, <2>4, PositiveIsExplained
<1>6. CASE c \in Range(Positive(<<"fill">>, FillFields(cfg)))
  <2>1. PICK p, keys, fields, old :
          /\ p = <<"fill">> /\ keys = <<"A_b", "k_b", "A_a", "k_a">>
          /\ fields = FillFields(cfg) /\ old = FillFields(was)
    OBVIOUS
  <2>2. p \in Keys /\ DOMAIN keys = 1 .. 4 /\ \A k \in 1 .. 4 : keys[k] \in FieldNames
    BY <2>1, NamesAre, SectionsAre
  <2>3. ReadAs(d, p, 4, keys, fields) /\ ReadAs(base, p, 4, keys, old)
    BY <1>1, <2>1, SectionsReadAs
  <2>4. Accepts(d, Numbers(p, keys)) /\ AllOk(Positive(p, old)) /\ c \in Range(Positive(p, fields))
    BY <1>2, <1>3, <1>6, <2>1 DEF FillPart
  <2> QED BY <1>3, <2>2, <2>3, <2>4, PositiveIsExplained
<1> QED BY <1>4, <1>5, <1>6

-----------------------------------------------------------------------------
StandsAt(d, p) == p \in Keys /\ p \in DOMAIN d

(* A field that a check demands stands in a document that passed them      *)
(* all.                                                                    *)
LEMMA FieldsStand ==
    ASSUME NEW d, Accepts(d, StructuralChecks(d))
    PROVE  /\ StandsAt(d, <<"master_seed">>) /\ StandsAt(d, <<"horizon", "T">>) /\ StandsAt(d, <<"horizon", "dt">>)
           /\ StandsAt(d, <<"mid_price", "model">>) /\ StandsAt(d, <<"mid_price", "s0">>)
           /\ StandsAt(d, <<"quoters", "symmetric", "delta_base">>)
           /\ StandsAt(d, <<"risk", "q_max">>) /\ StandsAt(d, <<"risk", "L_kill">>)
           /\ StandsAt(d, <<"mc", "n_paths">>)
           /\ StandsAt(d, <<"analytics", "adverse_selection_horizon_steps">>)
           /\ StandsAt(d, <<"analytics", "bootstrap_iterations">>)
           /\ StandsAt(d, <<"analytics", "bootstrap_alpha">>)
           /\ StandsAt(d, <<"analytics", "sharpe_annualization_factor">>)
<1>1. /\ Accepts(d, RootPart) /\ Accepts(d, HorizonPart) /\ Accepts(d, SymmetricPart)
      /\ Accepts(d, RiskPart) /\ Accepts(d, McPart) /\ Accepts(d, AnalyticsPart) /\ Accepts(d, PricePart)
  BY PartsAccepted
<1>2. StandsAt(d, <<"master_seed">>)
  <2>1. PICK fields, p, more :
          /\ fields = <<Field("master_seed", {"int"})>> /\ p = <<>>
          /\ more = {"horizon", "mid_price", "quoters", "fill", "risk", "mc", "analytics", "output"}
    OBVIOUS
  <2>2. DOMAIN fields = 1 .. 1 /\ fields[1].key = "master_seed" /\ fields[1].kinds = {"int"} /\ p \in Keys
    BY <2>1, SectionsAre DEF Field
  <2>3. Accepts(d, Mapping(p, fields, more))
    BY <1>1, <2>1 DEF RootPart
  <2>4. Append(p, "master_seed") \in DOMAIN d
    <3>1. \A f \in 1 .. 1 : "absent" \notin fields[f].kinds => Append(p, fields[f].key) \in DOMAIN d
      BY <2>2, <2>3, FieldStands
    <3> QED BY <2>2, <2>3, <3>1
  <2> QED BY <2>1, <2>4, OneKey, NamesAre DEF StandsAt
<1>3. StandsAt(d, <<"horizon", "T">>) /\ StandsAt(d, <<"horizon", "dt">>)
  <2>1. PICK keys, p : keys = <<"T", "dt">> /\ p = <<"horizon">>
    OBVIOUS
  <2>2. DOMAIN keys = 1 .. 2 /\ keys[1] = "T" /\ keys[2] = "dt" /\ p \in Keys /\ Accepts(d, Numbers(p, keys))
    BY <1>1, <2>1, SectionsAre DEF HorizonPart
  <2>3. Append(p, "T") \in DOMAIN d /\ Append(p, "dt") \in DOMAIN d
    <3>1. \A k \in 1 .. 2 : Append(p, keys[k]) \in DOMAIN d
      BY <2>2, NumberStandsAt
    <3> QED BY <2>2, <3>1
  <2>4. Append(p, "T") = <<"horizon", "T">> /\ Append(p, "dt") = <<"horizon", "dt">>
        /\ <<"horizon", "T">> \in Keys /\ <<"horizon", "dt">> \in Keys
    BY <2>1, TwoKeys, NamesAre
  <2> QED BY <2>3, <2>4 DEF StandsAt
<1>4. StandsAt(d, <<"mid_price", "model">>) /\ StandsAt(d, <<"mid_price", "s0">>)
  <2>1. PICK p : p = <<"mid_price">>
    OBVIOUS
  <2>2. p \in Keys /\ Accepts(d, Mapping(p, PriceFields, {"transition_matrix"})) /\ DOMAIN PriceFields = 1 .. 3
    BY <1>1, <2>1, SectionsAre, PriceFieldsAre
  <2>3. /\ PriceFields[1].key = "model" /\ PriceFields[1].kinds = {"str"}
        /\ PriceFields[2].key = "s0" /\ PriceFields[2].kinds = Number
    BY PriceFieldsAre DEF Word, Field
  <2>4. "absent" \notin Number
    BY DEF Number
  <2>5. Append(p, "model") \in DOMAIN d /\ Append(p, "s0") \in DOMAIN d
    <3>1. \A f \in 1 .. 3 : "absent" \notin PriceFields[f].kinds => Append(p, PriceFields[f].key) \in DOMAIN d
      BY <2>2, FieldStands
    <3> QED BY <2>3, <2>4, <3>1
  <2>6. Append(p, "model") = <<"mid_price", "model">> /\ Append(p, "s0") = <<"mid_price", "s0">>
        /\ <<"mid_price", "model">> \in Keys /\ <<"mid_price", "s0">> \in Keys
    BY <2>1, TwoKeys, NamesAre
  <2> QED BY <2>5, <2>6 DEF StandsAt
<1>5. StandsAt(d, <<"quoters", "symmetric", "delta_base">>)
  <2>1. PICK keys, p : keys = <<"delta_base">> /\ p = <<"quoters", "symmetric">>
    OBVIOUS
  <2>2. DOMAIN keys = 1 .. 1 /\ keys[1] = "delta_base" /\ p \in Keys /\ Accepts(d, Numbers(p, keys))
    BY <1>1, <2>1, SectionsAre DEF SymmetricPart
  <2>3. Append(p, "delta_base") \in DOMAIN d
    <3>1. \A k \in 1 .. 1 : Append(p, keys[k]) \in DOMAIN d
      BY <2>2, NumberStandsAt
    <3> QED BY <2>2, <3>1
  <2>4. Append(p, "delta_base") = <<"quoters", "symmetric", "delta_base">>
        /\ <<"quoters", "symmetric", "delta_base">> \in Keys
    BY <2>1, ThreeKeys, NamesAre
  <2> QED BY <2>3, <2>4 DEF StandsAt
<1>6. StandsAt(d, <<"risk", "q_max">>) /\ StandsAt(d, <<"risk", "L_kill">>)
  <2>1. PICK fields, p, more :
          /\ fields = <<Field("q_max", {"int"}), Field("L_kill", Number \cup {"null"})>>
          /\ p = <<"risk">> /\ more = {}
    OBVIOUS
  <2>2. /\ DOMAIN fields = 1 .. 2 /\ fields[1].key = "q_max" /\ fields[1].kinds = {"int"}
        /\ fields[2].key = "L_kill" /\ fields[2].kinds = Number \cup {"null"}
    BY <2>1 DEF Field
  <2>3. p \in Keys /\ Accepts(d, Mapping(p, fields, more)) /\ "absent" \notin Number \cup {"null"}
    BY <1>1, <2>1, SectionsAre DEF RiskPart, Number
  <2>4. Append(p, "q_max") \in DOMAIN d /\ Append(p, "L_kill") \in DOMAIN d
    <3>1. \A f \in 1 .. 2 : "absent" \notin fields[f].kinds => Append(p, fields[f].key) \in DOMAIN d
      BY <2>2, <2>3, FieldStands
    <3> QED BY <2>2, <2>3, <3>1
  <2>5. Append(p, "q_max") = <<"risk", "q_max">> /\ Append(p, "L_kill") = <<"risk", "L_kill">>
        /\ <<"risk", "q_max">> \in Keys /\ <<"risk", "L_kill">> \in Keys
    BY <2>1, TwoKeys, NamesAre
  <2> QED BY <2>4, <2>5 DEF StandsAt
<1>7. StandsAt(d, <<"mc", "n_paths">>)
  <2>1. PICK fields, p, more : fields = <<Field("n_paths", {"int"})>> /\ p = <<"mc">> /\ more = {}
    OBVIOUS
  <2>2. DOMAIN fields = 1 .. 1 /\ fields[1].key = "n_paths" /\ fields[1].kinds = {"int"} /\ p \in Keys
    BY <2>1, SectionsAre DEF Field
  <2>3. Accepts(d, Mapping(p, fields, more))
    BY <1>1, <2>1 DEF McPart
  <2>4. Append(p, "n_paths") \in DOMAIN d
    <3>1. \A f \in 1 .. 1 : "absent" \notin fields[f].kinds => Append(p, fields[f].key) \in DOMAIN d
      BY <2>2, <2>3, FieldStands
    <3> QED BY <2>2, <2>3, <3>1
  <2> QED BY <2>1, <2>4, TwoKeys, NamesAre DEF StandsAt
<1>8. /\ StandsAt(d, <<"analytics", "adverse_selection_horizon_steps">>)
      /\ StandsAt(d, <<"analytics", "bootstrap_iterations">>)
      /\ StandsAt(d, <<"analytics", "bootstrap_alpha">>)
      /\ StandsAt(d, <<"analytics", "sharpe_annualization_factor">>)
  <2>1. PICK fields, p, more :
          /\ fields = <<Field("adverse_selection_horizon_steps", {"int"}),
                        Field("bootstrap_iterations", {"int"}), Field("bootstrap_alpha", Number),
                        Field("sharpe_annualization_factor", Number)>>
          /\ p = <<"analytics">> /\ more = {}
    OBVIOUS
  <2>2. /\ DOMAIN fields = 1 .. 4
        /\ fields[1].key = "adverse_selection_horizon_steps" /\ fields[1].kinds = {"int"}
        /\ fields[2].key = "bootstrap_iterations" /\ fields[2].kinds = {"int"}
        /\ fields[3].key = "bootstrap_alpha" /\ fields[3].kinds = Number
        /\ fields[4].key = "sharpe_annualization_factor" /\ fields[4].kinds = Number
    BY <2>1 DEF Field
  <2>3. p \in Keys /\ Accepts(d, Mapping(p, fields, more)) /\ "absent" \notin Number
    BY <1>1, <2>1, SectionsAre DEF AnalyticsPart, Number
  <2>4. /\ Append(p, "adverse_selection_horizon_steps") \in DOMAIN d
        /\ Append(p, "bootstrap_iterations") \in DOMAIN d
        /\ Append(p, "bootstrap_alpha") \in DOMAIN d
        /\ Append(p, "sharpe_annualization_factor") \in DOMAIN d
    <3>1. \A f \in 1 .. 4 : "absent" \notin fields[f].kinds => Append(p, fields[f].key) \in DOMAIN d
      BY <2>2, <2>3, FieldStands
    <3> QED BY <2>2, <2>3, <3>1
  <2>5. /\ Append(p, "adverse_selection_horizon_steps") = <<"analytics", "adverse_selection_horizon_steps">>
        /\ <<"analytics", "adverse_selection_horizon_steps">> \in Keys
        /\ Append(p, "bootstrap_iterations") = <<"analytics", "bootstrap_iterations">>
        /\ <<"analytics", "bootstrap_iterations">> \in Keys
        /\ Append(p, "bootstrap_alpha") = <<"analytics", "bootstrap_alpha">>
        /\ <<"analytics", "bootstrap_alpha">> \in Keys
        /\ Append(p, "sharpe_annualization_factor") = <<"analytics", "sharpe_annualization_factor">>
        /\ <<"analytics", "sharpe_annualization_factor">> \in Keys
    BY <2>1, TwoKeys, NamesAre
  <2> QED BY <2>4, <2>5 DEF StandsAt
<1> QED BY <1>2, <1>3, <1>4, <1>5, <1>6, <1>7, <1>8

-----------------------------------------------------------------------------
(* Where more of the fields are read.                                      *)
LEMMA MoreIsRead ==
    ASSUME NEW d, NEW cfg, cfg = Configuration(d)
    PROVE  /\ cfg.s0 = FloatAt(d, <<"mid_price", "s0">>)
           /\ cfg.delta_base = FloatAt(d, <<"quoters", "symmetric", "delta_base">>)
           /\ cfg.L_kill = FloatOrNone(d, <<"risk", "L_kill">>)
           /\ cfg.alpha = FloatAt(d, <<"analytics", "bootstrap_alpha">>)
           /\ cfg.sharpe = FloatAt(d, <<"analytics", "sharpe_annualization_factor">>)
           /\ cfg.horizon.T = FloatAt(d, <<"horizon", "T">>)
           /\ cfg.horizon.dt = FloatAt(d, <<"horizon", "dt">>)
<1>1. PICK p : p = <<"horizon">>
  OBVIOUS
<1>2. cfg.horizon = Floats(d, p, {"T", "dt"})
  BY <1>1, ConfigurationIs
<1>3. cfg.horizon.T = FloatAt(d, Append(p, "T")) /\ cfg.horizon.dt = FloatAt(d, Append(p, "dt"))
  BY <1>2 DEF Floats
<1>4. Append(p, "T") = <<"horizon", "T">> /\ Append(p, "dt") = <<"horizon", "dt">>
  BY <1>1, TwoKeys, NamesAre
<1> QED BY <1>3, <1>4 DEF Configuration

LEMMA SharpeHolds ==
    ASSUME NEW d, LoadConfig(d).raised = "none", NEW cfg, cfg = Configuration(d)
    PROVE  cfg.sharpe > 0
<1>1. PICK a, b, c, e, f, g, h :
        /\ a = Clause(<<"risk", "q_max">>, cfg.q_max >= 0)
        /\ b = Clause(<<"risk", "L_kill">>, cfg.L_kill # None => cfg.L_kill > 0)
        /\ c = Clause(<<"mc", "n_paths">>, cfg.n_paths >= 1)
        /\ e = Clause(<<"analytics", "adverse_selection_horizon_steps">>, cfg.adverse >= 0)
        /\ f = Clause(<<"analytics", "bootstrap_iterations">>, cfg.iterations >= 1)
        /\ g = Clause(<<"analytics", "bootstrap_alpha">>, 0 < cfg.alpha /\ cfg.alpha < One)
        /\ h = Clause(<<"analytics", "sharpe_annualization_factor">>, cfg.sharpe > 0)
  OBVIOUS
<1>2. RunClauses(cfg) = <<a, b, c, e, f, g, h>>
  BY <1>1 DEF RunClauses
<1>3. h.ok
  BY <1>2, PartsAreOk, SevenHold
<1> QED BY <1>1, <1>3 DEF Clause

LEMMA ClauseIs ==
    ASSUME NEW field, NEW ok
    PROVE  Clause(field, ok).field = field /\ Clause(field, ok).ok = ok
  BY DEF Clause

(* The clauses on the limits, the paths, the analytics and bootstrap.      *)
LEMMA RunIsExplained ==
    ASSUME NEW base, NEW d, NEW E, Edition(base, d, E), NEW cfg, cfg = Configuration(d),
           NEW c \in Range(RunClauses(cfg)), ~c.ok
    PROVE  Explained(E, c.field)
<1>1. PICK was : was = Configuration(base)
  OBVIOUS
<1>2. /\ was.q_max >= 0 /\ (was.L_kill # None => was.L_kill > 0) /\ was.n_paths >= 1
      /\ was.adverse >= 0 /\ was.iterations >= 1 /\ 0 < was.alpha /\ was.alpha < One /\ was.sharpe > 0
  BY <1>1, ValidateHolds, SharpeHolds DEF Edition
<1>3. Edits(base, d, E) /\ Accepts(d, StructuralChecks(d))
  BY DEF Edition
<1>4. PICK k \in 1 .. 7 : c = RunClauses(cfg)[k]
  BY DEF RunClauses, Range
<1>5. CASE k = 1
  <2>1. PICK p : p = <<"risk", "q_max">>
    OBVIOUS
  <2>2. c = Clause(p, cfg.q_max >= 0)
    BY <1>4, <1>5, <2>1 DEF RunClauses
  <2>3. c.field = p /\ ~(cfg.q_max >= 0)
    BY <2>2, ClauseIs
  <2>4. StandsAt(d, p) /\ cfg.q_max = IntAt(d, p) /\ was.q_max = IntAt(base, p)
    BY <1>1, <1>3, <2>1, FieldsStand, ConfigurationIs
  <2> QED BY <1>2, <1>3, <2>3, <2>4, ValueIsKept DEF StandsAt
<1>6. CASE k = 2
  <2>1. PICK p : p = <<"risk", "L_kill">>
    OBVIOUS
  <2>2. c = Clause(p, cfg.L_kill # None => cfg.L_kill > 0)
    BY <1>4, <1>6, <2>1 DEF RunClauses
  <2>3. c.field = p /\ ~(cfg.L_kill # None => cfg.L_kill > 0)
    BY <2>2, ClauseIs
  <2>4. StandsAt(d, p) /\ cfg.L_kill = FloatOrNone(d, p) /\ was.L_kill = FloatOrNone(base, p)
    BY <1>1, <1>3, <2>1, FieldsStand, MoreIsRead
  <2> QED BY <1>2, <1>3, <2>3, <2>4, ValueIsKept DEF StandsAt
<1>7. CASE k = 3
  <2>1. PICK p : p = <<"mc", "n_paths">>
    OBVIOUS
  <2>2. c = Clause(p, cfg.n_paths >= 1)
    BY <1>4, <1>7, <2>1 DEF RunClauses
  <2>3. c.field = p /\ ~(cfg.n_paths >= 1)
    BY <2>2, ClauseIs
  <2>4. StandsAt(d, p) /\ cfg.n_paths = IntAt(d, p) /\ was.n_paths = IntAt(base, p)
    BY <1>1, <1>3, <2>1, FieldsStand, ConfigurationIs
  <2> QED BY <1>2, <1>3, <2>3, <2>4, ValueIsKept DEF StandsAt
<1>8. CASE k = 4
  <2>1. PICK p : p = <<"analytics", "adverse_selection_horizon_steps">>
    OBVIOUS
  <2>2. c = Clause(p, cfg.adverse >= 0)
    BY <1>4, <1>8, <2>1 DEF RunClauses
  <2>3. c.field = p /\ ~(cfg.adverse >= 0)
    BY <2>2, ClauseIs
  <2>4. StandsAt(d, p) /\ cfg.adverse = IntAt(d, p) /\ was.adverse = IntAt(base, p)
    BY <1>1, <1>3, <2>1, FieldsStand, ConfigurationIs
  <2> QED BY <1>2, <1>3, <2>3, <2>4, ValueIsKept DEF StandsAt
<1>9. CASE k = 5
  <2>1. PICK p : p = <<"analytics", "bootstrap_iterations">>
    OBVIOUS
  <2>2. c = Clause(p, cfg.iterations >= 1)
    BY <1>4, <1>9, <2>1 DEF RunClauses
  <2>3. c.field = p /\ ~(cfg.iterations >= 1)
    BY <2>2, ClauseIs
  <2>4. StandsAt(d, p) /\ cfg.iterations = IntAt(d, p) /\ was.iterations = IntAt(base, p)
    BY <1>1, <1>3, <2>1, FieldsStand, ConfigurationIs
  <2> QED BY <1>2, <1>3, <2>3, <2>4, ValueIsKept DEF StandsAt
<1>10. CASE k = 6
  <2>1. PICK p : p = <<"analytics", "bootstrap_alpha">>
    OBVIOUS
  <2>2. c = Clause(p, 0 < cfg.alpha /\ cfg.alpha < One)
    BY <1>4, <1>10, <2>1 DEF RunClauses
  <2>3. c.field = p /\ ~(0 < cfg.alpha /\ cfg.alpha < One)
    BY <2>2, ClauseIs
  <2>4. StandsAt(d, p) /\ cfg.alpha = FloatAt(d, p) /\ was.alpha = FloatAt(base, p)
    BY <1>1, <1>3, <2>1, FieldsStand, MoreIsRead
  <2> QED BY <1>2, <1>3, <2>3, <2>4, ValueIsKept DEF StandsAt
<1>11. CASE k = 7
  <2>1. PICK p : p = <<"analytics", "sharpe_annualization_factor">>
    OBVIOUS
  <2>2. c = Clause(p, cfg.sharpe > 0)
    BY <1>4, <1>11, <2>1 DEF RunClauses
  <2>3. c.field = p /\ ~(cfg.sharpe > 0)
    BY <2>2, ClauseIs
  <2>4. StandsAt(d, p) /\ cfg.sharpe = FloatAt(d, p) /\ was.sharpe = FloatAt(base, p)
    BY <1>1, <1>3, <2>1, FieldsStand, MoreIsRead
  <2> QED BY <1>2, <1>3, <2>3, <2>4, ValueIsKept DEF StandsAt
<1> QED BY <1>5, <1>6, <1>7, <1>8, <1>9, <1>10, <1>11

LEMMA OthersAreExplained ==
    ASSUME NEW base, NEW d, NEW E, Edition(base, d, E), NEW cfg, cfg = Configuration(d), NEW c, ~c.ok,
           c \in Range(SeedClauses(cfg)) \/ c \in Range(BaseClauses(cfg))
    PROVE  Explained(E, c.field)
<1>1. PICK was : was = Configuration(base)
  OBVIOUS
<1>2. was.master_seed >= 0 /\ was.delta_base >= 0
  BY <1>1, ValidateHolds DEF Edition
<1>3. Edits(base, d, E) /\ Accepts(d, StructuralChecks(d))
  BY DEF Edition
<1>4. CASE c \in Range(SeedClauses(cfg))
  <2>1. PICK p : p = <<"master_seed">>
    OBVIOUS
  <2>2. c = Clause(p, cfg.master_seed >= 0)
    BY <1>4, <2>1 DEF SeedClauses, Range
  <2>3. c.field = p /\ ~(cfg.master_seed >= 0)
    BY <2>2, ClauseIs
  <2>4. StandsAt(d, p) /\ cfg.master_seed = IntAt(d, p) /\ was.master_seed = IntAt(base, p)
    BY <1>1, <1>3, <2>1, FieldsStand, ConfigurationIs
  <2> QED BY <1>2, <1>3, <2>3, <2>4, ValueIsKept DEF StandsAt
<1>5. CASE c \in Range(BaseClauses(cfg))
  <2>1. PICK p : p = <<"quoters", "symmetric", "delta_base">>
    OBVIOUS
  <2>2. c = Clause(p, cfg.delta_base >= 0)
    BY <1>5, <2>1 DEF BaseClauses, Range
  <2>3. c.field = p /\ ~(cfg.delta_base >= 0)
    BY <2>2, ClauseIs
  <2>4. StandsAt(d, p) /\ cfg.delta_base = FloatAt(d, p) /\ was.delta_base = FloatAt(base, p)
    BY <1>1, <1>3, <2>1, FieldsStand, MoreIsRead
  <2> QED BY <1>2, <1>3, <2>3, <2>4, ValueIsKept DEF StandsAt
<1> QED BY <1>4, <1>5

-----------------------------------------------------------------------------
(* The regimes: how many there are, and what they are called.              *)
LEMMA LengthIsEdited ==
    ASSUME NEW base, NEW d, NEW E, Edits(base, d, E), HasParents(d), NEW p \in Keys,
           KindAt(base, p) # "map", Length(d, p) # Length(base, p)
    PROVE  p \in E \/ \E k \in 1 .. 3, e \in E : IsPrefix(e, Append(p, Index[k]))
<1>1. Length(d, p) \in Nat /\ Length(base, p) \in Nat
  BY LengthIsNat
<1>2. CASE Length(base, p) < Length(d, p)
  BY <1>2, LongerIsEdited
<1>3. CASE Length(d, p) < Length(base, p)
  BY <1>3, ShorterIsEdited
<1> QED BY <1>1, <1>2, <1>3

(* The sections and lists on the way to an element of a list.              *)
LEMMA PrefixOfRegime ==
    ASSUME NEW k \in 1 .. 3, NEW e \in Seq(Texts), e # <<>>, IsPrefix(e, RegimePath(k))
    PROVE  IsPrefix(e, MatrixPath) \/ e = RegimesPath \/ e = RegimePath(k)
<1>1. PICK q : q = RegimePath(k)
  OBVIOUS
<1>2. q \in Seq(Texts) /\ RegimesPath \in Seq(Texts) /\ MatrixPath \in Seq(Texts)
  BY <1>1, EntryPathsAre, ListPathsAre, KeysAreTexts
<1>3. Len(q) = 3 /\ q[1] = "mid_price" /\ q[2] = "regimes"
  BY <1>1 DEF RegimePath
<1>4. Len(RegimesPath) = 2 /\ RegimesPath[1] = "mid_price" /\ RegimesPath[2] = "regimes"
  BY DEF RegimesPath
<1>5. Len(MatrixPath) = 2 /\ MatrixPath[1] = "mid_price"
  BY DEF MatrixPath
<1>6. Len(e) \in Nat /\ Len(e) # 0
  BY LenProperties, EmptySeq
<1>7. Len(e) <= 3 /\ \A i \in 1 .. Len(e) : e[i] = q[i]
  <2>1. IsPrefix(e, q)
    BY <1>1
  <2>2. Len(e) <= Len(q) /\ \A i \in 1 .. Len(e) : e[i] = q[i]
    BY <1>2, <2>1, PrefixIs
  <2>3. Len(e) <= 3
    BY <1>3, <2>2
  <2> QED BY <2>2, <2>3
<1>8. CASE Len(e) = 3
  <2>1. \A i \in 1 .. Len(e) : e[i] = q[i]
    BY <1>7
  <2>2. e = q
    BY <1>2, <1>3, <1>8, <2>1, SeqEqual
  <2> QED BY <1>1, <2>2
<1>9. CASE Len(e) = 2
  <2>1. \A i \in 1 .. Len(e) : e[i] = RegimesPath[i]
    BY <1>3, <1>4, <1>7, <1>9
  <2>2. e = RegimesPath
    BY <1>2, <1>4, <1>9, <2>1, SeqEqual
  <2> QED BY <2>2
<1>10. CASE Len(e) = 1
  <2>1. Len(e) <= Len(MatrixPath) /\ \A i \in 1 .. Len(e) : e[i] = MatrixPath[i]
    BY <1>3, <1>5, <1>7, <1>10
  <2>2. IsPrefix(e, MatrixPath)
    BY <1>2, <2>1, PrefixIs
  <2> QED BY <2>2
<1>11. Len(e) <= 3
  BY <1>7
<1>12. Len(e) = 1 \/ Len(e) = 2 \/ Len(e) = 3
  <2>1. \A n \in Nat : n # 0 /\ n <= 3 => n = 1 \/ n = 2 \/ n = 3
    OBVIOUS
  <2> QED BY <1>6, <1>11, <2>1
<1> QED BY <1>8, <1>9, <1>10, <1>12

LEMMA RegimesAreExplained ==
    ASSUME NEW base, NEW d, NEW E, Edition(base, d, E), Length(d, RegimesPath) # Length(base, RegimesPath)
    PROVE  /\ Explained(E, RegimesPath)
           /\ \A f \in Keys : IsPrefix(MatrixPath, f) => Explained(E, f)
<1>1. Edits(base, d, E) /\ HasParents(d) /\ RegimesPath \in Keys /\ MatrixPath \in Keys
  BY EntryPathsAre, ListPathsAre DEF Edition, RegimesPath
<1>2. KindAt(base, RegimesPath) # "map"
  BY LoadedIsAccepted, ListsAreLists DEF Edition
<1>3. CASE RegimesPath \in E
  <2>1. \A f : IsPrefix(MatrixPath, f) => Related(RegimesPath, f)
    BY DEF Related
  <2> QED BY <1>1, <1>3, <2>1, EditIsExplained DEF Explained
<1>4. ASSUME NEW k \in 1 .. 3, NEW e \in E, IsPrefix(e, Append(RegimesPath, Index[k]))
      PROVE  /\ Explained(E, RegimesPath)
             /\ \A f \in Keys : IsPrefix(MatrixPath, f) => Explained(E, f)
  <2>1. RegimePath(k) = Append(RegimesPath, Index[k]) /\ IsPrefix(RegimesPath, RegimePath(k))
        /\ RegimePath(k) \in Keys
    BY EntryPathsAre
  <2>2. e \in Seq(Texts) /\ e # <<>> /\ RegimePath(k) \in Seq(Texts) /\ RegimesPath \in Seq(Texts)
        /\ MatrixPath \in Seq(Texts)
    BY <1>1, <2>1, KeysAreTexts DEF Edits
  <2>3. Explained(E, RegimesPath)
    <3>1. Beside(e, RegimesPath)
      BY <1>4, <2>1, <2>2, OnePath
    <3> QED BY <1>1, <3>1 DEF Explained, Beside
  <2>4. IsPrefix(e, MatrixPath) \/ e = RegimesPath \/ e = RegimePath(k)
    BY <1>4, <2>1, <2>2, PrefixOfRegime
  <2>5. ASSUME NEW f \in Keys, IsPrefix(MatrixPath, f) PROVE Explained(E, f)
    <3>1. CASE IsPrefix(e, MatrixPath)
      <4>1. IsPrefix(e, f)
        BY <2>2, <2>5, <3>1, KeysAreTexts, PrefixSteps
      <4> QED BY <4>1 DEF Explained
    <3>2. CASE e = RegimesPath \/ e = RegimePath(k)
      <4>1. Related(e, f)
        BY <2>5, <3>2, IndexIs DEF Related
      <4> QED BY <4>1 DEF Explained
    <3> QED BY <2>4, <3>1, <3>2
  <2> QED BY <2>3, <2>5
<1> QED BY <1>1, <1>2, <1>3, <1>4, LengthIsEdited

LEMMA RegimesAreRead ==
    ASSUME NEW d, NEW cfg, cfg = Configuration(d)
    PROVE  /\ DOMAIN cfg.regimes = 1 .. Length(d, RegimesPath)
           /\ Len(cfg.regimes) = Length(d, RegimesPath)
           /\ cfg.regimes = <<>> <=> Length(d, RegimesPath) = 0
           /\ \A k \in 1 .. Length(d, RegimesPath) : cfg.regimes[k] = Regime(d, k)
<1>1. PICK n \in Nat : n = Length(d, RegimesPath)
  BY LengthIsNat
<1>2. PICK s : s = cfg.regimes
  OBVIOUS
<1>3. s = [k \in 1 .. n |-> Regime(d, k)]
  BY <1>1, <1>2, ConfigurationIs DEF RegimesPath
<1>4. DOMAIN s = 1 .. n /\ s = [k \in 1 .. n |-> s[k]] /\ \A k \in 1 .. n : s[k] = Regime(d, k)
  BY <1>3
<1>5. IsSeq(s) /\ Len(s) = n
  BY <1>4, FunctionIsSeq
<1>6. s = <<>> <=> n = 0
  BY <1>5, EmptySeq DEF IsSeq
<1> QED BY <1>1, <1>2, <1>4, <1>5, <1>6

(* The clauses on dt and T, on s0, and that there is a regime.             *)
LEMMA PriceIsExplained ==
    ASSUME NEW base, NEW d, NEW E, Edition(base, d, E), NEW cfg, cfg = Configuration(d),
           NEW c \in Range(PriceClauses(cfg)), ~c.ok
    PROVE  Explained(E, c.field)
<1>1. PICK was : was = Configuration(base)
  OBVIOUS
<1>2. DtGrains(was) <= TGrains(was) /\ was.s0 > 0 /\ was.regimes # <<>>
  BY <1>1, ValidateHolds DEF Edition
<1>3. Edits(base, d, E) /\ Accepts(d, StructuralChecks(d))
  BY DEF Edition
<1>4. PICK k \in 1 .. 3 : c = PriceClauses(cfg)[k]
  BY DEF PriceClauses, Range
<1>5. CASE k = 1
  <2>1. PICK p, q : p = <<"horizon", "dt">> /\ q = <<"horizon", "T">>
    OBVIOUS
  <2>2. c = Clause(p, DtGrains(cfg) <= TGrains(cfg))
    BY <1>4, <1>5, <2>1 DEF PriceClauses
  <2>3. c.field = p /\ ~(DtGrains(cfg) <= TGrains(cfg))
    BY <2>2, ClauseIs
  <2>4. StandsAt(d, p) /\ cfg.horizon.dt = FloatAt(d, p) /\ was.horizon.dt = FloatAt(base, p)
    BY <1>1, <1>3, <2>1, FieldsStand, MoreIsRead
  <2>5. StandsAt(d, q) /\ cfg.horizon.T = FloatAt(d, q) /\ was.horizon.T = FloatAt(base, q)
    BY <1>1, <1>3, <2>1, FieldsStand, MoreIsRead
  <2>6. CASE q \in E
    <3>1. Related(q, p)
      BY <2>1 DEF Related
    <3> QED BY <2>3, <2>4, <2>6, <3>1 DEF Explained, StandsAt
  <2>7. CASE q \notin E
    <3>1. cfg.horizon.T = was.horizon.T
      BY <1>3, <2>5, <2>7 DEF Edits, StandsAt, FloatAt
    <3>2. ASSUME cfg.horizon.dt = was.horizon.dt PROVE FALSE
      BY <1>2, <2>3, <3>1, <3>2 DEF DtGrains, TGrains
    <3> QED BY <1>3, <2>3, <2>4, <3>2, ValueIsKept DEF StandsAt
  <2> QED BY <2>6, <2>7
<1>6. CASE k = 2
  <2>1. PICK p : p = <<"mid_price", "s0">>
    OBVIOUS
  <2>2. c = Clause(p, cfg.s0 > 0)
    BY <1>4, <1>6, <2>1 DEF PriceClauses
  <2>3. c.field = p /\ ~(cfg.s0 > 0)
    BY <2>2, ClauseIs
  <2>4. StandsAt(d, p) /\ cfg.s0 = FloatAt(d, p) /\ was.s0 = FloatAt(base, p)
    BY <1>1, <1>3, <2>1, FieldsStand, MoreIsRead
  <2> QED BY <1>2, <1>3, <2>3, <2>4, ValueIsKept DEF StandsAt
<1>7. CASE k = 3
  <2>1. c = Clause(RegimesPath, cfg.regimes # <<>>)
    BY <1>4, <1>7 DEF PriceClauses, RegimesPath
  <2>2. c.field = RegimesPath /\ cfg.regimes = <<>>
    BY <2>1, ClauseIs
  <2>3. Length(d, RegimesPath) # Length(base, RegimesPath)
    BY <1>1, <1>2, <2>2, RegimesAreRead
  <2> QED BY <2>2, <2>3, RegimesAreExplained
<1> QED BY <1>5, <1>6, <1>7

-----------------------------------------------------------------------------
(* A field of a regime, and how it is read.                                *)
At(k, key) == Append(RegimePath(k), key)

LEMMA RegimeReads ==
    ASSUME NEW d, NEW k
    PROVE  /\ Regime(d, k).name = d[At(k, "name")].text
           /\ Regime(d, k).sigma = FloatAt(d, At(k, "sigma"))
           /\ Regime(d, k).gamma = FloatOrNone(d, At(k, "gamma"))
  BY DEF Regime, At

LEMMA RegimeKeys ==
    ASSUME NEW k \in 1 .. 3, NEW key \in {"name", "sigma", "gamma"}
    PROVE  /\ At(k, key) \in Keys /\ Last(At(k, key)) = key /\ IsPrefix(RegimesPath, At(k, key))
<1>1. key \in FieldNames
  BY NamesAre
<1>2. RegimePath(k) \in Keys /\ RegimesPath \in Keys /\ IsPrefix(RegimesPath, RegimePath(k))
  BY EntryPathsAre
<1>3. At(k, key) \in Keys /\ Last(At(k, key)) = key /\ IsPrefix(RegimePath(k), At(k, key))
  BY <1>1, <1>2, BelowIs DEF At
<1>4. IsPrefix(RegimesPath, At(k, key))
  BY <1>2, <1>3, KeysAreTexts, PrefixSteps
<1> QED BY <1>3, <1>4

LEMMA RegimeIsThere ==
    ASSUME NEW d, Accepts(d, StructuralChecks(d)), NEW k \in 1 .. Length(d, RegimesPath)
    PROVE  k \in 1 .. 3 /\ StandsAt(d, At(k, "name")) /\ StandsAt(d, At(k, "sigma"))
<1>1. k \in 1 .. 3
  BY LengthIsSmall
<1>2. RegimePath(k) \in Keys
  BY <1>1, EntryPathsAre
<1>3. \A c \in Range(RegimeChecks(k)) : ~Rejects(d, c)
  <2>1. \A c : c \in Range(MidPriceChecks(d)) => ~Rejects(d, c)
    BY ChecksAre DEF Accepts
  <2> QED BY <2>1, MidPriceChecksAre
<1>4. Accepts(d, Mapping(RegimePath(k), RegimeFields, {})) /\ DOMAIN RegimeFields = 1 .. 4
  BY <1>3, RegimeChecksAre DEF Accepts
<1>5. /\ RegimeFields[1].key = "name" /\ RegimeFields[1].kinds = {"str"}
      /\ RegimeFields[3].key = "sigma" /\ RegimeFields[3].kinds = Number
  <2>1. PICK a, b, c, e : /\ a = Field("name", {"str"}) /\ b = Field("mu", Number)
                          /\ c = Field("sigma", Number) /\ e = Field("gamma", Number \cup Optional)
    OBVIOUS
  <2>2. RegimeFields = <<a, b, c, e>>
    BY <2>1 DEF RegimeFields
  <2>3. a.key = "name" /\ a.kinds = {"str"} /\ c.key = "sigma" /\ c.kinds = Number
    BY <2>1 DEF Field
  <2> QED BY <2>2, <2>3
<1>6. \A f \in 1 .. 4 :
          "absent" \notin RegimeFields[f].kinds => Append(RegimePath(k), RegimeFields[f].key) \in DOMAIN d
  BY <1>2, <1>4, FieldStands
<1>7. "absent" \notin Number /\ "absent" \notin {"str"}
  BY DEF Number
<1>8. At(k, "name") \in DOMAIN d /\ At(k, "sigma") \in DOMAIN d
  BY <1>5, <1>6, <1>7 DEF At
<1> QED BY <1>1, <1>8, RegimeKeys DEF StandsAt

LEMMA RegimeHolds ==
    ASSUME NEW d, LoadConfig(d).raised = "none", NEW k \in 1 .. Length(d, RegimesPath)
    PROVE  /\ Regime(d, k).name # "" /\ Regime(d, k).sigma >= 0 /\ GammaOk(Regime(d, k))
           /\ \A j \in 1 .. Length(d, RegimesPath) : j # k => Regime(d, j).name # Regime(d, k).name
<1>1. PICK cfg : cfg = Configuration(d)
  OBVIOUS
<1>2. /\ DOMAIN cfg.regimes = 1 .. Length(d, RegimesPath)
      /\ \A j \in 1 .. Length(d, RegimesPath) : cfg.regimes[j] = Regime(d, j)
  BY <1>1, RegimesAreRead
<1>3. AllOk(RegimeClauses(cfg, k))
  BY <1>1, <1>2, PartsAreOk
<1>4. PICK a, b, c, e :
        /\ a = Clause(Append(RegimePath(k), "name"), cfg.regimes[k].name # "")
        /\ b = Clause(Append(RegimePath(k), "name"), UniqueName(cfg, k))
        /\ c = Clause(Append(RegimePath(k), "sigma"), cfg.regimes[k].sigma >= 0)
        /\ e = Clause(Append(RegimePath(k), "gamma"), GammaOk(cfg.regimes[k]))
  OBVIOUS
<1>5. RegimeClauses(cfg, k) = <<a, b, c, e>>
  BY <1>4 DEF RegimeClauses
<1>6. a.ok /\ c.ok /\ e.ok
  BY <1>3, <1>5, TupleHolds
<1>7. cfg.regimes[k].name # "" /\ cfg.regimes[k].sigma >= 0 /\ GammaOk(cfg.regimes[k])
  BY <1>4, <1>6 DEF Clause
<1>8. \A i, j \in DOMAIN cfg.regimes : i # j => cfg.regimes[i].name # cfg.regimes[j].name
  <2>1. PICK loaded : loaded = LoadConfig(d).config
    OBVIOUS
  <2>2. \A i, j \in DOMAIN loaded.regimes : i # j => loaded.regimes[i].name # loaded.regimes[j].name
    BY <2>1, LoadedIsValid
  <2>3. loaded = cfg
    BY <1>1, <2>1, LoadedIs
  <2> QED BY <2>2, <2>3
<1> QED BY <1>2, <1>7, <1>8

(* The clauses on one regime: it is edited, new, or as it was in the       *)
(* base.                                                                   *)
LEMMA RegimeIsExplained ==
    ASSUME NEW base, NEW d, NEW E, Edition(base, d, E), NEW cfg, cfg = Configuration(d),
           NEW k \in 1 .. Length(d, RegimesPath), NEW c \in Range(RegimeClauses(cfg, k)), ~c.ok
    PROVE  Explained(E, c.field)
<1>1. /\ Edits(base, d, E) /\ HasParents(d) /\ Accepts(d, StructuralChecks(d))
      /\ LoadConfig(base).raised = "none"
  BY DEF Edition
<1>2. k \in 1 .. 3 /\ StandsAt(d, At(k, "name")) /\ StandsAt(d, At(k, "sigma"))
  BY <1>1, RegimeIsThere
<1>3. cfg.regimes[k] = Regime(d, k)
  <2>1. \A j \in 1 .. Length(d, RegimesPath) : cfg.regimes[j] = Regime(d, j)
    BY RegimesAreRead
  <2> QED BY <2>1
<1>4. PICK i \in 1 .. 4 : c = RegimeClauses(cfg, k)[i]
  <2>1. PICK x : x = RegimeClauses(cfg, k)
    OBVIOUS
  <2>2. PICK u, v, w, y : /\ u = Clause(At(k, "name"), cfg.regimes[k].name # "")
                          /\ v = Clause(At(k, "name"), UniqueName(cfg, k))
                          /\ w = Clause(At(k, "sigma"), cfg.regimes[k].sigma >= 0)
                          /\ y = Clause(At(k, "gamma"), GammaOk(cfg.regimes[k]))
    OBVIOUS
  <2>3. x = <<u, v, w, y>>
    BY <2>1, <2>2 DEF RegimeClauses, At
  <2>4. DOMAIN x = 1 .. 4
    BY <2>3
  <2> QED BY <2>1, <2>4 DEF Range
<1>5. PICK key \in {"name", "sigma", "gamma"} : c.field = At(k, key)
  <2>1. PICK x : x = RegimeClauses(cfg, k)
    OBVIOUS
  <2>2. /\ x[1].field = At(k, "name") /\ x[2].field = At(k, "name")
        /\ x[3].field = At(k, "sigma") /\ x[4].field = At(k, "gamma")
    BY <2>1 DEF RegimeClauses, At, Clause
  <2> QED BY <1>4, <2>1, <2>2
<1>6. c.field \in Keys /\ IsPrefix(RegimesPath, c.field)
  BY <1>2, <1>5, RegimeKeys
<1>7. CASE k > Length(base, RegimesPath)
  <2>1. RegimesPath \in Keys
    BY <1>2, EntryPathsAre
  <2>2. KindAt(base, RegimesPath) # "map"
    BY <1>1, LoadedIsAccepted, ListsAreLists
  <2>3. Length(base, RegimesPath) < Length(d, RegimesPath)
    BY <1>7, LengthIsNat
  <2>4. RegimesPath \in E
    BY <1>1, <2>1, <2>2, <2>3, LongerIsEdited
  <2> QED BY <1>6, <2>4, EditAboveIsExplained
<1>8. CASE k <= Length(base, RegimesPath)
  <2>1. k \in 1 .. Length(base, RegimesPath)
    BY <1>8, LengthIsNat
  <2>2. PICK was, now : was = Regime(base, k) /\ now = Regime(d, k)
    OBVIOUS
  <2>3. /\ was.name # "" /\ was.sigma >= 0 /\ GammaOk(was)
        /\ \A j \in 1 .. Length(base, RegimesPath) : j # k => Regime(base, j).name # was.name
    BY <1>1, <2>1, <2>2, RegimeHolds
  <2>4. cfg.regimes[k] = now
    BY <1>3, <2>2
  <2>5. CASE i = 1
    <3>1. c = Clause(At(k, "name"), cfg.regimes[k].name # "")
      BY <1>4, <2>5 DEF RegimeClauses, At
    <3>2. c.field = At(k, "name") /\ ~(now.name # "")
      BY <2>4, <3>1, ClauseIs
    <3>3. now.name = d[At(k, "name")].text /\ was.name = base[At(k, "name")].text
      BY <2>2, RegimeReads
    <3> QED BY <1>1, <1>2, <2>3, <3>2, <3>3, ValueIsKept DEF StandsAt
  <2>6. CASE i = 2
    <3>1. PICK f : f = At(k, "name")
      OBVIOUS
    <3>2. c = Clause(f, UniqueName(cfg, k))
      BY <1>4, <2>6, <3>1 DEF RegimeClauses, At
    <3>3. c.field = f /\ ~UniqueName(cfg, k)
      BY <3>2, ClauseIs
    <3>4. PICK j \in 1 .. k - 1 : cfg.regimes[j].name = now.name
      BY <2>4, <3>3 DEF UniqueName
    <3>5. j \in 1 .. Length(d, RegimesPath) /\ j \in 1 .. Length(base, RegimesPath) /\ j # k
      BY <1>2, <1>8, <3>4, LengthIsNat
    <3>6. PICK q : q = At(j, "name")
      OBVIOUS
    <3>7. j \in 1 .. 3 /\ StandsAt(d, q)
      BY <1>1, <3>5, <3>6, RegimeIsThere
    <3>8. cfg.regimes[j] = Regime(d, j)
      BY <3>5, RegimesAreRead
    <3>9. d[q].text = d[f].text
      BY <2>2, <3>1, <3>4, <3>6, <3>8, RegimeReads
    <3>10. base[q].text # base[f].text
      BY <2>2, <2>3, <3>1, <3>5, <3>6, RegimeReads
    <3>11. CASE q \in E
      <4>1. Last(q) = "name" /\ IsPrefix(RegimesPath, q) /\ Last(f) = "name" /\ IsPrefix(RegimesPath, f)
        BY <1>2, <3>1, <3>6, <3>7, RegimeKeys
      <4>2. Related(q, f)
        BY <4>1 DEF Related
      <4> QED BY <1>6, <3>3, <3>11, <4>2 DEF Explained
    <3>12. CASE q \notin E
      <4>1. d[q] = base[q]
        BY <1>1, <3>7, <3>12 DEF Edits, StandsAt
      <4>2. d[f] # base[f]
        BY <3>9, <3>10, <4>1
      <4> QED BY <1>1, <1>2, <3>1, <3>3, <4>2, ValueIsKept DEF StandsAt
    <3> QED BY <3>11, <3>12
  <2>7. CASE i = 3
    <3>1. c = Clause(At(k, "sigma"), cfg.regimes[k].sigma >= 0)
      BY <1>4, <2>7 DEF RegimeClauses, At
    <3>2. c.field = At(k, "sigma") /\ ~(now.sigma >= 0)
      BY <2>4, <3>1, ClauseIs
    <3>3. now.sigma = FloatAt(d, At(k, "sigma")) /\ was.sigma = FloatAt(base, At(k, "sigma"))
      BY <2>2, RegimeReads
    <3> QED BY <1>1, <1>2, <2>3, <3>2, <3>3, ValueIsKept DEF StandsAt
  <2>8. CASE i = 4
    <3>1. c = Clause(At(k, "gamma"), GammaOk(cfg.regimes[k]))
      BY <1>4, <2>8 DEF RegimeClauses, At
    <3>2. c.field = At(k, "gamma") /\ ~GammaOk(now)
      BY <2>4, <3>1, ClauseIs
    <3>3. now.gamma = FloatOrNone(d, At(k, "gamma")) /\ was.gamma = FloatOrNone(base, At(k, "gamma"))
      BY <2>2, RegimeReads
    <3>4. now.gamma # None /\ now.gamma # was.gamma
      BY <2>3, <3>2 DEF GammaOk
    <3>5. At(k, "gamma") \in DOMAIN d
      BY <3>3, <3>4 DEF FloatOrNone, KindAt, Optional
    <3> QED BY <1>1, <1>6, <3>2, <3>3, <3>4, <3>5, ValueIsKept
  <2> QED BY <2>5, <2>6, <2>7, <2>8
<1>9. Length(base, RegimesPath) \in Nat
  BY LengthIsNat
<1> QED BY <1>2, <1>7, <1>8, <1>9

-----------------------------------------------------------------------------
(* The matrix as it is read.                                               *)
Row(d, i) == [j \in 1 .. Length(d, RowPath(i)) |-> FloatAt(d, EntryPath(i, j))]

LEMMA SameLength ==
    ASSUME NEW base, NEW d, NEW p \in Keys, Same(base, d, p)
    PROVE  Length(d, p) = Length(base, p)
<1>1. ASSUME NEW k \in 1 .. 3
      PROVE  Append(p, Index[k]) \in DOMAIN d <=> Append(p, Index[k]) \in DOMAIN base
  <2>1. Append(p, Index[k]) \in Keys /\ IsPrefix(p, Append(p, Index[k]))
    BY IndexIsName, BelowIs
  <2>2. Append(p, Index[k]) \in Seq(Texts)
    BY <2>1, KeysAreTexts
  <2> QED BY <2>1, <2>2 DEF Same
<1>2. Members(d, p) = Members(base, p)
  BY <1>1 DEF Members
<1> QED BY <1>2, MembersAre

LEMMA EntryStands ==
    ASSUME NEW d, Accepts(d, StructuralChecks(d)), NEW i \in 1 .. Length(d, MatrixPath),
           NEW j \in 1 .. Length(d, RowPath(i))
    PROVE  i \in 1 .. 3 /\ j \in 1 .. 3 /\ StandsAt(d, EntryPath(i, j))
<1>1. i \in 1 .. 3 /\ j \in 1 .. 3
  BY LengthIsSmall
<1>2. EntryCheck(i, j) \in Range(RowChecks(d, i))
  BY RowChecksAre
<1>3. EntryCheck(i, j) \in Range(StructuralChecks(d))
  BY <1>2, ChecksAre, MidPriceChecksAre
<1>4. ~Rejects(d, EntryCheck(i, j))
  BY <1>3 DEF Accepts
<1>5. EntryCheck(i, j).path = EntryPath(i, j) /\ EntryCheck(i, j).kinds = Number
  BY DEF EntryCheck, Check
<1>6. KindAt(d, EntryPath(i, j)) \in Number
  BY <1>4, <1>5 DEF Rejects
<1>7. EntryPath(i, j) \in DOMAIN d
  BY <1>6 DEF KindAt, Number
<1> QED BY <1>1, <1>7, EntryPathsAre DEF StandsAt

LEMMA SameRow ==
    ASSUME NEW base, NEW d, Accepts(d, StructuralChecks(d)), NEW i \in 1 .. Length(d, MatrixPath),
           Same(base, d, RowPath(i))
    PROVE  Row(d, i) = Row(base, i)
<1>1. i \in 1 .. 3
  BY LengthIsSmall
<1>2. RowPath(i) \in Keys
  BY <1>1, EntryPathsAre
<1>3. Length(d, RowPath(i)) = Length(base, RowPath(i))
  BY <1>2, SameLength
<1>4. ASSUME NEW j \in 1 .. Length(d, RowPath(i))
      PROVE  FloatAt(d, EntryPath(i, j)) = FloatAt(base, EntryPath(i, j))
  <2>1. j \in 1 .. 3 /\ EntryPath(i, j) \in DOMAIN d /\ EntryPath(i, j) \in Keys
    BY EntryStands DEF StandsAt
  <2>2. IsPrefix(RowPath(i), EntryPath(i, j)) /\ EntryPath(i, j) \in Seq(Texts)
    BY <1>1, <2>1, EntryPathsAre, KeysAreTexts
  <2> QED BY <2>1, <2>2 DEF Same, FloatAt
<1> QED BY <1>3, <1>4 DEF Row

LEMMA MatrixIs ==
    ASSUME NEW d
    PROVE  Matrix(d) = IF KindAt(d, MatrixPath) \in Optional THEN None
                       ELSE [i \in 1 .. Length(d, MatrixPath) |-> Row(d, i)]
  BY DEF Matrix, Row

LEMMA SameMatrix ==
    ASSUME NEW base, NEW d, Known(base, d), Accepts(d, StructuralChecks(d)), Same(base, d, MatrixPath)
    PROVE  Matrix(d) = Matrix(base)
<1>1. MatrixPath \in Keys /\ MatrixPath \in Seq(Texts)
  BY ListPathsAre, KeysAreTexts
<1>2. Length(d, MatrixPath) = Length(base, MatrixPath) /\ KindAt(d, MatrixPath) = KindAt(base, MatrixPath)
  BY <1>1, SameLength, SameIsKept
<1>3. ASSUME NEW i \in 1 .. Length(d, MatrixPath) PROVE Row(d, i) = Row(base, i)
  <2>1. i \in 1 .. 3
    BY LengthIsSmall
  <2>2. RowPath(i) \in Seq(Texts) /\ IsPrefix(MatrixPath, RowPath(i))
    BY <2>1, EntryPathsAre, KeysAreTexts
  <2>3. Same(base, d, RowPath(i))
    <3>1. \A p \in Seq(Texts) : IsPrefix(RowPath(i), p) => IsPrefix(MatrixPath, p)
      BY <1>1, <2>2, PrefixSteps
    <3> QED BY <3>1 DEF Same
  <2> QED BY <2>3, SameRow
<1> QED BY <1>2, <1>3, MatrixIs

LEMMA MatrixReads ==
    ASSUME NEW d, NEW cfg, cfg = Configuration(d), cfg.matrix # None
    PROVE  /\ KindAt(d, MatrixPath) \notin Optional
           /\ DOMAIN cfg.matrix = 1 .. Length(d, MatrixPath)
           /\ Len(cfg.matrix) = Length(d, MatrixPath)
           /\ \A i \in 1 .. Length(d, MatrixPath) : cfg.matrix[i] = Row(d, i)
<1>0. PICK n \in Nat : n = Length(d, MatrixPath)
  BY LengthIsNat
<1>1. PICK s : s = cfg.matrix /\ n = Length(d, MatrixPath)
  BY <1>0
<1>2. s = Matrix(d) /\ s # None
  BY <1>1, ConfigurationIs
<1>3. KindAt(d, MatrixPath) \notin Optional /\ s = [i \in 1 .. n |-> Row(d, i)]
  BY <1>1, <1>2, MatrixIs
<1>4. DOMAIN s = 1 .. n /\ s = [i \in 1 .. n |-> s[i]] /\ \A i \in 1 .. n : s[i] = Row(d, i)
  BY <1>3
<1>5. Len(s) = n
  BY <1>4, FunctionIsSeq
<1> QED BY <1>1, <1>3, <1>4, <1>5

LEMMA RowReads ==
    ASSUME NEW d, NEW i
    PROVE  /\ DOMAIN Row(d, i) = 1 .. Length(d, RowPath(i)) /\ Len(Row(d, i)) = Length(d, RowPath(i))
           /\ \A j \in 1 .. Length(d, RowPath(i)) : Row(d, i)[j] = FloatAt(d, EntryPath(i, j))
<1>0. PICK n \in Nat : n = Length(d, RowPath(i))
  BY LengthIsNat
<1>1. PICK s : s = Row(d, i) /\ n = Length(d, RowPath(i))
  BY <1>0
<1>2. s = [j \in 1 .. n |-> FloatAt(d, EntryPath(i, j))]
  BY <1>1 DEF Row
<1>3. DOMAIN s = 1 .. n /\ s = [j \in 1 .. n |-> s[j]] /\ \A j \in 1 .. n : s[j] = FloatAt(d, EntryPath(i, j))
  BY <1>2
<1>4. Len(s) = n
  BY <1>3, FunctionIsSeq
<1> QED BY <1>1, <1>3, <1>4

(* What a clause about the matrix that is broken says.                     *)
LEMMA SwitchingClauseIs ==
    ASSUME NEW d, NEW cfg, cfg = Configuration(d), NEW c \in Range(SwitchingClauses(cfg)), ~c.ok
    PROVE  \/ c.field = MatrixPath /\ ~SquareMatrix(cfg)
           \/ SquareMatrix(cfg) /\ \E i \in 1 .. Length(d, MatrixPath) : c \in Range(RowClauses(cfg, i))
<1> DEFINE rows == [i \in DOMAIN cfg.matrix |-> RowClauses(cfg, i)]
           head == Clause(MatrixPath, SquareMatrix(cfg))
           tail == IF SquareMatrix(cfg) THEN FlattenSeq(rows) ELSE <<>>
           n == Length(d, MatrixPath)
<1>1. SwitchingClauses(cfg) = <<head>> \o tail
  BY DEF SwitchingClauses
<1>2. head.field = MatrixPath /\ head.ok = SquareMatrix(cfg)
  BY DEF Clause
<1>3. ASSUME SquareMatrix(cfg)
      PROVE  /\ IsSeq(FlattenSeq(rows))
             /\ \A x \in Range(FlattenSeq(rows)) : \E i \in 1 .. n : x \in Range(RowClauses(cfg, i))
  <2>1. n \in Nat /\ DOMAIN cfg.matrix = 1 .. n /\ \A i \in 1 .. n : cfg.matrix[i] = Row(d, i)
    BY <1>3, LengthIsNat, MatrixReads DEF SquareMatrix
  <2>2. DOMAIN rows = 1 .. n /\ rows = [i \in 1 .. n |-> rows[i]]
        /\ \A i \in 1 .. n : rows[i] = RowClauses(cfg, i)
    BY <2>1
  <2> HIDE DEF rows, n
  <2>3. IsSeq(rows) /\ Len(rows) = n
    BY <2>1, <2>2, FunctionIsSeq
  <2>4. \A i \in 1 .. Len(rows) : IsSeq(rows[i])
    <3>1. ASSUME NEW i \in 1 .. n PROVE IsSeq(RowClauses(cfg, i))
      <4>1. DOMAIN cfg.matrix[i] = 1 .. Length(d, RowPath(i)) /\ Length(d, RowPath(i)) \in Nat
        BY <2>1, LengthIsNat, RowReads
      <4> QED BY <4>1, RowClausesIsSeq
    <3> QED BY <2>2, <2>3, <3>1
  <2>5. /\ IsSeq(FlattenSeq(rows))
        /\ \A x \in Range(FlattenSeq(rows)) : \E i \in 1 .. Len(rows) : x \in Range(rows[i])
    BY <2>3, <2>4, FlattenSeqIs
  <2> QED BY <2>2, <2>3, <2>5
<1> HIDE DEF rows, head, n
<1>4. IsSeq(<<head>>) /\ IsSeq(tail) /\ Range(<<head>>) = {head}
  <2>1. IsSeq(<<head>>) /\ IsSeq(<<>>)
    BY TuplesAreSeqs
  <2>2. Range(<<head>>) = {head}
    BY DEF Range
  <2> QED BY <1>3, <2>1, <2>2
<1>5. c = head \/ c \in Range(tail)
  <2> HIDE DEF tail
  <2>1. Range(<<head>> \o tail) = Range(<<head>>) \cup Range(tail)
    BY <1>4, ConcatSeqs
  <2> QED BY <1>1, <1>4, <2>1
<1>6. c \in Range(tail) => SquareMatrix(cfg) /\ tail = FlattenSeq(rows)
  BY DEF Range
<1> HIDE DEF tail
<1> QED BY <1>2, <1>3, <1>5, <1>6 DEF n

LEMMA RowClauseIs ==
    ASSUME NEW cfg, NEW i, NEW n \in Nat, DOMAIN cfg.matrix[i] = 1 .. n,
           NEW c \in Range(RowClauses(cfg, i)), ~c.ok
    PROVE  \/ /\ c.field = RowPath(i)
              /\ ~(Len(cfg.matrix[i]) = Len(cfg.regimes) /\ Near(RowSum(cfg.matrix[i]), Tolerance))
           \/ /\ Len(cfg.matrix[i]) = Len(cfg.regimes)
              /\ \E j \in 1 .. n : c.field = EntryPath(i, j) /\ ~(cfg.matrix[i][j] \in 0 .. One)
<1> DEFINE row == cfg.matrix[i]
           entries == [j \in DOMAIN row |-> Clause(EntryPath(i, j), row[j] \in 0 .. One)]
           last == Clause(RowPath(i), Near(RowSum(row), Tolerance))
           wrong == Clause(RowPath(i), FALSE)
<1>1. RowClauses(cfg, i) = IF Len(row) # Len(cfg.regimes) THEN <<wrong>> ELSE entries \o <<last>>
  BY DEF RowClauses
<1>2. wrong.field = RowPath(i) /\ last.field = RowPath(i) /\ last.ok = Near(RowSum(row), Tolerance)
  BY DEF Clause
<1>3. DOMAIN entries = 1 .. n /\ entries = [j \in 1 .. n |-> entries[j]]
  OBVIOUS
<1>4. \A j \in 1 .. n : entries[j].field = EntryPath(i, j) /\ entries[j].ok = (row[j] \in 0 .. One)
  BY DEF Clause
<1> HIDE DEF entries, last, wrong, row
<1>5. IsSeq(entries) /\ IsSeq(<<last>>)
  BY <1>3, FunctionIsSeq, TuplesAreSeqs
<1>6. Range(<<last>>) = {last} /\ Range(<<wrong>>) = {wrong}
  <2>1. \A x : Range(<<x>>) = {x}
    BY DEF Range
  <2> QED BY <2>1
<1>7. Range(entries \o <<last>>) = Range(entries) \cup {last}
  BY <1>5, <1>6, ConcatSeqs
<1>8. CASE Len(row) # Len(cfg.regimes)
  BY <1>1, <1>2, <1>6, <1>8 DEF row
<1>9. CASE Len(row) = Len(cfg.regimes)
  <2>1. c \in Range(entries) \/ c = last
    BY <1>1, <1>7, <1>9
  <2>2. CASE c = last
    BY <1>2, <2>2 DEF row
  <2>3. CASE c \in Range(entries)
    <3>1. PICK j \in 1 .. n : c = entries[j]
      BY <1>3, <2>3 DEF Range
    <3> QED BY <1>4, <1>9, <3>1 DEF row
  <2> QED BY <2>1, <2>2, <2>3
<1> QED BY <1>8, <1>9

-----------------------------------------------------------------------------
(* The clauses on the model and its matrix, each broken.                   *)
MatrixStands(d) == KindAt(d, MatrixPath) = "list" => Matrix(d) # None

LEMMA BesideIsExplained ==
    ASSUME NEW E, NEW f \in Keys, ~Explained(E, f)
    PROVE  Untouched(E, f) /\ \A p \in E : ~IsPrefix(p, f)
  BY KeysAreTexts DEF Explained, Untouched, Beside

(* The model was changed: then that is the field edited, or the matrix is. *)
LEMMA ModelIsEdited ==
    ASSUME NEW base, NEW d, NEW E, Edition(base, d, E),
           Configuration(d).model # Configuration(base).model
    PROVE  Explained(E, MatrixPath) /\ Explained(E, RegimesPath)
<1>1. PICK p : p = <<"mid_price", "model">>
  OBVIOUS
<1>2. Edits(base, d, E) /\ Accepts(d, StructuralChecks(d))
  BY DEF Edition
<1>3. StandsAt(d, p)
  BY <1>1, <1>2, FieldsStand
<1>4. Configuration(d).model = d[p].text /\ Configuration(base).model = base[p].text
  <2>1. \A x : Configuration(x).model = x[p].text
    BY <1>1, ConfigurationIs
  <2> QED BY <2>1
<1>5. p \in E
  BY <1>2, <1>3, <1>4 DEF Edits, StandsAt
<1>6. Related(p, MatrixPath) /\ Related(p, RegimesPath)
  BY <1>1 DEF Related
<1>7. MatrixPath \in Keys /\ RegimesPath \in Keys
  BY ListPathsAre, EntryPathsAre
<1> QED BY <1>5, <1>6, <1>7 DEF Explained

LEMMA MatrixIsEdited ==
    ASSUME NEW base, NEW d, NEW E, Edition(base, d, E), MatrixStands(base),
           Configuration(base).matrix = None, Configuration(d).matrix # None
    PROVE  MatrixPath \in E
<1>1. /\ Edits(base, d, E) /\ Accepts(d, StructuralChecks(d))
      /\ Accepts(base, StructuralChecks(base))
  BY LoadedIsAccepted DEF Edition
<1>2. Matrix(base) = None
  BY ConfigurationIs
<1>3. KindAt(base, MatrixPath) \in Optional
  BY <1>1, <1>2, ListsAreLists DEF MatrixStands
<1>4. KindAt(d, MatrixPath) \notin Optional
  BY MatrixReads
<1>5. MatrixPath \in DOMAIN d
  BY <1>4 DEF KindAt, Optional
<1>6. ~(MatrixPath \in DOMAIN base /\ d[MatrixPath] = base[MatrixPath])
  BY <1>3, <1>4, <1>5 DEF KindAt
<1> QED BY <1>1, <1>5, <1>6 DEF Edits

LEMMA OneRegimeIsExplained ==
    ASSUME NEW base, NEW d, NEW E, Edition(base, d, E), MatrixStands(base),
           NEW cfg, cfg = Configuration(d), cfg.model # "regime_switching",
           NEW c \in Range(ModelClauses(cfg)), ~c.ok
    PROVE  Explained(E, c.field)
<1>1. PICK was : was = Configuration(base)
  OBVIOUS
<1>2. PICK a, b : /\ a = Clause(MatrixPath, cfg.matrix = None) /\ b = Clause(RegimesPath, Len(cfg.regimes) = 1)
  OBVIOUS
<1>3. ModelClauses(cfg) = <<a, b>>
  BY <1>2 DEF ModelClauses, RegimesPath
<1>4. c = a \/ c = b
  <2>1. DOMAIN <<a, b>> = 1 .. 2 /\ <<a, b>>[1] = a /\ <<a, b>>[2] = b
    OBVIOUS
  <2> QED BY <1>3, <2>1 DEF Range
<1>5. /\ a.field = MatrixPath /\ a.ok = (cfg.matrix = None)
      /\ b.field = RegimesPath /\ b.ok = (Len(cfg.regimes) = 1)
  BY <1>2 DEF Clause
<1>6. CASE was.model # cfg.model
  BY <1>1, <1>4, <1>5, <1>6, ModelIsEdited
<1>7. CASE was.model = cfg.model
  <2>1. PICK u, v : u = Clause(MatrixPath, was.matrix = None) /\ v = Clause(RegimesPath, Len(was.regimes) = 1)
    OBVIOUS
  <2>2. ModelClauses(was) = <<u, v>>
    BY <1>7, <2>1 DEF ModelClauses, RegimesPath
  <2>3. u.ok /\ v.ok
    <3>1. AllOk(<<u, v>>)
      BY <1>1, <2>2, PartsAreOk DEF Edition
    <3>2. DOMAIN <<u, v>> = 1 .. 2 /\ <<u, v>>[1] = u /\ <<u, v>>[2] = v
      OBVIOUS
    <3> QED BY <3>1, <3>2 DEF AllOk, Range
  <2>4. was.matrix = None /\ Len(was.regimes) = 1
    BY <2>1, <2>3 DEF Clause
  <2>5. CASE c = a
    <3>1. c.field = MatrixPath /\ cfg.matrix # None
      BY <1>5, <2>5
    <3>2. MatrixPath \in E /\ MatrixPath \in Keys
      BY <1>1, <2>4, <3>1, MatrixIsEdited, ListPathsAre
    <3> QED BY <3>1, <3>2, EditIsExplained
  <2>6. CASE c = b
    <3>1. c.field = RegimesPath /\ Len(cfg.regimes) # 1
      BY <1>5, <2>6
    <3>2. Length(d, RegimesPath) # Length(base, RegimesPath)
      BY <1>1, <2>4, <3>1, RegimesAreRead
    <3> QED BY <3>1, <3>2, RegimesAreExplained
  <2> QED BY <1>4, <2>5, <2>6
<1> QED BY <1>6, <1>7

(* The matrix has a row for each regime.                                   *)
LEMMA SquareIsExplained ==
    ASSUME NEW base, NEW d, NEW E, Edition(base, d, E), NEW was, was = Configuration(base),
           NEW cfg, cfg = Configuration(d), SquareMatrix(was), ~SquareMatrix(cfg)
    PROVE  Explained(E, MatrixPath)
<1> SUFFICES ASSUME ~Explained(E, MatrixPath) PROVE FALSE
  OBVIOUS
<1>1. /\ Edits(base, d, E) /\ Known(base, d) /\ Accepts(d, StructuralChecks(d))
  BY DEF Edition
<1>2. MatrixPath \in Keys /\ IsPrefix(MatrixPath, MatrixPath)
  BY ListPathsAre, KeysAreTexts, PrefixSteps
<1>3. Same(base, d, MatrixPath)
  BY <1>1, <1>2, BesideIsExplained, UntouchedIsSame
<1>4. Matrix(d) = Matrix(base)
  BY <1>1, <1>3, SameMatrix
<1>5. cfg.matrix = was.matrix
  <2>1. \A x : Configuration(x).matrix = Matrix(x)
    BY ConfigurationIs
  <2> QED BY <1>4, <2>1
<1>6. Length(d, RegimesPath) = Length(base, RegimesPath)
  BY <1>2, RegimesAreExplained
<1>7. Len(cfg.regimes) = Len(was.regimes)
  BY <1>6, RegimesAreRead
<1> QED BY <1>5, <1>7 DEF SquareMatrix

LEMMA RowFieldIs ==
    ASSUME NEW d, NEW cfg, cfg = Configuration(d), SquareMatrix(cfg), NEW i \in 1 .. Length(d, MatrixPath),
           NEW c \in Range(RowClauses(cfg, i)), ~c.ok
    PROVE  c.field \in Keys /\ IsPrefix(MatrixPath, c.field)
<1>1. \A k \in 1 .. Length(d, MatrixPath) : cfg.matrix[k] = Row(d, k)
  BY MatrixReads DEF SquareMatrix
<1>2. PICK n \in Nat : n = Length(d, RowPath(i))
  BY LengthIsNat
<1>3. DOMAIN cfg.matrix[i] = 1 .. n
  BY <1>1, <1>2, RowReads
<1>4. i \in 1 .. 3
  BY LengthIsSmall
<1>5. RowPath(i) \in Keys /\ MatrixPath \in Keys /\ IsPrefix(MatrixPath, RowPath(i))
  BY <1>4, EntryPathsAre, ListPathsAre
<1>6. ASSUME NEW j \in 1 .. n PROVE EntryPath(i, j) \in Keys /\ IsPrefix(MatrixPath, EntryPath(i, j))
  <2>1. j \in 1 .. 3
    BY <1>2, LengthIsSmall
  <2>2. EntryPath(i, j) \in Keys /\ IsPrefix(RowPath(i), EntryPath(i, j))
    BY <1>4, <2>1, EntryPathsAre
  <2> QED BY <1>5, <2>2, KeysAreTexts, PrefixSteps
<1>7. c.field = RowPath(i) \/ \E j \in 1 .. n : c.field = EntryPath(i, j)
  BY <1>3, RowClauseIs
<1> QED BY <1>5, <1>6, <1>7

(* A row has an entry for each regime and sums to one.                     *)
LEMMA RowIsExplained ==
    ASSUME NEW base, NEW d, NEW E, Edition(base, d, E), NEW was, was = Configuration(base),
           was.model = "regime_switching", NEW cfg, cfg = Configuration(d), SquareMatrix(cfg),
           NEW i \in 1 .. Length(d, MatrixPath), NEW c \in Range(RowClauses(cfg, i)), ~c.ok
    PROVE  Explained(E, c.field)
<1> SUFFICES ASSUME ~Explained(E, c.field) PROVE FALSE
  OBVIOUS
<1>1. /\ Edits(base, d, E) /\ Known(base, d) /\ Accepts(d, StructuralChecks(d))
      /\ LoadConfig(base).raised = "none"
  BY DEF Edition
<1>2. cfg.matrix[i] = Row(d, i) /\ Len(cfg.matrix) = Length(d, MatrixPath) /\ Len(cfg.matrix) = Len(cfg.regimes)
  <2>1. \A k \in 1 .. Length(d, MatrixPath) : cfg.matrix[k] = Row(d, k)
    BY MatrixReads DEF SquareMatrix
  <2>2. Len(cfg.matrix) = Length(d, MatrixPath)
    BY MatrixReads DEF SquareMatrix
  <2> QED BY <2>1, <2>2 DEF SquareMatrix
<1>3. PICK n \in Nat : n = Length(d, RowPath(i))
  BY LengthIsNat
<1>4. DOMAIN cfg.matrix[i] = 1 .. n /\ Len(cfg.matrix[i]) = n
  BY <1>2, <1>3, RowReads
<1>5. SquareMatrix(was) /\ \A k \in DOMAIN was.matrix : AllOk(RowClauses(was, k))
  BY <1>1, MatrixHolds
<1>6. /\ DOMAIN was.matrix = 1 .. Length(base, MatrixPath) /\ Len(was.matrix) = Length(base, MatrixPath)
      /\ \A k \in 1 .. Length(base, MatrixPath) : was.matrix[k] = Row(base, k)
  BY <1>5, MatrixReads DEF SquareMatrix
<1>7. RowPath(i) \in Keys
  <2>1. i \in 1 .. 3
    BY LengthIsSmall
  <2> QED BY <2>1, EntryPathsAre
<1>8. CASE Length(d, RegimesPath) # Length(base, RegimesPath)
  BY <1>8, RowFieldIs, RegimesAreExplained
<1>9. CASE Length(d, RegimesPath) = Length(base, RegimesPath)
  <2>1. Len(cfg.regimes) = Len(was.regimes) /\ Len(was.matrix) = Len(was.regimes)
    BY <1>5, <1>9, RegimesAreRead DEF SquareMatrix
  <2>2. i \in 1 .. Length(base, MatrixPath)
    BY <1>2, <1>6, <2>1
  <2>3. PICK m \in Nat : m = Length(base, RowPath(i))
    BY LengthIsNat
  <2>4. was.matrix[i] = Row(base, i) /\ AllOk(RowClauses(was, i))
    BY <1>5, <1>6, <2>2
  <2>5. DOMAIN was.matrix[i] = 1 .. m /\ Len(was.matrix[i]) = m
    BY <2>3, <2>4, RowReads
  <2>6. /\ Len(was.matrix[i]) = Len(was.regimes) /\ Near(RowSum(was.matrix[i]), Tolerance)
        /\ \A j \in 1 .. m : was.matrix[i][j] \in 0 .. One
    BY <2>4, <2>5, RowHolds
  <2>7. CASE /\ c.field = RowPath(i)
             /\ ~(Len(cfg.matrix[i]) = Len(cfg.regimes) /\ Near(RowSum(cfg.matrix[i]), Tolerance))
    <3>1. Same(base, d, RowPath(i))
      BY <1>1, <1>7, <2>7, BesideIsExplained, UntouchedIsSame
    <3>2. Row(d, i) = Row(base, i)
      BY <1>1, <3>1, SameRow
    <3>3. cfg.matrix[i] = was.matrix[i]
      BY <1>2, <2>4, <3>2
    <3> QED BY <2>1, <2>6, <2>7, <3>3
  <2>8. ASSUME Len(cfg.matrix[i]) = Len(cfg.regimes), NEW j \in 1 .. n, c.field = EntryPath(i, j),
               ~(cfg.matrix[i][j] \in 0 .. One)
        PROVE  FALSE
    <3>1. n = m
      BY <1>4, <2>1, <2>5, <2>6, <2>8
    <3>2. was.matrix[i][j] \in 0 .. One
      BY <2>6, <2>8, <3>1
    <3>3. cfg.matrix[i][j] = FloatAt(d, EntryPath(i, j))
      <4>1. \A k \in 1 .. n : Row(d, i)[k] = FloatAt(d, EntryPath(i, k))
        BY <1>3, RowReads
      <4> QED BY <1>2, <4>1
    <3>4. was.matrix[i][j] = FloatAt(base, EntryPath(i, j))
      <4>1. \A k \in 1 .. m : Row(base, i)[k] = FloatAt(base, EntryPath(i, k))
        BY <2>3, RowReads
      <4> QED BY <2>4, <3>1, <4>1
    <3>5. StandsAt(d, EntryPath(i, j))
      BY <1>1, <1>3, EntryStands
    <3>6. FloatAt(d, EntryPath(i, j)) = FloatAt(base, EntryPath(i, j))
      BY <1>1, <2>8, <3>5, ValueIsKept DEF StandsAt
    <3> QED BY <2>8, <3>2, <3>3, <3>4, <3>6
  <2> QED BY <1>4, <2>7, <2>8, RowClauseIs
<1> QED BY <1>8, <1>9

(* The model fits its matrix, and the matrix the number of regimes.        *)
LEMMA ModelIsExplained ==
    ASSUME NEW base, NEW d, NEW E, Edition(base, d, E), MatrixStands(base),
           NEW cfg, cfg = Configuration(d), NEW c \in Range(ModelClauses(cfg)), ~c.ok
    PROVE  Explained(E, c.field)
<1>1. PICK was : was = Configuration(base)
  OBVIOUS
<1>2. LoadConfig(base).raised = "none"
  BY DEF Edition
<1>3. CASE cfg.model # "regime_switching"
  BY <1>3, OneRegimeIsExplained
<1>4. CASE cfg.model = "regime_switching"
  <2>1. c \in Range(SwitchingClauses(cfg))
    BY <1>4 DEF ModelClauses
  <2>2. CASE c.field = MatrixPath /\ ~SquareMatrix(cfg)
    <3>1. CASE was.model = "regime_switching"
      <4>1. SquareMatrix(was)
        BY <1>1, <1>2, <3>1, MatrixHolds
      <4> QED BY <1>1, <2>2, <4>1, SquareIsExplained
    <3>2. CASE was.model # "regime_switching"
      BY <1>1, <1>4, <2>2, <3>2, ModelIsEdited
    <3> QED BY <3>1, <3>2
  <2>3. ASSUME SquareMatrix(cfg), NEW i \in 1 .. Length(d, MatrixPath), c \in Range(RowClauses(cfg, i))
        PROVE  Explained(E, c.field)
    <3>1. CASE was.model = "regime_switching"
      BY <1>1, <2>3, <3>1, RowIsExplained
    <3>2. CASE was.model # "regime_switching"
      <4>1. PICK u, v : u = Clause(MatrixPath, was.matrix = None) /\ v = Clause(RegimesPath, Len(was.regimes) = 1)
        OBVIOUS
      <4>2. ModelClauses(was) = <<u, v>>
        BY <3>2, <4>1 DEF ModelClauses, RegimesPath
      <4>3. AllOk(<<u, v>>)
        BY <1>1, <1>2, <4>2, PartsAreOk
      <4>4. u.ok
        <5>1. DOMAIN <<u, v>> = 1 .. 2 /\ <<u, v>>[1] = u
          OBVIOUS
        <5> QED BY <4>3, <5>1 DEF AllOk, Range
      <4>5. was.matrix = None
        BY <4>1, <4>4 DEF Clause
      <4>6. MatrixPath \in E
        BY <1>1, <2>3, <4>5, MatrixIsEdited DEF SquareMatrix
      <4>7. c.field \in Keys /\ IsPrefix(MatrixPath, c.field)
        BY <2>3, RowFieldIs
      <4> QED BY <4>6, <4>7, EditAboveIsExplained
    <3> QED BY <3>1, <3>2
  <2> QED BY <2>1, <2>2, <2>3, SwitchingClauseIs
<1> QED BY <1>3, <1>4

-----------------------------------------------------------------------------
(* What load_config raises, and about which field.                         *)
LEMMA LeastIsIn ==
    ASSUME NEW I, I \subseteq Nat, I # {}
    PROVE  Min(I) \in I
<1>1. \E x \in I : \A y \in I : x <= y
  BY LeastNumber
<1> QED BY <1>1 DEF Min

LEMMA FirstRejectedIs ==
    ASSUME NEW d, NEW s, IsSeq(s), FirstRejected(d, s) # 0
    PROVE  s[FirstRejected(d, s)] \in Range(s) /\ Rejects(d, s[FirstRejected(d, s)])
<1> DEFINE I == {i \in 1 .. Len(s) : Rejects(d, s[i])}
<1>1. Len(s) \in Nat /\ DOMAIN s = 1 .. Len(s)
  BY LenProperties DEF IsSeq
<1>2. FirstRejected(d, s) = IF I # {} THEN Min(I) ELSE 0
  BY DEF FirstRejected, SelectInSeq
<1>3. I \subseteq Nat
  BY <1>1
<1>4. \A i \in I : s[i] \in Range(s) /\ Rejects(d, s[i])
  BY <1>1 DEF Range
<1> HIDE DEF I
<1>5. FirstRejected(d, s) \in I
  BY <1>2, <1>3, LeastIsIn
<1> QED BY <1>4, <1>5

LEMMA FirstBrokenIs ==
    ASSUME NEW s, IsSeq(s), NEW n, n = SelectInSeq(s, LAMBDA c : ~c.ok), n # 0
    PROVE  s[n] \in Range(s) /\ ~s[n].ok
<1> DEFINE I == {i \in 1 .. Len(s) : ~s[i].ok}
<1>1. Len(s) \in Nat /\ DOMAIN s = 1 .. Len(s)
  BY LenProperties DEF IsSeq
<1>2. n = IF I # {} THEN Min(I) ELSE 0
  BY DEF SelectInSeq, Min
<1>3. I \subseteq Nat
  BY <1>1
<1>4. \A i \in I : s[i] \in Range(s) /\ ~s[i].ok
  BY <1>1 DEF Range
<1> HIDE DEF I
<1>5. n \in I
  BY <1>2, <1>3, LeastIsIn
<1> QED BY <1>4, <1>5

RejectedBy(d, c, load_) ==
    /\ Rejects(d, c) /\ ~Unsortable(d, c) /\ load_.field = c.path /\ load_.raised = "ConfigError"
UnsortableFor(d, c, load_) ==
    /\ Unsortable(d, c) /\ load_.field = None /\ load_.raised = "TypeError"
BrokenBy(d, c, load_) ==
    /\ ~c.ok /\ load_.field = c.field /\ load_.raised = "ConfigError"

(* The first structural check that fails is raised, or else the first      *)
(* broken clause.                                                          *)
LEMMA RejectedIs ==
    ASSUME NEW d, NEW r, r = LoadConfig(d), r.raised # "none"
    PROVE  \/ \E c \in Range(StructuralChecks(d)) : RejectedBy(d, c, r) \/ UnsortableFor(d, c, r)
           \/ /\ Accepts(d, StructuralChecks(d))
              /\ \E c \in Range(Clauses(Configuration(d))) : BrokenBy(d, c, r)
<1>1. PICK checks, n : checks = StructuralChecks(d) /\ n = FirstRejected(d, checks)
  OBVIOUS
<1>2. IsSeq(checks)
  BY <1>1, StructureIs
<1>3. CASE n # 0
  <2>1. PICK c : c = checks[n]
    OBVIOUS
  <2>2. r = Rejection(d, c)
    BY <1>1, <1>3, <2>1 DEF LoadConfig
  <2>3. c \in Range(checks) /\ Rejects(d, c)
    BY <1>1, <1>2, <1>3, <2>1, FirstRejectedIs
  <2>4. Unsortable(d, c) => UnsortableFor(d, c, r)
    BY <2>2 DEF Rejection, Failure, UnsortableFor
  <2>5. ~Unsortable(d, c) => RejectedBy(d, c, r)
    BY <2>2, <2>3 DEF Rejection, Failure, RejectedBy
  <2> QED BY <1>1, <2>3, <2>4, <2>5
<1>4. CASE n = 0
  <2>1. Accepts(d, checks)
    BY <1>1, <1>2, <1>4, NoneBroken
  <2>2. PICK clauses, cfg : clauses = Clauses(cfg) /\ cfg = Configuration(d)
    OBVIOUS
  <2>3. PICK m : m = SelectInSeq(clauses, LAMBDA c : ~c.ok)
    OBVIOUS
  <2>4. r = IF m = 0 THEN [raised |-> "none", field |-> None, config |-> cfg]
            ELSE Failure("ConfigError", clauses[m].field)
    BY <1>1, <1>4, <2>2, <2>3 DEF LoadConfig, Validated
  <2>5. m # 0
    BY <2>4
  <2>6. PICK c : c = clauses[m]
    OBVIOUS
  <2>7. IsSeq(clauses)
    BY <2>2, ClausesAreParts
  <2>8. c \in Range(clauses) /\ ~c.ok
    BY <2>3, <2>5, <2>6, <2>7, FirstBrokenIs
  <2>9. r.field = c.field /\ r.raised = "ConfigError"
    BY <2>4, <2>5, <2>6 DEF Failure
  <2> QED BY <1>1, <2>1, <2>2, <2>8, <2>9 DEF BrokenBy
<1> QED BY <1>3, <1>4

(* Any broken clause of validate.                                          *)
LEMMA BrokenIsExplained ==
    ASSUME NEW base, NEW d, NEW E, Edition(base, d, E), MatrixStands(base),
           NEW cfg, cfg = Configuration(d), NEW c \in Range(Clauses(cfg)), ~c.ok
    PROVE  Explained(E, c.field)
<1>1. PICK F : F = Range(FlattenSeq(EachRegime(cfg)))
  OBVIOUS
<1>2. PICK N, P :
        /\ N = Range(Positive(<<"horizon">>, HorizonFields(cfg)))
               \cup Range(Positive(<<"quoters", "avellaneda_stoikov">>, QuoterFields(cfg)))
               \cup Range(Positive(<<"fill">>, FillFields(cfg)))
        /\ P = Range(SeedClauses(cfg)) \cup Range(BaseClauses(cfg))
  OBVIOUS
<1>3. c \in N \/ c \in P \/ c \in Range(PriceClauses(cfg)) \/ c \in F \/ c \in Range(ModelClauses(cfg))
      \/ c \in Range(RunClauses(cfg))
  <2>1. Range(Clauses(cfg)) =
                 Range(SeedClauses(cfg)) \cup Range(Positive(<<"horizon">>, HorizonFields(cfg)))
                 \cup Range(PriceClauses(cfg)) \cup F
                 \cup Range(ModelClauses(cfg))
                 \cup Range(Positive(<<"quoters", "avellaneda_stoikov">>, QuoterFields(cfg)))
                 \cup Range(BaseClauses(cfg)) \cup Range(Positive(<<"fill">>, FillFields(cfg)))
                 \cup Range(RunClauses(cfg))
    BY <1>1, ClausesAreParts
  <2> QED BY <1>2, <2>1
<1>4. c \in N => Explained(E, c.field)
  BY <1>2, PositivesAreExplained
<1>5. c \in P => Explained(E, c.field)
  BY <1>2, OthersAreExplained
<1>6. ASSUME c \in F PROVE Explained(E, c.field)
  <2>1. \A x \in F : \E k \in DOMAIN cfg.regimes : x \in Range(RegimeClauses(cfg, k))
    BY <1>1, ClausesAreParts
  <2>2. DOMAIN cfg.regimes = 1 .. Length(d, RegimesPath)
    BY RegimesAreRead
  <2>3. PICK k \in 1 .. Length(d, RegimesPath) : c \in Range(RegimeClauses(cfg, k))
    BY <1>6, <2>1, <2>2
  <2> QED BY <2>3, RegimeIsExplained
<1>7. c \in Range(PriceClauses(cfg)) => Explained(E, c.field)
  BY PriceIsExplained
<1>8. c \in Range(ModelClauses(cfg)) => Explained(E, c.field)
  BY ModelIsExplained
<1>9. c \in Range(RunClauses(cfg)) => Explained(E, c.field)
  BY RunIsExplained
<1> QED BY <1>3, <1>4, <1>5, <1>6, <1>7, <1>8, <1>9

(* Keys that do not sort: one was put in that is no string.                *)
StringKeys(base) == \A p \in DOMAIN base \ {<<>>} : Last(p) \notin NonStrings

LEMMA UnsortableIsEdited ==
    ASSUME NEW base, NEW d, NEW E, Edits(base, d, E), DOMAIN d \subseteq Seq(Texts), StringKeys(base),
           NEW c, c.path \in Seq(Texts), Unsortable(d, c)
    PROVE  \E e \in E : Last(e) \in NonStrings
<1>1. PICK k \in KeysOf(d, c.path) : k \in NonStrings
  BY DEF Unsortable
<1>2. PICK q \in DOMAIN d : Len(q) = Len(c.path) + 1 /\ k = q[Len(c.path) + 1]
  BY <1>1 DEF KeysOf
<1>3. Last(q) = k
  BY <1>2 DEF Last
<1>4. q # <<>>
  <2>1. Len(c.path) \in Nat
    BY LenProperties
  <2>2. Len(q) # 0
    BY <1>2, <2>1
  <2> QED BY <2>2
<1>5. q \notin DOMAIN base
  BY <1>1, <1>3, <1>4 DEF StringKeys
<1>6. q \in E
  BY <1>5 DEF Edits
<1> QED BY <1>1, <1>3, <1>6

(* What a rejected document names, when it came from one that loads.       *)
Grounded(E, r) ==
    \/ r.raised = "ConfigError" /\ Explained(E, r.field)
    \/ r.raised = "TypeError" /\ r.field = None /\ \E e \in E : Last(e) \in NonStrings
LEMMA RejectionIsExplained ==
    ASSUME NEW base, NEW d, NEW E, Edits(base, d, E), Known(base, d), HasParents(d), MatrixStands(base),
           StringKeys(base), LoadConfig(base).raised = "none", NEW r, r = LoadConfig(d), r.raised # "none"
    PROVE  Grounded(E, r)
<1>1. Accepts(base, StructuralChecks(base))
  BY LoadedIsAccepted
<1>2. ASSUME NEW c \in Range(StructuralChecks(d)), RejectedBy(d, c, r)
      PROVE  Grounded(E, r)
  <2>1. Rejects(d, c) /\ r.field = c.path /\ r.raised = "ConfigError"
    BY <1>2 DEF RejectedBy
  <2>2. \E e \in E : Beside(e, c.path)
    BY <1>1, <2>1, RejectedIsBeside
  <2>3. c.path \in Keys
    BY AllAreSound DEF Sound
  <2> QED BY <2>1, <2>2, <2>3 DEF Beside, Explained, Grounded
<1>3. ASSUME NEW c \in Range(StructuralChecks(d)), UnsortableFor(d, c, r)
      PROVE  Grounded(E, r)
  <2>1. Unsortable(d, c) /\ r.field = None /\ r.raised = "TypeError"
    BY <1>3 DEF UnsortableFor
  <2>2. c.path \in Seq(Texts) /\ DOMAIN d \subseteq Seq(Texts)
    BY AllAreSound, KeysAreTexts DEF Sound, Known
  <2> QED BY <2>1, <2>2, UnsortableIsEdited DEF Grounded
<1>4. ASSUME Accepts(d, StructuralChecks(d)), NEW c \in Range(Clauses(Configuration(d))), BrokenBy(d, c, r)
      PROVE  Grounded(E, r)
  <2>1. ~c.ok /\ r.field = c.field /\ r.raised = "ConfigError"
    BY <1>4 DEF BrokenBy
  <2>2. Edition(base, d, E)
    BY <1>4 DEF Edition
  <2>3. Explained(E, c.field)
    BY <2>1, <2>2, BrokenIsExplained
  <2> QED BY <2>1, <2>3 DEF Grounded
<1> QED BY <1>2, <1>3, <1>4, RejectedIs

-----------------------------------------------------------------------------
(* The document came from one of the bases by the edits that were counted. *)
IsCounted(E) == E \subseteq Seq(STRING) \ {<<>>} /\ IsFiniteSet(E) /\ Cardinality(E) <= MaxEdits
EditInv == IsCounted(edited) /\ \E base \in Bases : Edits(base, doc, edited)

LEMMA StringsAreTexts ==
    ASSUME NEW p \in Seq(STRING)
    PROVE  p \in Seq(Texts)
<1>1. PICK S, T : S = STRING /\ T = Texts
  OBVIOUS
<1>2. S \subseteq T
  BY <1>1 DEF Texts
<1>3. p \in Seq(S)
  BY <1>1
<1>4. p \in Seq(T)
  BY <1>2, <1>3, SeqMonotonic
<1> QED BY <1>1, <1>4

LEMMA FrontOfAppend ==
    ASSUME NEW S, NEW p \in Seq(S), NEW e \in S
    PROVE  Front(Append(p, e)) = p
<1>1. PICK q : q = Append(p, e)
  OBVIOUS
<1>2. q \in Seq(S) /\ Len(q) = Len(p) + 1 /\ Len(p) \in Nat
  BY <1>1, AppendTo
<1>3. \A i \in 1 .. Len(p) : q[i] = p[i]
  BY <1>1, AppendTo
<1>4. q # <<>>
  BY <1>2, EmptySeq
<1>5. Front(q) \in Seq(S) /\ Len(Front(q)) = Len(p) /\ \A i \in 1 .. Len(p) : Front(q)[i] = q[i]
  BY <1>2, <1>4, FrontIs
<1>6. \A i \in 1 .. Len(p) : Front(q)[i] = p[i]
  BY <1>3, <1>5
<1>7. Front(q) = p
  BY <1>5, <1>6, SeqEqual
<1> QED BY <1>1, <1>7

(* Each of the three edits adds its path to those that tell the documents  *)
(* apart.                                                                  *)
LEMMA EraseIsEdit ==
    ASSUME IsTree(doc), NEW path \in DOMAIN doc, path # <<>>, NEW base, NEW E, Edits(base, doc, E)
    PROVE  Edits(base, Erase(path), E \cup {path})
<1>1. /\ DOMAIN Erase(path) = DOMAIN doc \ Below(path)
      /\ \A p \in DOMAIN doc \ Below(path) : Erase(path)[p] = doc[p]
  BY DEF Erase
<1>2. path \in Seq(Texts)
  BY StringsAreTexts DEF IsTree, IsDocument
<1>3. E \cup {path} \subseteq Seq(Texts) \ {<<>>}
  BY <1>2 DEF Edits
<1>4. \A p \in DOMAIN Erase(path) : p \in E \cup {path} \/ (p \in DOMAIN base /\ Erase(path)[p] = base[p])
  BY <1>1 DEF Edits
<1>5. \A p \in DOMAIN base \ DOMAIN Erase(path) : \E e \in E \cup {path} : IsPrefix(e, p)
  BY <1>1 DEF Edits, Below
<1>6. ASSUME NEW p \in DOMAIN Erase(path) \ DOMAIN base, p # <<>>
      PROVE  Erase(path)[Front(p)].kind = "map"
  <2>1. Front(p) \in DOMAIN doc \ Below(path)
    BY <1>1, <1>6, ParentStays
  <2> QED BY <1>1, <1>6, <2>1 DEF Edits
<1> QED BY <1>3, <1>4, <1>5, <1>6 DEF Edits

LEMMA PutIsEdit ==
    ASSUME IsTree(doc), NEW path \in DOMAIN doc, path # <<>>, NEW node, NEW base, NEW E, Edits(base, doc, E)
    PROVE  Edits(base, Put(path, node), E \cup {path})
<1>1. PICK d : d = Put(path, node)
  OBVIOUS
<1>2. /\ DOMAIN d = (DOMAIN doc \ Below(path)) \cup {path}
      /\ \A p \in DOMAIN doc \ Below(path) : p # path => d[p] = doc[p]
  BY <1>1 DEF Put
<1>3. path \in Seq(Texts) /\ path \in Seq(STRING) /\ Front(path) \in DOMAIN doc
  BY StringsAreTexts DEF IsTree, IsDocument, HasParents
<1>4. path \in Below(path)
  BY <1>3, PrefixSteps DEF Below
<1>5. Front(path) \in DOMAIN doc \ Below(path)
  <2>1. Front(path) \in Seq(STRING)
    BY <1>3, FrontIs
  <2>2. ~IsPrefix(path, Front(path))
    BY <1>3, PrefixOfFront
  <2> QED BY <1>3, <2>2 DEF Below
<1>6. E \cup {path} \subseteq Seq(Texts) \ {<<>>}
  BY <1>3 DEF Edits
<1>7. \A p \in DOMAIN d : p \in E \cup {path} \/ (p \in DOMAIN base /\ d[p] = base[p])
  BY <1>2 DEF Edits
<1>8. \A p \in DOMAIN base \ DOMAIN d : \E e \in E \cup {path} : IsPrefix(e, p)
  BY <1>2 DEF Edits, Below
<1>9. ASSUME NEW p \in DOMAIN d \ DOMAIN base, p # <<>>
      PROVE  d[Front(p)].kind = "map"
  <2>1. p \in DOMAIN doc
    BY <1>2
  <2>2. Front(p) \in DOMAIN doc \ Below(path)
    BY <1>2, <1>5, <1>9, ParentStays
  <2>3. d[Front(p)] = doc[Front(p)]
    BY <1>2, <1>4, <2>2
  <2> QED BY <1>9, <2>1, <2>3 DEF Edits
<1>10. Edits(base, d, E \cup {path})
  BY <1>6, <1>7, <1>8, <1>9 DEF Edits
<1> QED BY <1>1, <1>10

LEMMA AddIsEdit ==
    ASSUME IsTree(doc), NEW path \in DOMAIN doc, doc[path].kind = "map", NEW key \in STRING,
           NEW node, NEW base, NEW E, Edits(base, doc, E)
    PROVE  Edits(base, Add(Append(path, key), node), E \cup {Append(path, key)})
<1>1. PICK q, d : q = Append(path, key) /\ d = Add(q, node)
  OBVIOUS
<1>2. /\ DOMAIN d = DOMAIN doc \cup {q}
      /\ \A p \in DOMAIN doc : d[p] = doc[p]
  BY <1>1 DEF Add
<1>3. q \in Seq(STRING) \ {<<>>}
  BY <1>1, AddIsTree
<1>4. Front(q) = path
  <2>1. path \in Seq(STRING)
    BY DEF IsTree, IsDocument
  <2>2. PICK S : S = STRING
    OBVIOUS
  <2>3. path \in Seq(S) /\ key \in S
    BY <2>1, <2>2
  <2> QED BY <1>1, <2>3, FrontOfAppend
<1>5. E \cup {q} \subseteq Seq(Texts) \ {<<>>}
  <2>1. q \in Seq(Texts) /\ q # <<>>
    BY <1>3, StringsAreTexts
  <2> QED BY <2>1 DEF Edits
<1>6. \A p \in DOMAIN d : p \in E \cup {q} \/ (p \in DOMAIN base /\ d[p] = base[p])
  BY <1>2 DEF Edits
<1>7. \A p \in DOMAIN base \ DOMAIN d : \E e \in E \cup {q} : IsPrefix(e, p)
  BY <1>2 DEF Edits
<1>8. ASSUME NEW p \in DOMAIN d \ DOMAIN base, p # <<>>
      PROVE  d[Front(p)].kind = "map"
  <2>1. CASE p = q
    BY <1>2, <1>4, <2>1
  <2>2. CASE p # q
    <3>1. p \in DOMAIN doc /\ Front(p) \in DOMAIN doc
      BY <1>2, <1>8, <2>2 DEF IsTree, HasParents
    <3> QED BY <1>2, <1>8, <3>1 DEF Edits
  <2> QED BY <2>1, <2>2
<1>9. Edits(base, d, E \cup {q})
  BY <1>5, <1>6, <1>7, <1>8 DEF Edits
<1> QED BY <1>1, <1>9

LEMMA OneMoreIsCounted ==
    ASSUME IsCounted(edited), Cardinality(edited) < MaxEdits, NEW path \in Seq(STRING) \ {<<>>}
    PROVE  IsCounted(edited \cup {path})
<1>1. MaxEdits \in Nat
  BY StudyAssumption
<1>2. IsFiniteSet(edited) /\ Cardinality(edited) \in Nat
  BY FS_CardinalityType DEF IsCounted
<1>3. /\ IsFiniteSet(edited \cup {path})
      /\ Cardinality(edited \cup {path}) = IF path \in edited THEN Cardinality(edited) ELSE Cardinality(edited) + 1
  BY <1>2, FS_AddElement
<1>4. Cardinality(edited \cup {path}) <= MaxEdits
  BY <1>1, <1>2, <1>3
<1>5. edited \cup {path} \subseteq Seq(STRING) \ {<<>>}
  BY DEF IsCounted
<1> QED BY <1>3, <1>4, <1>5 DEF IsCounted

LEMMA NothingIsEdited ==
    ASSUME Init
    PROVE  EditInv
<1>1. PICK base \in Bases : doc = base /\ edited = {}
  BY DEF Init
<1>2. Edits(base, doc, edited)
  BY <1>1 DEF Edits
<1>3. IsFiniteSet(edited) /\ Cardinality(edited) = 0
  BY <1>1, FS_EmptySet
<1>4. IsCounted(edited)
  BY <1>1, <1>3, StudyAssumption DEF IsCounted
<1> QED BY <1>2, <1>4 DEF EditInv

LEMMA EditIsCounted ==
    ASSUME StudyInv, EditInv, Edit
    PROVE  EditInv'
<1>1. PICK base \in Bases : Edits(base, doc, edited)
  BY DEF EditInv
<1>2. IsTree(doc) /\ IsCounted(edited) /\ Cardinality(edited) < MaxEdits
  BY DEF StudyInv, EditInv, Edit
<1>3. PICK path \in DOMAIN doc \ {<<>>} :
        \/ edited' = edited \cup {path} /\ doc' = Erase(path)
        \/ edited' = edited \cup {path} /\ \E node \in Values \cup GridValues : doc' = Put(path, node)
        \/ \E key \in NewKeys : /\ doc[path].kind = "map" /\ doc' = Add(Append(path, key), IntNode(1))
                                /\ edited' = edited \cup {Append(path, key)}
  BY DEF Edit
<1>4. path \in Seq(STRING) \ {<<>>}
  BY <1>2 DEF IsTree, IsDocument
<1>5. PICK d, E : d = doc' /\ E = edited'
  OBVIOUS
<1>6. IsCounted(E) /\ Edits(base, d, E)
  <2>1. CASE edited' = edited \cup {path} /\ doc' = Erase(path)
    BY <1>1, <1>2, <1>4, <1>5, <2>1, EraseIsEdit, OneMoreIsCounted
  <2>2. ASSUME edited' = edited \cup {path}, NEW node, doc' = Put(path, node)
        PROVE  IsCounted(E) /\ Edits(base, d, E)
    BY <1>1, <1>2, <1>4, <1>5, <2>2, PutIsEdit, OneMoreIsCounted
  <2>3. ASSUME NEW key \in NewKeys, doc[path].kind = "map", doc' = Add(Append(path, key), IntNode(1)),
               edited' = edited \cup {Append(path, key)}
        PROVE  IsCounted(E) /\ Edits(base, d, E)
    <3>1. key \in STRING
      BY StudyAssumption
    <3>2. Append(path, key) \in Seq(STRING) \ {<<>>}
      BY <1>2, <3>1, AddIsTree
    <3>3. IsCounted(E)
      BY <1>2, <1>5, <2>3, <3>2, OneMoreIsCounted
    <3>4. Edits(base, d, E)
      BY <1>1, <1>2, <1>5, <2>3, <3>1, AddIsEdit
    <3> QED BY <3>3, <3>4
  <2> QED BY <1>3, <2>1, <2>2, <2>3
<1>7. IsCounted(edited)'
  BY <1>5, <1>6 DEF IsCounted
<1>8. (\E x \in Bases : Edits(x, doc, edited))'
  BY <1>5, <1>6
<1> QED BY <1>7, <1>8 DEF EditInv

LEMMA EditsAreCounted == Spec => []EditInv
<1>1. Init => EditInv
  BY NothingIsEdited
<1>2. StudyInv /\ EditInv /\ [Next]_vars => EditInv'
  <2> SUFFICES ASSUME StudyInv, EditInv, [Next]_vars PROVE EditInv'
    OBVIOUS
  <2>1. CASE Edit
    BY <2>1, EditIsCounted
  <2>2. CASE doc' = doc /\ edited' = edited
    BY <2>2 DEF EditInv
  <2>3. Edit \/ (doc' = doc /\ edited' = edited)
    BY DEF Next, Load, Sweep, Switch, Compare, vars
  <2> QED BY <2>1, <2>2, <2>3
<1> QED BY <1>1, <1>2, StudyIsInv, PTL DEF Spec

(* A document that is rejected, as it came from a base.                    *)
LEMMA RejectedIsExplained ==
    ASSUME StudyInv, EditInv, stage = "rejected"
    PROVE  Grounded(edited, load)
<1>1. PICK base \in Bases : Edits(base, doc, edited)
  BY DEF EditInv
<1>2. /\ IsDocument(base) /\ LoadConfig(base).raised = "none"
      /\ KindAt(base, MatrixPath) = "list" => Matrix(base) # None
  BY StudyAssumption
<1>3. IsTree(doc) /\ load = LoadConfig(doc) /\ load.raised # "none"
  BY DEF StudyInv
<1>4. Known(base, doc)
  <2>1. DOMAIN base \subseteq Seq(STRING) /\ DOMAIN doc \subseteq Seq(STRING)
    BY <1>2, <1>3 DEF IsTree, IsDocument
  <2> QED BY <2>1, StringsAreTexts DEF Known
<1>5. MatrixStands(base) /\ HasParents(doc) /\ StringKeys(base)
  BY <1>2, <1>3, StudyAssumption DEF MatrixStands, IsTree, StringKeys
<1> QED BY <1>1, <1>2, <1>3, <1>4, <1>5, RejectionIsExplained

(* "<field_path> is the dotted YAML path to the offending field": whatever *)
(* edits a document that loaded has gone through, and however many, the    *)
(* field that load_config (config.py) names in a ConfigError was edited,   *)
(* is around or in one that was, or is compared with one that was; and the *)
(* TypeError, which names no field, needs a key that is no string.         *)
THEOREM ErrorsNameFields == Spec => []ErrorNamesField
<1>1. StudyInv /\ EditInv => ErrorNamesField
  <2> SUFFICES ASSUME StudyInv, EditInv, stage = "rejected"
               PROVE  ErrorNamesField
    BY DEF ErrorNamesField
  <2>1. Grounded(edited, load)
    BY RejectedIsExplained
  <2> QED BY <2>1 DEF Grounded, Explained, ErrorNamesField
<1> QED BY <1>1, StudyIsInv, EditsAreCounted, PTL

(* The types of the study: the document stays one in which every node      *)
(* stands in another, and load_config (config.py) returns what the         *)
(* document describes, or raises a ConfigError about a path of fields or a *)
(* TypeError about none.                                                   *)
THEOREM StudyTypes == Spec => []TypeOK
<1>1. StudyInv /\ EditInv => TypeOK
  <2> SUFFICES ASSUME StudyInv, EditInv PROVE TypeOK
    OBVIOUS
  <2>1. IsDocument(doc) /\ \A path \in DOMAIN doc \ {<<>>} : Front(path) \in DOMAIN doc
    BY DEF StudyInv, IsTree, HasParents
  <2>2. edited \subseteq Seq(STRING) \ {<<>>} /\ Cardinality(edited) <= MaxEdits
    BY DEF EditInv, IsCounted
  <2>3. /\ stage \in {"file", "rejected", "loaded", "crashed", "swept", "walked", "compared"}
        /\ stage = "file" => load = None
        /\ stage # "compared" => comparison = None
    BY DEF StudyInv, Stages
  <2>4. Accepted => load = [raised |-> "none", field |-> None, config |-> Configuration(doc)]
    <3> SUFFICES ASSUME Accepted PROVE load = [raised |-> "none", field |-> None, config |-> Configuration(doc)]
      OBVIOUS
    <3>1. load = LoadConfig(doc) /\ LoadConfig(doc).raised = "none"
      BY CfgIs
    <3> QED BY <3>1 DEF LoadConfig, Validated, Failure, Rejection
  <2>5. stage = "rejected" =>
            \/ load.raised = "ConfigError" /\ load.field \in Seq(FieldNames)
            \/ load.raised = "TypeError" /\ load.field = None
    BY RejectedIsExplained DEF Grounded, Explained, Keys
  <2>6. stage = "compared" =>
            /\ comparison.as \in [1 .. Cfg.n_paths -> Metrics]
            /\ comparison.baseline \in [1 .. Cfg.n_paths -> Metrics]
    BY DEF StudyInv, Comparable
  <2> QED BY <2>1, <2>2, <2>3, <2>4, <2>5, <2>6 DEF TypeOK
<1> QED BY <1>1, StudyIsInv, EditsAreCounted, PTL
=============================================================================
