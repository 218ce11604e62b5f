---------------------------- MODULE ReplayProofs ----------------------------
(***************************************************************************)
(* The tape and its replay, for every size of the headers and payloads,    *)
(* any number of frames and any number of stdio calls that fail.           *)
(***************************************************************************)
EXTENDS Replay, ProofLemmas, SequenceTheorems, TLAPS

Byte == Nat \X Nat

ResultTypes == result \in Seq(BOOLEAN) /\ Len(result) = Len(sent)

TapeTypes ==
    /\ wstate \in {"new", "open", "closed", "crashed", "failed"}
    /\ rstate \in {"none", "reading", "eof", "threw"}
    /\ sent \in Seq(Contents) /\ ResultTypes
    /\ bytes \in Seq(Byte)
    /\ durable \in 0 .. Len(bytes) /\ flushedFrames \in 0 .. Len(sent)
    /\ failures \in 0 .. MaxFailures
    /\ pos \in 0 .. Len(bytes) /\ got \in Seq(Seq(Byte)) /\ Len(got) <= pos
    /\ wstate = "new" => bytes = <<>>
    /\ wstate \in {"new", "failed"} => sent = <<>>
    /\ rstate = "none" => pos = 0
    /\ wstate \in {"new", "open"} => rstate = "none"

LEMMA BytesAre ==
    ASSUME NEW n \in Nat, NEW k \in Nat
    PROVE  /\ Bytes(n, 1, k) \in Seq(Byte) /\ Len(Bytes(n, 1, k)) = k
           /\ \A j \in 1 .. k : Bytes(n, 1, k)[j] = <<n, j>>
<1>1. Bytes(n, 1, k) = [j \in 1 .. k |-> <<n, j>>]
  <2>1. k - 1 + 1 = k /\ \A j \in 1 .. k : 1 + j - 1 = j
    OBVIOUS
  <2> QED BY <2>1 DEF Bytes
<1>2. [j \in 1 .. k |-> <<n, j>>] \in [1 .. k -> Byte]
  BY DEF Byte
<1>3. Bytes(n, 1, k) \in Seq(Byte)
  BY <1>1, <1>2, SeqDef
<1>4. Len(Bytes(n, 1, k)) = k
  BY <1>1, <1>3, LenProperties
<1> QED BY <1>1, <1>3, <1>4

LEMMA LengthsAre ==
    /\ \A c \in Contents : PayloadLen[c] \in Nat /\ FrameLen(c) \in Nat /\ FrameLen(c) >= FrameHeaderLen
    /\ FrameHeaderLen \in Nat \ {0} /\ TapeHeaderLen \in Nat \ {0}
  BY TapeAssumption DEF FrameLen

(* What a call appends to the bytes, whole or torn.                        *)
LEMMA BytesAppended ==
    ASSUME bytes \in Seq(Byte), NEW n \in Nat, NEW k \in Nat
    PROVE  /\ bytes \o Bytes(n, 1, k) \in Seq(Byte)
           /\ Len(bytes \o Bytes(n, 1, k)) = Len(bytes) + k /\ Len(bytes) \in Nat
           /\ \A i \in 1 .. Len(bytes) : (bytes \o Bytes(n, 1, k))[i] = bytes[i]
           /\ \A j \in 1 .. k : (bytes \o Bytes(n, 1, k))[Len(bytes) + j] = <<n, j>>
<1>1. Bytes(n, 1, k) \in Seq(Byte) /\ Len(Bytes(n, 1, k)) = k
      /\ \A j \in 1 .. k : Bytes(n, 1, k)[j] = <<n, j>>
  BY BytesAre
<1>2. Len(bytes) \in Nat
  BY LenProperties
<1>3. /\ bytes \o Bytes(n, 1, k) \in Seq(Byte)
      /\ Len(bytes \o Bytes(n, 1, k)) = Len(bytes) + k
      /\ \A i \in 1 .. Len(bytes) + k :
            (bytes \o Bytes(n, 1, k))[i] = IF i <= Len(bytes) THEN bytes[i]
                                           ELSE Bytes(n, 1, k)[i - Len(bytes)]
  BY ZenonT(60), <1>1, ConcatProperties
<1>4. ASSUME NEW j \in 1 .. k
      PROVE  (bytes \o Bytes(n, 1, k))[Len(bytes) + j] = <<n, j>>
  <2>1. Len(bytes) + j \in 1 .. Len(bytes) + k /\ ~(Len(bytes) + j <= Len(bytes))
        /\ (Len(bytes) + j) - Len(bytes) = j
    BY <1>2
  <2> QED BY <2>1, <1>1, <1>3
<1> QED BY <1>2, <1>3, <1>4

(* The file that is left is a prefix of the bytes.                         *)
LEMMA FileLeft ==
    ASSUME bytes \in Seq(Byte), NEW n \in 0 .. Len(bytes), LeaveFile(n)
    PROVE  /\ bytes' \in Seq(Byte) /\ Len(bytes') = n /\ durable' = n
           /\ \A i \in 1 .. n : bytes'[i] = bytes[i]
<1>1. Len(bytes) \in Nat /\ \A i \in 1 .. n : bytes[i] \in Byte
  BY LenProperties, ElementOfSeq
<1>2. /\ SubSeq(bytes, 1, n) \in Seq(Byte)
      /\ Len(SubSeq(bytes, 1, n)) = IF 1 <= n THEN n - 1 + 1 ELSE 0
      /\ \A i \in 1 .. n - 1 + 1 : SubSeq(bytes, 1, n)[i] = bytes[1 + i - 1]
  BY <1>1, SubSeqProperties
<1>3. Len(SubSeq(bytes, 1, n)) = n /\ \A i \in 1 .. n : SubSeq(bytes, 1, n)[i] = bytes[i]
  BY <1>1, <1>2
<1> QED BY <1>2, <1>3 DEF LeaveFile

(* What the reader takes out of the file.                                  *)
LEMMA SliceIs ==
    ASSUME bytes \in Seq(Byte), NEW p \in Nat, NEW n \in Nat \ {0}, p + n <= Len(bytes)
    PROVE  /\ SubSeq(bytes, p + 1, p + n) \in Seq(Byte)
           /\ Len(SubSeq(bytes, p + 1, p + n)) = n
           /\ \A k \in 1 .. n : SubSeq(bytes, p + 1, p + n)[k] = bytes[p + k]
<1> DEFINE from == p + 1
           to == p + n
<1>1. from \in Int /\ to \in Int /\ from <= to /\ to - from + 1 = n
      /\ \A k \in 1 .. n : from + k - 1 = p + k
  OBVIOUS
<1>2. \A i \in from .. to : bytes[i] \in Byte
  <2>1. Len(bytes) \in Nat
    BY LenProperties
  <2>2. \A i \in from .. to : i \in 1 .. Len(bytes)
    BY <2>1
  <2> QED BY <2>2, ElementOfSeq
<1> HIDE DEF from, to
<1>3. /\ SubSeq(bytes, from, to) \in Seq(Byte)
      /\ Len(SubSeq(bytes, from, to)) = IF from <= to THEN to - from + 1 ELSE 0
      /\ \A k \in 1 .. to - from + 1 : SubSeq(bytes, from, to)[k] = bytes[from + k - 1]
  BY <1>1, <1>2, SubSeqProperties
<1>4. /\ SubSeq(bytes, from, to) \in Seq(Byte) /\ Len(SubSeq(bytes, from, to)) = n
      /\ \A k \in 1 .. n : SubSeq(bytes, from, to)[k] = bytes[p + k]
  BY <1>1, <1>3
<1> QED BY <1>4 DEF from, to

(* The header at which the reader is, and the length it claims.            *)
LEMMA HeaderIs ==
    ASSUME TapeTypes, AtFrame
    PROVE  /\ Len(HeaderAt(pos)) = FrameHeaderLen
           /\ \A k \in 1 .. FrameHeaderLen : HeaderAt(pos)[k] = bytes[pos + k]
           /\ HeaderAt(pos) \in Seq(Byte)
           /\ pos + FrameHeaderLen <= Len(bytes) /\ pos \in Nat /\ Len(bytes) \in Nat
<1>1. Len(bytes) \in Nat /\ pos \in Nat /\ bytes \in Seq(Byte) /\ FrameHeaderLen \in Nat \ {0}
  BY LenProperties, LengthsAre DEF TapeTypes
<1>2. pos + FrameHeaderLen <= Len(bytes)
  BY <1>1 DEF AtFrame, Remaining
<1> QED BY <1>1, <1>2, SliceIs DEF HeaderAt

LEMMA ClaimedAreLengths ==
    ASSUME TapeTypes, AtFrame
    PROVE  ClaimedLengths \subseteq Nat
<1>1. Lengths \subseteq Nat
  BY LengthsAre DEF Lengths
<1>2. ASSUME NEW n \in DOMAIN sent, HeaderAt(pos) = Bytes(n, 1, FrameHeaderLen)
      PROVE  PayloadLen[sent[bytes[pos + 1][1]]] \in Nat
  <2>1. n \in 1 .. Len(sent) /\ n \in Nat /\ sent[n] \in Contents
    BY LenProperties, ElementOfSeq DEF TapeTypes
  <2>2. Bytes(n, 1, FrameHeaderLen)[1] = <<n, 1>>
    <3>1. FrameHeaderLen \in Nat /\ 1 \in 1 .. FrameHeaderLen
      BY LengthsAre
    <3> QED BY <2>1, <3>1, BytesAre
  <2>3. bytes[pos + 1] = <<n, 1>>
    BY <1>2, <2>2, HeaderIs, LengthsAre
  <2> QED BY <2>1, <2>3, LengthsAre
<1> QED BY <1>1, <1>2 DEF ClaimedLengths

(* What read_frame returns.                                                *)
LEMMA FrameRead ==
    ASSUME TapeTypes, AtFrame, NEW len \in Nat, PayloadThere(len)
    PROVE  LET frame == SubSeq(bytes, pos + 1, pos + FrameHeaderLen + len)
           IN  /\ frame \in Seq(Byte) /\ Len(frame) = FrameHeaderLen + len
               /\ \A k \in 1 .. FrameHeaderLen + len : frame[k] = bytes[pos + k]
               /\ pos + FrameHeaderLen + len <= Len(bytes)
<1>1. Len(bytes) \in Nat /\ pos \in Nat /\ bytes \in Seq(Byte) /\ FrameHeaderLen + len \in Nat \ {0}
  BY LenProperties, LengthsAre DEF TapeTypes
<1>2. pos + (FrameHeaderLen + len) <= Len(bytes)
      /\ pos + FrameHeaderLen + len = pos + (FrameHeaderLen + len)
  BY <1>1, LengthsAre DEF PayloadThere, Remaining
<1> QED BY SMTT(30), <1>1, <1>2, SliceIs

ReadStep ==
    /\ AtFrame
    /\ \E len \in ClaimedLengths : ReadFrame(len) \/ ReadTornPayload(len)
TapeStep == Writer \/ OpenReader \/ ReadEnd \/ ReadStep

LEMMA StepIsTapeStep == [Next]_vars => TapeStep \/ UNCHANGED tapeVars
  BY DEF Next, TapeOnly, ReplayFrame, TapeStep, ReadStep, vars

(* The two ways a write_frame may end.                                     *)
WroteWhole(c) ==
    /\ bytes' = bytes \o Bytes(Len(sent) + 1, 1, FrameLen(c))
    /\ result' = Append(result, TRUE) /\ failures' = failures
WroteTorn(c) ==
    /\ \E k \in 0 .. FrameLen(c) - 1 : bytes' = bytes \o Bytes(Len(sent) + 1, 1, k)
    /\ result' = Append(result, FALSE) /\ failures' = failures + 1 /\ failures' <= MaxFailures

LEMMA WriteIs ==
    ASSUME TapeTypes, NEW c \in Contents, WriteFrame(c)
    PROVE  /\ wstate = "open" /\ sent' = Append(sent, c)
           /\ WroteWhole(c) \/ WroteTorn(c)
           /\ wstate' = wstate /\ durable' = durable /\ flushedFrames' = flushedFrames
           /\ rstate' = rstate /\ pos' = pos /\ got' = got
<1>1. failures < MaxFailures /\ failures' = failures + 1 => failures' <= MaxFailures
  BY TapeAssumption DEF TapeTypes
<1> QED BY <1>1 DEF WriteFrame, WroteWhole, WroteTorn, readerVars

LEMMA ResultGrows ==
    ASSUME ResultTypes, Len(sent) \in Nat, NEW ok \in BOOLEAN, result' = Append(result, ok)
    PROVE  /\ result' \in Seq(BOOLEAN) /\ Len(result') = Len(sent) + 1
           /\ DOMAIN result = 1 .. Len(sent) /\ DOMAIN result' = 1 .. Len(sent) + 1
           /\ \A i \in 1 .. Len(sent) : result'[i] = result[i]
           /\ result'[Len(sent) + 1] = ok
<1> DEFINE S == BOOLEAN
<1>1. result \in Seq(S) /\ Len(result) = Len(sent) /\ ok \in S
  BY DEF ResultTypes
<1> HIDE DEF S
<1>2. /\ result' \in Seq(S)
      /\ Len(result') = Len(result) + 1
      /\ \A i \in 1 .. Len(result) : result'[i] = result[i]
      /\ result'[Len(result) + 1] = ok
  BY <1>1, AppendProperties
<1>3. DOMAIN result = 1 .. Len(result) /\ DOMAIN result' = 1 .. Len(result')
  BY <1>1, <1>2, LenProperties
<1>4. result' \in Seq(BOOLEAN)
  BY <1>2 DEF S
<1> QED BY <1>1, <1>2, <1>3, <1>4, Zenon

LEMMA WriteGrows ==
    ASSUME TapeTypes, NEW c \in Contents, WriteFrame(c)
    PROVE  /\ sent' \in Seq(Contents) /\ Len(sent') = Len(sent) + 1 /\ Len(sent) \in Nat
           /\ \A i \in 1 .. Len(sent) : sent'[i] = sent[i]
           /\ sent'[Len(sent) + 1] = c
           /\ ResultTypes'
           /\ bytes' \in Seq(Byte) /\ Len(bytes') >= Len(bytes)
           /\ Len(bytes) \in Nat /\ Len(bytes') \in Nat
           /\ \A i \in 1 .. Len(bytes) : bytes'[i] = bytes[i]
<1>0. sent \in Seq(Contents) /\ bytes \in Seq(Byte) /\ ResultTypes
  BY DEF TapeTypes
<1>1. /\ sent' \in Seq(Contents) /\ Len(sent') = Len(sent) + 1 /\ Len(sent) \in Nat
      /\ \A i \in 1 .. Len(sent) : sent'[i] = sent[i]
      /\ sent'[Len(sent) + 1] = c
  BY SMTT(30), <1>0, WriteIs, AppendProperties, LenProperties
<1>2. ResultTypes'
  <2>1. result' = Append(result, TRUE) \/ result' = Append(result, FALSE)
    BY WriteIs DEF WroteWhole, WroteTorn
  <2>2. result' \in Seq(BOOLEAN) /\ Len(result') = Len(sent) + 1
    BY <2>1, <1>0, <1>1, ResultGrows, Zenon
  <2> QED BY <2>2, <1>1 DEF ResultTypes
<1>3. PICK k \in Nat : bytes' = bytes \o Bytes(Len(sent) + 1, 1, k)
  <2>1. FrameLen(c) \in Nat /\ \A k \in 0 .. FrameLen(c) - 1 : k \in Nat
    BY LengthsAre
  <2> QED BY <2>1, WriteIs DEF WroteWhole, WroteTorn
<1>4. /\ bytes' \in Seq(Byte) /\ Len(bytes') = Len(bytes) + k /\ Len(bytes) \in Nat
      /\ \A i \in 1 .. Len(bytes) : bytes'[i] = bytes[i]
  <2>1. Len(sent) + 1 \in Nat
    BY <1>1
  <2> QED BY <2>1, <1>0, <1>3, BytesAppended
<1> QED BY <1>1, <1>2, <1>4

LEMMA TypesKept == ASSUME TapeTypes, TapeStep PROVE TapeTypes'
<1> USE DEF TapeTypes
<1>r. UNCHANGED <<sent, result>> => (ResultTypes' <=> ResultTypes)
  BY DEF ResultTypes
<1>0. Len(bytes) \in Nat /\ Len(sent) \in Nat /\ Len(got) \in Nat /\ pos \in Nat
  BY LenProperties
<1>1. CASE OpenWriter
  <2>1. ASSUME NEW k \in Nat, bytes' = Bytes(0, 1, k)
        PROVE  bytes' \in Seq(Byte) /\ Len(bytes') = k
    BY <2>1, BytesAre
  <2>2. PICK k \in Nat : bytes' = Bytes(0, 1, k)
    BY <1>1, LengthsAre DEF OpenWriter
  <2>3. bytes' \in Seq(Byte) /\ Len(bytes') = k
    BY <2>1, <2>2
  <2>4. /\ bytes = <<>> /\ Len(bytes) = 0 /\ sent = <<>> /\ durable = 0 /\ pos = 0
        /\ wstate' \in {"open", "failed"} /\ rstate = "none" /\ failures' \in 0 .. MaxFailures
    BY <1>1, TapeAssumption DEF OpenWriter
  <2> QED BY <1>0, <1>r, <1>1, <2>3, <2>4 DEF OpenWriter, readerVars
<1>2. ASSUME NEW c \in Contents, WriteFrame(c) PROVE TapeTypes'
  <2>1. failures' \in 0 .. MaxFailures
    <3>1. failures' = failures \/ (failures' = failures + 1 /\ failures' <= MaxFailures)
      BY <1>2, WriteIs DEF WroteWhole, WroteTorn
    <3> QED BY <3>1, TapeAssumption
  <2>2. /\ sent' \in Seq(Contents) /\ ResultTypes'
        /\ Len(sent') = Len(sent) + 1
        /\ bytes' \in Seq(Byte) /\ Len(bytes') >= Len(bytes) /\ Len(bytes') \in Nat
    BY <1>2, WriteGrows
  <2>3. /\ wstate' = "open" /\ wstate = "open"
        /\ durable' = durable /\ flushedFrames' = flushedFrames
        /\ rstate' = rstate /\ pos' = pos /\ got' = got
    BY <1>2, WriteIs
  <2> QED BY <1>0, <1>r, <2>1, <2>2, <2>3
<1>3. CASE Flush
  BY <1>0, <1>r, <1>3 DEF Flush, readerVars
<1>4. CASE CloseWriter \/ CrashWriter
  <2>1. PICK n \in 0 .. Len(bytes) : LeaveFile(n)
    BY <1>0, <1>r, <1>4 DEF CloseWriter, CrashWriter
  <2>2. bytes' \in Seq(Byte) /\ Len(bytes') = n /\ durable' = n
    BY <2>1, FileLeft
  <2>3. /\ wstate' \in {"closed", "crashed"} /\ failures' \in 0 .. MaxFailures
        /\ wstate = "open" /\ rstate = "none" /\ pos = 0
        /\ UNCHANGED <<sent, result, flushedFrames, readerVars>>
    BY SMTT(30), <1>4, TapeAssumption DEF CloseWriter, CrashWriter
  <2> QED BY <1>0, <1>r, <2>1, <2>2, <2>3 DEF readerVars
<1>5. CASE OpenReader
  BY <1>0, <1>r, <1>5, LengthsAre DEF OpenReader, writerVars
<1>6. CASE ReadEnd
  BY <1>r, <1>6 DEF ReadEnd, writerVars
<1>7. ASSUME NEW len \in ClaimedLengths, AtFrame, ReadFrame(len) PROVE TapeTypes'
  <2> DEFINE frame == SubSeq(bytes, pos + 1, pos + FrameHeaderLen + len)
  <2>1. len \in Nat
    BY <1>7, ClaimedAreLengths
  <2>2. frame \in Seq(Byte) /\ pos + FrameHeaderLen + len <= Len(bytes)
    BY <1>7, <2>1, FrameRead DEF ReadFrame
  <2>3. got' = Append(got, frame) /\ pos' = pos + FrameHeaderLen + len
    BY <1>7 DEF ReadFrame
  <2> HIDE DEF frame
  <2>4. got' \in Seq(Seq(Byte)) /\ Len(got') = Len(got) + 1
    BY <2>2, <2>3, AppendProperties
  <2> QED BY <1>0, <1>r, <1>7, <2>1, <2>2, <2>3, <2>4, LengthsAre DEF ReadFrame, AtFrame, writerVars
<1>8. ASSUME NEW len, AtFrame, ReadTornPayload(len) PROVE TapeTypes'
  BY <1>r, <1>8 DEF ReadTornPayload, AtFrame, writerVars
<1> QED BY <1>1, <1>2, <1>3, <1>4, <1>5, <1>6, <1>7, <1>8 DEF TapeStep, Writer, ReadStep

-----------------------------------------------------------------------------
(* Where the frames begin.  Nothing in the file says it, so the invariant  *)
(* asserts that offsets exist: off[n] is where the n-th frame begins, as   *)
(* long as no call before came up short.                                   *)

Clean(n) == \A j \in DOMAIN result : j <= n => result[j]
AllClean == \A j \in DOMAIN result : result[j]

Offsets(off) ==
    /\ off \in [Nat -> Nat] /\ off[1] = TapeHeaderLen
    /\ \A n \in 1 .. Len(sent) : Clean(n) => off[n + 1] = off[n] + FrameLen(sent[n])
    /\ \A n \in 1 .. Len(sent) + 1 : Clean(n - 1) => \A m \in 1 .. n : off[m] <= off[n]

(* The file holds the clean frames at their offsets, and nothing after the *)
(* last one.                                                               *)
Stored(off) ==
    /\ \A n \in 1 .. Len(sent) : Clean(n) =>
          \A k \in 1 .. FrameLen(sent[n]) :
              off[n] + k <= Len(bytes) => bytes[off[n] + k] = <<n, k>>
    /\ Clean(Len(sent)) => Len(bytes) <= off[Len(sent) + 1]

(* What of it cannot be missing.                                           *)
Kept(off) ==
    /\ wstate = "open" =>
          \A n \in 0 .. Len(sent) : Clean(n) => off[n + 1] <= Len(bytes)
    /\ flushedFrames > 0 /\ Clean(flushedFrames) => off[flushedFrames + 1] <= durable
    /\ failures = 0 => Clean(Len(sent))
    /\ wstate = "closed" /\ failures = 0 => off[Len(sent) + 1] <= Len(bytes)

(* The reader is at the beginning of a frame until it passes a torn one.   *)
Aligned(off) ==
    /\ rstate = "reading" /\ Clean(Len(got)) =>
          Len(got) <= Len(sent) /\ pos = off[Len(got) + 1]
    /\ rstate = "none" => got = <<>>

Layout(off) == Offsets(off) /\ Stored(off) /\ Kept(off) /\ Aligned(off)

TapeInv ==
    /\ TapeTypes
    /\ \E off : Layout(off)
    /\ FramesReadBack
    /\ FlushedFramesSurvive

LEMMA CleanGrows ==
    ASSUME ResultTypes, NEW CONSTANT N \in Nat, N = Len(sent),
           NEW CONSTANT ok \in BOOLEAN, result' = Append(result, ok)
    PROVE  /\ \A n \in Int : n <= N => (Clean(n)' <=> Clean(n))
           /\ Clean(N + 1)' <=> ok /\ Clean(N)
<1>1. /\ DOMAIN result = 1 .. N /\ DOMAIN result' = 1 .. N + 1
      /\ \A i \in 1 .. N : result'[i] = result[i]
      /\ result'[N + 1] = ok
  BY ResultGrows, Zenon
<1>2. ASSUME NEW n \in Int, n <= N PROVE Clean(n)' <=> Clean(n)
  BY <1>1, <1>2 DEF Clean
<1>3. Clean(N + 1)' <=> ok /\ Clean(N)
  BY <1>1 DEF Clean
<1> QED BY <1>2, <1>3

LEMMA CleanDown ==
    ASSUME NEW m \in Int, NEW n \in Int, m <= n, ResultTypes, Clean(n)
    PROVE  Clean(m)
<1>1. DOMAIN result \subseteq Nat
  BY DEF ResultTypes
<1> QED BY <1>1 DEF Clean

LEMMA AllIsLast ==
    ASSUME ResultTypes, Len(sent) \in Nat
    PROVE  AllClean <=> Clean(Len(sent))
<1>1. DOMAIN result = 1 .. Len(sent)
  BY DEF ResultTypes
<1> QED BY <1>1 DEF AllClean, Clean

(* A whole frame begins where the last one ended.                          *)
LEMMA WholeFrame ==
    ASSUME TapeTypes, NEW CONSTANT off, Layout(off),
           NEW CONSTANT c \in Contents, WriteFrame(c), WroteWhole(c)
    PROVE  \E o : Layout(o)'
<1>1. PICK N \in Nat : N = Len(sent)
  BY LenProperties DEF TapeTypes
<1> DEFINE o == [off EXCEPT ![N + 2] = off[N + 1] + FrameLen(c)]
<1>2. /\ bytes \in Seq(Byte) /\ bytes' \in Seq(Byte) /\ Len(bytes) \in Nat
      /\ Len(bytes') = Len(bytes) + FrameLen(c)
      /\ \A i \in 1 .. Len(bytes) : bytes'[i] = bytes[i]
      /\ \A k \in 1 .. FrameLen(c) : bytes'[Len(bytes) + k] = <<N + 1, k>>
  <2>1. /\ bytes \in Seq(Byte) /\ bytes' = bytes \o Bytes(N + 1, 1, FrameLen(c))
        /\ N + 1 \in Nat /\ FrameLen(c) \in Nat
    BY <1>1, LengthsAre DEF TapeTypes, WroteWhole
  <2> QED BY <2>1, BytesAppended
<1>3. /\ Len(sent') = N + 1 /\ sent'[N + 1] = c
      /\ \A i \in 1 .. N : sent'[i] = sent[i] /\ sent[i] \in Contents
  BY <1>1, WriteGrows, ElementOfSeq DEF TapeTypes
<1>4. /\ \A n \in Int : n <= N => (Clean(n)' <=> Clean(n))
      /\ Clean(N + 1)' <=> Clean(N)
  <2>1. ResultTypes /\ result' = Append(result, TRUE)
    BY DEF TapeTypes, WroteWhole
  <2>2. /\ \A n \in Int : n <= N => (Clean(n)' <=> Clean(n))
        /\ Clean(N + 1)' <=> TRUE /\ Clean(N)
    BY <1>1, <2>1, CleanGrows, Zenon
  <2> QED BY <2>2
<1>5. /\ off \in [Nat -> Nat] /\ off[1] = TapeHeaderLen
      /\ \A n \in 1 .. N : Clean(n) => off[n + 1] = off[n] + FrameLen(sent[n])
      /\ \A n \in 1 .. N + 1 : Clean(n - 1) => \A m \in 1 .. n : off[m] <= off[n]
  BY <1>1 DEF Layout, Offsets
<1>6. FrameLen(c) \in Nat /\ off[N + 1] \in Nat
  BY <1>1, <1>5, LengthsAre
<1>7. /\ o \in [Nat -> Nat] /\ o[N + 2] = off[N + 1] + FrameLen(c)
      /\ \A i \in 1 .. N + 1 : o[i] = off[i] /\ off[i] \in Nat
  <2>1. N + 2 \in Nat /\ off[N + 1] + FrameLen(c) \in Nat
        /\ \A i \in 1 .. N + 1 : i \in Nat /\ i # N + 2
    BY <1>6
  <2>2. off \in [Nat -> Nat]
    BY <1>5
  <2> QED BY <2>1, <2>2
<1> HIDE DEF o
<1>8. Clean(N) => off[N + 1] = Len(bytes)
  <2>1. wstate = "open"
    BY WriteIs
  <2>2. Clean(N) => off[N + 1] <= Len(bytes) /\ Len(bytes) <= off[N + 1]
    <3>1. N \in 0 .. Len(sent)
      BY <1>1
    <3> QED BY <1>1, <2>1, <3>1 DEF Layout, Stored, Kept
  <2> QED BY <1>2, <1>6, <2>2
<1>9. \A n \in 1 .. N + 1 : Clean(n)' => Clean(n - 1)
  <2>1. ASSUME NEW n \in 1 .. N, Clean(n)' PROVE Clean(n - 1)
    BY <1>4, <2>1, CleanDown DEF TapeTypes
  <2>2. Clean(N + 1)' => Clean((N + 1) - 1)
    BY <1>4
  <2> QED BY <2>1, <2>2
<1>10. Offsets(o)'
  <2>1. ASSUME NEW n \in 1 .. N + 1, Clean(n)'
        PROVE  o[n + 1] = o[n] + FrameLen(sent'[n])
    <3>1. CASE n \in 1 .. N
      BY <1>3, <1>4, <1>5, <1>7, <2>1, <3>1
    <3>2. CASE n = N + 1
      BY SMTT(30), <1>3, <1>7, <3>2
    <3> QED BY <3>1, <3>2
  <2>2. ASSUME NEW n \in 1 .. N + 2, Clean(n - 1)', NEW m \in 1 .. n
        PROVE  o[m] <= o[n]
    <3>1. CASE n \in 1 .. N + 1
      <4>1. n - 1 \in Int /\ n - 1 <= N
        BY <3>1
      <4> QED BY <1>4, <1>5, <1>7, <2>2, <3>1, <4>1
    <3>2. CASE n = N + 2 /\ m # n
      <4>1. Clean(N + 1)'
        BY <2>2, <3>2
      <4>2. Clean((N + 1) - 1) /\ N + 1 \in 1 .. N + 1 /\ m \in 1 .. N + 1
        BY <1>4, <3>2, <4>1
      <4>3. off[m] <= off[N + 1]
        BY <1>5, <4>2
      <4> QED BY <1>6, <1>7, <3>2, <4>2, <4>3
    <3>3. CASE n = m
      BY <1>7, <3>3, <2>2
    <3> QED BY <3>1, <3>2, <3>3
  <2>3. o[1] = TapeHeaderLen
    BY <1>5, <1>7
  <2>4. Len(sent') + 1 = N + 2
    BY <1>3
  <2> QED BY <1>3, <1>7, <2>1, <2>2, <2>3, <2>4 DEF Offsets, FrameLen
<1>11. Stored(o)'
  <2>1. ASSUME NEW n \in 1 .. N + 1, Clean(n)',
               NEW k \in 1 .. FrameLen(sent'[n]), o[n] + k <= Len(bytes')
        PROVE  bytes'[o[n] + k] = <<n, k>>
    <3>1. CASE n \in 1 .. N
      <4>1. Clean(n) /\ sent'[n] = sent[n] /\ FrameLen(sent[n]) \in Nat
        BY <1>3, <1>4, <2>1, <3>1, LengthsAre
      <4>2. off[n + 1] = off[n] + FrameLen(sent[n]) /\ off[n] \in Nat /\ o[n] = off[n]
        BY <1>5, <1>7, <3>1, <4>1
      <4>3. off[n + 1] <= Len(bytes)
        <5>1. n \in 0 .. Len(sent) /\ wstate = "open"
          BY <1>1, <3>1, WriteIs
        <5> QED BY <4>1, <5>1 DEF Layout, Kept
      <4>4. k \in 1 .. FrameLen(sent[n]) /\ off[n] + k <= Len(bytes) /\ off[n] + k \in 1 .. Len(bytes)
        BY <1>2, <4>1, <4>2, <4>3
      <4>5. bytes[off[n] + k] = <<n, k>>
        BY <1>1, <3>1, <4>1, <4>4 DEF Layout, Stored
      <4> QED BY <1>2, <4>2, <4>4, <4>5
    <3>2. CASE n = N + 1
      BY <1>2, <1>3, <1>4, <1>7, <1>8, <2>1, <3>2
    <3> QED BY <3>1, <3>2
  <2>2. Clean(N + 1)' => Len(bytes') <= o[N + 2]
    <3>1. Clean(N + 1)' => off[N + 1] = Len(bytes)
      BY <1>4, <1>8
    <3>2. Len(bytes') = Len(bytes) + FrameLen(c) /\ o[N + 2] = off[N + 1] + FrameLen(c)
      BY <1>2, <1>7
    <3> QED BY <1>2, <1>6, <3>1, <3>2
  <2>3. (N + 1) + 1 = N + 2
    OBVIOUS
  <2> QED BY <1>3, <2>1, <2>2, <2>3 DEF Stored, FrameLen
<1>12. Kept(o)'
  <2>1. /\ wstate = "open" /\ durable' = durable /\ flushedFrames' = flushedFrames
        /\ wstate' = "open" /\ failures' = failures
        /\ flushedFrames \in 0 .. N
    BY <1>1, WriteIs DEF WroteWhole, TapeTypes
  <2>2. ASSUME NEW n \in 0 .. N + 1, Clean(n)' PROVE o[n + 1] <= Len(bytes')
    <3>1. CASE n \in 0 .. N
      <4>1. Clean(n)
        BY <1>4, <2>2, <3>1
      <4>2. off[n + 1] <= Len(bytes)
        BY <1>1, <2>1, <3>1, <4>1 DEF Layout, Kept
      <4>3. o[n + 1] = off[n + 1] /\ off[n + 1] \in Nat
        BY <1>7, <3>1
      <4>4. Len(bytes) <= Len(bytes')
        BY <1>2, <1>6
      <4> QED BY <1>2, <1>6, <4>2, <4>3, <4>4
    <3>2. CASE n = N + 1
      <4>1. Clean(N)
        BY <1>4, <2>2, <3>2
      <4>2. off[N + 1] = Len(bytes) /\ o[n + 1] = off[N + 1] + FrameLen(c)
        BY <1>7, <1>8, <3>2, <4>1
      <4> QED BY <1>2, <1>6, <4>2
    <3> QED BY <3>1, <3>2
  <2>3. ASSUME flushedFrames > 0, Clean(flushedFrames)' PROVE o[flushedFrames + 1] <= durable
    <3>1. \A n \in 1 .. N : n = flushedFrames /\ Clean(n)' => o[n + 1] <= durable
      <4>1. SUFFICES ASSUME NEW n \in 1 .. N, n = flushedFrames, Clean(n)' PROVE o[n + 1] <= durable
        OBVIOUS
      <4>2. Clean(n)
        BY <1>4, <4>1
      <4>3. off[n + 1] <= durable
        BY <2>3, <4>1, <4>2 DEF Layout, Kept
      <4> QED BY <1>7, <4>1, <4>3
    <3> QED BY <2>1, <2>3, <3>1
  <2>4. failures = 0 => Clean(N + 1)'
    BY <1>1, <1>4 DEF Layout, Kept
  <2> QED BY <1>3, <2>1, <2>2, <2>3, <2>4 DEF Kept
<1>13. Aligned(o)'
  <2>1. rstate = "none" /\ rstate' = rstate /\ got' = got
    BY WriteIs DEF TapeTypes
  <2> QED BY <2>1 DEF Layout, Aligned
<1> QED BY <1>10, <1>11, <1>12, <1>13 DEF Layout

(* A torn one leaves the offsets as they were: no frame after it is clean. *)
LEMMA TornFrame ==
    ASSUME TapeTypes, NEW CONSTANT off, Layout(off),
           NEW CONSTANT c \in Contents, WriteFrame(c), WroteTorn(c)
    PROVE  Layout(off)'
<1>1. PICK N \in Nat : N = Len(sent)
  BY LenProperties DEF TapeTypes
<1>2. /\ Len(sent') = N + 1 /\ \A i \in 1 .. N : sent'[i] = sent[i]
      /\ Len(bytes') >= Len(bytes) /\ Len(bytes) \in Nat /\ Len(bytes') \in Nat
      /\ \A i \in 1 .. Len(bytes) : bytes'[i] = bytes[i]
  BY <1>1, WriteGrows
<1>3. /\ \A n \in Int : n <= N => (Clean(n)' <=> Clean(n))
      /\ ~Clean(N + 1)'
  <2>1. ResultTypes /\ result' = Append(result, FALSE)
    BY DEF TapeTypes, WroteTorn
  <2>2. /\ \A n \in Int : n <= N => (Clean(n)' <=> Clean(n))
        /\ Clean(N + 1)' <=> FALSE /\ Clean(N)
    BY <1>1, <2>1, CleanGrows, Zenon
  <2> QED BY <2>2
<1>4. /\ off \in [Nat -> Nat] /\ off[1] = TapeHeaderLen
      /\ \A n \in 1 .. N : Clean(n) => off[n + 1] = off[n] + FrameLen(sent[n])
      /\ \A n \in 1 .. N + 1 : Clean(n - 1) => \A m \in 1 .. n : off[m] <= off[n]
  BY <1>1 DEF Layout, Offsets
<1>5. /\ wstate = "open" /\ wstate' = "open" /\ failures' > 0
      /\ durable' = durable /\ flushedFrames' = flushedFrames /\ flushedFrames \in 0 .. N
      /\ rstate = "none" /\ rstate' = rstate /\ got' = got
  BY <1>1, WriteIs DEF WroteTorn, TapeTypes
<1>6. ASSUME NEW n \in 0 .. N + 1, Clean(n)' PROVE n \in 0 .. N /\ Clean(n)
  <2>1. n # N + 1
    BY <1>3, <1>6
  <2> QED BY <1>3, <1>6, <2>1
<1>7. Offsets(off)'
  <2>1. ASSUME NEW n \in 1 .. N + 1, Clean(n)'
        PROVE  off[n + 1] = off[n] + FrameLen(sent'[n])
    <3>1. n \in 1 .. N /\ Clean(n)
      BY <1>6, <2>1
    <3> QED BY <1>2, <1>4, <3>1
  <2>2. ASSUME NEW n \in 1 .. N + 2, Clean(n - 1)', NEW m \in 1 .. n PROVE off[m] <= off[n]
    <3>1. n - 1 \in 0 .. N + 1
      OBVIOUS
    <3>2. n - 1 \in 0 .. N /\ Clean(n - 1)
      BY <1>6, <2>2, <3>1
    <3> QED BY <1>4, <3>2
  <2>3. Len(sent') + 1 = N + 2
    BY <1>2
  <2> QED BY <1>2, <1>4, <2>1, <2>2, <2>3 DEF Offsets, FrameLen
<1>8. Stored(off)'
  <2>1. ASSUME NEW n \in 1 .. N + 1, Clean(n)',
               NEW k \in 1 .. FrameLen(sent'[n]), off[n] + k <= Len(bytes')
        PROVE  bytes'[off[n] + k] = <<n, k>>
    <3>1. n \in 1 .. N /\ Clean(n)
      BY <1>6, <2>1
    <3>2. sent[n] \in Contents /\ FrameLen(sent[n]) \in Nat /\ sent'[n] = sent[n]
      BY <1>1, <1>2, <3>1, LengthsAre, ElementOfSeq DEF TapeTypes
    <3>3. off[n + 1] = off[n] + FrameLen(sent[n]) /\ off[n] \in Nat
      BY <1>4, <3>1
    <3>4. off[n + 1] <= Len(bytes)
      BY <1>1, <1>5, <3>1 DEF Layout, Kept
    <3>5. off[n] + k \in 1 .. Len(bytes) /\ k \in 1 .. FrameLen(sent[n])
      BY <1>2, <3>2, <3>3, <3>4
    <3>6. bytes[off[n] + k] = <<n, k>>
      BY <1>1, <3>1, <3>5 DEF Layout, Stored
    <3> QED BY <1>2, <3>5, <3>6
  <2> QED BY <1>2, <1>3, <2>1 DEF Stored, FrameLen
<1>9. Kept(off)'
  <2>1. ASSUME NEW n \in 0 .. N + 1, Clean(n)' PROVE off[n + 1] <= Len(bytes')
    <3>1. n \in 0 .. N /\ Clean(n)
      BY <1>6, <2>1
    <3>2. off[n + 1] <= Len(bytes) /\ off[n + 1] \in Nat
      BY <1>1, <1>4, <1>5, <3>1 DEF Layout, Kept
    <3> QED BY <1>2, <3>2
  <2>2. \A n \in 1 .. N : n = flushedFrames /\ Clean(n)' => off[n + 1] <= durable
    BY <1>3 DEF Layout, Kept
  <2>3. ASSUME flushedFrames > 0, Clean(flushedFrames)' PROVE off[flushedFrames + 1] <= durable
    BY <1>5, <2>2, <2>3
  <2> QED BY <1>2, <1>5, <2>1, <2>3 DEF Kept
<1>10. Aligned(off)'
  BY <1>5 DEF Layout, Aligned
<1> QED BY <1>7, <1>8, <1>9, <1>10 DEF Layout

(* The reader at a clean frame finds its header, and so its length.        *)
LEMMA AtCleanFrame ==
    ASSUME TapeTypes, NEW off, Layout(off), AtFrame, NEW n, n = Len(got) + 1, Clean(n)
    PROVE  /\ n \in 1 .. Len(sent) /\ pos = off[n] /\ pos \in Nat
           /\ off[n + 1] = pos + FrameLen(sent[n]) /\ sent[n] \in Contents
           /\ ClaimedLengths = {PayloadLen[sent[n]]}
           /\ \A k \in 1 .. FrameLen(sent[n]) : pos + k <= Len(bytes) => bytes[pos + k] = <<n, k>>
<1>1. Len(bytes) \in Nat /\ Len(sent) \in Nat /\ Len(got) \in Nat /\ pos \in Nat
  BY LenProperties DEF TapeTypes
<1>2. ResultTypes /\ rstate = "reading" /\ pos + FrameHeaderLen <= Len(bytes)
  BY <1>1, LengthsAre DEF TapeTypes, AtFrame, Remaining
<1>3. Clean(Len(got)) /\ (n > Len(sent) => Clean(Len(sent)))
  BY <1>1, <1>2, CleanDown
<1>4. Len(got) <= Len(sent) /\ pos = off[n]
  BY <1>2, <1>3 DEF Layout, Aligned
<1>5. n \in 1 .. Len(sent)
  <2>1. SUFFICES ASSUME n = Len(sent) + 1 PROVE FALSE
    BY <1>1, <1>4
  <2>2. Len(bytes) <= off[Len(sent) + 1]
    BY <1>1, <1>3, <2>1 DEF Layout, Stored
  <2> QED BY <1>1, <1>2, <1>4, <2>1, <2>2, LengthsAre
<1>6. sent[n] \in Contents
  BY <1>5, ElementOfSeq DEF TapeTypes
<1>7. FrameLen(sent[n]) \in Nat /\ FrameLen(sent[n]) >= FrameHeaderLen /\ FrameHeaderLen \in Nat \ {0}
  BY <1>6, LengthsAre
<1>8. off[n + 1] = pos + FrameLen(sent[n])
  BY <1>4, <1>5 DEF Layout, Offsets
<1>9. \A k \in 1 .. FrameLen(sent[n]) : pos + k <= Len(bytes) => bytes[pos + k] = <<n, k>>
  BY <1>4, <1>5 DEF Layout, Stored
<1>10. \A k \in 1 .. FrameHeaderLen : bytes[pos + k] = <<n, k>>
  <2>1. ASSUME NEW k \in 1 .. FrameHeaderLen
        PROVE  k \in 1 .. FrameLen(sent[n]) /\ pos + k <= Len(bytes)
    <3> DEFINE L == FrameLen(sent[n])
    <3>1. L \in Nat /\ FrameHeaderLen <= L /\ FrameHeaderLen \in Nat
      BY <1>7
    <3> HIDE DEF L
    <3>2. k \in 1 .. L /\ pos + k <= Len(bytes)
      BY <1>1, <1>2, <3>1
    <3> QED BY <3>2 DEF L
  <2> QED BY <1>9, <2>1
<1>11. HeaderAt(pos) = Bytes(n, 1, FrameHeaderLen)
  <2> DEFINE header == HeaderAt(pos)
             own == Bytes(n, 1, FrameHeaderLen)
  <2>1. /\ header \in Seq(Byte) /\ Len(header) = FrameHeaderLen
        /\ \A k \in 1 .. FrameHeaderLen : header[k] = bytes[pos + k]
    BY HeaderIs
  <2>2. /\ own \in Seq(Byte) /\ Len(own) = FrameHeaderLen
        /\ \A k \in 1 .. FrameHeaderLen : own[k] = <<n, k>>
    <3>1. n \in Nat /\ FrameHeaderLen \in Nat
      BY <1>1, <1>5, <1>7
    <3> QED BY <3>1, BytesAre
  <2>3. \A k \in 1 .. FrameHeaderLen : bytes[pos + k] = <<n, k>>
    BY <1>10
  <2> HIDE DEF header, own
  <2>4. header = own
    BY <2>1, <2>2, <2>3, SeqEqual
  <2> QED BY <2>4 DEF header, own
<1>12. bytes[pos + 1] = <<n, 1>>
  BY <1>7, <1>10
<1>13. ClaimedLengths = {PayloadLen[sent[n]]}
  <2>1. n \in DOMAIN sent
    BY <1>5, LenProperties DEF TapeTypes
  <2>2. bytes[pos + 1][1] = n
    BY <1>12
  <2> QED BY <1>11, <2>1, <2>2 DEF ClaimedLengths
<1> QED BY <1>1, <1>4, <1>5, <1>6, <1>8, <1>9, <1>13

LEMMA ReadBackIs ==
    ASSUME TapeTypes
    PROVE  FramesReadBack <=>
               \A i \in 1 .. Len(got) : Clean(i) => i \in 1 .. Len(sent) /\ got[i] = FrameBytes(i)
<1>1. DOMAIN got = 1 .. Len(got) /\ DOMAIN sent = 1 .. Len(sent)
  BY LenProperties DEF TapeTypes
<1> QED BY <1>1 DEF FramesReadBack, Clean

(* A frame that is read at a clean frame is that frame, and the reader is  *)
(* at the next one.                                                        *)
LEMMA ReadKeepsAligned ==
    ASSUME TapeTypes, NEW off, Layout(off), FramesReadBack,
           NEW len \in ClaimedLengths, AtFrame, ReadFrame(len), TapeTypes'
    PROVE  Aligned(off)' /\ FramesReadBack'
<1> DEFINE n == Len(got) + 1
           frame == SubSeq(bytes, pos + 1, pos + FrameHeaderLen + len)
<1>1. /\ len \in Nat /\ Len(got) \in Nat /\ n \in Nat /\ got \in Seq(Seq(Byte))
      /\ pos \in Nat /\ Len(bytes) \in Nat
  BY SMTT(30), ClaimedAreLengths, LenProperties DEF TapeTypes
<1>2. /\ frame \in Seq(Byte) /\ Len(frame) = FrameHeaderLen + len
      /\ \A k \in 1 .. FrameHeaderLen + len : frame[k] = bytes[pos + k]
      /\ pos + FrameHeaderLen + len <= Len(bytes)
  BY <1>1, FrameRead DEF ReadFrame
<1>3. /\ got' = Append(got, frame) /\ pos' = pos + FrameHeaderLen + len
      /\ rstate = "reading" /\ rstate' = "reading"
      /\ UNCHANGED <<sent, result>>
  BY DEF ReadFrame, AtFrame, writerVars
<1> HIDE DEF frame
<1>4. /\ Len(got') = n /\ got'[n] = frame
      /\ \A i \in 1 .. Len(got) : got'[i] = got[i]
  BY <1>1, <1>2, <1>3, AppendProperties
<1>5. ASSUME Clean(n)
      PROVE  /\ n \in 1 .. Len(sent) /\ frame = FrameBytes(n)
             /\ pos' = off[n + 1]
  <2>1. /\ n \in 1 .. Len(sent) /\ pos = off[n] /\ off[n + 1] = pos + FrameLen(sent[n])
        /\ sent[n] \in Contents /\ ClaimedLengths = {PayloadLen[sent[n]]}
        /\ \A k \in 1 .. FrameLen(sent[n]) : pos + k <= Len(bytes) => bytes[pos + k] = <<n, k>>
    BY <1>5, AtCleanFrame
  <2> DEFINE L == FrameLen(sent[n])
  <2>2. L = FrameHeaderLen + len /\ L \in Nat
    BY <2>1, LengthsAre DEF FrameLen
  <2> HIDE DEF n
  <2>3. pos' = off[n + 1]
    <3>1. FrameHeaderLen \in Nat
      BY LengthsAre
    <3> QED BY <1>1, <1>3, <2>1, <2>2, <3>1
  <2> HIDE DEF L
  <2>4. ASSUME NEW k \in 1 .. L PROVE frame[k] = <<n, k>>
    <3>1. FrameHeaderLen \in Nat
      BY LengthsAre
    <3>2. pos + k <= Len(bytes) /\ k \in 1 .. FrameHeaderLen + len
      BY <1>1, <1>2, <2>2, <3>1
    <3>3. bytes[pos + k] = <<n, k>>
      BY <2>1, <3>2 DEF L
    <3> QED BY <1>2, <3>2, <3>3
  <2>5. /\ Bytes(n, 1, L) \in Seq(Byte) /\ Len(Bytes(n, 1, L)) = L
        /\ \A k \in 1 .. L : Bytes(n, 1, L)[k] = <<n, k>>
    BY <1>1, <2>2, BytesAre DEF n
  <2> DEFINE own == Bytes(n, 1, L)
  <2>6. own \in Seq(Byte) /\ Len(own) = L /\ \A k \in 1 .. L : own[k] = <<n, k>>
    BY <2>5
  <2> HIDE DEF own
  <2>7. frame = own
    <3>1. Len(frame) = L /\ \A k \in 1 .. L : frame[k] = own[k]
      BY <1>2, <2>2, <2>4, <2>6
    <3> QED BY <1>2, <2>6, <3>1, SeqEqual
  <2> QED BY <2>1, <2>3, <2>7 DEF own, L, FrameBytes
<1> HIDE DEF n
<1>6. \A i : Clean(i)' <=> Clean(i)
  BY <1>3 DEF Clean
<1>7. Aligned(off)'
  <2>1. Clean(n) => n <= Len(sent) /\ pos' = off[n + 1]
    BY <1>5
  <2>2. Clean(Len(got))' <=> Clean(n)
    BY <1>3, <1>4 DEF Clean
  <2>3. (rstate = "none")' = FALSE
    BY <1>3
  <2>4. (rstate = "reading" /\ Clean(Len(got)) => Len(got) <= Len(sent) /\ pos = off[Len(got) + 1])'
    BY <1>3, <1>4, <2>1, <2>2
  <2> QED BY <2>3, <2>4 DEF Aligned
<1>8. FramesReadBack'
  <2>1. ASSUME NEW i \in 1 .. Len(got'), Clean(i)'
        PROVE  i \in 1 .. Len(sent) /\ got'[i] = FrameBytes(i)
    <3>1. Clean(i) /\ (i \in 1 .. Len(got) \/ i = n)
      BY <1>1, <1>4, <1>6, <2>1 DEF n
    <3>2. CASE i \in 1 .. Len(got)
      BY <1>4, <3>1, <3>2, ReadBackIs
    <3>3. CASE i = n
      BY <1>4, <1>5, <3>1, <3>3
    <3> QED BY <3>1, <3>2, <3>3
  <2>2. DOMAIN got' = 1 .. Len(got') /\ DOMAIN sent' = 1 .. Len(sent)
    BY <1>3, LenProperties DEF TapeTypes
  <2> QED BY <1>3, <2>1, <2>2 DEF FramesReadBack, Clean, FrameBytes
<1> QED BY <1>7, <1>8

(* A reader that cannot go on has passed every frame that was flushed.     *)
Stuck ==
    \/ Remaining < FrameHeaderLen
    \/ AtFrame /\ \E len \in ClaimedLengths : ~PayloadThere(len)

LEMMA StuckAfterFlushed ==
    ASSUME TapeTypes, NEW off, Layout(off), rstate = "reading", AllClean, Stuck
    PROVE  /\ Len(got) >= flushedFrames
           /\ wstate = "closed" /\ failures = 0 => Len(got) = Len(sent) /\ Remaining = 0
<1> DEFINE g == Len(got)
           N == Len(sent)
<1>1. /\ Len(bytes) \in Nat /\ N \in Nat /\ g \in Nat /\ pos \in 0 .. Len(bytes)
      /\ flushedFrames \in 0 .. N /\ durable \in 0 .. Len(bytes) /\ FrameHeaderLen \in Nat \ {0}
  BY LenProperties, LengthsAre DEF TapeTypes
<1>2. \A n \in Int : Clean(n)
  BY DEF AllClean, Clean
<1>3. /\ off \in [Nat -> Nat]
      /\ \A n \in 1 .. N : off[n + 1] = off[n] + FrameLen(sent[n])
      /\ \A n \in 1 .. N + 1 : \A m \in 1 .. n : off[m] <= off[n]
  <2>1. \A n \in 1 .. N : Clean(n)
    BY <1>2
  <2>2. \A n \in 1 .. N + 1 : Clean(n - 1)
    BY <1>2
  <2> QED BY <2>1, <2>2 DEF Layout, Offsets
<1>4. g <= N /\ pos = off[g + 1]
  BY <1>1, <1>2 DEF Layout, Aligned
<1>5. Len(bytes) <= off[N + 1]
  BY <1>1, <1>2 DEF Layout, Stored
<1>6. g < N => off[g + 2] > Len(bytes)
  <2>1. SUFFICES ASSUME g < N PROVE off[g + 2] > Len(bytes)
    OBVIOUS
  <2>2. g + 1 \in 1 .. N /\ sent[g + 1] \in Contents
    <3>1. g + 1 \in 1 .. N
      BY <1>1, <2>1
    <3> QED BY <3>1, ElementOfSeq DEF TapeTypes
  <2>3. FrameLen(sent[g + 1]) \in Nat /\ FrameLen(sent[g + 1]) >= FrameHeaderLen
    BY <2>2, LengthsAre
  <2>4. off[g + 2] = pos + FrameLen(sent[g + 1])
    <3>1. (g + 1) + 1 = g + 2
      BY <1>1
    <3> QED BY <1>3, <1>4, <2>2, <3>1
  <2>5. CASE Remaining < FrameHeaderLen
    <3>1. Len(bytes) - pos < FrameHeaderLen
      BY <2>5 DEF Remaining
    <3> QED BY <1>1, <2>3, <2>4, <3>1
  <2>6. ASSUME NEW len \in ClaimedLengths, AtFrame, ~PayloadThere(len)
        PROVE  off[g + 2] > Len(bytes)
    <3>1. ClaimedLengths = {PayloadLen[sent[g + 1]]}
      BY <1>1, <1>2, <2>6, AtCleanFrame
    <3>2. FrameLen(sent[g + 1]) = FrameHeaderLen + len
      BY <3>1 DEF FrameLen
    <3>3. ~(Len(bytes) - pos >= FrameHeaderLen + len)
      BY <2>6 DEF PayloadThere, Remaining
    <3> QED BY <1>1, <2>3, <2>4, <3>2, <3>3
  <2> QED BY <2>5, <2>6 DEF Stuck
<1>7. g >= flushedFrames
  <2>1. SUFFICES ASSUME g < flushedFrames PROVE FALSE
    BY <1>1
  <2>2. off[flushedFrames + 1] <= durable
    BY <1>1, <1>2, <2>1 DEF Layout, Kept
  <2>3. flushedFrames + 1 \in 1 .. N + 1 /\ g + 2 \in 1 .. flushedFrames + 1 /\ g < N
        /\ g + 2 \in Nat /\ flushedFrames + 1 \in Nat
    BY <1>1, <2>1
  <2>4. off[g + 2] <= off[flushedFrames + 1] /\ off[g + 2] \in Nat /\ off[flushedFrames + 1] \in Nat
    BY <1>3, <2>3
  <2> QED BY <1>1, <1>6, <2>2, <2>3, <2>4
<1>8. ASSUME wstate = "closed", failures = 0 PROVE g = N /\ Remaining = 0
  <2>1. off[N + 1] <= Len(bytes)
    BY <1>8 DEF Layout, Kept
  <2>2. g = N
    <3>1. SUFFICES ASSUME g < N PROVE FALSE
      BY <1>1, <1>4
    <3>2. N + 1 \in 1 .. N + 1 /\ g + 2 \in 1 .. N + 1 /\ g + 2 \in Nat /\ N + 1 \in Nat
      BY <1>1, <3>1
    <3>3. off[g + 2] <= off[N + 1] /\ off[g + 2] \in Nat /\ off[N + 1] \in Nat
      BY <1>3, <3>2
    <3> QED BY <1>1, <1>6, <2>1, <3>1, <3>3
  <2>3. pos = off[N + 1]
    BY <1>4, <2>2
  <2> QED BY <1>1, <1>5, <2>1, <2>2, <2>3 DEF Remaining
<1> QED BY <1>7, <1>8

(* What a step of the reader leaves of the file.                           *)
LEMMA WriterStill ==
    ASSUME NEW CONSTANT off, UNCHANGED writerVars
    PROVE  Offsets(off) /\ Stored(off) /\ Kept(off) => (Offsets(off) /\ Stored(off) /\ Kept(off))'
  BY DEF writerVars, Offsets, Stored, Kept, Clean, FrameLen

(* What the writer does to the file besides writing frames.                *)
LEMMA OtherWritesKeepLayout ==
    ASSUME TapeTypes, NEW CONSTANT off, Layout(off),
           OpenWriter \/ Flush \/ CloseWriter \/ CrashWriter
    PROVE  Layout(off)'
<1>1. /\ Len(bytes) \in Nat /\ Len(sent) \in Nat /\ bytes \in Seq(Byte)
      /\ durable \in 0 .. Len(bytes) /\ flushedFrames \in 0 .. Len(sent)
      /\ off \in [Nat -> Nat] /\ off[1] = TapeHeaderLen
  BY LenProperties DEF TapeTypes, Layout, Offsets
<1>2. rstate = "none" /\ rstate' = rstate /\ got' = got /\ sent' = sent /\ result' = result
  BY DEF TapeTypes, OpenWriter, Flush, CloseWriter, CrashWriter, readerVars
<1>3. Offsets(off)' /\ Aligned(off)'
  <2>1. Offsets(off)'
    BY <1>2 DEF Layout, Offsets, Clean, FrameLen
  <2>2. Aligned(off)'
    BY <1>2 DEF Layout, Aligned
  <2> QED BY <2>1, <2>2
<1>4. \A n : Clean(n)' <=> Clean(n)
  BY <1>2 DEF Clean
<1>5. CASE OpenWriter
  <2>1. sent = <<>> /\ Len(sent) = 0 /\ flushedFrames = 0 /\ flushedFrames' = 0
    BY <1>1, <1>5 DEF OpenWriter, TapeTypes
  <2>2. PICK k \in 0 .. TapeHeaderLen : bytes' = Bytes(0, 1, k) /\ (wstate' = "open" => k = TapeHeaderLen)
    BY <1>5, LengthsAre DEF OpenWriter
  <2>3. Len(bytes') = k /\ k \in Nat /\ TapeHeaderLen \in Nat
    BY <2>2, BytesAre, LengthsAre
  <2>4. Stored(off)'
    BY <1>1, <1>2, <2>1, <2>3 DEF Stored
  <2>5. wstate' \in {"open", "failed"} /\ Clean(0)
    <3>1. DOMAIN result \subseteq Nat /\ DOMAIN result = 1 .. 0
      BY <2>1 DEF TapeTypes, ResultTypes
    <3> QED BY <1>5, <3>1 DEF OpenWriter, Clean
  <2>6. Kept(off)'
    <3>1. \A n \in 0 .. 0 : n = 0
      OBVIOUS
    <3>2. wstate' = "open" => off[0 + 1] <= Len(bytes')
      BY <1>1, <2>2, <2>3
    <3>3. Len(sent)' = 0 /\ Clean(0)' /\ ~(flushedFrames > 0)' /\ (wstate # "closed")'
      BY <1>2, <1>4, <2>1, <2>5
    <3>4. Clean(Len(sent))'
      BY <3>3
    <3>5. (wstate = "open" => \A n \in 0 .. Len(sent) : Clean(n) => off[n + 1] <= Len(bytes))'
      BY <3>1, <3>2, <3>3
    <3> QED BY <3>3, <3>4, <3>5 DEF Kept
  <2> QED BY <1>3, <2>4, <2>6 DEF Layout
<1>6. CASE Flush
  <2>1. /\ wstate = "open" /\ wstate' = wstate /\ durable' = Len(bytes) /\ flushedFrames' = Len(sent)
        /\ bytes' = bytes /\ failures' = failures
    BY <1>6 DEF Flush
  <2>2. Stored(off)'
    BY <1>2, <2>1 DEF Layout, Stored, Clean, FrameLen
  <2>3. Clean(Len(sent)) => off[Len(sent) + 1] <= Len(bytes)
    BY <1>1, <2>1 DEF Layout, Kept
  <2>4. Clean(flushedFrames)' <=> Clean(Len(sent))
    BY <1>2, <2>1 DEF Clean
  <2>5. Clean(Len(sent))' <=> Clean(Len(sent))
    BY <1>2 DEF Clean
  <2>6. Kept(off)'
    BY <1>2, <1>4, <2>1, <2>3, <2>4, <2>5 DEF Layout, Kept
  <2> QED BY <1>3, <2>2, <2>6 DEF Layout
<1>7. CASE CloseWriter \/ CrashWriter
  <2>1. /\ wstate = "open" /\ wstate' \in {"closed", "crashed"}
        /\ flushedFrames' = flushedFrames
    BY <1>7 DEF CloseWriter, CrashWriter
  <2>2. PICK n \in durable .. Len(bytes) : LeaveFile(n) /\ (wstate' = "closed" /\ failures' = 0 => n = Len(bytes))
    <3>1. failures + 1 # 0 /\ Len(bytes) \in durable .. Len(bytes)
      BY <1>1 DEF TapeTypes
    <3>2. CASE CloseWriter
      <4>1. CASE LeaveFile(Len(bytes))
        BY <3>1, <4>1
      <4>2. CASE failures' = failures + 1 /\ \E n \in durable .. Len(bytes) - 1 : LeaveFile(n)
        <5>1. \A n \in durable .. Len(bytes) - 1 : n \in durable .. Len(bytes)
          BY <1>1
        <5> QED BY <3>1, <4>2, <5>1
      <4> QED BY <3>2, <4>1, <4>2 DEF CloseWriter
    <3>3. CASE CrashWriter
      BY <3>3 DEF CrashWriter
    <3> QED BY <1>7, <3>2, <3>3
  <2>3. n \in 0 .. Len(bytes) /\ n \in Nat /\ n <= Len(bytes)
    BY <1>1
  <2>4. Len(bytes') = n /\ durable' = n /\ \A i \in 1 .. n : bytes'[i] = bytes[i]
    BY <1>1, <2>2, <2>3, FileLeft
  <2>5. failures' = 0 => failures = 0
    BY <1>7 DEF CloseWriter, CrashWriter, TapeTypes
  <2>6. Stored(off)'
    <3>1. ASSUME NEW m \in 1 .. Len(sent), Clean(m), NEW k \in 1 .. FrameLen(sent[m]), off[m] + k <= n
          PROVE  bytes'[off[m] + k] = <<m, k>>
      <4>1. off[m] \in Nat /\ FrameLen(sent[m]) \in Nat
        <5>1. m \in Nat /\ sent[m] \in Contents
          BY <1>1, ElementOfSeq DEF TapeTypes
        <5> QED BY <1>1, <5>1, LengthsAre
      <4>2. off[m] + k \in 1 .. n /\ off[m] + k <= Len(bytes)
        <5> DEFINE i == off[m] + k
        <5>1. k \in Nat /\ k >= 1
          BY <4>1
        <5>2. i \in Nat /\ i >= 1
          BY <4>1, <5>1
        <5>3. i <= n
          BY <3>1
        <5> HIDE DEF i
        <5>4. i \in 1 .. n /\ i <= Len(bytes)
          BY <1>1, <2>3, <5>2, <5>3
        <5> QED BY <5>4 DEF i
      <4>3. bytes[off[m] + k] = <<m, k>>
        BY <3>1, <4>2 DEF Layout, Stored
      <4> QED BY <2>4, <4>2, <4>3
    <3>2. Clean(Len(sent)) => n <= off[Len(sent) + 1]
      <4>1. Clean(Len(sent)) => Len(bytes) <= off[Len(sent) + 1]
        BY DEF Layout, Stored
      <4>2. off[Len(sent) + 1] \in Nat
        BY <1>1
      <4> QED BY <1>1, <2>3, <4>1, <4>2
    <3>3. Clean(Len(sent))' <=> Clean(Len(sent))
      BY <1>2 DEF Clean
    <3> QED BY <1>2, <1>4, <2>4, <3>1, <3>2, <3>3 DEF Stored, FrameLen
  <2>7. Kept(off)'
    <3>1. Clean(flushedFrames)' <=> Clean(flushedFrames)
      BY <1>2, <2>1 DEF Clean
    <3>2. Clean(Len(sent))' <=> Clean(Len(sent))
      BY <1>2 DEF Clean
    <3>3. flushedFrames > 0 /\ Clean(flushedFrames) => off[flushedFrames + 1] <= n
      <4>1. flushedFrames > 0 /\ Clean(flushedFrames) => off[flushedFrames + 1] <= durable
        BY DEF Layout, Kept
      <4>2. off[flushedFrames + 1] \in Nat /\ durable <= n /\ durable \in Nat
        <5>1. flushedFrames + 1 \in Nat
          BY <1>1
        <5>2. off[flushedFrames + 1] \in Nat
          BY <1>1, <5>1
        <5>3. durable \in Nat /\ durable <= n
          BY <1>1
        <5> QED BY <5>2, <5>3
      <4> QED BY <2>3, <4>1, <4>2
    <3>4. failures' = 0 => Clean(Len(sent)) /\ off[Len(sent) + 1] <= Len(bytes)
      BY <1>1, <2>1, <2>5 DEF Layout, Kept
    <3>5. wstate' = "closed" /\ failures' = 0 => off[Len(sent) + 1] <= n
      BY <2>2, <3>4
    <3> QED BY <1>2, <2>1, <2>4, <3>1, <3>2, <3>3, <3>4, <3>5 DEF Kept
  <2> QED BY <1>3, <2>6, <2>7 DEF Layout
<1> QED BY <1>5, <1>6, <1>7

LEMMA WriterKeepsInv == ASSUME TapeInv, Writer PROVE TapeInv'
<1>0. TapeTypes /\ TapeTypes'
  BY TypesKept DEF TapeInv, TapeStep
<1>1. PICK off : Layout(off)
  BY DEF TapeInv
<1>2. \E o : Layout(o)'
  <2>1. ASSUME NEW c \in Contents, WriteFrame(c) PROVE \E o : Layout(o)'
    <3>1. WroteWhole(c) \/ WroteTorn(c)
      BY <1>0, <2>1, WriteIs
    <3>2. CASE WroteWhole(c)
      BY <1>0, <1>1, <2>1, <3>2, WholeFrame
    <3>3. CASE WroteTorn(c)
      <4>1. Layout(off)'
        BY <1>0, <1>1, <2>1, <3>3, TornFrame
      <4> QED BY <4>1
    <3> QED BY <3>1, <3>2, <3>3
  <2>2. ASSUME OpenWriter \/ Flush \/ CloseWriter \/ CrashWriter PROVE \E o : Layout(o)'
    <3>1. Layout(off)'
      BY <1>0, <1>1, <2>2, OtherWritesKeepLayout
    <3> QED BY <3>1
  <2> QED BY <2>1, <2>2 DEF Writer
<1>3. rstate' = "none" /\ got' = <<>>
  <2>1. wstate \in {"new", "open"} /\ UNCHANGED <<rstate, got>>
    BY DEF Writer, OpenWriter, WriteFrame, Flush, CloseWriter, CrashWriter, readerVars
  <2> QED BY <1>0, <1>1, <2>1 DEF TapeTypes, Layout, Aligned
<1>4. FramesReadBack' /\ FlushedFramesSurvive'
  BY <1>3 DEF FramesReadBack, FlushedFramesSurvive
<1> QED BY <1>0, <1>2, <1>4 DEF TapeInv

LEMMA ReaderKeepsInv ==
    ASSUME TapeInv, OpenReader \/ ReadEnd \/ ReadStep
    PROVE  TapeInv'
<1>0. TapeTypes /\ TapeTypes'
  BY TypesKept DEF TapeInv, TapeStep
<1>1. PICK off : Layout(off)
  BY DEF TapeInv
<1>2. UNCHANGED writerVars
  BY DEF OpenReader, ReadEnd, ReadStep, ReadFrame, ReadTornPayload
<1>3. UNCHANGED <<wstate, sent, result, bytes, flushedFrames, failures>> /\ (AllClean' <=> AllClean)
  BY <1>2 DEF writerVars, AllClean
<1>4. (Offsets(off) /\ Stored(off) /\ Kept(off))'
  BY <1>1, <1>2, WriterStill DEF Layout
<1>5. Layout(off)' <=> Aligned(off)'
  BY <1>4 DEF Layout
<1>6. SUFFICES Aligned(off)' /\ FramesReadBack' /\ FlushedFramesSurvive'
  <2>1. Aligned(off)' => \E o : Layout(o)'
    BY <1>5
  <2> QED BY <1>0, <2>1 DEF TapeInv
<1>7. ASSUME got' = got PROVE FramesReadBack'
  BY <1>3, <1>7 DEF TapeInv, FramesReadBack, FrameBytes
<1>8. CASE OpenReader
  <2>1. rstate = "none" /\ got' = got /\ got = <<>> /\ Len(got) = 0
    BY <1>1, <1>8 DEF OpenReader, Layout, Aligned
  <2>2. Len(sent) \in Nat /\ off[1] = TapeHeaderLen
    BY <1>0, <1>1, LenProperties DEF TapeTypes, Layout, Offsets
  <2>3. CASE rstate' = "reading" /\ pos' = TapeHeaderLen
    <3>1. (Len(got) <= Len(sent) /\ pos = off[Len(got) + 1])'
      BY <1>3, <2>1, <2>2, <2>3
    <3> QED BY <1>7, <2>1, <2>3, <3>1 DEF Aligned, FlushedFramesSurvive
  <2>4. CASE rstate' = "threw" /\ Len(bytes) < TapeHeaderLen
    <3>1. Aligned(off)'
      BY <2>4 DEF Aligned
    <3>2. ASSUME AllClean
          PROVE  flushedFrames = 0 /\ ~(wstate = "closed" /\ failures = 0)
      <4>1. /\ Len(bytes) \in Nat /\ TapeHeaderLen \in Nat /\ flushedFrames \in 0 .. Len(sent)
            /\ durable \in 0 .. Len(bytes)
        BY <1>0, LenProperties, LengthsAre DEF TapeTypes
      <4>2. \A n \in 1 .. Len(sent) + 1 : off[n] >= TapeHeaderLen /\ off[n] \in Nat
        <5>1. SUFFICES ASSUME NEW n \in 1 .. Len(sent) + 1 PROVE off[n] >= TapeHeaderLen /\ off[n] \in Nat
          OBVIOUS
        <5>2. Clean(n - 1) /\ 1 \in 1 .. n /\ n \in Nat
          BY <2>2, <3>2 DEF AllClean, Clean
        <5>3. off[1] <= off[n] /\ off \in [Nat -> Nat]
          BY <1>1, <5>2 DEF Layout, Offsets
        <5> QED BY <2>2, <4>1, <5>2, <5>3
      <4>3. flushedFrames = 0
        <5>1. SUFFICES ASSUME flushedFrames > 0 PROVE FALSE
          BY <4>1
        <5>2. off[flushedFrames + 1] <= durable
          BY <1>1, <3>2, <5>1 DEF Layout, Kept, AllClean, Clean
        <5>3. flushedFrames + 1 \in 1 .. Len(sent) + 1
          BY <2>2, <4>1
        <5>4. off[flushedFrames + 1] >= TapeHeaderLen /\ off[flushedFrames + 1] \in Nat
          BY <4>2, <5>3
        <5> QED BY <2>4, <4>1, <5>2, <5>4
      <4>4. ASSUME wstate = "closed", failures = 0 PROVE FALSE
        <5>1. off[Len(sent) + 1] <= Len(bytes)
          BY <1>1, <4>4 DEF Layout, Kept
        <5>2. Len(sent) + 1 \in 1 .. Len(sent) + 1
          BY <2>2
        <5>3. off[Len(sent) + 1] >= TapeHeaderLen /\ off[Len(sent) + 1] \in Nat
          BY <4>2, <5>2
        <5> QED BY <2>4, <4>1, <5>1, <5>3
      <4> QED BY <4>3, <4>4
    <3>3. FlushedFramesSurvive'
      BY <1>3, <2>1, <2>4, <3>2 DEF FlushedFramesSurvive, AllClean
    <3> QED BY <1>7, <2>1, <3>1, <3>3
  <2> QED BY <1>8, <2>3, <2>4 DEF OpenReader
<1>9. ASSUME rstate = "reading", rstate' \in {"eof", "threw"}, got' = got, Stuck,
             rstate' = "threw" => Remaining # 0
      PROVE  Aligned(off)' /\ FramesReadBack' /\ FlushedFramesSurvive'
  <2>1. Aligned(off)'
    BY <1>9 DEF Aligned
  <2>2. AllClean =>
            /\ Len(got) >= flushedFrames
            /\ wstate = "closed" /\ failures = 0 => Len(got) = Len(sent) /\ Remaining = 0
    BY <1>0, <1>1, <1>9, StuckAfterFlushed
  <2>3. FlushedFramesSurvive'
    BY <1>3, <1>9, <2>2 DEF FlushedFramesSurvive, AllClean
  <2> QED BY <1>7, <1>9, <2>1, <2>3
<1>10. CASE ReadEnd
  BY <1>9, <1>10 DEF ReadEnd, Stuck
<1>11. ASSUME NEW len \in ClaimedLengths, AtFrame, ReadFrame(len)
       PROVE  Aligned(off)' /\ FramesReadBack' /\ FlushedFramesSurvive'
  <2>1. rstate' = "reading"
    BY <1>11 DEF ReadFrame, AtFrame
  <2>2. Aligned(off)' /\ FramesReadBack'
    BY <1>0, <1>1, <1>11, ReadKeepsAligned DEF TapeInv
  <2> QED BY <2>1, <2>2 DEF FlushedFramesSurvive
<1>12. ASSUME NEW len \in ClaimedLengths, AtFrame, ReadTornPayload(len)
       PROVE  Aligned(off)' /\ FramesReadBack' /\ FlushedFramesSurvive'
  <2>1. Remaining # 0
    <3>1. Remaining >= FrameHeaderLen /\ FrameHeaderLen \in Nat \ {0}
      BY <1>12, LengthsAre DEF AtFrame
    <3>2. Remaining \in Int
      BY <1>0, LenProperties DEF TapeTypes, Remaining
    <3> QED BY <3>1, <3>2
  <2> QED BY <1>9, <1>12, <2>1 DEF ReadTornPayload, AtFrame, Stuck
<1> QED BY <1>8, <1>10, <1>11, <1>12 DEF ReadStep

LEMMA TapeInvHolds == Spec => []TapeInv
<1>1. Init => TapeInv
  <2> SUFFICES ASSUME TapeInit PROVE TapeInv
    BY DEF Init
  <2> DEFINE off == [n \in Nat |-> TapeHeaderLen]
  <2>1. /\ Len(sent) = 0 /\ Len(bytes) = 0 /\ Len(got) = 0 /\ Len(result) = 0
        /\ sent = <<>> /\ bytes = <<>> /\ got = <<>> /\ result = <<>>
    BY DEF TapeInit
  <2>2. TapeTypes
    BY <2>1, TapeAssumption DEF TapeInit, TapeTypes, ResultTypes
  <2>3. off \in [Nat -> Nat] /\ \A n \in Nat : off[n] = TapeHeaderLen
    BY LengthsAre
  <2> HIDE DEF off
  <2>4. AllClean /\ \A n : Clean(n)
    BY <2>1 DEF AllClean, Clean
  <2>5. Offsets(off) /\ Stored(off)
    BY <2>1, <2>3, LengthsAre DEF Offsets, Stored
  <2>6. Kept(off) /\ Aligned(off)
    BY <2>1, <2>4 DEF TapeInit, Kept, Aligned
  <2>7. FramesReadBack /\ FlushedFramesSurvive
    BY <2>1 DEF TapeInit, FramesReadBack, FlushedFramesSurvive
  <2> QED BY <2>2, <2>5, <2>6, <2>7 DEF TapeInv, Layout
<1>2. TapeInv /\ [Next]_vars => TapeInv'
  <2>1. ASSUME TapeInv, TapeStep PROVE TapeInv'
    BY <2>1, WriterKeepsInv, ReaderKeepsInv DEF TapeStep
  <2>2. ASSUME TapeInv, UNCHANGED tapeVars PROVE TapeInv'
    <3>1. TapeTypes' /\ FramesReadBack' /\ FlushedFramesSurvive'
      BY <2>2 DEF tapeVars, writerVars, readerVars, TapeInv, TapeTypes, ResultTypes,
                  FramesReadBack, FrameBytes, FlushedFramesSurvive
    <3>2. PICK off : Layout(off)
      BY <2>2 DEF TapeInv
    <3>3. (Offsets(off) /\ Stored(off) /\ Kept(off))'
      BY <2>2, <3>2, WriterStill DEF tapeVars, Layout
    <3>4. Aligned(off)'
      BY <2>2, <3>2 DEF tapeVars, writerVars, readerVars, Layout, Aligned, Clean
    <3>5. \E o : Layout(o)'
      BY <3>3, <3>4 DEF Layout
    <3> QED BY <3>1, <3>5 DEF TapeInv
  <2> QED BY <2>1, <2>2, StepIsTapeStep
<1> QED BY <1>1, <1>2, PTL DEF Spec

(* The frames before the first short write, and before the torn tail, are  *)
(* read back as they were written.                                         *)
THEOREM TapeReadsBack == Spec => []FramesReadBack
<1>1. TapeInv => FramesReadBack
  BY DEF TapeInv
<1> QED BY <1>1, TapeInvHolds, PTL

(* After a crash every frame that was flushed is read back, and after a    *)
(* clean close every frame, to a clean end of file.                        *)
THEOREM FlushedSurvives == Spec => []FlushedFramesSurvive
<1>1. TapeInv => FlushedFramesSurvive
  BY DEF TapeInv
<1> QED BY <1>1, TapeInvHolds, PTL

-----------------------------------------------------------------------------
(* Greatest and least elements.                                            *)

LEMMA MaxInRange ==
    ASSUME NEW m \in Int, NEW n \in Int, NEW S, S \subseteq m .. n, S # {}
    PROVE  Max(S) \in S /\ \A y \in S : Max(S) >= y
<1> DEFINE T == {n - y : y \in S}
<1>1. T \subseteq Nat /\ T # {}
  <2>1. \A y \in S : y \in m .. n /\ n - y \in Nat
    OBVIOUS
  <2> QED BY <2>1
<1>2. PICK t \in T : \A u \in T : t <= u
  BY <1>1, LeastNumber
<1>3. PICK x \in S : t = n - x
  BY <1>2
<1>4. \A y \in S : x >= y
  <2> TAKE y \in S
  <2>1. n - y \in T
    OBVIOUS
  <2>2. t <= n - y
    BY <1>2, <2>1
  <2>3. x \in m .. n /\ y \in m .. n
    OBVIOUS
  <2> QED BY <1>3, <2>2, <2>3
<1> QED BY <1>3, <1>4 DEF Max

LEMMA MinInRange ==
    ASSUME NEW m \in Int, NEW n \in Int, NEW S, S \subseteq m .. n, S # {}
    PROVE  Min(S) \in S
<1> DEFINE T == {y - m : y \in S}
<1>1. T \subseteq Nat /\ T # {}
  <2>1. \A y \in S : y \in m .. n /\ y - m \in Nat
    OBVIOUS
  <2> QED BY <2>1
<1>2. PICK t \in T : \A u \in T : t <= u
  BY <1>1, LeastNumber
<1>3. PICK x \in S : t = x - m
  BY <1>2
<1>4. \A y \in S : x =< y
  <2> TAKE y \in S
  <2>1. y - m \in T
    OBVIOUS
  <2>2. t <= y - m
    BY <1>2, <2>1
  <2>3. x \in m .. n /\ y \in m .. n
    OBVIOUS
  <2> QED BY <1>3, <2>2, <2>3
<1> QED BY <1>3, <1>4 DEF Min

LEMMA MaxIs ==
    ASSUME NEW n \in Nat, NEW S, S \subseteq 1 .. n, S # {}
    PROVE  Max(S) \in S /\ \A y \in S : Max(S) >= y
<1>1. PICK m \in Int, top \in Int : m = 1 /\ top = n
  OBVIOUS
<1>2. S \subseteq m .. top
  BY <1>1
<1> QED BY <1>2, MaxInRange

LEMMA MaxOf ==
    ASSUME NEW n \in Nat, NEW S, S \subseteq 1 .. n, NEW x \in S, \A y \in S : x >= y
    PROVE  Max(S) = x
<1>1. PICK m : m = Max(S)
  OBVIOUS
<1>2. m \in S /\ m >= x /\ x >= m
  BY <1>1, MaxIs
<1>3. m \in 1 .. n /\ x \in 1 .. n
  BY <1>2
<1> QED BY <1>1, <1>2, <1>3

-----------------------------------------------------------------------------
(* The counts of main and the strategy's events.                           *)

Counted ==
    /\ parsedOk \in Nat /\ parsedErr \in Nat /\ terminated \in BOOLEAN
    /\ parsedOk + parsedErr = Len(got) - (IF terminated THEN 1 ELSE 0)
    /\ Len(samples) <= parsedOk

(* The average is that of the last usable mids, and the strategy is armed  *)
(* exactly if it was inside the threshold.                                 *)
StrategyInv ==
    /\ armed \in BOOLEAN
    /\ \E S : samples \in Seq(S)
    /\ ewma = DevBefore(Len(samples) + 1)
    /\ armed <=> ~OutsideBefore(Len(samples) + 1)
    /\ EventsAreCrossings

ReplayInv == TapeTypes /\ Counted /\ StrategyInv

LEMMA SamplesGrow ==
    ASSUME StrategyInv, NEW r, samples' = Append(samples, r)
    PROVE  /\ \E S : samples' \in Seq(S)
           /\ Len(samples) \in Nat /\ Len(samples') = Len(samples) + 1
           /\ DOMAIN samples = 1 .. Len(samples) /\ DOMAIN samples' = 1 .. Len(samples) + 1
           /\ \A i \in 1 .. Len(samples) : samples'[i] = samples[i]
           /\ samples'[Len(samples) + 1] = r
<1>1. PICK S : samples \in Seq(S)
  BY DEF StrategyInv
<1> DEFINE T == S \cup {r}
<1>2. samples \in Seq(T)
  <2>1. Len(samples) \in Nat /\ samples \in [1 .. Len(samples) -> S]
    BY <1>1, LenProperties
  <2>2. samples \in [1 .. Len(samples) -> T]
    BY <2>1
  <2> HIDE DEF T
  <2> QED BY <2>1, <2>2, SeqDef
<1>3. r \in T
  OBVIOUS
<1> HIDE DEF T
<1>4. /\ samples' \in Seq(T) /\ Len(samples') = Len(samples) + 1
      /\ \A i \in 1 .. Len(samples) : samples'[i] = samples[i]
      /\ samples'[Len(samples) + 1] = r
  BY <1>2, <1>3, AppendProperties
<1>5. /\ Len(samples) \in Nat /\ DOMAIN samples = 1 .. Len(samples)
      /\ DOMAIN samples' = 1 .. Len(samples')
  BY <1>2, <1>4, LenProperties
<1> QED BY <1>4, <1>5

(* What is known before a sample does not change with it; what is known    *)
(* after it is the sample's own, if its mids are usable.                   *)
LEMMA BeforeGrows ==
    ASSUME StrategyInv, NEW r, samples' = Append(samples, r), NEW n, n = Len(samples)
    PROVE  /\ \A k \in 1 .. n + 1 : /\ DevBefore(k)' = DevBefore(k)
                                    /\ OutsideBefore(k)' = OutsideBefore(k)
           /\ Positive(r) => /\ DevBefore(n + 2)' = r.dev
                             /\ OutsideBefore(n + 2)' = Above(r.dev)
           /\ ~Positive(r) => /\ DevBefore(n + 2)' = DevBefore(n + 1)
                              /\ OutsideBefore(n + 2)' = OutsideBefore(n + 1)
<1>1. /\ n \in Nat /\ DOMAIN samples = 1 .. n
      /\ \A i \in 1 .. n : samples'[i] = samples[i]
      /\ samples'[n + 1] = r
  BY SamplesGrow
<1>2. ASSUME NEW k \in 1 .. n + 1
      PROVE  UsableBefore(k)' = UsableBefore(k) /\ UsableBefore(k) \subseteq 1 .. n
  <2>1. \A j \in 1 .. k - 1 : j \in 1 .. n
    BY <1>1
  <2> QED BY <1>1, <2>1 DEF UsableBefore, Positive
<1>3. ASSUME NEW k \in 1 .. n + 1, UsableBefore(k) # {}
      PROVE  samples'[Max(UsableBefore(k))] = samples[Max(UsableBefore(k))]
  <2>1. Max(UsableBefore(k)) \in UsableBefore(k)
    BY <1>1, <1>2, <1>3, MaxIs
  <2> QED BY <1>1, <1>2, <2>1
<1>4. ASSUME NEW k \in 1 .. n + 1
      PROVE  DevBefore(k)' = DevBefore(k) /\ OutsideBefore(k)' = OutsideBefore(k)
  <2>1. DevBefore(k)' = DevBefore(k)
    BY <1>2, <1>3 DEF DevBefore
  <2> QED BY <1>2, <2>1 DEF OutsideBefore, Above
<1>5. UsableBefore(n + 2)' = UsableBefore(n + 1) \cup (IF Positive(r) THEN {n + 1} ELSE {})
  <2>1. UsableBefore(n + 2)' = {j \in 1 .. n + 1 : Positive(samples'[j])}
    <3>1. (n + 2) - 1 = n + 1
      BY <1>1
    <3> QED BY <3>1 DEF UsableBefore, Positive
  <2>2. UsableBefore(n + 1) = {j \in 1 .. n : Positive(samples[j])}
    <3>1. (n + 1) - 1 = n
      BY <1>1
    <3> QED BY <3>1 DEF UsableBefore
  <2>3. \A j : j \in 1 .. n + 1 <=> j \in 1 .. n \/ j = n + 1
    BY <1>1
  <2> QED BY <1>1, <2>1, <2>2, <2>3
<1>6. n + 1 \in 1 .. n + 1
  BY <1>1
<1>7. CASE Positive(r)
  <2>1. UsableBefore(n + 2)' = UsableBefore(n + 1) \cup {n + 1}
    BY <1>5, <1>7
  <2>2. Max(UsableBefore(n + 1) \cup {n + 1}) = n + 1
    <3>1. UsableBefore(n + 1) \subseteq 1 .. n
      BY <1>2, <1>6
    <3>2. PICK U : U = UsableBefore(n + 1) \cup {n + 1}
      OBVIOUS
    <3>3. U \subseteq 1 .. n + 1 /\ n + 1 \in U /\ n + 1 \in Nat /\ \A y \in U : n + 1 >= y
      BY <1>1, <3>1, <3>2
    <3>4. Max(U) = n + 1
      BY <3>3, MaxOf
    <3> QED BY <3>2, <3>4
  <2>3. UsableBefore(n + 2)' # {} /\ Max(UsableBefore(n + 2)') = n + 1
    BY <2>1, <2>2
  <2>4. DevBefore(n + 2)' = r.dev
    BY <1>1, <2>3 DEF DevBefore
  <2> QED BY <1>4, <1>7, <2>3, <2>4 DEF OutsideBefore, Above
<1>8. CASE ~Positive(r)
  <2>1. UsableBefore(n + 2)' = UsableBefore(n + 1)
    BY <1>5, <1>8
  <2>2. DevBefore(n + 2)' = DevBefore(n + 1)
    BY <1>3, <1>6, <2>1 DEF DevBefore
  <2> QED BY <1>4, <1>8, <2>1, <2>2 DEF OutsideBefore, Above
<1> QED BY <1>4, <1>7, <1>8

(* One update of the strategy, whatever the mids.                          *)
LEMMA UpdateKeeps ==
    ASSUME StrategyInv, NEW s2, NEW p2, OnUpdate(s2, p2)
    PROVE  StrategyInv' /\ Len(samples') = Len(samples) + 1
<1> DEFINE raw == RawDeviation(s2, p2)
<1>1. PICK n : n = Len(samples)
  OBVIOUS
<1>2. PICK dev, event :
        /\ samples' = Append(samples, Sample(s2, p2, dev, event))
        /\ IF s2 > 0 /\ p2 > 0
             THEN /\ dev = Averaged(ewma, raw) /\ ewma' = dev
                  /\ armed' = ~Above(dev) /\ event = (Above(dev) /\ armed)
             ELSE event = FALSE /\ UNCHANGED <<ewma, armed>>
  BY DEF OnUpdate, Usable, TakeSample, Skip
<1> HIDE DEF raw
<1>3. PICK r : r = Sample(s2, p2, dev, event)
  OBVIOUS
<1>4. /\ r.spot2 = s2 /\ r.perp2 = p2 /\ r.dev = dev /\ (r.event <=> event)
      /\ (Positive(r) <=> s2 > 0 /\ p2 > 0)
  BY <1>3 DEF Sample, Positive
<1>5. samples' = Append(samples, r)
  BY <1>2, <1>3
<1>6. /\ \E S : samples' \in Seq(S)
      /\ n \in Nat /\ Len(samples') = n + 1
      /\ DOMAIN samples = 1 .. n /\ DOMAIN samples' = 1 .. n + 1
      /\ \A i \in 1 .. n : samples'[i] = samples[i]
      /\ samples'[n + 1] = r
  BY <1>1, <1>5, SamplesGrow
<1>7. /\ armed \in BOOLEAN /\ ewma = DevBefore(n + 1) /\ (armed <=> ~OutsideBefore(n + 1))
  BY <1>1 DEF StrategyInv
<1>8. /\ \A k \in 1 .. n + 1 : DevBefore(k)' = DevBefore(k) /\ OutsideBefore(k)' = OutsideBefore(k)
      /\ Positive(r) => DevBefore(n + 2)' = r.dev /\ OutsideBefore(n + 2)' = Above(r.dev)
      /\ ~Positive(r) => /\ DevBefore(n + 2)' = DevBefore(n + 1)
                         /\ OutsideBefore(n + 2)' = OutsideBefore(n + 1)
  BY <1>1, <1>5, BeforeGrows
<1>9. /\ armed' \in BOOLEAN /\ ewma' = DevBefore(n + 2)' /\ (armed' <=> ~OutsideBefore(n + 2)')
  BY <1>2, <1>4, <1>7, <1>8, Zenon DEF Above, OutsideBefore
<1>10. EventsAreCrossings'
  <2> SUFFICES ASSUME NEW k \in 1 .. n + 1
               PROVE  IF Positive(samples'[k])
                        THEN /\ samples'[k].dev = Averaged(DevBefore(k)', RawDeviation(samples'[k].spot2, samples'[k].perp2))
                             /\ samples'[k].event <=> Above(samples'[k].dev) /\ ~OutsideBefore(k)'
                        ELSE ~samples'[k].event
    BY <1>6 DEF EventsAreCrossings, Positive, Averaged, RawDeviation, Above
  <2>1. DevBefore(k)' = DevBefore(k) /\ OutsideBefore(k)' = OutsideBefore(k)
    BY <1>8
  <2>2. CASE k \in 1 .. n
    BY <1>6, <2>1, <2>2 DEF StrategyInv, EventsAreCrossings
  <2>3. CASE k = n + 1
    <3>1. samples'[k] = r
      BY <1>6, <2>3
    <3>2. CASE Positive(r)
      BY <1>2, <1>4, <1>7, <2>1, <2>3, <3>1, <3>2 DEF raw
    <3>3. CASE ~Positive(r)
      BY <1>2, <1>4, <3>1, <3>3
    <3> QED BY <3>2, <3>3
  <2> QED BY <1>6, <2>2, <2>3
<1>11. (n + 1) + 1 = n + 2
  BY <1>6
<1>12. StrategyInv'
  BY <1>6, <1>9, <1>10, <1>11 DEF StrategyInv
<1> QED BY <1>1, <1>6, <1>12

(* A frame that was read: counted once, and seen by the strategy at most   *)
(* once.                                                                   *)
LEMMA FrameCounted ==
    ASSUME ReplayInv, NEW len \in ClaimedLengths, AtFrame, ReadFrame(len),
           ~terminated, OnFrame(got'[Len(got')]), TapeTypes'
    PROVE  (Counted /\ StrategyInv)'
<1>1. Len(got') = Len(got) + 1 /\ Len(got) \in Nat
  <2>1. len \in Nat /\ got \in Seq(Seq(Byte)) /\ TapeTypes
    BY ClaimedAreLengths DEF ReplayInv, TapeTypes
  <2>2. SubSeq(bytes, pos + 1, pos + FrameHeaderLen + len) \in Seq(Byte)
    BY <2>1, FrameRead DEF ReadFrame
  <2>3. got' = Append(got, SubSeq(bytes, pos + 1, pos + FrameHeaderLen + len))
    BY DEF ReadFrame
  <2> QED BY <2>1, <2>2, <2>3, AppendProperties, LenProperties
<1>2. /\ parsedOk \in Nat /\ parsedErr \in Nat /\ parsedOk + parsedErr = Len(got) /\ Len(samples) <= parsedOk
      /\ terminated = FALSE
  BY DEF ReplayInv, Counted
<1>3. StrategyInv /\ Len(samples) \in Nat
  BY LenProperties DEF ReplayInv, StrategyInv
<1>4. ASSUME UNCHANGED strategyVars PROVE StrategyInv' /\ samples' = samples
  BY <1>3, <1>4 DEF strategyVars, StrategyInv, EventsAreCrossings, DevBefore, OutsideBefore,
                    UsableBefore, Positive, Above, Averaged, RawDeviation
<1>5. ASSUME CountError, UNCHANGED <<bookVars, strategyVars>>
      PROVE  (Counted /\ StrategyInv)'
  <2>1. StrategyInv' /\ samples' = samples
    BY <1>4, <1>5
  <2>2. terminated' = FALSE /\ UNCHANGED <<parsedOk, samples>> /\ parsedErr' = parsedErr + 1
    BY <1>2, <1>5, <2>1 DEF CountError
  <2>3. Counted'
    <3>1. terminated' \in BOOLEAN /\ (IF terminated' THEN 1 ELSE 0) = 0
      BY <2>2, Zenon
    <3>2. parsedOk' \in Nat /\ parsedErr' \in Nat /\ parsedOk' + parsedErr' = Len(got') - 0
      BY <1>1, <1>2, <2>2
    <3>3. Len(samples') <= parsedOk'
      BY <1>2, <2>2
    <3> QED BY <3>1, <3>2, <3>3, Zenon DEF Counted
  <2> QED BY <2>1, <2>3
<1>6. ASSUME terminated' = TRUE, UNCHANGED <<parsedOk, parsedErr, bookVars, strategyVars>>
      PROVE  (Counted /\ StrategyInv)'
  <2>1. StrategyInv' /\ samples' = samples
    BY <1>4, <1>6
  <2> QED BY <1>1, <1>2, <1>6, <2>1 DEF Counted
<1>7. ASSUME parsedOk' = parsedOk + 1, RunStrategy, UNCHANGED <<parsedErr, terminated>>
      PROVE  (Counted /\ StrategyInv)'
  <2>1. ASSUME Len(samples') = Len(samples) \/ Len(samples') = Len(samples) + 1 PROVE Counted'
    <3>1. terminated' = FALSE /\ parsedErr' = parsedErr /\ parsedOk' = parsedOk + 1
      BY <1>2, <1>7
    <3>2. terminated' \in BOOLEAN /\ (IF terminated' THEN 1 ELSE 0) = 0
      BY <3>1, Zenon
    <3>3. parsedOk' \in Nat /\ parsedErr' \in Nat /\ parsedOk' + parsedErr' = Len(got') - 0
      BY <1>1, <1>2, <3>1
    <3>4. Len(samples') <= parsedOk'
      BY <1>2, <1>3, <2>1, <3>1
    <3> QED BY <3>2, <3>3, <3>4, Zenon DEF Counted
  <2>2. CASE UNCHANGED strategyVars
    <3>1. StrategyInv' /\ samples' = samples
      BY <1>4, <2>2
    <3> QED BY <3>1, <2>1
  <2>3. ASSUME NEW s2, NEW p2, OnUpdate(s2, p2) PROVE (Counted /\ StrategyInv)'
    <3>1. StrategyInv' /\ Len(samples') = Len(samples) + 1
      BY <1>3, <2>3, UpdateKeeps
    <3> QED BY <3>1, <2>1
  <2> QED BY <1>7, <2>2, <2>3 DEF RunStrategy
<1> QED BY <1>5, <1>6, <1>7 DEF OnFrame

LEMMA ReplayInvHolds == Spec => []ReplayInv
<1>1. Init => ReplayInv
  <2> SUFFICES ASSUME Init PROVE ReplayInv
    OBVIOUS
  <2>1. /\ Len(sent) = 0 /\ Len(bytes) = 0 /\ Len(got) = 0 /\ Len(result) = 0 /\ Len(samples) = 0
        /\ sent = <<>> /\ bytes = <<>> /\ got = <<>> /\ result = <<>> /\ samples = <<>>
    BY DEF Init, TapeInit
  <2>2. TapeTypes
    BY <2>1, TapeAssumption DEF Init, TapeInit, TapeTypes, ResultTypes
  <2>3. Counted
    <3>1. parsedOk = 0 /\ parsedErr = 0 /\ terminated = FALSE
      BY DEF Init
    <3>2. terminated \in BOOLEAN /\ (IF terminated THEN 1 ELSE 0) = 0
      BY <3>1, Zenon
    <3>3. parsedOk \in Nat /\ parsedErr \in Nat /\ parsedOk + parsedErr = Len(got) - 0 /\ Len(samples) <= parsedOk
      BY <2>1, <3>1
    <3> QED BY <3>2, <3>3, Zenon DEF Counted
  <2>4. samples \in Seq(Nat) /\ DOMAIN samples = {}
    BY <2>1
  <2>5. StrategyInv
    <3>1. UsableBefore(1) = {}
      BY DEF UsableBefore
    <3> QED BY <2>1, <2>4, <3>1 DEF Init, StrategyInv, EventsAreCrossings, DevBefore, OutsideBefore
  <2> QED BY <2>2, <2>3, <2>5 DEF ReplayInv
<1>2. ReplayInv /\ [Next]_vars => ReplayInv'
  <2> SUFFICES ASSUME ReplayInv, [Next]_vars PROVE ReplayInv'
    OBVIOUS
  <2>1. TapeTypes /\ TapeTypes'
    <3>1. TapeTypes /\ UNCHANGED tapeVars => TapeTypes'
      BY DEF TapeTypes, ResultTypes, tapeVars, writerVars, readerVars
    <3> QED BY <3>1, TypesKept, StepIsTapeStep DEF ReplayInv
  <2>2. ASSUME got' = got, UNCHANGED <<strategyVars, mainVars>> PROVE ReplayInv'
    BY <2>1, <2>2 DEF ReplayInv, Counted, StrategyInv, EventsAreCrossings, DevBefore, OutsideBefore,
                      UsableBefore, Positive, Above, Averaged, RawDeviation, strategyVars, mainVars
  <2>3. CASE UNCHANGED vars
    BY <2>2, <2>3 DEF vars, tapeVars, readerVars
  <2>4. CASE TapeOnly
    <3>1. got' = got
      BY <2>4 DEF TapeOnly, Writer, OpenWriter, WriteFrame, Flush, CloseWriter, CrashWriter,
                  OpenReader, ReadEnd, readerVars
    <3> QED BY <2>2, <2>4, <3>1 DEF TapeOnly
  <2>5. ASSUME NEW len \in ClaimedLengths, ~terminated, AtFrame, ReadFrame(len), OnFrame(got'[Len(got')])
        PROVE  ReplayInv'
    <3>1. (Counted /\ StrategyInv)'
      BY <2>1, <2>5, FrameCounted
    <3> QED BY <2>1, <3>1 DEF ReplayInv
  <2>6. ASSUME NEW len, ReadTornPayload(len), UNCHANGED <<bookVars, strategyVars, mainVars>>
        PROVE  ReplayInv'
    BY <2>2, <2>6 DEF ReadTornPayload
  <2> QED BY <2>3, <2>4, <2>5, <2>6 DEF Next, ReplayFrame
<1> QED BY <1>1, <1>2, PTL DEF Spec

(* The tape's state is of its type, whatever calls failed.                 *)
THEOREM TapeTypeCorrect == Spec => []TapeTypeOK
<1>1. ReplayInv => TapeTypeOK
  <2> SUFFICES ASSUME TapeTypes PROVE TapeTypeOK
    BY DEF ReplayInv
  <2>1. Len(bytes) \in Nat /\ Len(got) \in Nat /\ pos \in 0 .. Len(bytes) /\ Len(got) <= pos
    BY LenProperties DEF TapeTypes
  <2>2. \A i \in DOMAIN bytes : bytes[i] \in Nat \X Nat
    BY LenProperties, ElementOfSeq DEF TapeTypes, Byte
  <2>3. result \in Seq(BOOLEAN) /\ Len(result) = Len(sent)
    BY DEF TapeTypes, ResultTypes
  <2>4. Len(got) <= Len(bytes)
    BY <2>1
  <2> QED BY <2>1, <2>2, <2>3, <2>4, Zenon DEF TapeTypes, TapeTypeOK
<1> QED BY <1>1, ReplayInvHolds, PTL

(* Every frame that read_frame returned is counted as parsed or as an      *)
(* error, except the one whose stream is no string and ends the program;   *)
(* and the strategy has seen no more than the parsed ones.                 *)
THEOREM EveryFrameIsCounted ==
    Spec => [](/\ parsedOk + parsedErr = Len(got) - (IF terminated THEN 1 ELSE 0)
               /\ Len(samples) <= parsedOk)
<1>1. ReplayInv => /\ parsedOk + parsedErr = Len(got) - (IF terminated THEN 1 ELSE 0)
                   /\ Len(samples) <= parsedOk
  BY DEF ReplayInv, Counted
<1> QED BY <1>1, ReplayInvHolds, PTL

(* One event per excursion of the smoothed deviation beyond the threshold  *)
(* to either side, and none for mids that are not positive, which neither  *)
(* end an excursion nor enter the average: whatever prices the frames      *)
(* hold, the threshold and the weights.                                    *)
THEOREM OneEventPerExcursion == Spec => []EventsAreCrossings
<1>1. ReplayInv => EventsAreCrossings
  BY DEF ReplayInv, StrategyInv
<1> QED BY <1>1, ReplayInvHolds, PTL
-----------------------------------------------------------------------------
(* The books.                                                              *)

Diffs == Seq([px : Prices, qty : Int])

(* What the first updates leave of a side: of each price, the last of them *)
(* that speaks of it.                                                      *)
Speaking(updates, s, p) == {k \in s : updates[k].px = p}
LastWord(levels, updates, s) ==
    {p \in Prices : IF Speaking(updates, s, p) = {} THEN p \in levels
                    ELSE updates[Max(Speaking(updates, s, p))].qty > 0}
AfterUpdate(levels, u) == IF u.qty > 0 THEN levels \cup {u.px} ELSE levels \ {u.px}

LEMMA LastWordStep ==
    ASSUME NEW levels \in SUBSET Prices, NEW updates \in Diffs,
           NEW s, s \subseteq DOMAIN updates, s # {}
    PROVE  /\ Max(s) \in s
           /\ LastWord(levels, updates, s)
                = AfterUpdate(LastWord(levels, updates, s \ {Max(s)}), updates[Max(s)])
<1>1. PICK n \in Nat : DOMAIN updates = 1 .. n
  BY LenProperties DEF Diffs
<1>2. PICK x : x = Max(s)
  OBVIOUS
<1>3. x \in s /\ \A y \in s : x >= y
  BY <1>1, <1>2, MaxIs
<1>4. updates[x].px \in Prices /\ updates[x].qty \in Int
  <2>1. updates \in Seq([px : Prices, qty : Int]) /\ x \in 1 .. Len(updates)
    BY <1>3, LenProperties DEF Diffs
  <2>2. updates[x] \in [px : Prices, qty : Int]
    BY <2>1, ElementOfSeq
  <2> QED BY <2>2
<1>5. ASSUME NEW p \in Prices, p # updates[x].px
      PROVE  Speaking(updates, s, p) = Speaking(updates, s \ {x}, p)
  BY <1>5 DEF Speaking
<1>6. /\ Speaking(updates, s, updates[x].px) # {}
      /\ Max(Speaking(updates, s, updates[x].px)) = x
  <2>1. PICK S : S = Speaking(updates, s, updates[x].px)
    OBVIOUS
  <2>2. S \subseteq 1 .. n /\ x \in S /\ \A y \in S : x >= y
    BY <1>1, <1>3, <2>1 DEF Speaking
  <2>3. Max(S) = x
    BY <2>2, MaxOf
  <2> QED BY <2>1, <2>2, <2>3
<1>7. ASSUME NEW p \in Prices
      PROVE  p \in LastWord(levels, updates, s)
               <=> p \in AfterUpdate(LastWord(levels, updates, s \ {x}), updates[x])
  <2>1. CASE p = updates[x].px
    BY <1>6, <2>1 DEF LastWord, AfterUpdate
  <2>2. CASE p # updates[x].px
    BY <1>5, <2>2 DEF LastWord, AfterUpdate
  <2> QED BY <2>1, <2>2
<1>8. /\ LastWord(levels, updates, s) \subseteq Prices
      /\ AfterUpdate(LastWord(levels, updates, s \ {x}), updates[x]) \subseteq Prices
  BY <1>4 DEF LastWord, AfterUpdate
<1>9. LastWord(levels, updates, s) = AfterUpdate(LastWord(levels, updates, s \ {x}), updates[x])
  BY <1>7, <1>8
<1> QED BY <1>2, <1>3, <1>9

(* apply_diff_ leaves, of each price, what the last update of it says.     *)
LEMMA DiffIsLastWord ==
    ASSUME NEW levels \in SUBSET Prices, NEW updates \in Diffs
    PROVE  ApplyDiff(levels, updates) = LastWord(levels, updates, DOMAIN updates)
<1>1. PICK D : D = DOMAIN updates
  OBVIOUS
<1>2. PICK n \in Nat : D = 1 .. n
  BY <1>1, LenProperties DEF Diffs
<1> DEFINE Step1(f) == [s \in SUBSET D |->
                          IF s = {} THEN levels
                          ELSE AfterUpdate(f[s \ {Max(s)}], updates[Max(s)])]
           fold == CHOOSE f : f = Step1(f)
<1>3. ApplyDiff(levels, updates) = fold[D]
  BY <1>1 DEF ApplyDiff, FoldLeft, MapThenFoldSet, AfterUpdate
<1>4. fold = Step1(fold)
  <2>1. PICK f : f = [s \in SUBSET D |-> LastWord(levels, updates, s)]
    OBVIOUS
  <2>2. LastWord(levels, updates, {}) = levels
    BY DEF LastWord, Speaking
  <2>3. ASSUME NEW s \in SUBSET D, s # {}
        PROVE  f[s] = AfterUpdate(f[s \ {Max(s)}], updates[Max(s)])
    <3>1. LastWord(levels, updates, s)
            = AfterUpdate(LastWord(levels, updates, s \ {Max(s)}), updates[Max(s)])
      BY <1>1, <2>3, LastWordStep
    <3>2. s \ {Max(s)} \in SUBSET D
      OBVIOUS
    <3> QED BY <2>1, <3>1, <3>2
  <2>4. f = Step1(f)
    <3>1. \A s \in SUBSET D :
            f[s] = IF s = {} THEN levels ELSE AfterUpdate(f[s \ {Max(s)}], updates[Max(s)])
      BY <2>1, <2>2, <2>3
    <3> QED BY <2>1, <3>1
  <2>5. \E g : g = Step1(g)
    BY <2>4
  <2> HIDE DEF Step1
  <2> QED BY <2>5
<1> HIDE DEF fold
<1> DEFINE Agreed == {m \in Nat : m <= n => fold[1 .. m] = LastWord(levels, updates, 1 .. m)}
<1>5. 0 \in Agreed
  <2>1. fold[{}] = levels
    BY <1>4
  <2>2. LastWord(levels, updates, {}) = levels
    BY DEF LastWord, Speaking
  <2>3. 1 .. 0 = {}
    OBVIOUS
  <2> QED BY <2>1, <2>2, <2>3
<1>6. ASSUME NEW m \in Nat, m \in Agreed PROVE m + 1 \in Agreed
  <2> SUFFICES ASSUME m + 1 <= n
               PROVE  fold[1 .. m + 1] = LastWord(levels, updates, 1 .. m + 1)
    OBVIOUS
  <2>1. PICK s : s = 1 .. m + 1
    OBVIOUS
  <2>2. s \in SUBSET D /\ s # {} /\ m + 1 \in s /\ \A y \in s : m + 1 >= y
    BY <1>2, <2>1
  <2>3. Max(s) = m + 1
    <3>1. s \subseteq 1 .. n
      BY <1>2, <2>2
    <3> QED BY <2>2, <3>1, MaxOf
  <2>4. s \ {m + 1} = 1 .. m
    BY <2>1
  <2>5. fold[s] = AfterUpdate(fold[1 .. m], updates[m + 1])
    <3>1. fold[s] = AfterUpdate(fold[s \ {Max(s)}], updates[Max(s)])
      BY <1>4, <2>2
    <3> QED BY <2>3, <2>4, <3>1
  <2>6. LastWord(levels, updates, s) = AfterUpdate(LastWord(levels, updates, 1 .. m), updates[m + 1])
    BY <1>1, <2>2, <2>3, <2>4, LastWordStep
  <2>7. fold[1 .. m] = LastWord(levels, updates, 1 .. m)
    BY <1>6
  <2> QED BY <2>1, <2>5, <2>6, <2>7
<1> HIDE DEF Agreed
<1>7. n \in Agreed
  BY <1>5, <1>6, SetInduction
<1> QED BY <1>1, <1>2, <1>3, <1>7 DEF Agreed

(* A frame that counts as parsed is one that was written.                  *)
LEMMA ParsedIsContent ==
    ASSUME TapeTypes, NEW f, Parsed(f)
    PROVE  Content(f) \in Contents /\ Content(f).kind \in Updating
<1>1. PICK n \in DOMAIN sent : f = FrameBytes(n)
  BY DEF Parsed, Genuine
<1>2. n \in Nat /\ sent[n] \in Contents
  BY LenProperties, ElementOfSeq DEF TapeTypes
<1>3. FrameLen(sent[n]) \in Nat \ {0}
  BY <1>2, LengthsAre
<1>4. f[1] = <<n, 1>>
  <2>1. PICK k \in Nat : k = FrameLen(sent[n]) /\ 1 \in 1 .. k
    BY <1>3
  <2>2. Bytes(n, 1, k)[1] = <<n, 1>>
    BY <1>2, <2>1, BytesAre
  <2> QED BY <1>1, <2>1, <2>2 DEF FrameBytes
<1> QED BY <1>2, <1>4 DEF Parsed, Content

Side(v, side) == IF side = "bid" THEN bids[v] ELSE asks[v]
SideAfter(c, side) == IF side = "bid" THEN BidsAfter(c) ELSE AsksAfter(c)
BookTypes == bids \in [Venues -> SUBSET Prices] /\ asks \in [Venues -> SUBSET Prices]

(* What one content does to a side of its book: of the prices it speaks of *)
(* it says what is there, the others stay.                                 *)
LEMMA ContentOnSide ==
    ASSUME BookTypes, NEW c \in Contents, c.kind \in Updating, NEW side \in {"bid", "ask"}
    PROVE  /\ c.venue \in Venues
           /\ SideAfter(c, side) \in SUBSET Prices
           /\ \A p \in Prices :
                 p \in SideAfter(c, side)
                   <=> IF Mentions(c, side, p) THEN Sets(c, side, p) ELSE p \in Side(c.venue, side)
<1>1. WellFormed(c) /\ c.venue \in Venues
  BY ReplayAssumption DEF WellFormed
<1>2. bids[c.venue] \in SUBSET Prices /\ asks[c.venue] \in SUBSET Prices
  BY <1>1 DEF BookTypes
<1>3. CASE Quoting(c)
  <2>1. c.bid \in Prices /\ c.ask \in Prices
    BY <1>1, <1>3 DEF WellFormed, Quoting
  <2>2. SideAfter(c, side) = {IF side = "bid" THEN c.bid ELSE c.ask}
    BY <1>3 DEF SideAfter, BidsAfter, AsksAfter, SnapshotLevels, Quoting
  <2>3. \A p : Mentions(c, side, p) /\ (Sets(c, side, p) <=> (IF side = "bid" THEN c.bid ELSE c.ask) = p)
    BY <1>3 DEF Mentions, Sets
  <2> QED BY <1>1, <2>1, <2>2, <2>3
<1>4. CASE c.kind = "depth"
  <2>1. ~Quoting(c)
    BY <1>4 DEF Quoting
  <2>2. PICK u : u = Updates(c, side)
    OBVIOUS
  <2>3. u \in Diffs
    BY <1>1, <1>4, <2>2 DEF WellFormed, Diffs, Updates
  <2>4. SideAfter(c, side) = LastWord(Side(c.venue, side), u, DOMAIN u)
    <3>1. SideAfter(c, side) = ApplyDiff(Side(c.venue, side), u)
      BY <1>4, <2>1, <2>2 DEF SideAfter, Side, BidsAfter, AsksAfter, Updates, Quoting
    <3>2. Side(c.venue, side) \in SUBSET Prices
      BY <1>2 DEF Side
    <3> QED BY <2>3, <3>1, <3>2, DiffIsLastWord
  <2>5. ASSUME NEW p \in Prices
        PROVE  p \in SideAfter(c, side)
                 <=> IF Mentions(c, side, p) THEN Sets(c, side, p) ELSE p \in Side(c.venue, side)
    <3>1. PICK ks : ks = Speaking(u, DOMAIN u, p)
      OBVIOUS
    <3>2. Mentions(c, side, p) <=> ks # {}
      BY <1>4, <2>1, <2>2, <3>1 DEF Mentions, Speaking
    <3>3. Sets(c, side, p) <=> u[Max(ks)].qty > 0
      BY <2>1, <2>2, <3>1 DEF Sets, Speaking
    <3>4. p \in SideAfter(c, side) <=> IF ks = {} THEN p \in Side(c.venue, side) ELSE u[Max(ks)].qty > 0
      BY <2>4, <3>1 DEF LastWord
    <3> QED BY <3>2, <3>3, <3>4
  <2>6. SideAfter(c, side) \subseteq Prices
    BY <2>4 DEF LastWord
  <2> QED BY <1>1, <2>5, <2>6
<1>5. CASE ~Quoting(c) /\ c.kind # "depth"
  <2>1. SideAfter(c, side) = Side(c.venue, side)
    BY <1>5 DEF SideAfter, Side, BidsAfter, AsksAfter, Quoting
  <2>2. \A p : ~Mentions(c, side, p)
    BY <1>5 DEF Mentions
  <2> QED BY <1>1, <1>2, <2>1, <2>2 DEF Side
<1> QED BY <1>3, <1>4, <1>5

About(v, side, p) == {i \in Heard(v) : Mentions(Content(got[i]), side, p)}
IsAbout(f, v, side, p) ==
    Parsed(f) /\ Content(f).venue = v /\ Mentions(Content(f), side, p)

LEMMA AboutGrows ==
    ASSUME TapeTypes, sent' = sent, NEW f \in Seq(Byte), got' = Append(got, f),
           NEW v, NEW side, NEW p
    PROVE  /\ Len(got) \in Nat /\ About(v, side, p) \subseteq 1 .. Len(got)
           /\ got'[Len(got) + 1] = f /\ \A i \in 1 .. Len(got) : got'[i] = got[i]
           /\ About(v, side, p)' = About(v, side, p)
                \cup (IF IsAbout(f, v, side, p) THEN {Len(got) + 1} ELSE {})
<1>1. PICK n \in Nat : n = Len(got) /\ DOMAIN got = 1 .. n
  BY LenProperties DEF TapeTypes
<1>2. /\ DOMAIN got' = 1 .. n + 1 /\ got'[n + 1] = f
      /\ \A i \in 1 .. n : got'[i] = got[i]
  <2>1. got \in Seq(Seq(Byte))
    BY DEF TapeTypes
  <2>2. /\ got' \in Seq(Seq(Byte)) /\ Len(got') = n + 1 /\ got'[n + 1] = f
        /\ \A i \in 1 .. n : got'[i] = got[i]
    BY <1>1, <2>1, AppendProperties
  <2> QED BY <2>2, LenProperties
<1>3. About(v, side, p) = {i \in 1 .. n : IsAbout(got[i], v, side, p)}
  BY <1>1 DEF About, Heard, IsAbout
<1>4. About(v, side, p)' = {i \in 1 .. n + 1 : IsAbout(got'[i], v, side, p)}
  BY <1>2 DEF About, Heard, IsAbout, Parsed, Genuine, Content, FrameBytes
<1>5. \A i \in 1 .. n : IsAbout(got'[i], v, side, p) <=> IsAbout(got[i], v, side, p)
  BY <1>2
<1>6. IsAbout(got'[n + 1], v, side, p) <=> IsAbout(f, v, side, p)
  BY <1>2
<1> HIDE DEF IsAbout
<1>7. \A i : i \in 1 .. n + 1 <=> i \in 1 .. n \/ i = n + 1
  OBVIOUS
<1> QED BY <1>1, <1>2, <1>3, <1>4, <1>5, <1>6, <1>7

BookInv == BookTypes /\ BookIsLastWord

(* Reading one more frame keeps every level what its last word says.       *)
LEMMA FrameOnBooks ==
    ASSUME TapeTypes, BookInv, sent' = sent, NEW f \in Seq(Byte), got' = Append(got, f),
           ~Parsed(f) => UNCHANGED bookVars,
           Parsed(f) => ApplyToBook(Content(f))
    PROVE  BookInv'
<1>1. BookTypes /\ BookIsLastWord
  BY DEF BookInv
<1>2. ASSUME Parsed(f)
      PROVE  LET c == Content(f)
             IN  /\ c \in Contents /\ c.kind \in Updating /\ c.venue \in Venues
                 /\ \A side \in {"bid", "ask"} : SideAfter(c, side) \in SUBSET Prices
                 /\ bids' = [bids EXCEPT ![c.venue] = SideAfter(c, "bid")]
                 /\ asks' = [asks EXCEPT ![c.venue] = SideAfter(c, "ask")]
  <2>1. PICK c : c = Content(f)
    OBVIOUS
  <2>2. c \in Contents /\ c.kind \in Updating
    BY <1>2, <2>1, ParsedIsContent
  <2>3. c.venue \in Venues /\ \A side \in {"bid", "ask"} : SideAfter(c, side) \in SUBSET Prices
    BY <1>1, <2>2, ContentOnSide
  <2>4. bids' = [bids EXCEPT ![c.venue] = BidsAfter(c)] /\ asks' = [asks EXCEPT ![c.venue] = AsksAfter(c)]
    BY <1>2, <2>1 DEF ApplyToBook
  <2>5. SideAfter(c, "bid") = BidsAfter(c) /\ SideAfter(c, "ask") = AsksAfter(c)
    BY DEF SideAfter
  <2> QED BY <2>1, <2>2, <2>3, <2>4, <2>5
<1>3. BookTypes'
  <2>1. CASE ~Parsed(f)
    BY <1>1, <2>1 DEF bookVars, BookTypes
  <2>2. CASE Parsed(f)
    <3>1. PICK v \in Venues, b \in SUBSET Prices, a \in SUBSET Prices :
            bids' = [bids EXCEPT ![v] = b] /\ asks' = [asks EXCEPT ![v] = a]
      BY <1>2, <2>2
    <3> QED BY <1>1, <3>1 DEF BookTypes
  <2> QED BY <2>1, <2>2
<1>4. ASSUME NEW v \in Venues, NEW side \in {"bid", "ask"}, NEW p \in Prices
      PROVE  p \in Side(v, side)' <=> IF IsAbout(f, v, side, p) THEN Sets(Content(f), side, p)
                                      ELSE p \in Side(v, side)
  <2>1. CASE ~Parsed(f)
    BY <2>1 DEF bookVars, Side, IsAbout
  <2>2. CASE Parsed(f)
    <3>1. PICK c : c = Content(f)
      OBVIOUS
    <3>2. CASE c.venue = v
      <4>1. Side(v, side)' = SideAfter(c, side)
        BY <1>1, <1>2, <2>2, <3>1, <3>2 DEF Side, BookTypes
      <4>2. p \in SideAfter(c, side) <=> IF Mentions(c, side, p) THEN Sets(c, side, p) ELSE p \in Side(v, side)
        BY <1>1, <1>2, <2>2, <3>1, <3>2, ContentOnSide
      <4> QED BY <2>2, <3>1, <3>2, <4>1, <4>2 DEF IsAbout
    <3>3. CASE c.venue # v
      <4>1. Side(v, side)' = Side(v, side)
        BY <1>1, <1>2, <2>2, <3>1, <3>3 DEF Side, BookTypes
      <4> QED BY <3>1, <3>3, <4>1 DEF IsAbout
    <3> QED BY <3>2, <3>3
  <2> QED BY <2>1, <2>2
<1>5. ASSUME NEW v \in Venues, NEW side \in {"bid", "ask"}, NEW p \in Prices
      PROVE  p \in Side(v, side)'
               <=> About(v, side, p)' # {}
                     /\ Sets(Content(got'[Max(About(v, side, p)')]), side, p)
  <2>1. PICK n, A, B : n = Len(got) /\ A = About(v, side, p) /\ B = About(v, side, p)'
    OBVIOUS
  <2>2. /\ n \in Nat /\ A \subseteq 1 .. n
        /\ got'[n + 1] = f /\ \A i \in 1 .. n : got'[i] = got[i]
        /\ B = A \cup (IF IsAbout(f, v, side, p) THEN {n + 1} ELSE {})
    BY <2>1, AboutGrows
  <2>3. p \in Side(v, side) <=> A # {} /\ Sets(Content(got[Max(A)]), side, p)
    BY <1>1, <2>1 DEF BookIsLastWord, Side, About
  <2>4. CASE IsAbout(f, v, side, p)
    <3>1. B \subseteq 1 .. n + 1 /\ n + 1 \in B /\ \A y \in B : n + 1 >= y
      BY <2>2, <2>4
    <3>2. Max(B) = n + 1
      <4>1. n + 1 \in Nat
        BY <2>2
      <4> QED BY <3>1, <4>1, MaxOf
    <3> QED BY <1>4, <2>1, <2>2, <2>4, <3>1, <3>2
  <2>5. CASE ~IsAbout(f, v, side, p)
    <3>1. B = A
      BY <2>2, <2>5
    <3>2. A # {} => got'[Max(A)] = got[Max(A)]
      BY <2>2, MaxIs
    <3> QED BY <1>4, <2>1, <2>3, <2>5, <3>1, <3>2
  <2> QED BY <2>4, <2>5
<1>6. BookIsLastWord'
  <2> SUFFICES ASSUME NEW v \in Venues, NEW side \in {"bid", "ask"}, NEW p \in Prices
               PROVE  (p \in Side(v, side)
                         <=> About(v, side, p) # {}
                               /\ Sets(Content(got[Max(About(v, side, p))]), side, p))'
    BY DEF BookIsLastWord, Side, About
  <2>1. Content(got[Max(About(v, side, p))])' = Content(got'[Max(About(v, side, p)')])
    BY DEF Content
  <2> QED BY <1>5, <2>1
<1> QED BY <1>3, <1>6 DEF BookInv

-----------------------------------------------------------------------------
(* The strategy's average is a number.                                     *)

LEMMA PricesBounded == \E n \in Nat : Prices \subseteq -n .. n
<1>1. PICK seq \in Seq(Prices) : \A p \in Prices : \E k \in 1 .. Len(seq) : seq[k] = p
  BY ReplayAssumption DEF IsFiniteSet
<1> DEFINE Bounded(m) == \E top \in Nat : \A k \in 1 .. m : k <= Len(seq) => seq[k] \in -top .. top
           T == {m \in Nat : Bounded(m)}
<1>2. Len(seq) \in Nat /\ \A k \in 1 .. Len(seq) : seq[k] \in Int
  BY LenProperties, ElementOfSeq, ReplayAssumption
<1>3. 0 \in T
  OBVIOUS
<1>4. ASSUME NEW m \in Nat, m \in T PROVE m + 1 \in T
  <2>1. PICK top \in Nat : \A k \in 1 .. m : k <= Len(seq) => seq[k] \in -top .. top
    BY <1>4
  <2>2. CASE m + 1 <= Len(seq)
    <3>1. PICK q \in Nat : seq[m + 1] \in Int /\ (q = seq[m + 1] \/ q = -seq[m + 1])
      <4>1. seq[m + 1] \in Int
        BY <1>2, <2>2
      <4>2. seq[m + 1] >= 0 \/ -seq[m + 1] >= 0
        BY <4>1
      <4> QED BY <4>1, <4>2
    <3>2. \A k \in 1 .. m + 1 : k <= Len(seq) => seq[k] \in -(top + q) .. top + q
      <4> TAKE k \in 1 .. m + 1
      <4>1. CASE k = m + 1
        BY <3>1, <4>1
      <4>2. CASE k \in 1 .. m
        BY <2>1, <3>1, <4>2
      <4> QED BY <4>1, <4>2
    <3>3. PICK sum \in Nat : sum = top + q
      BY <3>1
    <3>4. Bounded(m + 1)
      BY <3>2, <3>3
    <3> HIDE DEF Bounded
    <3> QED BY <3>4
  <2>3. CASE ~(m + 1 <= Len(seq))
    <3>1. \A k \in 1 .. m + 1 : k <= Len(seq) => seq[k] \in -top .. top
      BY <1>2, <2>1, <2>3
    <3> QED BY <3>1
  <2> QED BY <2>2, <2>3
<1> HIDE DEF T
<1>5. Len(seq) \in T
  BY <1>2, <1>3, <1>4, SetInduction
<1>6. PICK top \in Nat : \A k \in 1 .. Len(seq) : k <= Len(seq) => seq[k] \in -top .. top
  BY <1>5 DEF T
<1>7. \A k \in 1 .. Len(seq) : seq[k] \in -top .. top
  BY <1>2, <1>6
<1> QED BY <1>1, <1>7

LEMMA MidIs ==
    ASSUME NEW b \in SUBSET Prices, NEW a \in SUBSET Prices, Mid2(b, a) # None
    PROVE  Mid2(b, a) \in Int
<1>1. PICK n \in Nat : Prices \subseteq -n .. n
  BY PricesBounded
<1>2. b # {} /\ a # {} /\ Mid2(b, a) = Max(b) + Min(a)
  BY DEF Mid2
<1>3. PICK m \in Int : m = -n
  OBVIOUS
<1>4. b \subseteq m .. n /\ a \subseteq m .. n
  BY <1>1, <1>3
<1>5. n \in Int
  OBVIOUS
<1>6. Max(b) \in b
  BY <1>2, <1>3, <1>4, <1>5, MaxInRange
<1>7. Min(a) \in a
  BY <1>2, <1>3, <1>4, <1>5, MinInRange
<1>8. \A x \in m .. n : x \in Int
  BY <1>3
<1>9. Max(b) \in m .. n /\ Min(a) \in m .. n
  BY <1>4, <1>6, <1>7
<1>10. Max(b) \in Int /\ Min(a) \in Int
  BY <1>8, <1>9
<1> QED BY <1>2, <1>10

LEMMA AverageIsNumber ==
    ASSUME NEW s2 \in Int, NEW p2 \in Int, Usable(s2, p2), ewma \in Int \cup {None}
    PROVE  Averaged(ewma, RawDeviation(s2, p2)) \in Int
<1>1. PICK raw : raw = RawDeviation(s2, p2)
  OBVIOUS
<1>2. raw \in Int
  <2>1. PICK x : x = (p2 - s2) * Scale
    OBVIOUS
  <2>2. x \in Int /\ s2 \in Nat \ {0}
    BY <2>1, ReplayAssumption DEF Usable
  <2>3. x \div s2 \in Int
    BY <2>2, DivMod
  <2> QED BY <1>1, <2>1, <2>3 DEF RawDeviation
<1>3. CASE ewma = None
  BY <1>1, <1>2, <1>3 DEF Averaged
<1>4. CASE ewma # None
  <2>1. PICK x : x = AlphaNum * raw + (AlphaDen - AlphaNum) * ewma
    OBVIOUS
  <2>2. x \in Int /\ AlphaDen \in Nat \ {0}
    BY <1>2, <1>4, <2>1, ReplayAssumption
  <2>3. x \div AlphaDen \in Int
    BY <2>2, DivMod
  <2> QED BY <1>1, <1>4, <2>1, <2>3 DEF Averaged
<1> QED BY <1>3, <1>4

-----------------------------------------------------------------------------
(* The books and the average, as the tape is read.                         *)

AverageType == ewma \in Int \cup {None}

LEMMA AverageKept ==
    ASSUME AverageType, BookTypes', RunStrategy \/ UNCHANGED strategyVars
    PROVE  AverageType'
<1>1. CASE UNCHANGED strategyVars
  BY <1>1 DEF strategyVars, AverageType
<1>2. CASE RunStrategy /\ ~UNCHANGED strategyVars
  <2>1. PICK s2, p2 : /\ s2 = Mid2(bids'[Spot], asks'[Spot]) /\ p2 = Mid2(bids'[Perp], asks'[Perp])
                      /\ None \notin {s2, p2} /\ OnUpdate(s2, p2)
    BY <1>2 DEF RunStrategy
  <2>2. /\ bids'[Spot] \in SUBSET Prices /\ asks'[Spot] \in SUBSET Prices
        /\ bids'[Perp] \in SUBSET Prices /\ asks'[Perp] \in SUBSET Prices
    BY ReplayAssumption DEF BookTypes
  <2>3. s2 \in Int /\ p2 \in Int
    <3>1. s2 # None /\ p2 # None
      BY <2>1
    <3>2. s2 \in Int
      BY <2>1, <2>2, <3>1, MidIs
    <3>3. p2 \in Int
      BY <2>1, <2>2, <3>1, MidIs
    <3> QED BY <3>2, <3>3
  <2>4. CASE Usable(s2, p2) /\ TakeSample(s2, p2)
    <3>1. Averaged(ewma, RawDeviation(s2, p2)) \in Int
      BY <2>3, <2>4, AverageIsNumber DEF AverageType
    <3>2. ewma' = Averaged(ewma, RawDeviation(s2, p2))
      BY <2>4 DEF TakeSample
    <3> QED BY <3>1, <3>2 DEF AverageType
  <2>5. CASE Skip(s2, p2)
    BY <2>5 DEF Skip, AverageType
  <2> QED BY <2>1, <2>4, <2>5 DEF OnUpdate
<1> QED BY <1>1, <1>2

LEMMA BooksHold == Spec => [](BookInv /\ AverageType)
<1> DEFINE Inv == BookInv /\ AverageType
<1>1. Init => Inv
  <2> SUFFICES ASSUME Init PROVE Inv
    OBVIOUS
  <2>1. got = <<>> /\ DOMAIN got = {} /\ bids = [v \in Venues |-> {}] /\ asks = [v \in Venues |-> {}] /\ ewma = None
    BY DEF Init, TapeInit
  <2>2. \A v, side, p : About(v, side, p) = {}
    BY <2>1 DEF About, Heard
  <2>3. BookIsLastWord
    BY <2>1, <2>2 DEF BookIsLastWord, About
  <2> QED BY <2>1, <2>3 DEF BookInv, BookTypes, AverageType
<1>2. TapeTypes /\ Inv /\ [Next]_vars => Inv'
  <2> SUFFICES ASSUME TapeTypes, Inv, [Next]_vars PROVE Inv'
    OBVIOUS
  <2>1. ASSUME sent' = sent \/ got = <<>>, got' = got, UNCHANGED <<bookVars, strategyVars>> PROVE Inv'
    <3>1. \A v, side, p : About(v, side, p)' = About(v, side, p)
      <4>1. CASE sent' = sent
        BY <2>1, <4>1 DEF About, Heard, Parsed, Genuine, Content, FrameBytes
      <4>2. CASE got = <<>>
        BY <2>1, <4>2 DEF About, Heard
      <4> QED BY <2>1, <4>1, <4>2
    <3>2. BookIsLastWord'
      <4> SUFFICES ASSUME NEW v \in Venues, NEW side \in {"bid", "ask"}, NEW p \in Prices
                   PROVE  (p \in Side(v, side)
                             <=> About(v, side, p) # {}
                                   /\ Sets(Content(got[Max(About(v, side, p))]), side, p))'
        BY DEF BookIsLastWord, Side, About
      <4>1. p \in Side(v, side) <=> About(v, side, p) # {}
                                   /\ Sets(Content(got[Max(About(v, side, p))]), side, p)
        BY DEF BookInv, BookIsLastWord, Side, About
      <4>2. Side(v, side)' = Side(v, side)
        BY <2>1 DEF Side, bookVars
      <4>3. CASE sent' = sent
        <5>1. Content(got[Max(About(v, side, p))])' = Content(got[Max(About(v, side, p))])
          BY <2>1, <3>1, <4>3 DEF Content
        <5> QED BY <3>1, <4>1, <4>2, <5>1
      <4>4. CASE got = <<>>
        <5>1. About(v, side, p) = {}
          BY <4>4 DEF About, Heard
        <5> QED BY <3>1, <4>1, <4>2, <5>1
      <4> QED BY <2>1, <4>3, <4>4
    <3> QED BY <2>1, <3>2 DEF BookInv, BookTypes, AverageType, bookVars, strategyVars
  <2>2. CASE UNCHANGED vars
    BY <2>1, <2>2 DEF vars, tapeVars, readerVars, writerVars
  <2>3. CASE TapeOnly
    <3>1. got' = got
      BY <2>3 DEF TapeOnly, Writer, OpenWriter, WriteFrame, Flush, CloseWriter, CrashWriter,
                  OpenReader, ReadEnd, readerVars
    <3>2. sent' = sent \/ wstate = "open"
      BY <2>3 DEF TapeOnly, Writer, OpenWriter, WriteFrame, Flush, CloseWriter, CrashWriter,
                  OpenReader, ReadEnd, writerVars
    <3>3. wstate = "open" => got = <<>>
      <4>1. wstate = "open" => Len(got) = 0
        BY LenProperties DEF TapeTypes
      <4> QED BY <4>1, EmptySeq DEF TapeTypes
    <3> QED BY <2>1, <2>3, <3>1, <3>2, <3>3 DEF TapeOnly
  <2>4. ASSUME NEW len \in ClaimedLengths, AtFrame, ReadFrame(len), OnFrame(got'[Len(got')])
        PROVE  Inv'
    <3>1. PICK f : f = SubSeq(bytes, pos + 1, pos + FrameHeaderLen + len)
      OBVIOUS
    <3>2. f \in Seq(Byte) /\ got' = Append(got, f) /\ sent' = sent
      <4>1. len \in Nat
        BY <2>4, ClaimedAreLengths
      <4> QED BY <2>4, <3>1, <4>1, FrameRead DEF ReadFrame, writerVars
    <3>3. got'[Len(got')] = f
      <4>1. got \in Seq(Seq(Byte))
        BY DEF TapeTypes
      <4> QED BY <3>2, <4>1, AppendProperties
    <3>4. /\ ~Parsed(f) => UNCHANGED <<bookVars, strategyVars>>
          /\ Parsed(f) => ApplyToBook(Content(f)) /\ RunStrategy
      BY <2>4, <3>3 DEF OnFrame, Parsed, Unnamed, Updating
    <3>5. BookInv'
      BY <3>2, <3>4, FrameOnBooks
    <3>6. AverageType'
      BY <3>4, <3>5, AverageKept DEF BookInv
    <3> QED BY <3>5, <3>6
  <2>5. ASSUME NEW len, ReadTornPayload(len), UNCHANGED <<bookVars, strategyVars, mainVars>>
        PROVE  Inv'
    BY <2>1, <2>5 DEF ReadTornPayload, writerVars
  <2> QED BY <2>2, <2>3, <2>4, <2>5 DEF Next, ReplayFrame
<1>3. ReplayInv => TapeTypes
  BY DEF ReplayInv
<1> HIDE DEF Inv
<1>4. Spec => []Inv
  BY <1>1, <1>2, <1>3, ReplayInvHolds, PTL DEF Spec
<1> QED BY <1>4 DEF Inv

(* A level is in the book exactly if the last update of its venue that     *)
(* spoke of it set it: for any frames, crashes and failing writes.         *)
THEOREM BookHoldsLastWord == Spec => []BookIsLastWord
<1>1. BookInv => BookIsLastWord
  BY DEF BookInv
<1> QED BY <1>1, BooksHold, PTL

(* The state of the replay program is of its type: the books hold prices,  *)
(* the average is a number once there is one, and every frame is counted   *)
(* but the one that ended the program.                                     *)
THEOREM ReplayTypeCorrect == Spec => []TypeOK
<1>1. BookInv /\ AverageType /\ ReplayInv /\ TapeTypeOK => TypeOK
  BY DEF BookInv, BookTypes, AverageType, ReplayInv, Counted, StrategyInv, TypeOK
<1> QED BY <1>1, BooksHold, ReplayInvHolds, TapeTypeCorrect, PTL
=============================================================================
