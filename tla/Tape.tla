-------------------------------- MODULE Tape --------------------------------
(***************************************************************************)
(* The tape file of cpp/src/tape.cpp: a writer that appends frames through *)
(* a stdio buffer, whose calls may come up short and which may crash, and  *)
(* a reader that decodes whatever file is left.                            *)
(*                                                                         *)
(* The file is the sequence of its bytes.  A byte is known by where it     *)
(* comes from: <<n, k>> is the k-th byte of the n-th frame, frame 0 being  *)
(* the TapeHeader.  Nothing in the file but a FrameHeader's payload_len    *)
(* says where the next frame begins.                                       *)
(***************************************************************************)
EXTENDS Naturals, Sequences, SequencesExt

CONSTANTS
    Contents,           \* what a frame may hold
    PayloadLen,         \* bytes of payload of each content
    TapeHeaderLen,      \* sizeof(TapeHeader)
    FrameHeaderLen,     \* sizeof(FrameHeader)
    MaxFrames,          \* bound on the calls of write_frame
    MaxLossyFrames,     \* bound on those calls if the tape loses bytes
    MaxFailures         \* bound on the stdio calls that fail

ASSUME TapeAssumption ==
    /\ PayloadLen \in [Contents -> Nat]
    /\ TapeHeaderLen \in Nat \ {0} /\ FrameHeaderLen \in Nat \ {0}
    /\ MaxFailures \in Nat

VARIABLES
    wstate,     \* the writer: not begun, open, closed, crashed, or failed to open
    sent,       \* contents passed to write_frame, in order (history)
    result,     \* what each of those calls returned (history)
    bytes,      \* the bytes stdio has accepted; at the end, the file
    durable,    \* how many of them the system has for certain
    flushedFrames, \* frames sent when flush last succeeded (history)
    failures,   \* stdio calls that failed
    rstate,     \* the reader: not begun, reading, at the end, or threw
    pos,        \* its position in the file
    got         \* the frames read_frame has returned, as bytes (history)

writerVars == <<wstate, sent, result, bytes, durable, flushedFrames, failures>>
readerVars == <<rstate, pos, got>>
tapeVars == <<writerVars, readerVars>>

TapeInit ==
    /\ wstate = "new" /\ sent = <<>> /\ result = <<>>
    /\ bytes = <<>> /\ durable = 0 /\ flushedFrames = 0 /\ failures = 0
    /\ rstate = "none" /\ pos = 0 /\ got = <<>>

Bytes(n, from, to) == [k \in 1 .. to - from + 1 |-> <<n, from + k - 1>>]
FrameLen(c) == FrameHeaderLen + PayloadLen[c]
FrameBytes(n) == Bytes(n, 1, FrameLen(sent[n]))

-----------------------------------------------------------------------------
(* TapeWriter                                                              *)

(* The constructor writes the TapeHeader, or throws on a short write.      *)
OpenWriter ==
    /\ wstate = "new"
    /\ \/ /\ wstate' = "open"
          /\ bytes' = Bytes(0, 1, TapeHeaderLen)
          /\ UNCHANGED failures
       \/ /\ failures < MaxFailures
          /\ failures' = failures + 1
          /\ wstate' = "failed"
          /\ \E n \in 0 .. TapeHeaderLen - 1 : bytes' = Bytes(0, 1, n)
    /\ UNCHANGED <<sent, result, durable, flushedFrames, readerVars>>

(* write_frame: the header, then the payload; if either comes up short the *)
(* bytes already accepted stay and the call returns false.                 *)
WriteFrame(c) ==
    LET n == Len(sent) + 1 IN
    /\ wstate = "open"
    /\ Len(sent) < MaxFrames
    /\ failures = 0 \/ Len(sent) < MaxLossyFrames
    /\ sent' = Append(sent, c)
    /\ \/ /\ bytes' = bytes \o Bytes(n, 1, FrameLen(c))
          /\ result' = Append(result, TRUE)
          /\ UNCHANGED failures
       \/ /\ failures < MaxFailures
          /\ Len(sent) < MaxLossyFrames
          /\ failures' = failures + 1
          /\ result' = Append(result, FALSE)
          /\ \E k \in 0 .. FrameLen(c) - 1 : bytes' = bytes \o Bytes(n, 1, k)
    /\ UNCHANGED <<wstate, durable, flushedFrames, readerVars>>

(* Mutant of Flush: nothing reaches the system.                            *)
FlushNot ==
    /\ wstate = "open"
    /\ Len(sent) <= MaxLossyFrames
    /\ flushedFrames' = Len(sent)
    /\ UNCHANGED <<wstate, sent, result, bytes, durable, failures, readerVars>>
Flush ==
    /\ wstate = "open"
    /\ Len(sent) <= MaxLossyFrames
    /\ durable' = Len(bytes)
    /\ flushedFrames' = Len(sent)
    /\ UNCHANGED <<wstate, sent, result, bytes, failures, readerVars>>

(* The file left when only the first n bytes reach the system.             *)
LeaveFile(n) == bytes' = SubSeq(bytes, 1, n) /\ durable' = n

(* The destructor's fclose, whose result is ignored.                       *)
CloseWriter ==
    /\ wstate = "open"
    /\ wstate' = "closed"
    /\ \/ LeaveFile(Len(bytes)) /\ UNCHANGED failures
       \/ /\ failures < MaxFailures
          /\ Len(sent) <= MaxLossyFrames
          /\ failures' = failures + 1
          /\ \E n \in durable .. Len(bytes) - 1 : LeaveFile(n)
    /\ UNCHANGED <<sent, result, flushedFrames, readerVars>>

(* The process dies: what the buffer held may or may not have been written.*)
CrashWriter ==
    /\ wstate = "open"
    /\ Len(sent) <= MaxLossyFrames
    /\ wstate' = "crashed"
    /\ \E n \in durable .. Len(bytes) : LeaveFile(n)
    /\ UNCHANGED <<sent, result, flushedFrames, failures, readerVars>>

Writer ==
    \/ OpenWriter \/ (\E c \in Contents : WriteFrame(c))
    \/ Flush \/ CloseWriter \/ CrashWriter

-----------------------------------------------------------------------------
(* TapeReader, on the file the writer left.                                *)

OpenReader ==
    /\ rstate = "none"
    /\ wstate \in {"closed", "crashed", "failed"}
    /\ IF Len(bytes) < TapeHeaderLen
         THEN rstate' = "threw" /\ UNCHANGED pos
         ELSE rstate' = "reading" /\ pos' = TapeHeaderLen
    /\ UNCHANGED <<got, writerVars>>

Remaining == Len(bytes) - pos

(* read_frame finds no byte, or too few for a FrameHeader.                 *)
ReadEnd ==
    /\ rstate = "reading"
    /\ Remaining < FrameHeaderLen
    /\ rstate' = IF Remaining = 0 THEN "eof" ELSE "threw"
    /\ UNCHANGED <<pos, got, writerVars>>

(* What payload_len may read: the frame's own where the reader is at the   *)
(* beginning of a frame, anything where it is not.                         *)
Lengths == {PayloadLen[c] : c \in Contents}
(* Mutant of ClaimedLengths: the field is read from the wrong place.       *)
ClaimedLengthsMisread == Lengths
HeaderAt(p) == SubSeq(bytes, p + 1, p + FrameHeaderLen)
ClaimedLengths ==
    IF \E n \in DOMAIN sent : HeaderAt(pos) = Bytes(n, 1, FrameHeaderLen)
      THEN {PayloadLen[sent[bytes[pos + 1][1]]]}
      ELSE Lengths

PayloadThere(len) == Remaining >= FrameHeaderLen + len

ReadFrame(len) ==
    /\ PayloadThere(len)
    /\ got' = Append(got, SubSeq(bytes, pos + 1, pos + FrameHeaderLen + len))
    /\ pos' = pos + FrameHeaderLen + len
    /\ UNCHANGED <<rstate, writerVars>>

ReadTornPayload(len) ==
    /\ ~PayloadThere(len)
    /\ rstate' = "threw"
    /\ UNCHANGED <<pos, got, writerVars>>

AtFrame == rstate = "reading" /\ Remaining >= FrameHeaderLen

(* What a frame that was returned holds, if it is one that was written.    *)
Genuine(frame) == \E n \in DOMAIN sent : frame = FrameBytes(n)
Content(frame) == sent[frame[1][1]]

-----------------------------------------------------------------------------
TapeTypeOK ==
    /\ wstate \in {"new", "open", "closed", "crashed", "failed"}
    /\ sent \in Seq(Contents)
    /\ result \in Seq(BOOLEAN) /\ Len(result) = Len(sent)
    /\ \A i \in DOMAIN bytes : bytes[i] \in Nat \X Nat
    /\ durable \in 0 .. Len(bytes)
    /\ flushedFrames \in 0 .. Len(sent)
    /\ failures \in 0 .. MaxFailures
    /\ rstate \in {"none", "reading", "eof", "threw"}
    /\ pos \in 0 .. Len(bytes)
    /\ Len(got) <= Len(bytes)

(* Whatever the file lost at its end and whichever write came up short,    *)
(* the frames up to the first short write are read back as they were       *)
(* written: the reader never takes a torn tail for a frame.                *)
FramesReadBack ==
    \A i \in DOMAIN got :
        (\A j \in DOMAIN result : j <= i => result[j]) =>
            i \in DOMAIN sent /\ got[i] = FrameBytes(i)

(* What was flushed survives, and a clean tape is whole: when the writer   *)
(* crashes after a successful flush, every frame sent before it is read    *)
(* back; when no call fails and it closes, all are, to a clean end.        *)
FlushedFramesSurvive ==
    rstate \in {"eof", "threw"} /\ (\A j \in DOMAIN result : result[j]) =>
        /\ Len(got) >= flushedFrames
        /\ wstate = "closed" /\ failures = 0 => rstate = "eof" /\ Len(got) = Len(sent)
=============================================================================
