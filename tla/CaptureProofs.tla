--------------------------- MODULE CaptureProofs ---------------------------
(***************************************************************************)
(* The safety of the capture program, for every capacity of the rings and  *)
(* any number of clients, frames, failures and failed writes, with the     *)
(* network free to answer, fail or stay silent.                            *)
(*                                                                         *)
(* First the clients alone (WsClient).  The clients of the program behave  *)
(* as WsClient says, so that what is proved of them there holds of the     *)
(* program.  The rest of the argument follows a frame from the callback to *)
(* the tape.                                                               *)
(***************************************************************************)
EXTENDS Capture, SequenceTheorems, FiniteSetTheorems, TLAPS

ClientPcs ==
    {"loop", "connect", "check", "read", "callback", "close", "after", "sleep", "done"}

(* The part of ClientTypeOK that no bound enters.                          *)
Shape ==
    /\ cpc \in [Clients -> ClientPcs]
    /\ stopping \in [Clients -> BOOLEAN]
    /\ backoff \in [Clients -> Nat]
    /\ reconnects \in [Clients -> Nat]
    /\ late \in [Clients -> Nat]

(* What holds of each client.  One that has handed out a frame after       *)
(* stop() is on its way out.  A session ends without a failure only because*)
(* of stop(), and so does the run; a client that waits has failed.         *)
Sound(c) ==
    /\ late[c] = 0 \/ (late[c] = 1 /\ stopping[c] /\ cpc[c] \in {"check", "close", "after", "done"})
    /\ cpc[c] \in {"close", "done"} => stopping[c]
    /\ cpc[c] \in {"after", "sleep"} => stopping[c] \/ reconnects[c] >= 1
    /\ ~stopping[c] => BackoffFits(c)

ClientInv == Shape /\ \A c \in Clients : Sound(c)

(* Nothing that the properties are about changes for the other clients.    *)
Untouched(c) ==
    /\ cpc'[c] = cpc[c] /\ stopping'[c] = stopping[c] /\ backoff'[c] = backoff[c]
    /\ reconnects'[c] = reconnects[c] /\ late'[c] = late[c]

LEMMA InitHolds == ClientInit => ClientInv
  BY DEF ClientInit, ClientInv, Shape, ClientPcs, Sound, BackoffFits, SleepsDone

LEMMA ShapeKept ==
    ASSUME Shape, NEW d \in Clients, Local(d) \/ Network(d) \/ OnText(d) \/ Stop(d)
    PROVE  Shape' /\ \A c \in Clients \ {d} : Untouched(c)
<1> USE DEF Shape, ClientPcs, Untouched, Goto
<1>1. CASE RunLoop(d) BY <1>1 DEF RunLoop
<1>2. CASE AfterSession(d) BY <1>2 DEF AfterSession
<1>3. CASE SleepPollStop(d) BY <1>3 DEF SleepPollStop
<1>4. CASE SleepDeadline(d) BY <1>4 DEF SleepDeadline, Doubled, KMaxBackoff
<1>5. CASE ReadLoop(d) BY <1>5 DEF ReadLoop
<1>6. CASE Connect(d) BY <1>6 DEF Connect
<1>7. CASE ConnectThrows(d) BY <1>7 DEF ConnectThrows, Throws
<1>8. CASE ReadFrame(d) BY <1>8 DEF ReadFrame
<1>9. CASE ReadThrows(d)
  <2>1. ASSUME NEW how, Throws(d, "read", how) PROVE Shape' /\ \A c \in Clients \ {d} : Untouched(c)
    BY <2>1 DEF Throws
  <2> QED BY <1>9, <2>1 DEF ReadThrows
<1>10. CASE Close(d) BY <1>10 DEF Close
<1>11. CASE OnText(d) BY <1>11 DEF OnText
<1>12. CASE Stop(d) BY <1>12 DEF Stop
<1> QED BY <1>1, <1>2, <1>3, <1>4, <1>5, <1>6, <1>7, <1>8, <1>9, <1>10, <1>11, <1>12
        DEF Local, Network

LEMMA StepKeepsInv ==
    ASSUME ClientInv, NEW d \in Clients, Local(d) \/ Network(d) \/ OnText(d) \/ Stop(d)
    PROVE  ClientInv'
<1> USE DEF ClientInv
<1>1. Shape' /\ \A c \in Clients \ {d} : Untouched(c)
  BY ShapeKept
<1>2. ASSUME NEW c \in Clients \ {d} PROVE Sound(c)'
  <2>1. Sound(c) /\ Untouched(c)
    BY <1>1
  <2> QED BY <2>1 DEF Untouched, Sound, BackoffFits, SleepsDone
<1>3. Sound(d)'
  <2> USE <1>1 DEF Shape, ClientPcs, Goto, Sound, BackoffFits, SleepsDone
  <2>1. CASE RunLoop(d) BY <2>1 DEF RunLoop
  <2>2. CASE AfterSession(d) BY <2>2 DEF AfterSession
  <2>3. CASE SleepPollStop(d) BY <2>3 DEF SleepPollStop
  <2>4. CASE SleepDeadline(d) BY <2>4 DEF SleepDeadline, Doubled, KMaxBackoff
  <2>5. CASE ReadLoop(d) BY <2>5 DEF ReadLoop
  <2>6. CASE Connect(d) BY <2>6 DEF Connect
  <2>7. CASE ConnectThrows(d) BY <2>7 DEF ConnectThrows, Throws
  <2>8. CASE ReadFrame(d) BY <2>8 DEF ReadFrame
  <2>9. CASE ReadThrows(d)
    <3>1. PICK how : Throws(d, "read", how)
      BY <2>9 DEF ReadThrows
    <3> QED BY <3>1 DEF Throws
  <2>10. CASE Close(d) BY <2>10 DEF Close
  <2>11. CASE OnText(d) BY <2>11 DEF OnText
  <2>12. CASE Stop(d) BY <2>12 DEF Stop
  <2> QED BY <2>1, <2>2, <2>3, <2>4, <2>5, <2>6, <2>7, <2>8, <2>9, <2>10, <2>11, <2>12
          DEF Local, Network
<1> QED BY <1>1, <1>2, <1>3

LEMMA InvHolds == ClientSpec => []ClientInv
<1>1. ClientInv /\ [ClientNext]_clientVars => ClientInv'
  <2> SUFFICES ASSUME ClientInv, [ClientNext]_clientVars PROVE ClientInv'
    OBVIOUS
  <2>1. CASE ClientNext BY <2>1, StepKeepsInv DEF ClientNext
  <2>2. CASE UNCHANGED clientVars
    BY <2>2 DEF clientVars, ClientInv, Shape, Sound, BackoffFits, SleepsDone
  <2> QED BY <2>1, <2>2
<1> QED BY InitHolds, <1>1, PTL DEF ClientSpec

(* After stop() the callback is given at most the frame that was being     *)
(* read, whatever the network and the other clients do.                    *)
THEOREM StopIsPrompt == ClientSpec => []AtMostOneFrameAfterStop
<1>1. ASSUME NEW c \in Clients, Sound(c) PROVE late[c] <= 1
  <2>1. late[c] = 0 \/ late[c] = 1
    BY <1>1 DEF Sound
  <2> QED BY <2>1
<1>2. ClientInv => AtMostOneFrameAfterStop
  BY <1>1 DEF ClientInv, AtMostOneFrameAfterStop
<1> QED BY InvHolds, <1>2, PTL

(* The backoff of a client that runs is what its failures alone say.       *)
THEOREM BackoffIsOfFailures == ClientSpec => []BackoffTracksFailures
<1>1. ClientInv => BackoffTracksFailures
  BY DEF ClientInv, Sound, BackoffTracksFailures
<1> QED BY InvHolds, <1>1, PTL

-----------------------------------------------------------------------------
(* The counters and their bounds.  A frame that was read is either with the*)
(* callback or counted; late frames are counted ones; a client that stop() *)
(* found running fails at most once more.                                  *)
Counters ==
    /\ msgCount \in [Clients -> Nat] /\ received \in [Clients -> Nat]
Endings == ended \in [Clients -> {"none", "error", "closed by server", "closed by client"}]
FrameCounted(c) ==
    /\ received[c] <= MaxFrames
    /\ received[c] = IF cpc[c] = "callback" THEN msgCount[c] + 1 ELSE msgCount[c]
    /\ late[c] <= msgCount[c]
FailureCounted(c) ==
    /\ reconnects[c] <= MaxFailures + 1
    /\ reconnects[c] > MaxFailures => stopping[c] /\ cpc[c] \in {"after", "done"}
BackoffBounded(c) == 1 <= backoff[c] /\ backoff[c] <= KMaxBackoff

CountInv ==
    /\ Counters /\ Endings
    /\ \A c \in Clients : FrameCounted(c) /\ FailureCounted(c) /\ BackoffBounded(c)

ClientStepOf(d) == Local(d) \/ Network(d) \/ OnText(d) \/ Stop(d)

LEMMA CountersKept ==
    ASSUME Shape, Counters, NEW d \in Clients, ClientStepOf(d)
    PROVE  /\ Counters'
           /\ \A c \in Clients \ {d} : received'[c] = received[c] /\ msgCount'[c] = msgCount[c]
<1> USE DEF Counters
<1>1. CASE ReadFrame(d) BY <1>1 DEF ReadFrame
<1>2. CASE OnText(d) BY <1>2 DEF OnText
<1>3. CASE UNCHANGED <<received, msgCount>> BY <1>3
<1>4. ReadFrame(d) \/ OnText(d) \/ UNCHANGED <<received, msgCount>>
  BY DEF ClientStepOf, Local, Network, RunLoop, AfterSession, SleepPollStop, SleepDeadline,
         ReadLoop, Connect, ConnectThrows, ReadThrows, Throws, Close, Stop
<1> QED BY <1>1, <1>2, <1>3, <1>4

LEMMA EndingsKept == ASSUME Endings, NEW d \in Clients, ClientStepOf(d) PROVE Endings'
<1>1. \/ UNCHANGED ended
      \/ \E e \in {"none", "error", "closed by server", "closed by client"} :
            ended' = [ended EXCEPT ![d] = e]
  <2>1. AfterSession(d) => \/ UNCHANGED ended
                           \/ ended' = [ended EXCEPT ![d] = "none"]
    BY DEF AfterSession, Endings
  <2> QED BY <2>1 DEF ClientStepOf, Local, Network, RunLoop, SleepPollStop, SleepDeadline,
             ReadLoop, Connect, ConnectThrows, ReadFrame, ReadThrows, Throws, OnText, Close, Stop
<1> QED BY <1>1 DEF Endings

LEMMA CountKept ==
    ASSUME ClientInv, CountInv, NEW d \in Clients, ClientStepOf(d)
    PROVE  CountInv'
<1> USE DEF ClientInv, CountInv
<1>1. Shape' /\ \A c \in Clients \ {d} : Untouched(c)
  BY ShapeKept DEF ClientStepOf
<1>2. Counters' /\ \A c \in Clients \ {d} : received'[c] = received[c] /\ msgCount'[c] = msgCount[c]
  BY CountersKept
<1>3. ASSUME NEW c \in Clients \ {d}
      PROVE  FrameCounted(c)' /\ FailureCounted(c)' /\ BackoffBounded(c)'
  BY <1>1, <1>2 DEF Untouched, FrameCounted, FailureCounted, BackoffBounded
<1>4. FrameCounted(d)'
  <2>0. \/ ReadFrame(d) \/ OnText(d)
        \/ UNCHANGED <<received, msgCount, late>> /\ "callback" \notin {cpc[d], cpc'[d]}
        \/ UNCHANGED <<received, msgCount, late, cpc>>
    BY DEF Shape, Goto, ClientStepOf, Local, Network, RunLoop, AfterSession, SleepPollStop,
        SleepDeadline, ReadLoop, Connect, ConnectThrows, ReadThrows, Throws, Close, Stop
  <2>1. CASE ReadFrame(d)
    BY <2>1, <1>1, BoundsAssumption DEF ReadFrame, Shape, Counters, Goto, FrameCounted
  <2>2. CASE OnText(d)
    BY <2>2, <1>1, BoundsAssumption DEF OnText, Shape, Counters, Goto, FrameCounted
  <2>3. CASE UNCHANGED <<received, msgCount, late>> /\ "callback" \notin {cpc[d], cpc'[d]}
    BY <2>3 DEF FrameCounted
  <2>4. CASE UNCHANGED <<received, msgCount, late, cpc>>
    BY <2>4 DEF FrameCounted
  <2> QED
    BY <2>0, <2>1, <2>2, <2>3, <2>4
<1>5. FailureCounted(d)'
  <2> USE DEF Shape, Goto, FailureCounted
  <2>1. ASSUME NEW from \in {"connect", "read"}, NEW how, Throws(d, from, how)
        PROVE  FailureCounted(d)'
    BY <2>1, <1>1, BoundsAssumption DEF Throws
  <2>2. CASE AfterSession(d) BY <2>2, <1>1, BoundsAssumption DEF AfterSession, Sound
  <2>3. CASE Stop(d) BY <2>3, <1>1 DEF Stop
  <2>4. CASE UNCHANGED <<reconnects, stopping>> /\ cpc[d] \notin {"after", "done"}
    BY <2>4
  <2> QED
    BY <2>1, <2>2, <2>3, <2>4
    DEF ClientStepOf, Local, Network, RunLoop, SleepPollStop, SleepDeadline, ReadLoop, Connect,
        ConnectThrows, ReadFrame, ReadThrows, OnText, Close
<1>6. BackoffBounded(d)'
  <2>1. CASE SleepDeadline(d)
    BY <2>1 DEF Shape, SleepDeadline, Doubled, KMaxBackoff, BackoffBounded
  <2>2. CASE Close(d)
    <3>1. backoff'[d] = 1
      BY <2>2 DEF Shape, Close
    <3> QED BY <3>1 DEF KMaxBackoff, BackoffBounded
  <2>3. CASE UNCHANGED backoff
    BY <2>3 DEF BackoffBounded
  <2> QED
    BY <2>1, <2>2, <2>3
    DEF ClientStepOf, Local, Network, RunLoop, AfterSession, SleepPollStop, ReadLoop, Connect,
        ConnectThrows, ReadFrame, ReadThrows, Throws, OnText, Stop
<1> QED BY <1>1, <1>2, <1>3, <1>4, <1>5, <1>6, EndingsKept

LEMMA CountHolds == ClientSpec => [](ClientInv /\ CountInv)
<1>1. ClientInit => CountInv
  BY BoundsAssumption DEF ClientInit, CountInv, Counters, Endings, FrameCounted, FailureCounted,
     BackoffBounded, KMaxBackoff
<1>2. ClientInv /\ CountInv /\ [ClientNext]_clientVars => CountInv'
  <2>1. ASSUME ClientInv, CountInv, ClientNext PROVE CountInv'
    BY <2>1, CountKept DEF ClientNext, ClientStepOf
  <2>2. ASSUME CountInv, UNCHANGED clientVars PROVE CountInv'
    BY <2>2 DEF clientVars, CountInv, Counters, Endings, FrameCounted, FailureCounted, BackoffBounded
  <2> QED BY <2>1, <2>2
<1> QED BY InvHolds, <1>1, <1>2, PTL DEF ClientSpec

LEMMA CountGivesTypes == ASSUME ClientInv, CountInv PROVE ClientTypeOK
<1> USE BoundsAssumption DEF Shape, Counters
<1>1. ASSUME NEW c \in Clients
      PROVE  /\ backoff[c] \in 1 .. KMaxBackoff /\ reconnects[c] \in 0 .. MaxFailures + 1
             /\ received[c] \in 0 .. MaxFrames /\ msgCount[c] \in 0 .. MaxFrames
             /\ late[c] \in 0 .. MaxFrames
  <2>1. Shape /\ Counters /\ FrameCounted(c) /\ FailureCounted(c) /\ BackoffBounded(c)
    BY DEF ClientInv, CountInv
  <2>2. backoff[c] \in 1 .. KMaxBackoff
    BY <2>1 DEF BackoffBounded, KMaxBackoff
  <2>3. reconnects[c] \in 0 .. MaxFailures + 1
    BY <2>1 DEF FailureCounted
  <2>4. received[c] \in 0 .. MaxFrames /\ msgCount[c] \in 0 .. MaxFrames /\ late[c] \in 0 .. MaxFrames
    BY <2>1 DEF FrameCounted
  <2> QED BY <2>2, <2>3, <2>4
<1> QED BY <1>1 DEF ClientTypeOK, ClientInv, CountInv, Endings, ClientPcs

(* Type correctness of the clients, with the bounds of their counters.     *)
THEOREM ClientTypeCorrect == ClientSpec => []ClientTypeOK
<1>1. ClientInv /\ CountInv => ClientTypeOK
  BY CountGivesTypes
<1> QED BY CountHolds, <1>1, PTL

-----------------------------------------------------------------------------
(* The threads and the rings around the clients add no step of a client.   *)
THEOREM ClientsRunAsAlone == Spec => ClientSpec
<1>1. Init => ClientInit
  BY DEF Init
<1>2. [Next]_vars => [ClientNext]_clientVars
  <2> SUFFICES ASSUME [Next]_vars PROVE [ClientNext]_clientVars
    OBVIOUS
  <2>1. CASE UNCHANGED vars
    BY <2>1 DEF vars
  <2>2. CASE \E c \in Clients : ClientStep(c)
    BY <2>2 DEF ClientStep, ClientNext
  <2>3. CASE Writer
    BY <2>3 DEF Writer, WriterCheck, DrainOne, DrainDone, FlushMaybe, FinalFlush
  <2>4. CASE Signal
    BY <2>4 DEF Signal
  <2>5. CASE Main
    <3>1. Stop(Spot) \/ Stop(Perp) => ClientNext
      BY VenuesAssumption DEF ClientNext
    <3> QED BY <3>1, <2>5 DEF Main, MainWait, MainStore, MainStopSpot, MainStopPerp,
               MainJoinSpot, MainJoinPerp, MainJoinWriter
  <2> QED BY <2>1, <2>2, <2>3, <2>4, <2>5 DEF Next
<1> QED BY <1>1, <1>2, PTL DEF Spec, ClientSpec

LEMMA ClientsSound == Spec => [](ClientInv /\ CountInv)
  BY ClientsRunAsAlone, CountHolds, PTL

-----------------------------------------------------------------------------
(* Where the frames are changes in two kinds of step only.                 *)

frameVars == <<ring, tape, unwritten, dropped, msgCount>>
Hand(c) == OnText(c) /\ Handler(c) /\ UNCHANGED <<mainVars, writerVars, stopVars>>

LEMMA FrameSteps ==
    [Next]_vars => DrainOne \/ (\E c \in Clients : Hand(c)) \/ UNCHANGED frameVars
<1> SUFFICES ASSUME [Next]_vars
             PROVE  DrainOne \/ (\E c \in Clients : Hand(c)) \/ UNCHANGED frameVars
  OBVIOUS
<1> USE DEF frameVars
<1>1. CASE UNCHANGED vars
  BY <1>1 DEF vars, clientVars, writerVars
<1>2. ASSUME NEW c \in Clients, ClientStep(c)
      PROVE  Hand(c) \/ UNCHANGED frameVars
  <2>1. Local(c) \/ Network(c) => UNCHANGED msgCount
    BY DEF Local, Network, RunLoop, AfterSession, SleepPollStop, SleepDeadline, ReadLoop,
           Connect, ConnectThrows, ReadFrame, ReadThrows, Throws, Close
  <2> QED BY <1>2, <2>1 DEF ClientStep, Hand, writerVars
<1>3. CASE Writer
  BY <1>3 DEF Writer, WriterCheck, DrainDone, FlushMaybe, FinalFlush, clientVars
<1>4. CASE Main \/ Signal
  BY <1>4 DEF Main, MainWait, MainStore, MainStopSpot, MainStopPerp, MainJoinSpot, MainJoinPerp,
         MainJoinWriter, MainGoto, Stop, Signal, clientVars, writerVars
<1> QED BY <1>1, <1>2, <1>3, <1>4 DEF Next

(* What try_pop leaves of a ring.                                          *)
Popped(s) == SubSeq(s, 1, PopIndex(s) - 1) \o SubSeq(s, PopIndex(s) + 1, Len(s))

LEMMA PoppedIsTail ==
    ASSUME NEW S, NEW s \in Seq(S), s # <<>>
    PROVE  /\ Popped(s) \in Seq(S) /\ Len(Popped(s)) = Len(s) - 1
           /\ \A i \in 1 .. Len(Popped(s)) : Popped(s)[i] = s[i + 1]
           /\ Len(s) \in Nat \ {0} /\ s[1] \in S
<1>1. Len(s) \in Nat \ {0} /\ DOMAIN s = 1 .. Len(s) /\ s[1] \in S
  BY EmptySeq, LenProperties
<1>2. SubSeq(s, 1, 0) = <<>>
  BY SubSeqEmpty
<1>3. \A i \in 2 .. Len(s) : s[i] \in S
  BY ElementOfSeq
<1>4. /\ SubSeq(s, 2, Len(s)) \in Seq(S)
      /\ Len(SubSeq(s, 2, Len(s))) = Len(s) - 1
      /\ \A i \in 1 .. Len(s) - 1 : SubSeq(s, 2, Len(s))[i] = s[2 + i - 1]
  BY <1>1, <1>3, SubSeqProperties
<1>5. Popped(s) = SubSeq(s, 2, Len(s))
  BY <1>2, <1>4, ConcatEmptySeq DEF Popped, PopIndex
<1> QED BY <1>1, <1>4, <1>5

-----------------------------------------------------------------------------
(* The invariant of the frames.  Those of a venue are taken off its ring in*)
(* the order in which they were numbered, so that whatever was taken is    *)
(* older than whatever is still there.                                     *)

FrameTypes ==
    /\ ring \in [Clients -> Seq(Frames)] /\ tape \in Seq(Frames)
    /\ dropped \subseteq Frames /\ unwritten \subseteq Frames

Taken == FramesIn(tape) \cup unwritten

RingSound(c) ==
    /\ Len(ring[c]) <= RingCapacity
    /\ \A i \in 1 .. Len(ring[c]) : ring[c][i].venue = c /\ ring[c][i].n <= msgCount[c]
    /\ \A i, j \in 1 .. Len(ring[c]) : i < j => ring[c][i].n < ring[c][j].n

TakenSound ==
    /\ \A f \in Taken :
          /\ f.n <= msgCount[f.venue]
          /\ \A j \in 1 .. Len(ring[f.venue]) : f.n < ring[f.venue][j].n
    /\ unwritten \cap FramesIn(tape) = {}
    /\ VenueOrderKept

DroppedSound ==
    \A f \in dropped : f.n <= msgCount[f.venue] /\ f \notin Accepted

AllAccounted ==
    \A c \in Clients : \A n \in 1 .. msgCount[c] : Frame(c, n) \in Accepted \cup dropped

FrameInv ==
    /\ FrameTypes /\ TakenSound /\ DroppedSound /\ AllAccounted
    /\ \A c \in Clients : RingSound(c)

(* What is in the rings, without naming the venues.                        *)
LEMMA AcceptedIs == Accepted = (UNION {InRing(c) : c \in Clients}) \cup Taken
  BY VenuesAssumption DEF Accepted, Taken

(* The frame that the callback is handed is the next of its venue.         *)
LEMMA FrameIsNew ==
    ASSUME ClientInv, CountInv, NEW c \in Clients, OnText(c)
    PROVE  /\ received[c] = msgCount[c] + 1 /\ msgCount[c] \in Nat
           /\ Frame(c, received[c]) \in Frames
           /\ msgCount' = [msgCount EXCEPT ![c] = msgCount[c] + 1]
           /\ \A d \in Clients : msgCount[d] \in Nat
<1>1. cpc[c] = "callback" /\ msgCount' = [msgCount EXCEPT ![c] = msgCount[c] + 1]
  BY DEF OnText, Goto
<1>2. Counters /\ FrameCounted(c)
  BY DEF CountInv
<1>3. received[c] = msgCount[c] + 1 /\ received[c] \in 1 .. MaxFrames /\ msgCount[c] \in Nat
  BY <1>1, <1>2, BoundsAssumption DEF Counters, FrameCounted
<1> QED BY <1>1, <1>2, <1>3 DEF Frame, Frames, Counters

LEMMA AppendedFrames ==
    ASSUME NEW S, NEW s \in Seq(S), NEW f \in S
    PROVE  /\ Append(s, f) \in Seq(S) /\ Len(Append(s, f)) = Len(s) + 1 /\ Len(s) \in Nat
           /\ \A i \in 1 .. Len(s) : Append(s, f)[i] = s[i]
           /\ Append(s, f)[Len(s) + 1] = f
           /\ FramesIn(Append(s, f)) = FramesIn(s) \cup {f}
<1>1. /\ Append(s, f) \in Seq(S) /\ Len(Append(s, f)) = Len(s) + 1 /\ Len(s) \in Nat
      /\ \A i \in 1 .. Len(s) : Append(s, f)[i] = s[i]
      /\ Append(s, f)[Len(s) + 1] = f
  BY AppendProperties, LenProperties
<1>2. DOMAIN Append(s, f) = 1 .. Len(s) + 1 /\ DOMAIN s = 1 .. Len(s)
  BY <1>1, LenProperties
<1> QED BY <1>1, <1>2 DEF FramesIn

LEMMA PoppedFrames ==
    ASSUME NEW S, NEW s \in Seq(S), s # <<>>
    PROVE  FramesIn(s) = FramesIn(Popped(s)) \cup {s[1]}
<1>1. /\ Popped(s) \in Seq(S) /\ Len(Popped(s)) = Len(s) - 1
      /\ \A i \in 1 .. Len(Popped(s)) : Popped(s)[i] = s[i + 1]
      /\ Len(s) \in Nat \ {0}
  BY PoppedIsTail
<1>2. DOMAIN Popped(s) = 1 .. Len(s) - 1 /\ DOMAIN s = 1 .. Len(s)
  BY <1>1, LenProperties
<1>3. ASSUME NEW i \in 2 .. Len(s) PROVE s[i] \in FramesIn(Popped(s))
  <2>1. i - 1 \in 1 .. Len(s) - 1 /\ Popped(s)[i - 1] = s[(i - 1) + 1]
    BY <1>1
  <2> QED BY <2>1, <1>2 DEF FramesIn
<1>4. ASSUME NEW i \in 1 .. Len(s) - 1 PROVE Popped(s)[i] \in FramesIn(s)
  <2>1. i + 1 \in 1 .. Len(s) /\ Popped(s)[i] = s[i + 1]
    BY <1>1
  <2> QED BY <2>1, <1>2 DEF FramesIn
<1>5. FramesIn(s) \subseteq FramesIn(Popped(s)) \cup {s[1]}
  BY <1>1, <1>2, <1>3 DEF FramesIn
<1>6. FramesIn(Popped(s)) \cup {s[1]} \subseteq FramesIn(s)
  BY <1>1, <1>2, <1>4 DEF FramesIn
<1> QED BY <1>5, <1>6

(* What is in a ring, by index.                                            *)
LEMMA RingMembers ==
    ASSUME FrameTypes, NEW c \in Clients
    PROVE  /\ ring[c] \in Seq(Frames) /\ Len(ring[c]) \in Nat
           /\ InRing(c) = {ring[c][i] : i \in 1 .. Len(ring[c])}
           /\ InRing(c) \subseteq Frames
<1>1. ring[c] \in Seq(Frames)
  BY DEF FrameTypes
<1>2. Len(ring[c]) \in Nat /\ DOMAIN ring[c] = 1 .. Len(ring[c])
      /\ \A i \in 1 .. Len(ring[c]) : ring[c][i] \in Frames
  BY <1>1, LenProperties, ElementOfSeq
<1> QED BY <1>1, <1>2 DEF InRing, FramesIn

LEMMA AcceptedNumbered ==
    ASSUME FrameInv, NEW f \in Accepted
    PROVE  f \in Frames /\ f.n <= msgCount[f.venue]
<1>1. CASE f \in Taken
  <2>1. FramesIn(tape) \subseteq Frames
    <3>1. tape \in Seq(Frames)
      BY DEF FrameInv, FrameTypes
    <3> QED BY <3>1, LenProperties, ElementOfSeq DEF FramesIn
  <2> QED BY <1>1, <2>1 DEF FrameInv, FrameTypes, TakenSound, Taken
<1>2. ASSUME NEW c \in Clients, f \in InRing(c)
      PROVE  f \in Frames /\ f.n <= msgCount[f.venue]
  <2>1. FrameTypes /\ RingSound(c)
    BY DEF FrameInv
  <2> QED BY <2>1, <1>2, RingMembers DEF RingSound
<1> QED BY <1>1, <1>2, AcceptedIs

-----------------------------------------------------------------------------
(* A callback pushes its frame, or drops it.                               *)

LEMMA PushKeepsFrames ==
    ASSUME ClientInv, CountInv, FrameInv, NEW c \in Clients, Hand(c), HasRoom(c)
    PROVE  FrameInv'
<1> DEFINE f == Frame(c, received[c])
<1>1. /\ received[c] = msgCount[c] + 1 /\ msgCount[c] \in Nat /\ f \in Frames
      /\ msgCount' = [msgCount EXCEPT ![c] = msgCount[c] + 1]
      /\ \A d \in Clients : msgCount[d] \in Nat
  BY FrameIsNew DEF Hand
<1>2. /\ ring' = [ring EXCEPT ![c] = Append(ring[c], f)]
      /\ tape' = tape /\ unwritten' = unwritten /\ dropped' = dropped
  BY DEF Hand, Handler, writerVars
<1>3. f.venue = c /\ f.n = msgCount[c] + 1
  BY <1>1 DEF Frame
<1> HIDE DEF f
<1>4. /\ ring[c] \in Seq(Frames) /\ Append(ring[c], f) \in Seq(Frames)
      /\ Len(ring[c]) \in Nat /\ Len(Append(ring[c], f)) = Len(ring[c]) + 1
      /\ \A i \in 1 .. Len(ring[c]) : Append(ring[c], f)[i] = ring[c][i]
      /\ Append(ring[c], f)[Len(ring[c]) + 1] = f
      /\ FramesIn(Append(ring[c], f)) = FramesIn(ring[c]) \cup {f}
  <2>1. ring[c] \in Seq(Frames)
    BY DEF FrameInv, FrameTypes
  <2> QED BY <2>1, <1>1, AppendedFrames
<1>5. ring \in [Clients -> Seq(Frames)]
  BY DEF FrameInv, FrameTypes
<1>6. FrameTypes'
  BY <1>2, <1>4, <1>5 DEF FrameInv, FrameTypes
<1>7. ring'[c] = Append(ring[c], f) /\ \A d \in Clients \ {c} : ring'[d] = ring[d]
  BY <1>2, <1>5
<1>8. msgCount'[c] = msgCount[c] + 1 /\ \A d \in Clients \ {c} : msgCount'[d] = msgCount[d]
  <2>1. msgCount \in [Clients -> Nat]
    BY DEF CountInv, Counters
  <2> QED BY <2>1, <1>1
<1>9. Accepted' = Accepted \cup {f} /\ Taken' = Taken
  <2>1. InRing(c)' = InRing(c) \cup {f} /\ \A d \in Clients \ {c} : InRing(d)' = InRing(d)
    BY <1>4, <1>7 DEF InRing
  <2>2. Taken' = Taken
    BY <1>2 DEF Taken
  <2>3. Accepted' = (UNION {InRing(d)' : d \in Clients}) \cup Taken'
    BY VenuesAssumption DEF Accepted, Taken
  <2> QED BY <2>1, <2>2, <2>3, AcceptedIs
<1>10. ASSUME NEW d \in Clients PROVE RingSound(d)'
  <2>1. RingSound(d) /\ RingSound(c)
    BY DEF FrameInv
  <2>2. CASE d # c
    BY <2>1, <2>2, <1>7, <1>8 DEF RingSound
  <2>3. CASE d = c
    <3>1. Len(ring'[c]) <= RingCapacity
      BY <1>4, <1>7, RingCapacityAssumption DEF HasRoom
    <3>2. ASSUME NEW i \in 1 .. Len(ring'[c])
          PROVE  ring'[c][i].venue = c /\ ring'[c][i].n <= msgCount'[c]
      <4>1. CASE i \in 1 .. Len(ring[c])
        <5>1. ring[c][i] \in Frames
          BY <1>4, <4>1, ElementOfSeq
        <5> QED BY <2>1, <4>1, <5>1, <1>1, <1>4, <1>7, <1>8 DEF RingSound, Frames
      <4>2. CASE i = Len(ring[c]) + 1
        BY <4>2, <1>1, <1>3, <1>4, <1>7, <1>8
      <4> QED BY <4>1, <4>2, <1>4, <1>7
    <3>3. ASSUME NEW i \in 1 .. Len(ring'[c]), NEW j \in 1 .. Len(ring'[c]), i < j
          PROVE  ring'[c][i].n < ring'[c][j].n
      <4>1. i \in 1 .. Len(ring[c])
        BY <3>3, <1>4, <1>7
      <4>2. ring[c][i] \in Frames
        BY <1>4, <4>1, ElementOfSeq
      <4>3. CASE j \in 1 .. Len(ring[c])
        BY <2>1, <3>3, <4>1, <4>3, <1>4, <1>7 DEF RingSound
      <4>4. CASE j = Len(ring[c]) + 1
        BY SMTT(30), <2>1, <4>1, <4>2, <4>4, <1>1, <1>3, <1>4, <1>7 DEF RingSound, Frames
      <4> QED BY <4>3, <4>4, <1>4, <1>7
    <3> QED BY <2>3, <3>1, <3>2, <3>3 DEF RingSound
  <2> QED BY <2>2, <2>3
<1>11. TakenSound'
  <2>1. TakenSound
    BY DEF FrameInv
  <2>2. ASSUME NEW g \in Taken
        PROVE  /\ g.n <= msgCount'[g.venue]
               /\ \A j \in 1 .. Len(ring'[g.venue]) : g.n < ring'[g.venue][j].n
    <3>1. g \in Frames /\ g.venue \in Clients /\ g.n \in Nat
      <4>1. g \in Frames
        BY <2>2, AcceptedNumbered, AcceptedIs
      <4> QED BY <4>1 DEF Frames
    <3>2. g.n <= msgCount[g.venue] /\ \A j \in 1 .. Len(ring[g.venue]) : g.n < ring[g.venue][j].n
      BY <2>1, <2>2 DEF TakenSound
    <3>3. CASE g.venue # c
      BY <3>1, <3>2, <3>3, <1>7, <1>8
    <3>4. CASE g.venue = c
      BY <3>1, <3>2, <3>4, <1>1, <1>3, <1>4, <1>7, <1>8
    <3> QED BY <3>3, <3>4
  <2>3. VenueOrderKept' /\ (unwritten \cap FramesIn(tape))' = {}
    BY <2>1, <1>2 DEF TakenSound, VenueOrderKept
  <2> QED BY <2>2, <2>3, <1>9 DEF TakenSound
<1>12. DroppedSound'
  <2>1. ASSUME NEW g \in dropped PROVE g.n <= msgCount'[g.venue] /\ g \notin Accepted'
    <3>1. g.n <= msgCount[g.venue] /\ g \notin Accepted /\ g \in Frames
      BY <2>1 DEF FrameInv, DroppedSound, FrameTypes
    <3>2. g.venue \in Clients /\ g.n \in Nat
      BY <3>1 DEF Frames
    <3>3. g # f
      BY <3>1, <3>2, <1>1, <1>3
    <3> QED BY <3>1, <3>2, <3>3, <1>1, <1>8, <1>9
  <2> QED BY <2>1, <1>2 DEF DroppedSound
<1>13. AllAccounted'
  <2>1. ASSUME NEW d \in Clients, NEW n \in 1 .. msgCount'[d]
        PROVE  Frame(d, n) \in Accepted' \cup dropped'
    <3>1. CASE n \in 1 .. msgCount[d]
      BY <3>1, <1>2, <1>9 DEF FrameInv, AllAccounted
    <3>2. CASE d = c /\ n = msgCount[c] + 1
      BY <3>2, <1>1, <1>9 DEF f
    <3> QED BY <3>1, <3>2, <1>1, <1>8
  <2> QED BY <2>1 DEF AllAccounted
<1> QED BY <1>6, <1>10, <1>11, <1>12, <1>13 DEF FrameInv

LEMMA DropKeepsFrames ==
    ASSUME ClientInv, CountInv, FrameInv, NEW c \in Clients, Hand(c), ~HasRoom(c)
    PROVE  FrameInv'
<1> DEFINE f == Frame(c, received[c])
<1>1. /\ received[c] = msgCount[c] + 1 /\ msgCount[c] \in Nat /\ f \in Frames
      /\ msgCount' = [msgCount EXCEPT ![c] = msgCount[c] + 1]
      /\ \A d \in Clients : msgCount[d] \in Nat
  BY FrameIsNew DEF Hand
<1>2. /\ dropped' = dropped \cup {f}
      /\ tape' = tape /\ unwritten' = unwritten /\ ring' = ring
  BY DEF Hand, Handler, writerVars
<1>3. f.venue = c /\ f.n = msgCount[c] + 1
  BY <1>1 DEF Frame
<1> HIDE DEF f
<1>4. /\ msgCount'[c] = msgCount[c] + 1 /\ \A d \in Clients \ {c} : msgCount'[d] = msgCount[d]
      /\ \A d \in Clients : msgCount'[d] \in Nat /\ msgCount'[d] >= msgCount[d]
  <2>1. msgCount \in [Clients -> Nat]
    BY DEF CountInv, Counters
  <2> QED BY <2>1, <1>1
<1>5. Accepted' = Accepted /\ Taken' = Taken
  BY <1>2 DEF Accepted, Taken, InRing
<1>6. FrameTypes'
  BY <1>1, <1>2 DEF FrameInv, FrameTypes
<1>7. ASSUME NEW g \in Accepted \cup dropped
      PROVE  /\ g \in Frames /\ g # f
             /\ g.n <= msgCount[g.venue] /\ g.n <= msgCount'[g.venue]
  <2>1. g \in Frames /\ g.n <= msgCount[g.venue]
    BY AcceptedNumbered DEF FrameInv, DroppedSound, FrameTypes
  <2>2. g.venue \in Clients /\ g.n \in Nat
    BY <2>1 DEF Frames
  <2> QED BY <2>1, <2>2, <1>1, <1>3, <1>4
<1>8. ASSUME NEW d \in Clients PROVE RingSound(d)'
  <2>1. RingSound(d)
    BY DEF FrameInv
  <2>2. ASSUME NEW i \in 1 .. Len(ring[d]) PROVE ring[d][i].n <= msgCount'[d]
    <3>1. ring[d][i] \in Frames
      BY RingMembers, ElementOfSeq DEF FrameInv
    <3> QED BY <2>1, <3>1, <1>1, <1>4 DEF RingSound, Frames
  <2> QED BY <2>1, <2>2, <1>2 DEF RingSound
<1>9. TakenSound'
  <2>1. ASSUME NEW g \in Taken PROVE g.n <= msgCount'[g.venue]
    BY <1>7, AcceptedIs
  <2> QED BY <2>1, <1>2, <1>5 DEF FrameInv, TakenSound, VenueOrderKept
<1>10. DroppedSound'
  <2>1. ASSUME NEW g \in dropped \cup {f} PROVE g.n <= msgCount'[g.venue] /\ g \notin Accepted
    <3>1. CASE g = f
      BY <3>1, <1>1, <1>3, <1>4, <1>7
    <3>2. CASE g \in dropped
      BY <3>2, <1>7 DEF FrameInv, DroppedSound
    <3> QED BY <3>1, <3>2
  <2> QED BY <2>1, <1>2, <1>5 DEF DroppedSound
<1>11. AllAccounted'
  <2>1. ASSUME NEW d \in Clients, NEW n \in 1 .. msgCount'[d]
        PROVE  Frame(d, n) \in Accepted' \cup dropped'
    <3>1. CASE n \in 1 .. msgCount[d]
      BY <3>1, <1>2, <1>5 DEF FrameInv, AllAccounted
    <3>2. CASE d = c /\ n = msgCount[c] + 1
      BY <3>2, <1>1, <1>2 DEF f
    <3> QED BY <3>1, <3>2, <1>1, <1>4
  <2> QED BY <2>1 DEF AllAccounted
<1> QED BY <1>6, <1>8, <1>9, <1>10, <1>11 DEF FrameInv

-----------------------------------------------------------------------------
(* The writer takes the oldest frame of a ring.                            *)

LEMMA DrainKeepsFrames ==
    ASSUME CountInv, FrameInv, NEW c \in Clients, target = c, DrainOne
    PROVE  FrameInv' /\ Accepted' = Accepted
<1> DEFINE s == ring[c]
           f == s[1]
<1>1. /\ s # <<>> /\ ring' = [ring EXCEPT ![c] = Popped(s)]
      /\ \/ tape' = Append(tape, f) /\ unwritten' = unwritten
         \/ unwritten' = unwritten \cup {f} /\ tape' = tape
      /\ dropped' = dropped /\ msgCount' = msgCount
  BY DEF DrainOne, Popped, PopIndex, clientVars
<1>2. ring \in [Clients -> Seq(Frames)] /\ s \in Seq(Frames) /\ tape \in Seq(Frames)
  BY DEF FrameInv, FrameTypes
<1> HIDE DEF s, f
<1>3. /\ Popped(s) \in Seq(Frames) /\ Len(Popped(s)) = Len(s) - 1
      /\ \A i \in 1 .. Len(Popped(s)) : Popped(s)[i] = s[i + 1]
      /\ Len(s) \in Nat \ {0} /\ f \in Frames
      /\ FramesIn(s) = FramesIn(Popped(s)) \cup {f}
  BY <1>1, <1>2, PoppedIsTail, PoppedFrames DEF f
<1>4. /\ c \in Clients /\ s = ring[c]
      /\ ring'[c] = Popped(s) /\ \A d \in Clients \ {c} : ring'[d] = ring[d]
  BY <1>1, <1>2 DEF s
<1>5. /\ Append(tape, f) \in Seq(Frames) /\ Len(Append(tape, f)) = Len(tape) + 1
      /\ \A i \in 1 .. Len(tape) : Append(tape, f)[i] = tape[i]
      /\ Append(tape, f)[Len(tape) + 1] = f
      /\ FramesIn(Append(tape, f)) = FramesIn(tape) \cup {f}
      /\ Len(tape) \in Nat
  BY <1>2, <1>3, AppendedFrames
<1>6. FrameTypes'
  BY <1>1, <1>2, <1>3, <1>5 DEF FrameInv, FrameTypes
<1>7. Taken' = Taken \cup {f}
  BY <1>1, <1>5 DEF Taken
<1>8. Accepted' = Accepted
  <2>1. InRing(c) = InRing(c)' \cup {f} /\ \A d \in Clients \ {c} : InRing(d)' = InRing(d)
    BY <1>3, <1>4 DEF InRing
  <2>2. Accepted' = (UNION {InRing(d)' : d \in Clients}) \cup Taken'
    BY VenuesAssumption DEF Accepted, Taken
  <2> QED BY <2>1, <2>2, <1>4, <1>7, AcceptedIs
<1>9. RingSound(c) /\ TakenSound
  BY <1>4 DEF FrameInv
<1>10. \A i \in 1 .. Len(s) : s[i] \in Frames /\ s[i].n \in Nat
  <2>1. \A i \in 1 .. Len(s) : s[i] \in Frames
    BY <1>2, ElementOfSeq
  <2> QED BY <2>1 DEF Frames
<1>11. f.venue = c /\ f.n <= msgCount[c]
       /\ \A j \in 1 .. Len(ring'[c]) : f.n < ring'[c][j].n
  BY <1>3, <1>4, <1>9 DEF RingSound, f
<1>12. \A g \in Taken : g \in Frames /\ g.venue \in Clients /\ (g.venue = c => g.n < f.n)
  <2>1. ASSUME NEW g \in Taken PROVE g \in Frames
    BY <2>1, AcceptedNumbered, AcceptedIs
  <2>2. ASSUME NEW g \in Taken, g.venue = c PROVE g.n < f.n
    BY <2>2, <1>3, <1>4, <1>9 DEF TakenSound, f
  <2> QED BY <2>1, <2>2 DEF Frames
<1>13. ASSUME NEW d \in Clients PROVE RingSound(d)'
  <2>1. RingSound(d)
    BY DEF FrameInv
  <2>2. CASE d # c
    BY <2>1, <2>2, <1>1, <1>4 DEF RingSound
  <2>3. CASE d = c
    <3>1. Len(ring'[c]) <= RingCapacity
      BY <1>3, <1>4, <1>9, RingCapacityAssumption DEF RingSound
    <3>2. ASSUME NEW i \in 1 .. Len(ring'[c])
          PROVE  ring'[c][i] = s[i + 1] /\ i + 1 \in 1 .. Len(s)
      BY <1>3, <1>4
    <3>3. ASSUME NEW i \in 1 .. Len(s)
          PROVE  s[i].venue = c /\ s[i].n <= msgCount'[c] /\ \A j \in 1 .. Len(s) : i < j => s[i].n < s[j].n
      BY <1>1, <1>4, <1>9 DEF RingSound
    <3>4. ASSUME NEW i \in 1 .. Len(ring'[c]), NEW j \in 1 .. Len(ring'[c]), i < j
          PROVE  ring'[c][i].n < ring'[c][j].n
      BY SMTT(30), <3>2, <3>3, <3>4
    <3> QED BY <2>3, <3>1, <3>2, <3>3, <3>4 DEF RingSound
  <2> QED BY <2>2, <2>3
<1>14. TakenSound'
  <2>1. ASSUME NEW g \in Taken'
        PROVE  /\ g.n <= msgCount'[g.venue]
               /\ \A j \in 1 .. Len(ring'[g.venue]) : g.n < ring'[g.venue][j].n
    <3>1. CASE g = f
      BY <3>1, <1>1, <1>11
    <3>2. CASE g \in Taken
      <4>1. g.n <= msgCount[g.venue] /\ \A j \in 1 .. Len(ring[g.venue]) : g.n < ring[g.venue][j].n
        BY <3>2, <1>9 DEF TakenSound
      <4>2. CASE g.venue # c
        BY <4>1, <4>2, <3>2, <1>1, <1>4, <1>12
      <4>3. CASE g.venue = c
        BY <4>1, <4>3, <1>1, <1>3, <1>4
      <4> QED BY <4>2, <4>3
    <3> QED BY <2>1, <3>1, <3>2, <1>7
  <2>2. f \notin Taken
    BY <1>3, <1>11, <1>12 DEF Frames
  <2>3. (unwritten \cap FramesIn(tape))' = {}
    BY <2>2, <1>1, <1>5, <1>9 DEF TakenSound, Taken
  <2>4. VenueOrderKept'
    <3>1. CASE tape' = tape
      BY <3>1, <1>9 DEF TakenSound, VenueOrderKept
    <3>2. CASE tape' = Append(tape, f)
      <4>1. DOMAIN tape = 1 .. Len(tape) /\ DOMAIN tape' = 1 .. Len(tape) + 1
        BY <3>2, <1>2, <1>5, LenProperties
      <4>2. ASSUME NEW i \in DOMAIN tape', NEW j \in DOMAIN tape',
                   i < j, tape'[i].venue = tape'[j].venue
            PROVE  tape'[i].n < tape'[j].n
        <5>1. i \in DOMAIN tape /\ tape'[i] = tape[i]
          BY <4>1, <4>2, <3>2, <1>5
        <5>2. CASE j \in DOMAIN tape
          BY <5>1, <5>2, <4>1, <4>2, <3>2, <1>5, <1>9 DEF TakenSound, VenueOrderKept
        <5>3. CASE j = Len(tape) + 1
          <6>1. tape[i] \in Taken /\ tape'[j] = f
            BY <5>1, <5>3, <3>2, <1>5 DEF Taken, FramesIn
          <6> QED BY <6>1, <5>1, <4>2, <1>11, <1>12
        <5> QED BY <5>2, <5>3, <4>1, <1>5
      <4> QED BY <4>2 DEF VenueOrderKept
    <3> QED BY <3>1, <3>2, <1>1
  <2> QED BY <2>1, <2>3, <2>4 DEF TakenSound
<1>15. DroppedSound' /\ AllAccounted'
  BY <1>1, <1>8 DEF FrameInv, DroppedSound, AllAccounted
<1> QED BY <1>6, <1>8, <1>13, <1>14, <1>15 DEF FrameInv

-----------------------------------------------------------------------------
(* Where main and the writer are bounds what they know of the others: main *)
(* is past a join only if the joined thread is done, and the writer takes  *)
(* its last steps only after g_stop.                                       *)

MainPcs ==
    {"wait", "store", "stopSpot", "stopPerp", "joinSpot", "joinPerp", "joinWriter", "exit"}
WriterPcs == {"check", "drain", "flush", "finalDrain", "finalFlush", "done"}

ControlTypes ==
    /\ gStop \in BOOLEAN /\ timed \in BOOLEAN
    /\ mpc \in MainPcs /\ wpc \in WriterPcs
    /\ target \in Clients /\ written \in Nat /\ flushed \in 0 .. Len(tape)

ControlInv ==
    /\ mpc \notin {"wait", "store"} => gStop
    /\ wpc \in {"finalDrain", "finalFlush", "done"} => gStop
    /\ mpc \in {"joinPerp", "joinWriter", "exit"} => cpc[Spot] = "done"
    /\ mpc \in {"joinWriter", "exit"} => cpc[Perp] = "done"
    /\ wpc = "done" => flushed = Len(tape)
    /\ mpc = "exit" => wpc = "done"

(* The program counter of a client that is done stays.                     *)
LEMMA DoneIsFinal ==
    ASSUME Shape, [Next]_vars, NEW c \in Clients, cpc[c] = "done"
    PROVE  cpc'[c] = "done"
<1>1. CASE cpc' = cpc
  BY <1>1
<1>2. ASSUME NEW d \in Clients, Local(d) \/ Network(d) \/ OnText(d) PROVE cpc'[c] = "done"
  <2>1. cpc[d] # "done" /\ \A x \in Clients \ {d} : cpc'[x] = cpc[x]
    BY <1>2 DEF Shape, Local, Network, RunLoop, AfterSession, SleepPollStop, SleepDeadline,
       ReadLoop, Connect, ConnectThrows, ReadFrame, ReadThrows, Throws, OnText, Close, Goto
  <2> QED BY <2>1
<1>3. cpc' = cpc \/ \E d \in Clients : Local(d) \/ Network(d) \/ OnText(d)
  BY DEF vars, clientVars, Next, ClientStep, Writer, WriterCheck, DrainOne, DrainDone, FlushMaybe,
     FinalFlush, Main, MainWait, MainStore, MainStopSpot, MainStopPerp, MainJoinSpot,
     MainJoinPerp, MainJoinWriter, Stop, Signal
<1> QED BY <1>1, <1>2, <1>3

LEMMA ControlTypesKept ==
    ASSUME FrameTypes, ControlTypes, [Next]_vars
    PROVE  ControlTypes'
<1> USE DEF ControlTypes, MainPcs, WriterPcs
<1>1. Len(tape) \in Nat
  BY LenProperties DEF FrameTypes
<1>2. CASE UNCHANGED vars
  BY <1>2 DEF vars, mainVars, writerVars, stopVars
<1>3. CASE \E c \in Clients : ClientStep(c)
  BY <1>3 DEF ClientStep, mainVars, writerVars, stopVars
<1>4. CASE WriterCheck \/ DrainDone \/ FlushMaybe \/ FinalFlush
  BY <1>1, <1>4, VenuesAssumption
  DEF WriterCheck, DrainDone, FlushMaybe, FinalFlush, mainVars, stopVars
<1>5. CASE DrainOne
  <2>1. Len(tape') \in {Len(tape), Len(tape) + 1}
    <3>1. ring[target] \in Seq(Frames) /\ ring[target] # <<>>
      BY <1>5 DEF DrainOne, FrameTypes
    <3>2. ring[target][1] \in Frames
      BY <3>1, PoppedIsTail
    <3> QED BY <1>5, <3>2, AppendProperties DEF DrainOne, PopIndex, FrameTypes
  <2> QED BY <1>1, <1>5, <2>1 DEF DrainOne, mainVars, stopVars
<1>6. CASE Main
  BY <1>6 DEF Main, MainWait, MainStore, MainStopSpot, MainStopPerp, MainJoinSpot, MainJoinPerp,
     MainJoinWriter, MainGoto, SetStop, writerVars, stopVars
<1>7. CASE Signal
  BY <1>7 DEF Signal, SetStop, mainVars, writerVars
<1> QED BY <1>2, <1>3, <1>4, <1>5, <1>6, <1>7 DEF Next, Writer

LEMMA ControlKept ==
    ASSUME Shape, FrameTypes, ControlTypes, ControlInv, [Next]_vars
    PROVE  ControlInv'
<1> USE DEF ControlInv, ControlTypes
<1>1. /\ cpc[Spot] = "done" => cpc'[Spot] = "done"
      /\ cpc[Perp] = "done" => cpc'[Perp] = "done"
  BY DoneIsFinal, VenuesAssumption
<1>2. CASE UNCHANGED vars
  BY <1>1, <1>2 DEF vars, mainVars, writerVars, stopVars
<1>3. CASE \E c \in Clients : ClientStep(c)
  BY <1>1, <1>3 DEF ClientStep, mainVars, writerVars, stopVars
<1>4. CASE Writer
  BY <1>1, <1>4 DEF Writer, WriterCheck, DrainOne, DrainDone, FlushMaybe, FinalFlush, mainVars, stopVars
<1>5. CASE Main
  BY <1>1, <1>5 DEF Main, MainWait, MainStore, MainStopSpot, MainStopPerp, MainJoinSpot,
     MainJoinPerp, MainJoinWriter, MainGoto, SetStop, writerVars, stopVars, clientVars
<1>6. CASE Signal
  BY <1>1, <1>6 DEF Signal, SetStop, mainVars, writerVars
<1> QED BY <1>2, <1>3, <1>4, <1>5, <1>6 DEF Next

-----------------------------------------------------------------------------
(* What was accepted before the stop leaves the rings in the final drain,  *)
(* first that of Spot, and no frame comes back.                            *)

Drained(c) ==
    \/ wpc = "finalDrain" /\ target = Perp /\ c = Spot
    \/ wpc \in {"finalFlush", "done"}

StopInv ==
    /\ beforeStop \subseteq Accepted
    /\ \A c \in Clients : Drained(c) => beforeStop \cap InRing(c) = {}

FramesInv == FrameInv /\ ControlTypes

LEMMA FrameStep ==
    ASSUME ClientInv, CountInv, FramesInv, [Next]_vars
    PROVE  /\ FrameInv' /\ Accepted \subseteq Accepted'
           /\ \A c \in Clients : InRing(c)' \cap Accepted \subseteq InRing(c)
<1> USE DEF FramesInv
<1>1. CASE UNCHANGED frameVars
  BY <1>1 DEF frameVars, FrameInv, FrameTypes, TakenSound, DroppedSound, AllAccounted, RingSound,
     VenueOrderKept, Taken, Accepted, InRing
<1>2. ASSUME NEW c \in Clients, Hand(c)
      PROVE  /\ FrameInv' /\ Accepted \subseteq Accepted'
             /\ \A d \in Clients : InRing(d)' \cap Accepted \subseteq InRing(d)
  <2> DEFINE f == Frame(c, received[c])
  <2>1. FrameInv'
    BY <1>2, PushKeepsFrames, DropKeepsFrames
  <2>2. f \in Frames /\ f \notin Accepted
    <3>1. f \in Frames /\ f.venue = c /\ f.n = msgCount[c] + 1 /\ msgCount[c] \in Nat
      BY <1>2, FrameIsNew DEF Hand, Frame
    <3>2. f \in Accepted => f.n <= msgCount[f.venue]
      BY AcceptedNumbered
    <3> QED BY <3>1, <3>2
  <2>3. /\ tape' = tape /\ unwritten' = unwritten
        /\ ring' = [ring EXCEPT ![c] = Append(ring[c], f)] \/ ring' = ring
    BY <1>2 DEF Hand, Handler, writerVars
  <2>4. ring \in [Clients -> Seq(Frames)]
    BY DEF FrameInv, FrameTypes
  <2> HIDE DEF f
  <2>5. ASSUME NEW d \in Clients PROVE InRing(d)' \in {InRing(d), InRing(d) \cup {f}}
    <3>1. FramesIn(Append(ring[c], f)) = FramesIn(ring[c]) \cup {f}
      BY <2>2, <2>4, AppendedFrames
    <3>2. ring'[d] = ring[d] \/ (d = c /\ ring'[d] = Append(ring[d], f))
      BY <2>3, <2>4
    <3> QED BY <3>1, <3>2 DEF InRing
  <2>6. Accepted' = (UNION {InRing(d)' : d \in Clients}) \cup Taken /\ Taken' = Taken
    BY <2>3, VenuesAssumption DEF Accepted, Taken
  <2> QED BY <2>1, <2>2, <2>5, <2>6, AcceptedIs
<1>3. CASE DrainOne
  <2>1. PICK c \in Clients : target = c
    BY DEF ControlTypes
  <2>2. FrameInv' /\ Accepted' = Accepted
    BY <1>3, <2>1, DrainKeepsFrames
  <2>3. ASSUME NEW d \in Clients PROVE InRing(d)' \subseteq InRing(d)
    <3>1. ring \in [Clients -> Seq(Frames)] /\ ring[c] \in Seq(Frames)
      BY DEF FrameInv, FrameTypes
    <3>2. ring[c] # <<>> /\ ring' = [ring EXCEPT ![c] = Popped(ring[c])]
      BY <1>3, <2>1 DEF DrainOne, Popped
    <3>3. FramesIn(ring[c]) = FramesIn(Popped(ring[c])) \cup {ring[c][1]}
      BY <3>1, <3>2, PoppedFrames
    <3> QED BY <3>1, <3>2, <3>3 DEF InRing
  <2> QED BY <2>2, <2>3
<1> QED BY <1>1, <1>2, <1>3, FrameSteps

LEMMA StopKept ==
    ASSUME ClientInv, CountInv, FramesInv, ControlInv, StopInv, [Next]_vars
    PROVE  StopInv'
<1>1. /\ Accepted \subseteq Accepted'
      /\ \A c \in Clients : InRing(c)' \cap Accepted \subseteq InRing(c)
  BY FrameStep
<1>2. beforeStop' = beforeStop \/ (~gStop /\ beforeStop' = Accepted /\ UNCHANGED writerVars)
  BY DEF vars, stopVars, Next, ClientStep, Writer, WriterCheck, DrainOne, DrainDone, FlushMaybe,
     FinalFlush, Main, MainWait, MainStore, MainStopSpot, MainStopPerp, MainJoinSpot, MainJoinPerp,
     MainJoinWriter, MainGoto, Signal, SetStop
<1>3. beforeStop' \subseteq Accepted'
  BY <1>1, <1>2 DEF StopInv
<1>4. ASSUME NEW c \in Clients, Drained(c)' PROVE beforeStop' \cap InRing(c)' = {}
  <2>1. Drained(c) \/ (DrainDone /\ ring[c] = <<>>)
    <3>1. CASE WriterCheck
      BY <3>1, <1>4, VenuesAssumption DEF WriterCheck, Drained
    <3>2. CASE DrainDone
      BY <3>2, <1>4, VenuesAssumption DEF DrainDone, Drained, FramesInv, ControlTypes
    <3>3. CASE FlushMaybe \/ FinalFlush \/ DrainOne
      BY <3>3, <1>4 DEF FlushMaybe, FinalFlush, DrainOne, Drained
    <3>4. CASE UNCHANGED writerVars
      BY <3>4, <1>4 DEF writerVars, Drained
    <3> QED
      BY <3>1, <3>2, <3>3, <3>4
      DEF vars, Next, ClientStep, Writer, Main, MainWait, MainStore, MainStopSpot, MainStopPerp,
          MainJoinSpot, MainJoinPerp, MainJoinWriter, MainGoto, Signal
  <2>2. CASE Drained(c)
    <3>1. gStop
      BY <2>2 DEF Drained, ControlInv
    <3> QED BY <2>2, <3>1, <1>1, <1>2 DEF StopInv
  <2>3. CASE DrainDone /\ ring[c] = <<>>
    BY <2>3 DEF DrainDone, InRing, FramesIn
  <2> QED BY <2>1, <2>2, <2>3
<1> QED BY <1>3, <1>4 DEF StopInv

-----------------------------------------------------------------------------
LEMMA InitSound == Init => FramesInv /\ ControlInv /\ StopInv
<1> SUFFICES ASSUME Init PROVE FramesInv /\ ControlInv /\ StopInv
  OBVIOUS
<1>1. \A c \in Clients : ring[c] = <<>> /\ msgCount[c] = 0 /\ InRing(c) = {}
  <2>1. FramesIn(<<>>) = {}
    BY DEF FramesIn
  <2> QED BY <2>1 DEF Init, ClientInit, InRing
<1>2. tape = <<>> /\ Len(tape) = 0 /\ FramesIn(tape) = {} /\ unwritten = {} /\ dropped = {}
  BY DEF Init, FramesIn
<1>3. Accepted = {} /\ Taken = {}
  BY <1>1, <1>2, AcceptedIs DEF Taken
<1>4. FrameTypes
  BY DEF Init, FrameTypes
<1>5. FrameInv
  BY <1>1, <1>2, <1>3, <1>4, RingCapacityAssumption
  DEF FrameInv, RingSound, TakenSound, DroppedSound, AllAccounted, VenueOrderKept
<1>6. ControlTypes /\ ControlInv
  <2>1. Spot \in Clients /\ gStop = FALSE /\ mpc = "wait" /\ wpc = "check" /\ target = Spot
        /\ timed \in BOOLEAN /\ written = 0 /\ flushed = 0
    BY VenuesAssumption DEF Init
  <2>2. flushed \in 0 .. Len(tape) /\ written \in Nat
    BY <1>2, <2>1
  <2>3. gStop \in BOOLEAN /\ mpc \in MainPcs /\ wpc \in WriterPcs
    BY <2>1 DEF MainPcs, WriterPcs
  <2>4. ControlInv
    BY <2>1 DEF ControlInv
  <2> QED BY <2>1, <2>2, <2>3, <2>4 DEF ControlTypes
<1>7. StopInv
  BY <1>1 DEF Init, StopInv
<1> QED BY <1>5, <1>6, <1>7 DEF FramesInv

LEMMA CaptureInvHolds == Spec => [](FramesInv /\ ControlInv /\ StopInv)
<1>1. /\ ClientInv /\ CountInv /\ FramesInv /\ ControlInv /\ StopInv
      /\ [Next]_vars
      => (FramesInv /\ ControlInv /\ StopInv)'
  BY FrameStep, ControlTypesKept, ControlKept, StopKept DEF FramesInv, FrameInv, ClientInv
<1> QED BY InitSound, <1>1, ClientsSound, PTL DEF Spec

-----------------------------------------------------------------------------
(* Type correctness, with the bounds of the clients' counters and of the   *)
(* rings.                                                                  *)
THEOREM CaptureTypeCorrect == Spec => []TypeOK
<1>1. ASSUME ClientInv, CountInv, FramesInv, StopInv PROVE TypeOK
  <2>1. ClientTypeOK
    BY <1>1, CountGivesTypes
  <2>2. \A c \in Clients : InRing(c) \subseteq Frames /\ Len(ring[c]) <= RingCapacity
    BY <1>1, RingMembers DEF FramesInv, FrameInv, RingSound
  <2>3. Accepted \subseteq Frames
    BY <1>1, AcceptedNumbered DEF FramesInv
  <2>4. FramesIn(tape) \subseteq Frames /\ beforeStop \subseteq Frames
    BY <1>1, <2>3, AcceptedIs DEF StopInv, Taken
  <2> QED BY <1>1, <2>1, <2>2, <2>4
          DEF TypeOK, FramesInv, FrameInv, FrameTypes, ControlTypes, MainPcs, WriterPcs
<1> QED BY <1>1, ClientsSound, CaptureInvHolds, PTL

(* On the tape the frames of a venue are in the order they were received,  *)
(* whatever the rings dropped, whichever write failed and however the two  *)
(* venues, the writer and the stop interleave.                             *)
THEOREM TapeKeepsVenueOrder == Spec => []VenueOrderKept
<1>1. FramesInv => VenueOrderKept
  BY DEF FramesInv, FrameInv, TakenSound
<1> QED BY <1>1, CaptureInvHolds, PTL

(* Every frame handed to a callback is in exactly one place: in a ring, on *)
(* the tape, counted as dropped, or lost by a write that failed.           *)
THEOREM NoFrameVanishes == Spec => []EveryFrameAccounted
<1>1. ASSUME ClientInv, CountInv, FramesInv, NEW c \in Clients, NEW n \in 1 .. msgCount[c]
      PROVE  Cardinality(Places(Frame(c, n))) = 1
  <2> DEFINE f == Frame(c, n)
  <2>1. f.venue = c /\ f.n = n /\ f \in Accepted \cup dropped
    BY <1>1 DEF FramesInv, FrameInv, AllAccounted, Frame
  <2> HIDE DEF f
  <2>2. f \in Accepted => f \notin dropped
    BY <1>1 DEF FramesInv, FrameInv, DroppedSound
  <2>3. f \in Accepted <=> f \in InRing(c) \/ f \in FramesIn(tape) \/ f \in unwritten
    <3>1. ASSUME NEW d \in Clients, f \in InRing(d) PROVE d = c
      BY <1>1, <3>1, <2>1, RingMembers DEF FramesInv, FrameInv, RingSound
    <3> QED BY <3>1, AcceptedIs DEF Taken
  <2>4. f \in InRing(c) => f \notin Taken
    <3>1. ASSUME f \in InRing(c), f \in Taken PROVE FALSE
      <4>1. PICK j \in 1 .. Len(ring[c]) : f = ring[c][j]
        <5>1. InRing(c) = {ring[c][i] : i \in 1 .. Len(ring[c])}
          BY <1>1, RingMembers DEF FramesInv, FrameInv
        <5> QED BY <5>1, <3>1
      <4>2. f.n < ring[c][j].n /\ f.n \in Int
        <5>1. \A k \in 1 .. Len(ring[f.venue]) : f.n < ring[f.venue][k].n
          BY <1>1, <3>1 DEF FramesInv, FrameInv, TakenSound
        <5> QED BY <5>1, <2>1, <4>1
      <4> QED BY <4>1, <4>2
    <3> QED BY <3>1
  <2>5. ~(f \in unwritten /\ f \in FramesIn(tape))
    BY <1>1 DEF FramesInv, FrameInv, TakenSound
  <2>6. /\ "ring" \in Places(f) <=> f \in InRing(c)
        /\ "tape" \in Places(f) <=> f \in FramesIn(tape)
        /\ "dropped" \in Places(f) <=> f \in dropped
        /\ "unwritten" \in Places(f) <=> f \in unwritten
    BY <2>1, Zenon DEF Places
  <2>7. Places(f) \subseteq {"ring", "tape", "dropped", "unwritten"}
    BY DEF Places
  <2>8. /\ f \in InRing(c) \/ f \in FramesIn(tape) \/ f \in unwritten \/ f \in dropped
        /\ f \in InRing(c) => f \notin FramesIn(tape) /\ f \notin unwritten /\ f \notin dropped
        /\ f \in FramesIn(tape) => f \notin unwritten /\ f \notin dropped
        /\ f \in unwritten => f \notin dropped
    BY <2>1, <2>2, <2>3, <2>4, <2>5 DEF Taken
  <2>9. Places(f) \in {{"ring"}, {"tape"}, {"dropped"}, {"unwritten"}}
    BY <2>6, <2>7, <2>8
  <2>10. \A x : Cardinality({x}) = 1
    BY FS_Singleton
  <2>11. Cardinality(Places(f)) = 1
    BY <2>9, <2>10
  <2> QED BY <2>11 DEF f
<1>2. ClientInv /\ CountInv /\ FramesInv => EveryFrameAccounted
  BY <1>1 DEF EveryFrameAccounted
<1> QED BY <1>2, ClientsSound, CaptureInvHolds, PTL

(* The final drain completes what the drain it replaces had not done: all  *)
(* that was accepted when g_stop was set is on the tape once the writer is *)
(* done, but for failed writes.                                            *)
THEOREM FinalDrainCompletes == Spec => []NothingLostBeforeStop
<1>1. StopInv => NothingLostBeforeStop
  BY VenuesAssumption DEF StopInv, NothingLostBeforeStop, Drained, Accepted
<1> QED BY <1>1, CaptureInvHolds, PTL

(* When main returns no thread can touch the rings, the clients or the     *)
(* tape any more, and the tape is flushed.                                 *)
THEOREM ExitIsAlwaysQuiescent == Spec => []ExitIsQuiescent
<1>1. ControlInv => ExitIsQuiescent
  BY VenuesAssumption DEF ControlInv, ExitIsQuiescent
<1> QED BY <1>1, CaptureInvHolds, PTL
=============================================================================
