------------------------------ MODULE Capture ------------------------------
(***************************************************************************)
(* etfmm_capture (cpp/src/capture_main.cpp): two WebSocket threads, each   *)
(* pushing frames into its ring, one writer thread that drains both rings  *)
(* to the tape, the main thread that waits for the deadline or a signal    *)
(* and then stops and joins the others.                                    *)
(*                                                                         *)
(* The clients are those of WsClient, with the on_text callback filled in. *)
(* A ring is the abstract queue that SpscRing implements, with both sides  *)
(* up to date: try_push and try_pop are atomic.                            *)
(***************************************************************************)
EXTENDS WsClient, Sequences, FiniteSets

CONSTANTS
    Spot, Perp,         \* the two venues
    RingCapacity,       \* kRingCapacity
    MaxTotalFrames,     \* bound on the frames both servers send together
    MaxWriteFailures    \* bound on the calls of write_frame that fail

ASSUME VenuesAssumption == Clients = {Spot, Perp} /\ Spot # Perp
ASSUME RingCapacityAssumption == RingCapacity \in Nat \ {0}

VARIABLES
    gStop,          \* g_stop
    timed,          \* run_seconds > 0
    mpc,            \* where main is
    ring,           \* the rings: sequences of frames
    dropped,        \* frames lost by the callback (history)
    wpc,            \* where the writer thread is
    target,         \* the ring it drains
    written,        \* its local counter
    tape,           \* the frames written, in file order
    flushed,        \* how many of them fflush has handed to the system
    unwritten,      \* frames whose write_frame failed (history)
    beforeStop      \* frames accepted when g_stop was first set (history)

mainVars == <<timed, mpc>>
writerVars == <<wpc, target, written, tape, flushed, unwritten>>
stopVars == <<gStop, beforeStop>>
vars == <<clientVars, mainVars, ring, dropped, writerVars, stopVars>>

Frame(c, n) == [venue |-> c, n |-> n]
FramesIn(seq) == {seq[i] : i \in DOMAIN seq}

InRing(c) == FramesIn(ring[c])
Accepted == InRing(Spot) \cup InRing(Perp) \cup FramesIn(tape) \cup unwritten

Init ==
    /\ ClientInit
    /\ gStop = FALSE /\ beforeStop = {}
    /\ timed \in BOOLEAN /\ mpc = "wait"
    /\ ring = [c \in Clients |-> <<>>]
    /\ dropped = {}
    /\ wpc = "check" /\ target = Spot /\ written = 0
    /\ tape = <<>> /\ flushed = 0 /\ unwritten = {}

-----------------------------------------------------------------------------
(* The WebSocket threads.  The callback pushes the frame; a full ring      *)
(* drops it.  Its timestamp is left out: it is the wall clock's, on which  *)
(* nothing here depends.                                                   *)

(* Mutant of HasRoom: one frame too many.                                  *)
HasRoomLate(c) == Len(ring[c]) <= RingCapacity
HasRoom(c) == Len(ring[c]) < RingCapacity

(* Mutant of Handler: on overflow the oldest frame makes room.             *)
HandlerEvicts(c) ==
    LET f == Frame(c, received[c]) IN
    /\ ring' = [ring EXCEPT ![c] = Append(IF HasRoom(c) THEN @ ELSE Tail(@), f)]
    /\ UNCHANGED dropped
Handler(c) ==
    LET f == Frame(c, received[c]) IN
    IF HasRoom(c)
      THEN ring' = [ring EXCEPT ![c] = Append(@, f)] /\ UNCHANGED dropped
      ELSE dropped' = dropped \cup {f} /\ UNCHANGED ring

ClientStep(c) ==
    \/ /\ Local(c) \/ Network(c)
       /\ received'[Spot] + received'[Perp] <= MaxTotalFrames
       /\ UNCHANGED <<mainVars, ring, dropped, writerVars, stopVars>>
    \/ /\ OnText(c) /\ Handler(c)
       /\ UNCHANGED <<mainVars, writerVars, stopVars>>

-----------------------------------------------------------------------------
(* The writer thread.  Its 10 ms sleep changes nothing and is left out.    *)

(* Mutant of WriterCheck: no final drain.                                  *)
WriterCheckNoDrain ==
    /\ wpc = "check"
    /\ wpc' = IF gStop THEN "finalFlush" ELSE "drain"
    /\ target' = Spot
    /\ UNCHANGED <<written, tape, flushed, unwritten, ring, clientVars, mainVars,
                   dropped, stopVars>>
WriterCheck ==
    /\ wpc = "check"
    /\ wpc' = IF gStop THEN "finalDrain" ELSE "drain"
    /\ target' = Spot
    /\ UNCHANGED <<written, tape, flushed, unwritten, ring, clientVars, mainVars,
                   dropped, stopVars>>

(* Mutant of PopIndex: last in, first out.                                 *)
PopIndexLast(s) == Len(s)
PopIndex(s) == 1

(* One try_pop and its write_frame, whose result the writer ignores.       *)
DrainOne ==
    /\ wpc \in {"drain", "finalDrain"}
    /\ ring[target] # <<>>
    /\ LET s == ring[target]
           k == PopIndex(s)
       IN  /\ ring' = [ring EXCEPT ![target] =
                          SubSeq(s, 1, k - 1) \o SubSeq(s, k + 1, Len(s))]
           /\ \/ tape' = Append(tape, s[k]) /\ UNCHANGED unwritten
              \/ /\ Cardinality(unwritten) < MaxWriteFailures
                 /\ unwritten' = unwritten \cup {s[k]}
                 /\ UNCHANGED tape
    /\ written' = written + 1
    /\ UNCHANGED <<wpc, target, flushed, clientVars, mainVars, dropped, stopVars>>

DrainDone ==
    /\ wpc \in {"drain", "finalDrain"}
    /\ ring[target] = <<>>
    /\ IF target = Spot
         THEN target' = Perp /\ UNCHANGED wpc
         ELSE /\ wpc' = IF wpc = "drain" THEN "flush" ELSE "finalFlush"
              /\ UNCHANGED target
    /\ UNCHANGED <<written, tape, flushed, unwritten, ring, clientVars, mainVars,
                   dropped, stopVars>>

(* Flush and log if a second has passed, or not yet.                       *)
FlushMaybe ==
    /\ wpc = "flush"
    /\ flushed' \in {flushed, Len(tape)}
    /\ wpc' = "check"
    /\ UNCHANGED <<target, written, tape, unwritten, ring, clientVars, mainVars,
                   dropped, stopVars>>

FinalFlush ==
    /\ wpc = "finalFlush"
    /\ flushed' = Len(tape)
    /\ wpc' = "done"
    /\ UNCHANGED <<target, written, tape, unwritten, ring, clientVars, mainVars,
                   dropped, stopVars>>

Writer == WriterCheck \/ DrainOne \/ DrainDone \/ FlushMaybe \/ FinalFlush

-----------------------------------------------------------------------------
(* The main thread, and the signal handler that runs at any time.          *)

SetStop ==
    /\ gStop' = TRUE
    /\ beforeStop' = IF gStop THEN beforeStop ELSE Accepted

Signal ==
    /\ mpc # "exit"
    /\ SetStop
    /\ UNCHANGED <<clientVars, mainVars, ring, dropped, writerVars>>

MainGoto(from, to) ==
    /\ mpc = from /\ mpc' = to
    /\ UNCHANGED <<timed, ring, dropped, writerVars>>

(* Mutant of MainWait: without a deadline nothing ends the wait.           *)
MainWaitTimedOnly ==
    /\ timed
    /\ MainGoto("wait", "store")
    /\ UNCHANGED <<clientVars, stopVars>>

(* Out of the wait loop: by the deadline, if there is one, or by g_stop.   *)
MainWait ==
    /\ timed \/ gStop
    /\ MainGoto("wait", IF timed THEN "store" ELSE "stopSpot")
    /\ UNCHANGED <<clientVars, stopVars>>

MainStore == MainGoto("store", "stopSpot") /\ SetStop /\ UNCHANGED clientVars
MainStopSpot == MainGoto("stopSpot", "stopPerp") /\ Stop(Spot) /\ UNCHANGED stopVars
MainStopPerp == MainGoto("stopPerp", "joinSpot") /\ Stop(Perp) /\ UNCHANGED stopVars

MainJoinSpot ==
    /\ cpc[Spot] = "done"
    /\ MainGoto("joinSpot", "joinPerp")
    /\ UNCHANGED <<clientVars, stopVars>>

MainJoinPerp ==
    /\ cpc[Perp] = "done"
    /\ MainGoto("joinPerp", "joinWriter")
    /\ UNCHANGED <<clientVars, stopVars>>

(* Mutant of MainJoinWriter: the writer is not joined.                     *)
MainJoinWriterNot ==
    /\ MainGoto("joinWriter", "exit")
    /\ UNCHANGED <<clientVars, stopVars>>
MainJoinWriter ==
    /\ wpc = "done"
    /\ MainGoto("joinWriter", "exit")
    /\ UNCHANGED <<clientVars, stopVars>>

Main ==
    \/ MainWait \/ MainStore \/ MainStopSpot \/ MainStopPerp
    \/ MainJoinSpot \/ MainJoinPerp \/ MainJoinWriter

Next == (\E c \in Clients : ClientStep(c)) \/ Writer \/ Main \/ Signal

Spec == Init /\ [][Next]_vars

(* Every thread is scheduled.  The second specification adds a network     *)
(* that never leaves a call pending for ever.                              *)
ThreadsScheduled ==
    /\ WF_vars(Writer) /\ WF_vars(Main)
    /\ \A c \in Clients : WF_vars((Local(c) \/ OnText(c)) /\ ClientStep(c))
SilentSpec == Spec /\ ThreadsScheduled
FairSpec == SilentSpec /\ \A c \in Clients : WF_vars(Network(c) /\ ClientStep(c))

-----------------------------------------------------------------------------
Frames == [venue : Clients, n : 1 .. MaxFrames]

TypeOK ==
    /\ ClientTypeOK
    /\ gStop \in BOOLEAN /\ timed \in BOOLEAN
    /\ mpc \in {"wait", "store", "stopSpot", "stopPerp", "joinSpot", "joinPerp",
                "joinWriter", "exit"}
    /\ \A c \in Clients : InRing(c) \subseteq Frames /\ Len(ring[c]) <= RingCapacity
    /\ FramesIn(tape) \subseteq Frames
    /\ wpc \in {"check", "drain", "flush", "finalDrain", "finalFlush", "done"}
    /\ target \in Clients
    /\ written \in Nat
    /\ flushed \in 0 .. Len(tape)
    /\ dropped \subseteq Frames /\ unwritten \subseteq Frames
    /\ beforeStop \subseteq Frames

(* On the tape the frames of one venue are in the order they were          *)
(* received, whatever was dropped and whichever write failed in between:   *)
(* the book built from them depends on it.                                 *)
VenueOrderKept ==
    \A i, j \in DOMAIN tape :
        i < j /\ tape[i].venue = tape[j].venue => tape[i].n < tape[j].n

(* No frame vanishes and none is duplicated: each one handed to a callback *)
(* is in exactly one place, and after the stop it may stay in a ring that  *)
(* nobody drains any more.                                                 *)
Places(f) ==
    {x \in {"ring", "tape", "dropped", "unwritten"} :
        CASE x = "ring" -> f \in InRing(f.venue)
          [] x = "tape" -> f \in FramesIn(tape)
          [] x = "dropped" -> f \in dropped
          [] x = "unwritten" -> f \in unwritten}
EveryFrameAccounted ==
    \A c \in Clients : \A n \in 1 .. msgCount[c] : Cardinality(Places(Frame(c, n))) = 1

(* What both rings held, or the tape already had, when g_stop was set is   *)
(* on the tape once the writer is done (if its write succeeded): the final *)
(* drain completes what the loop it replaces had not done.                 *)
NothingLostBeforeStop ==
    wpc = "done" => beforeStop \subseteq FramesIn(tape) \cup unwritten

(* main returns, and destroys the rings, the clients and the tape, only    *)
(* when no thread can touch them any more and the tape is flushed.         *)
ExitIsQuiescent ==
    mpc = "exit" =>
        /\ wpc = "done" /\ flushed = Len(tape)
        /\ \A c \in Clients : cpc[c] = "done"

(* "With --seconds N the process exits after N seconds."                   *)
TimedRunExits == timed ~> mpc = "exit"

(* However the stop comes, the process ends: at the deadline, although no  *)
(* signal ever came, and after a signal, in a run without a deadline too.  *)
StopEndsProcess == TimedRunExits /\ (gStop ~> mpc = "exit")
=============================================================================
