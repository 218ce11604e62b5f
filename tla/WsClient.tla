------------------------------ MODULE WsClient ------------------------------
(***************************************************************************)
(* The WebSocket clients of cpp/src/ws_client.cpp, each run by a thread of *)
(* its own: connect, read text frames and hand them to the on_text         *)
(* callback, reconnect with exponential backoff, stop when asked.          *)
(*                                                                         *)
(* Time is abstract: a backoff sleep ends at its deadline or at the poll   *)
(* that finds stopping_ set, whichever happens to come first.  What the    *)
(* network does is free: a connect or a read succeeds, throws or, absent   *)
(* fairness, stays pending for ever.                                       *)
(***************************************************************************)
EXTENDS Naturals

CONSTANTS
    Clients,        \* the clients, one per venue
    MaxFrames,      \* bound on the frames a client's server sends
    MaxFailures     \* bound on the sessions of a client that throw before stop()

ASSUME BoundsAssumption == MaxFrames \in Nat /\ MaxFailures \in Nat

KMaxBackoff == 30

VARIABLES
    cpc,            \* where each client is in run / run_session_
    stopping,       \* stopping_
    backoff,        \* run's local backoff, in seconds
    reconnects,     \* reconnects_
    msgCount,       \* msg_count_
    received,       \* frames ws.read has returned; frame n is the n-th
    ended,          \* how the session just over ended (history)
    late            \* frames handed to on_text after stop() (history)

clientVars ==
    <<cpc, stopping, backoff, reconnects, msgCount, received, ended, late>>

ClientInit ==
    /\ cpc = [c \in Clients |-> "loop"]
    /\ stopping = [c \in Clients |-> FALSE]
    /\ backoff = [c \in Clients |-> 1]
    /\ reconnects = [c \in Clients |-> 0]
    /\ msgCount = [c \in Clients |-> 0]
    /\ received = [c \in Clients |-> 0]
    /\ ended = [c \in Clients |-> "none"]
    /\ late = [c \in Clients |-> 0]

Goto(c, from, to) == cpc[c] = from /\ cpc' = [cpc EXCEPT ![c] = to]

(* stop(), called from another thread.                                     *)
Stop(c) ==
    /\ stopping' = [stopping EXCEPT ![c] = TRUE]
    /\ UNCHANGED <<cpc, backoff, reconnects, msgCount, received, ended, late>>

-----------------------------------------------------------------------------
(* run                                                                     *)

RunLoop(c) ==
    /\ Goto(c, "loop", IF stopping[c] THEN "done" ELSE "connect")
    /\ UNCHANGED <<stopping, backoff, reconnects, msgCount, received, ended, late>>

(* The check between a session and its backoff sleep.                      *)
AfterSession(c) ==
    /\ Goto(c, "after", IF stopping[c] THEN "done" ELSE "sleep")
    /\ ended' = [ended EXCEPT ![c] = IF stopping[c] THEN "none" ELSE @]
    /\ UNCHANGED <<stopping, backoff, reconnects, msgCount, received, late>>

SleepPollStop(c) ==
    /\ stopping[c]
    /\ Goto(c, "sleep", "done")
    /\ ended' = [ended EXCEPT ![c] = "none"]
    /\ UNCHANGED <<stopping, backoff, reconnects, msgCount, received, late>>

(* Mutant of Doubled: linear growth.                                       *)
DoubledLinear(b) == IF b + 1 < KMaxBackoff THEN b + 1 ELSE KMaxBackoff
Doubled(b) == IF b * 2 < KMaxBackoff THEN b * 2 ELSE KMaxBackoff

(* Mutant of SleepDeadline: the first failure ends the run.                *)
SleepDeadlineGivesUp(c) ==
    /\ Goto(c, "sleep", "done")
    /\ ended' = [ended EXCEPT ![c] = "none"]
    /\ UNCHANGED <<stopping, backoff, reconnects, msgCount, received, late>>
SleepDeadline(c) ==
    /\ Goto(c, "sleep", "loop")
    /\ backoff' = [backoff EXCEPT ![c] = Doubled(@)]
    /\ ended' = [ended EXCEPT ![c] = "none"]
    /\ UNCHANGED <<stopping, reconnects, msgCount, received, late>>

-----------------------------------------------------------------------------
(* run_session_, and run's catch clause for the calls that throw           *)

Connect(c) ==
    /\ Goto(c, "connect", "check")
    /\ UNCHANGED <<stopping, backoff, reconnects, msgCount, received, ended, late>>

(* A session that throws, from the pc `from`, for the reason `how`.  Once  *)
(* stop() was called the client makes at most one more, beyond the bound.  *)
Throws(c, from, how) ==
    /\ reconnects[c] < MaxFailures \/ stopping[c]
    /\ Goto(c, from, "after")
    /\ reconnects' = [reconnects EXCEPT ![c] = @ + 1]
    /\ ended' = [ended EXCEPT ![c] = how]
    /\ UNCHANGED <<stopping, backoff, msgCount, received, late>>

ConnectThrows(c) == Throws(c, "connect", "error")

(* Mutant of ReadLoop: while (true).                                       *)
ReadLoopForever(c) ==
    /\ Goto(c, "check", "read")
    /\ UNCHANGED <<stopping, backoff, reconnects, msgCount, received, ended, late>>
ReadLoop(c) ==
    /\ Goto(c, "check", IF stopping[c] THEN "close" ELSE "read")
    /\ UNCHANGED <<stopping, backoff, reconnects, msgCount, received, ended, late>>

ReadFrame(c) ==
    /\ received[c] < MaxFrames
    /\ Goto(c, "read", "callback")
    /\ received' = [received EXCEPT ![c] = @ + 1]
    /\ UNCHANGED <<stopping, backoff, reconnects, msgCount, ended, late>>

(* ws.read throws when the connection breaks, and also when the server     *)
(* closes it in order.                                                     *)
ReadThrows(c) ==
    \/ Throws(c, "read", "error")
    \/ Throws(c, "read", "closed by server")

(* on_text_ returns; the callback's own effect is its owner's.             *)
OnText(c) ==
    /\ Goto(c, "callback", "check")
    /\ msgCount' = [msgCount EXCEPT ![c] = @ + 1]
    /\ late' = [late EXCEPT ![c] = IF stopping[c] THEN @ + 1 ELSE @]
    /\ UNCHANGED <<stopping, backoff, reconnects, received, ended>>

(* Mutant of Close: a closed session starts the next one unchecked.        *)
CloseReconnects(c) ==
    /\ Goto(c, "close", "connect")
    /\ UNCHANGED <<stopping, backoff, reconnects, msgCount, received, ended, late>>

(* The best-effort close, whose exceptions are swallowed; run_session_     *)
(* returns and run resets the backoff.                                     *)
Close(c) ==
    /\ Goto(c, "close", "after")
    /\ backoff' = [backoff EXCEPT ![c] = 1]
    /\ ended' = [ended EXCEPT ![c] = "closed by client"]
    /\ UNCHANGED <<stopping, reconnects, msgCount, received, late>>

(* What the thread does by itself, and what waits for the network.         *)
Local(c) ==
    RunLoop(c) \/ AfterSession(c) \/ SleepPollStop(c) \/ SleepDeadline(c) \/ ReadLoop(c)
Network(c) ==
    Connect(c) \/ ConnectThrows(c) \/ ReadFrame(c) \/ ReadThrows(c) \/ Close(c)

ClientNext ==
    \E c \in Clients : Local(c) \/ Network(c) \/ OnText(c) \/ Stop(c)

ClientSpec == ClientInit /\ [][ClientNext]_clientVars

(* A thread is scheduled; its sleeps end and its callback returns.         *)
ThreadsRun ==
    \A c \in Clients : WF_clientVars(Local(c)) /\ WF_clientVars(OnText(c))

(* No connect, read or close stays pending for ever.                       *)
NetworkAnswers == \A c \in Clients : WF_clientVars(Network(c))

-----------------------------------------------------------------------------
ClientTypeOK ==
    /\ cpc \in [Clients -> {"loop", "connect", "check", "read", "callback",
                            "close", "after", "sleep", "done"}]
    /\ stopping \in [Clients -> BOOLEAN]
    /\ backoff \in [Clients -> 1 .. KMaxBackoff]
    /\ reconnects \in [Clients -> 0 .. MaxFailures + 1]
    /\ msgCount \in [Clients -> 0 .. MaxFrames]
    /\ received \in [Clients -> 0 .. MaxFrames]
    /\ ended \in [Clients -> {"none", "error", "closed by server", "closed by client"}]
    /\ late \in [Clients -> 0 .. MaxFrames]

(* run_session_ checks stopping_ only between reads, so a frame may still  *)
(* reach the callback after stop(): the one being read, and no other.      *)
AtMostOneFrameAfterStop == \A c \in Clients : late[c] <= 1

(* Over a client's life the n-th failure is followed by a sleep of         *)
(* min(2^(n-1), 30) seconds: run's loop, its catch clause and its sleep    *)
(* together double the backoff once per failure and nothing else does.     *)
SleepsDone(c) ==
    IF cpc[c] \in {"after", "sleep"} THEN reconnects[c] - 1 ELSE reconnects[c]
BackoffFits(c) ==
    backoff[c] = IF SleepsDone(c) < 5 THEN <<1, 2, 4, 8, 16>>[SleepsDone(c) + 1]
                 ELSE KMaxBackoff
BackoffTracksFailures == \A c \in Clients : ~stopping[c] => BackoffFits(c)

(* A failed session is followed by another connection attempt, unless      *)
(* stop() intervenes: no failure ends the capture of a venue.              *)
RetriesAfterFailure ==
    \A c \in Clients : cpc[c] = "after" ~> cpc[c] = "connect" \/ stopping[c]

(* stop() makes run() return, so that the join in main returns.            *)
StopEndsRun == \A c \in Clients : stopping[c] ~> cpc[c] = "done"

(* "Clean close: reset backoff for the next reconnect attempt" (run), where*)
(* run_session_ "returns when the socket closes": after a session the      *)
(* server closed, the client waits the initial second.                     *)
ServerCloseResetsBackoff ==
    \A c \in Clients :
        cpc[c] = "sleep" /\ ended[c] = "closed by server" => backoff[c] = 1

(* Threads run but the network promises nothing; it always answers.        *)
SilentNetworkSpec == ClientSpec /\ ThreadsRun
LiveNetworkSpec == ClientSpec /\ ThreadsRun /\ NetworkAnswers
=============================================================================
