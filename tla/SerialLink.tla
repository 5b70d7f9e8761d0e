----------------------------- MODULE SerialLink -----------------------------
(***************************************************************************)
(* The CH9329 transaction layer of src/src/serial: SerialLink::transact on *)
(* the caller's thread, the reader thread that matches replies by command  *)
(* byte, and the bridge, which answers each request once and in order.     *)
(*                                                                         *)
(* Replies carry no sequence number.  A request that timed out leaves its  *)
(* command in the slot timedOut, and the next frame that answers the slot  *)
(* is taken for its late reply.  Time is abstract: a deadline may pass     *)
(* whenever its waiter is still waiting, and the quiet window may end at   *)
(* any moment, because a window of any length may be outlived by a reply.  *)
(***************************************************************************)
EXTENDS Naturals, Sequences, SequencesExt

CONSTANTS
    Commands,         \* command bytes the caller sends
    GetInfo,          \* GET_INFO, whose reply the device also pushes unasked
    None,
    MaxTransactions,  \* bound: requests registered
    MaxBridgeFaults,  \* bound: replies lost, or held past their deadline
    MaxUnasked         \* bound: unsolicited lock-state frames

\* A frame of the device: the command it answers and the request it is for,
\* 0 when it was pushed.
BridgeFrames == [cmd: Commands, id: 0 .. MaxTransactions]

ASSUME SerialAssumption ==
    /\ GetInfo \in Commands
    /\ None \notin Commands /\ None \notin BridgeFrames
    /\ MaxTransactions \in Nat /\ MaxBridgeFaults \in Nat /\ MaxUnasked \in Nat

VARIABLES
    \* serial/reader.rs, struct Inner
    inflight, reply, down, timedOut, quiet, answeredLate, readerFinished,
    \* the reader thread and the flag that stops it
    reader, stop,
    \* the caller
    pc, command, outcome,
    \* the bridge: frames it has yet to send
    owed,
    \* accounts
    issued, bridgeFaults, pushes, timeouts,
    overlapped    \* a fault struck while an earlier one was unsettled

matcher == <<inflight, reply, down, timedOut, quiet, answeredLate>>
thread == <<readerFinished, reader, stop>>
caller == <<pc, command, outcome, issued, timeouts>>
bridge == <<owed, bridgeFaults, pushes, overlapped>>
linkVars == <<matcher, thread, caller, bridge>>

LinkInit ==
    /\ inflight = None /\ reply = None /\ down = FALSE
    /\ timedOut = None /\ quiet = FALSE /\ answeredLate = FALSE
    /\ readerFinished = FALSE /\ reader = "reading" /\ stop = FALSE
    /\ pc = "idle" /\ command = None
    /\ outcome = [kind |-> "none", id |-> 0]
    /\ owed = <<>>
    /\ issued = 0 /\ bridgeFaults = 0 /\ pushes = 0 /\ timeouts = 0
    /\ overlapped = FALSE

-----------------------------------------------------------------------------
(* The caller                                                              *)

Return(kind) ==
    /\ pc' = "idle"
    /\ outcome' = [kind |-> kind, id |-> 0]

\* transact: after a timeout the link has to settle first.
Begin(cmd) ==
    /\ pc = "idle"
    /\ command' = cmd
    /\ pc' = IF quiet THEN "settle" ELSE "register"
    /\ UNCHANGED <<outcome, issued, timeouts, matcher, thread, bridge>>

\* settle_after_timeout: the window closes, or the link's loss ends the wait.
Settle ==
    /\ pc = "settle"
    /\ quiet' = FALSE
    /\ IF down THEN Return("Down") ELSE pc' = "register" /\ UNCHANGED outcome
    /\ UNCHANGED <<command, issued, timeouts, thread, bridge>>
    /\ UNCHANGED <<inflight, reply, down, timedOut, answeredLate>>

\* The waiter is registered before the first byte is written.
Register ==
    /\ pc = "register"
    /\ IF down
       THEN /\ Return("Down")
            /\ UNCHANGED <<issued, inflight, reply, answeredLate>>
       ELSE /\ issued < MaxTransactions
            /\ issued' = issued + 1
            /\ inflight' = command
            /\ reply' = None
            /\ answeredLate' = FALSE
            /\ pc' = "write"
            /\ UNCHANGED outcome
    /\ UNCHANGED <<command, timeouts, down, timedOut, quiet, thread, bridge>>

\* write_raw of a whole frame: the bridge now owes its reply.
Write ==
    /\ pc = "write"
    /\ ~down
    /\ pc' = "await"
    /\ owed' = Append(owed, [cmd |-> command, id |-> issued])
    /\ UNCHANGED <<command, outcome, issued, timeouts, matcher, thread>>
    /\ UNCHANGED <<bridgeFaults, pushes, overlapped>>

\* write_raw on a link already down, or a write that fails and takes it down.
WriteFails ==
    /\ pc = "write"
    /\ Return(IF down THEN "Down" ELSE "Io")
    /\ down' = TRUE
    /\ inflight' = None
    /\ UNCHANGED <<command, issued, timeouts, thread, bridge>>
    /\ UNCHANGED <<reply, timedOut, quiet, answeredLate>>

\* The waiter takes a matched reply before it looks at anything else.
Collect ==
    /\ pc = "await"
    /\ reply # None
    /\ pc' = "idle"
    /\ outcome' = [kind |-> "Reply", id |-> reply.id]
    /\ reply' = None
    /\ UNCHANGED <<command, issued, timeouts, thread, bridge>>
    /\ UNCHANGED <<inflight, down, timedOut, quiet, answeredLate>>

AwaitDown ==
    /\ pc = "await"
    /\ reply = None
    /\ down
    /\ inflight' = None
    /\ Return("Down")
    /\ UNCHANGED <<command, issued, timeouts, thread, bridge>>
    /\ UNCHANGED <<reply, down, timedOut, quiet, answeredLate>>

\* No earlier request is unsettled: the slot is clear, no frame was diverted
\* that might have been the current request's own, and nothing but that
\* request's reply (or a push) may still come.
Settled ==
    /\ timedOut = None
    /\ ~answeredLate
    /\ \A f \in ToSet(owed) : f.id \in {0, issued}

BridgeFault ==
    /\ bridgeFaults < MaxBridgeFaults
    /\ bridgeFaults' = bridgeFaults + 1
    /\ overlapped' = (overlapped \/ ~Settled)

OwnReplyOwed == \E f \in ToSet(owed) : f.id = issued

\* Mutation of LateSlot: every timeout arms the slot.
AlwaysArmed == command

\* What a timed-out request leaves in the slot: nothing, if a frame that
\* would have answered it was taken for its predecessor's.
LateSlot == IF answeredLate THEN None ELSE command

\* The deadline passes.  It is the bridge's fault if the reply is still owed;
\* otherwise it was lost, or taken for a predecessor's, or nobody reads.
TimeOut ==
    /\ pc = "await"
    /\ reply = None
    /\ ~down
    /\ IF OwnReplyOwed /\ ~readerFinished THEN BridgeFault
       ELSE UNCHANGED <<bridgeFaults, overlapped>>
    /\ inflight' = None
    /\ timedOut' = LateSlot
    /\ answeredLate' = FALSE
    /\ quiet' = TRUE
    /\ timeouts' = timeouts + 1
    /\ Return("Timeout")
    /\ UNCHANGED <<command, issued, reply, down, thread, owed, pushes>>

\* Drop: the reader is told to stop and waited for, within JOIN_BOUND.
Close ==
    /\ pc = "idle"
    /\ stop' = TRUE
    /\ pc' = "closing"
    /\ UNCHANGED <<command, outcome, issued, timeouts, matcher, bridge>>
    /\ UNCHANGED <<readerFinished, reader>>

\* The reader is joined once it has finished; a wedged one is detached.
LinkClosed ==
    /\ pc = "closing"
    /\ pc' = "closed"
    /\ outcome' = [kind |-> IF readerFinished THEN "Joined" ELSE "Detached", id |-> 0]
    /\ UNCHANGED <<command, issued, timeouts, matcher, thread, bridge>>

-----------------------------------------------------------------------------
(* The reader thread                                                       *)

\* Mutation of IsLate: there is no slot.
NeverLate(frame) == FALSE

IsLate(frame) == timedOut = frame.cmd

Answers(frame) == inflight = frame.cmd

\* route: the slot is checked before the waiter; what neither expects goes to
\* the unsolicited channel, whose receiver the reader never depends on.
Route(frame) ==
    IF IsLate(frame)
    THEN /\ timedOut' = None
         /\ answeredLate' = (answeredLate \/ Answers(frame))
         /\ UNCHANGED <<inflight, reply>>
    ELSE /\ IF Answers(frame)
            THEN inflight' = None /\ reply' = frame
            ELSE UNCHANGED <<inflight, reply>>
         /\ UNCHANGED <<timedOut, answeredLate>>

Receive ==
    /\ reader = "reading"
    /\ owed # <<>>
    /\ Route(Head(owed))
    /\ owed' = Tail(owed)
    /\ UNCHANGED <<down, quiet, thread, caller, bridgeFaults, pushes, overlapped>>

\* EOF or an error other than a read timeout: the link goes down, then the
\* thread leaves its loop.
ReadFails ==
    /\ reader = "reading"
    /\ down' = TRUE
    /\ reader' = "leaving"
    /\ UNCHANGED <<inflight, reply, timedOut, quiet, answeredLate>>
    /\ UNCHANGED <<readerFinished, stop, caller, bridge>>

\* The loop sees the stop flag, or the thread unwinds without a verdict.
LeaveLoop ==
    /\ reader = "reading"
    /\ reader' = "leaving"
    /\ UNCHANGED <<readerFinished, stop, matcher, caller, bridge>>

\* The Finished guard runs on every way out.
Finish ==
    /\ reader = "leaving"
    /\ reader' = "gone"
    /\ readerFinished' = TRUE
    /\ UNCHANGED <<stop, matcher, caller, bridge>>

-----------------------------------------------------------------------------
(* The bridge                                                              *)

\* The reply the device owes to the request in flight is lost for good.
LoseReply ==
    /\ pc = "await"
    /\ reply = None
    /\ \E i \in DOMAIN owed : owed[i].id = issued /\ owed' = RemoveAt(owed, i)
    /\ BridgeFault
    /\ UNCHANGED <<matcher, thread, caller, pushes>>

PushUnasked ==
    /\ pushes < MaxUnasked
    /\ pushes' = pushes + 1
    /\ owed' = Append(owed, [cmd |-> GetInfo, id |-> 0])
    /\ UNCHANGED <<matcher, thread, caller, bridgeFaults, overlapped>>

-----------------------------------------------------------------------------
Caller ==
    \/ \E cmd \in Commands : Begin(cmd)
    \/ Settle \/ Register \/ Write \/ WriteFails
    \/ Collect \/ AwaitDown \/ TimeOut \/ Close \/ LinkClosed

Reader == Receive \/ ReadFails \/ LeaveLoop \/ Finish

Bridge == LoseReply \/ PushUnasked

LinkNext == Caller \/ Reader \/ Bridge

LinkSpec == LinkInit /\ [][LinkNext]_linkVars

-----------------------------------------------------------------------------
(* Properties                                                              *)

\* An acknowledgement delivered to a request is that request's own: no late
\* reply to an earlier request of the same command ever completes it, as long
\* as the bridge never loses or delays a reply before the last such fault is
\* settled.  GET_INFO is excepted because a push is indistinguishable from
\* its reply (route, and the slot armed by transact).
NoStaleAck ==
    ~overlapped /\ reply # None /\ pc = "await" /\ command # GetInfo => reply.id = issued

\* A lost or late reply costs at most one timeout beyond its own: a request
\* whose answer was taken for its predecessor's does not arm the slot again
\* (answered_inflight_late).
LossCostsOneMore == ~readerFinished => timeouts <= 2 * bridgeFaults

\* "A very late reply to the first is then counted as an ordinary device
\* push" (Inner::timed_out), and checking the slot first "prevents an old
\* acknowledgement from falsely completing a new transaction" (route): with
\* two requests late at once, still no reply to a timed-out request is ever
\* handed to a later one.
VeryLateReplyIsAPush ==
    reply # None /\ pc = "await" => reply.id \in {0, issued}

=============================================================================
