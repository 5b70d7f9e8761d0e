--------------------------- MODULE CaptureStream ---------------------------
(***************************************************************************)
(* The V4L2 source under the capture pipeline, src/src/capture/v4l2.rs,    *)
(* over the driver's buffer ring and the v4l crate's stream, which queues  *)
(* again the buffer it handed out before it dequeues the next one.  The    *)
(* pipeline calls next_frame and restart, and drops a source that says it  *)
(* is disconnected.  What a frame holds is left out.                       *)
(***************************************************************************)
EXTENDS Integers

CONSTANT BufferCount   \* BUFFER_COUNT; the driver may grant fewer

VARIABLES
    v4l2,     \* V4l2Source: its stream, its broken flag, the crate's index
    buffers,  \* who owns each mapped buffer
    driver    \* the device behind the descriptor

streamVars == <<v4l2, buffers, driver>>

Buffers == 0..(BufferCount - 1)
NoBuffers == [b \in Buffers |-> "none"]

\* at is where the pipeline's thread is: without a source, between calls, or
\* between a poll that found a buffer and the dequeue.
NoSource == [at |-> "closed", stream |-> FALSE, broken |-> FALSE, index |-> 0]

StreamInit ==
    /\ v4l2 = NoSource
    /\ buffers = NoBuffers
    /\ driver = [present |-> TRUE, error |-> FALSE]

Owned(who) == {b \in Buffers : buffers[b] = who}

\* start_stream: at least two buffers, all but the first queued, and STREAMON.
Primed == {[b \in Buffers |-> IF b = 0 THEN "ours" ELSE IF b < granted THEN "queued"
                              ELSE "none"] : granted \in 2..BufferCount}

\* The old stream goes first, and STREAMOFF with it; what start_stream builds
\* after that may fail at any ioctl.
Started ==
    /\ driver.present
    /\ buffers' \in Primed
    /\ v4l2' = [at |-> "idle", stream |-> TRUE, broken |-> FALSE, index |-> 0]
    /\ driver' = [driver EXCEPT !.error = FALSE]

NotStarted(left) ==
    /\ buffers' = NoBuffers
    /\ v4l2' = left
    /\ driver' = [driver EXCEPT !.error = FALSE]

\* V4l2Opener::open; a failed one leaves no source.
Open ==
    /\ v4l2.at = "closed"
    /\ Started

\* Every error but a disconnection marks the stream.
Broken == [v4l2 EXCEPT !.at = "idle", !.broken = TRUE]

\* rebuild_stream, at the head of next_frame and in restart: a failure leaves
\* the source broken and without a stream, a disconnection ends it.
Rebuild ==
    /\ v4l2.at = "idle"
    /\ \/ Started
       \/ NotStarted([Broken EXCEPT !.stream = FALSE])
       \/ ~driver.present /\ NotStarted(NoSource)

Unbroken == v4l2.at = "idle" /\ ~v4l2.broken

\* poll_readable: a buffer counts even beside an error, and a hang-up before
\* either.  A timeout changes nothing.
PollFindsBuffer ==
    /\ Unbroken /\ driver.present
    /\ Owned("filled") # {}
    /\ v4l2' = [v4l2 EXCEPT !.at = "dequeue"]
    /\ UNCHANGED <<buffers, driver>>

PollFindsError ==
    /\ Unbroken /\ driver.present
    /\ Owned("filled") = {} /\ driver.error
    /\ v4l2' = Broken
    /\ UNCHANGED <<buffers, driver>>

PollHangsUp ==
    /\ Unbroken
    /\ ~driver.present
    /\ NotStarted(NoSource)

\* The crate's next: the buffer it handed out last is queued...
Requeued == [buffers EXCEPT ![v4l2.index] = "queued"]

\* ...and a filled one is taken.  The source copies it out before it returns,
\* whether or not what it holds is a frame.
Dequeue ==
    /\ v4l2.at = "dequeue"
    /\ driver.present /\ ~driver.error
    /\ buffers[v4l2.index] = "ours"
    /\ \E b \in Owned("filled") :
          /\ buffers' = [Requeued EXCEPT ![b] = "ours"]
          /\ v4l2' = [v4l2 EXCEPT !.at = "idle", !.index = b]
    /\ UNCHANGED driver

\* Mutation of DequeueLeft: only an error on the queue marks the stream.
MarkedOnError == IF driver.error THEN Broken ELSE [v4l2 EXCEPT !.at = "idle"]

DequeueLeft == Broken

\* QBUF failed, or DQBUF after it, for a queue in error or a passing one: the
\* crate's index may now name a buffer the driver owns.
DequeueFails ==
    /\ v4l2.at = "dequeue"
    /\ driver.present
    /\ buffers' \in {buffers, Requeued}
    /\ v4l2' = DequeueLeft
    /\ UNCHANGED driver

DequeueDisconnects ==
    /\ v4l2.at = "dequeue"
    /\ ~driver.present
    /\ NotStarted(NoSource)

-----------------------------------------------------------------------------
(* The driver and the device                                               *)

Fill ==
    /\ driver.present /\ ~driver.error
    /\ \E b \in Owned("queued") : buffers' = [buffers EXCEPT ![b] = "filled"]
    /\ UNCHANGED <<v4l2, driver>>

QueueError ==
    /\ v4l2.stream /\ ~driver.error
    /\ driver' = [driver EXCEPT !.error = TRUE]
    /\ UNCHANGED <<v4l2, buffers>>

Unplug ==
    /\ driver.present
    /\ driver' = [driver EXCEPT !.present = FALSE]
    /\ UNCHANGED <<v4l2, buffers>>

\* A device that comes back is another one to a descriptor still open.
Replug ==
    /\ ~driver.present /\ v4l2.at = "closed"
    /\ driver' = [present |-> TRUE, error |-> FALSE]
    /\ UNCHANGED <<v4l2, buffers>>

StreamNext ==
    \/ Open
    \/ Rebuild
    \/ PollFindsBuffer \/ PollFindsError \/ PollHangsUp
    \/ Dequeue \/ DequeueFails \/ DequeueDisconnects
    \/ Fill \/ QueueError \/ Unplug \/ Replug

-----------------------------------------------------------------------------
(* Properties                                                              *)

\* The crate's stream is called only where it can answer: it holds exactly the
\* buffer its index names, so that QBUF is never refused for ever, and a
\* buffer is filled, so that DQBUF does not block, whatever failed before.
StreamIntact ==
    /\ v4l2.at = "dequeue" => v4l2.stream /\ ~v4l2.broken /\ Owned("filled") # {}
    /\ v4l2.stream /\ ~v4l2.broken => Owned("ours") = {v4l2.index}
=============================================================================
