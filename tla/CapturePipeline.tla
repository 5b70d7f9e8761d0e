-------------------------- MODULE CapturePipeline --------------------------
(***************************************************************************)
(* The capture pipeline of src/src/capture: the capture thread that owns   *)
(* the source and its recovery, the helper thread its opens run on, the    *)
(* decode thread, the renderer that takes decoded frames, the two one-slot *)
(* handoffs between them and the handle that stops everything.             *)
(*                                                                         *)
(* A frame is its number in the order of capture.  Time is abstract: a     *)
(* delay, a stall or a grace interval may have passed whenever the code    *)
(* looks at the clock.                                                     *)
(***************************************************************************)
EXTENDS Naturals

CONSTANTS
    Formats,       \* the formats users request, the opening one among them
    FirstFormat,   \* what the opener starts with
    RefusedFormats,       \* formats the driver will not give: every open fails
    NoFormat,
    MinFrames,     \* format_mismatch_frames
    RestartLimit,  \* format_mismatch_restart_limit
    MaxFrames,     \* bound: frames captured
    MaxFaults,     \* bound: failures of the device, the driver or the decoder
    MaxStalls,     \* bound: stall restarts
    MaxRequests    \* bound: format requests

ASSUME CaptureAssumption ==
    /\ FirstFormat \in Formats /\ NoFormat \notin Formats
    /\ RefusedFormats \subseteq Formats
    /\ {MinFrames, RestartLimit, MaxFrames, MaxFaults, MaxStalls, MaxRequests} \subseteq Nat

VARIABLES
    \* the capture thread
    recover,  \* start_with_opener (TRUE) or start (FALSE)
    cpc, fresh, source, format, watch,
    \* Shared
    request, stopping, shown, state, lost, captured, droppedPre,
    \* the handoffs
    compressed, output,
    \* the decode thread
    dpc, decoding, scratch, decoded, droppedPost, decodeErrors,
    \* the renderer and the handle
    taken, takenCount, hpc,
    \* accounts
    faults, stalls, requests, runRestarts, runReopens

capture == <<recover, cpc, fresh, source, format, watch>>
status == <<shown, state, lost, captured, droppedPre>>
decode == <<dpc, decoding, scratch, decoded, droppedPost, decodeErrors>>
renderer == <<taken, takenCount>>
users == <<request, requests, stopping, hpc>>
accounts == <<faults, stalls, runRestarts, runReopens>>
vars == <<capture, status, compressed, output, decode, renderer, users, accounts>>

Frames == 0 .. MaxFrames   \* 0 stands for none

\* A handoff: its pending frame and whether it was closed.
EmptySlot == [value |-> 0, closed |-> FALSE]

Closed(slot) == [value |-> 0, closed |-> TRUE]

\* Slot::put displaces a pending frame and hands a frame back once closed.
Put(slot, frame) == IF slot.closed THEN slot ELSE [slot EXCEPT !.value = frame]

\* The source in service, by its negotiated format.
Held == source # NoFormat

NoWatch == [run |-> 0, restarts |-> 0, reopened |-> FALSE,
            escalating |-> FALSE, accepted |-> FALSE]

Init ==
    /\ recover \in BOOLEAN
    /\ cpc = "first" /\ fresh = [id |-> 0, match |-> TRUE]
    /\ source = NoFormat /\ format = FirstFormat
    /\ watch = NoWatch
    /\ request = NoFormat /\ stopping = FALSE
    /\ shown = NoFormat /\ state = "Running" /\ lost = FALSE
    /\ captured = 0 /\ droppedPre = 0
    /\ compressed = EmptySlot /\ output = EmptySlot
    /\ dpc = "wait" /\ decoding = 0 /\ scratch = 0
    /\ decoded = 0 /\ droppedPost = 0 /\ decodeErrors = 0
    /\ taken = 0 /\ takenCount = 0 /\ hpc = "live"
    /\ faults = 0 /\ stalls = 0 /\ requests = 0
    /\ runRestarts = 0 /\ runReopens = 0

-----------------------------------------------------------------------------
(* The capture thread: opening and reopening                               *)

StopSeen == stopping \/ compressed.closed

Fault == faults < MaxFaults /\ faults' = faults + 1

\* Mutation of Armed: any reopen gives the escalation back.
ArmedAfresh == NoWatch

\* arm_format_watch: everything starts over with a new source, except that an
\* escalation's own reopen does not give the escalation back.
Armed == [NoWatch EXCEPT !.reopened = watch.escalating /\ watch.reopened]

NewRun == IF watch.escalating THEN UNCHANGED <<runRestarts, runReopens>>
                              ELSE runRestarts' = 0 /\ runReopens' = 0

\* open_first and reconnect take over what the helper opened.
OpenSucceeds ==
    /\ cpc \in {"first", "reopen"}
    /\ format \notin RefusedFormats
    /\ source' = format
    /\ shown' = format
    /\ watch' = Armed /\ NewRun
    /\ IF cpc = "first"
       THEN cpc' = "loop" /\ UNCHANGED <<state, lost>>
       ELSE cpc' = "apply" /\ state' = "Running" /\ lost' = FALSE
    /\ UNCHANGED <<recover, fresh, format, captured, droppedPre, compressed, output, decode>>
    /\ UNCHANGED <<renderer, users, faults, stalls>>

\* Mutation of AfterFailedReopen: the first failure ends the retries.
GivesUp == "ended"

AfterFailedReopen == "reconnect"

\* A failed first open is a device that was never there; a pipeline that may
\* not recover ends with it.
OpenFails ==
    /\ cpc \in {"first", "reopen"}
    /\ IF format \in RefusedFormats THEN UNCHANGED faults ELSE Fault
    /\ IF cpc = "reopen"
       THEN cpc' = AfterFailedReopen /\ UNCHANGED <<state, lost, compressed>>
       ELSE /\ state' = "Disconnected" /\ lost' = TRUE
            /\ IF recover THEN cpc' = "loop" /\ UNCHANGED compressed
                          ELSE cpc' = "ended" /\ compressed' = Closed(compressed)
    /\ UNCHANGED <<recover, fresh, source, format, watch, shown, captured, droppedPre, output>>
    /\ UNCHANGED <<decode, renderer, users, stalls, runRestarts, runReopens>>

\* Mutation of AbandonsOpen: the thread waits for its helper.
NeverAbandons == FALSE

AbandonsOpen == StopSeen

\* open_detached gives up on an open in flight once stop is seen; the helper
\* drops whatever it opens later.
AbandonOpen ==
    /\ cpc \in {"first", "reopen"}
    /\ AbandonsOpen
    /\ cpc' = "ended"
    /\ compressed' = IF cpc = "first" THEN Closed(compressed) ELSE compressed
    /\ UNCHANGED <<recover, fresh, source, format, watch, status, output, decode>>
    /\ UNCHANGED <<renderer, users, accounts>>

\* The head of capture_loop, and its release of the source on the way out.
LoopHead ==
    /\ cpc = "loop"
    /\ IF StopSeen
       THEN cpc' = "ended" /\ source' = NoFormat
       ELSE cpc' = (IF Held THEN "apply" ELSE "reconnect") /\ UNCHANGED source
    /\ UNCHANGED <<recover, fresh, format, watch, status, compressed, output, decode>>
    /\ UNCHANGED <<renderer, users, accounts>>

\* reconnect: it is announced, waited for, and given up only for a stop.
Announce ==
    /\ cpc = "reconnect"
    /\ IF StopSeen THEN cpc' = "ended" /\ UNCHANGED state
                   ELSE cpc' = "backoff" /\ state' = "Reconnecting"
    /\ UNCHANGED <<recover, fresh, source, format, watch, shown, lost, captured, droppedPre>>
    /\ UNCHANGED <<compressed, output, decode, renderer, users, accounts>>

BackoffEnds ==
    /\ cpc = "backoff"
    /\ cpc' = IF StopSeen THEN "ended" ELSE "reopen"
    /\ UNCHANGED <<recover, fresh, source, format, watch, status, compressed, output, decode>>
    /\ UNCHANGED <<renderer, users, accounts>>

\* apply_format_request: an opener that can reopen takes the format and the
\* source goes, so that the next pass of the loop reopens it; the opener of a
\* single source refuses.
ApplyRequest ==
    /\ cpc = "apply"
    /\ cpc' = "step"
    /\ request' = NoFormat
    /\ IF request = NoFormat \/ ~recover
       THEN UNCHANGED <<format, shown, source>>
       ELSE format' = request /\ shown' = NoFormat /\ source' = NoFormat
    /\ UNCHANGED <<recover, fresh, watch, state, lost, captured, droppedPre, compressed, output>>
    /\ UNCHANGED <<decode, renderer, requests, stopping, hpc, accounts>>

-----------------------------------------------------------------------------
(* The capture thread: frames, stalls and losses                           *)

\* Mutation of LoseDevice: the format of the lost source stays on show.
LoseDeviceQuietly ==
    /\ state' = "Disconnected" /\ lost' = TRUE /\ UNCHANGED shown
    /\ source' = NoFormat
    /\ IF recover THEN cpc' = "loop" /\ UNCHANGED compressed
                  ELSE cpc' = "ended" /\ compressed' = Closed(compressed)

\* lose_device; without recovery the loop closes the handoff and ends.
LoseDevice ==
    /\ state' = "Disconnected" /\ lost' = TRUE /\ shown' = NoFormat
    /\ source' = NoFormat
    /\ IF recover THEN cpc' = "loop" /\ UNCHANGED compressed
                  ELSE cpc' = "ended" /\ compressed' = Closed(compressed)

\* next_frame reports the loss, or the source panics.
SourceLost ==
    /\ cpc = "step" /\ Held
    /\ Fault
    /\ LoseDevice
    /\ UNCHANGED <<recover, fresh, format, watch, captured, droppedPre, output, decode>>
    /\ UNCHANGED <<renderer, users, stalls, runRestarts, runReopens>>

\* No frame from this pass: no source, none in time, none usable, or an error
\* of the stream that a rebuild on a later pass clears.
NoFrame ==
    /\ cpc = "step"
    /\ cpc' = "loop"
    /\ UNCHANGED <<recover, fresh, source, format, watch, status, compressed, output>>
    /\ UNCHANGED <<decode, renderer, users, accounts>>

\* invoke_restart: it works or fails and polling goes on, or the device is
\* found gone.
InvokeRestart ==
    \/ cpc' = "loop" /\ UNCHANGED <<source, shown, state, lost, compressed, faults>>
    \/ Fault /\ LoseDevice

\* Mutation of StallWatch: a stall restart refills the format watchdog.
RefilledWatch == [watch EXCEPT !.run = 0, !.restarts = 0]

\* A stall restart leaves the format watchdog alone.
StallWatch == watch

\* restart_stream.
StallRestart ==
    /\ cpc = "step" /\ Held
    /\ stalls < MaxStalls /\ stalls' = stalls + 1
    /\ watch' = StallWatch
    /\ InvokeRestart
    /\ UNCHANGED <<recover, fresh, format, captured, droppedPre, output, decode, renderer>>
    /\ UNCHANGED <<users, runRestarts, runReopens>>

\* A frame is dequeued, copied out and counted.
NextFrame ==
    /\ cpc = "step" /\ Held
    /\ captured < MaxFrames
    /\ captured' = captured + 1
    /\ \E match \in BOOLEAN : fresh' = [id |-> captured + 1, match |-> match]
    /\ cpc' = "put"
    /\ UNCHANGED <<recover, source, format, watch, shown, state, lost, droppedPre, compressed, output>>
    /\ UNCHANGED <<decode, renderer, users, accounts>>

\* Mutation of Displaces: only a closed handoff gives a frame back.
DisplacesOnClose(slot) == slot.closed

\* Whether Slot::put hands a frame back to its caller.
Displaces(slot) == slot.value # 0 \/ slot.closed

\* compressed.put, whose displaced frame is counted in a step of its own.
PutCompressed ==
    /\ cpc = "put"
    /\ compressed' = Put(compressed, fresh.id)
    /\ cpc' = IF Displaces(compressed) THEN "tally" ELSE "watch"
    /\ UNCHANGED <<recover, fresh, source, format, watch, status, output, decode, renderer>>
    /\ UNCHANGED <<users, accounts>>

TallyPre ==
    /\ cpc = "tally"
    /\ droppedPre' = IF compressed.closed THEN droppedPre ELSE droppedPre + 1
    /\ cpc' = "watch"
    /\ UNCHANGED <<recover, fresh, source, format, watch, shown, state, lost, captured>>
    /\ UNCHANGED <<compressed, output, decode, renderer, users, accounts>>

-----------------------------------------------------------------------------
(* The capture thread: the format watchdog                                 *)

Mismatched == [watch EXCEPT !.run = @ + 1]

\* A frame at the negotiated size ends the run and refills both budgets; an
\* accepted size is left alone, and young evidence is only counted.
WatchQuiet ==
    /\ cpc = "watch"
    /\ cpc' = "loop"
    /\ watch' = CASE fresh.match -> NoWatch
                  [] ~fresh.match /\ watch.accepted -> watch
                  [] OTHER -> Mismatched
    /\ IF fresh.match THEN runRestarts' = 0 /\ runReopens' = 0
                      ELSE UNCHANGED <<runRestarts, runReopens>>
    /\ UNCHANGED <<recover, fresh, source, format, status, compressed, output, decode>>
    /\ UNCHANGED <<renderer, users, faults, stalls>>

\* Both gates are passed: enough mismatched frames, for long enough.
WatchFires ==
    /\ cpc = "watch"
    /\ ~fresh.match /\ ~watch.accepted
    /\ watch.run + 1 >= MinFrames

Spent == watch.restarts >= RestartLimit

WatchRestarts ==
    /\ WatchFires
    /\ ~Spent
    /\ watch' = [watch EXCEPT !.run = 0, !.restarts = @ + 1]
    /\ runRestarts' = runRestarts + 1
    /\ InvokeRestart
    /\ UNCHANGED <<recover, fresh, format, captured, droppedPre, output, decode, renderer>>
    /\ UNCHANGED <<users, stalls, runReopens>>

MayEscalate == recover /\ ~watch.reopened

\* The restarts are spent: one reopen, which is no disconnection.
WatchReopens ==
    /\ WatchFires
    /\ Spent
    /\ MayEscalate
    /\ watch' = [Mismatched EXCEPT !.reopened = TRUE, !.escalating = TRUE]
    /\ runReopens' = runReopens + 1
    /\ shown' = NoFormat /\ source' = NoFormat
    /\ cpc' = "loop"
    /\ UNCHANGED <<recover, fresh, format, state, lost, captured, droppedPre, compressed>>
    /\ UNCHANGED <<output, decode, renderer, users, faults, stalls, runRestarts>>

WatchAccepts ==
    /\ WatchFires
    /\ Spent
    /\ ~MayEscalate
    /\ watch' = [Mismatched EXCEPT !.accepted = TRUE]
    /\ cpc' = "loop"
    /\ UNCHANGED <<recover, fresh, source, format, status, compressed, output, decode>>
    /\ UNCHANGED <<renderer, users, accounts>>

-----------------------------------------------------------------------------
(* The decode thread                                                       *)

\* A pending frame is taken before the close is noticed.
TakeCompressed ==
    /\ dpc = "wait"
    /\ IF compressed.value # 0
       THEN /\ dpc' = "decode"
            /\ decoding' = compressed.value
            /\ compressed' = [compressed EXCEPT !.value = 0]
       ELSE /\ StopSeen
            /\ dpc' = "ended"
            /\ UNCHANGED <<decoding, compressed>>
    /\ UNCHANGED <<capture, status, output, scratch, decoded, droppedPost, decodeErrors>>
    /\ UNCHANGED <<renderer, users, accounts>>

DecodeOk ==
    /\ dpc = "decode"
    /\ decoded' = decoded + 1
    /\ scratch' = decoding
    /\ dpc' = "put"
    /\ UNCHANGED <<capture, status, compressed, output, decoding, droppedPost>>
    /\ UNCHANGED <<decodeErrors, renderer, users, accounts>>

\* Mutation of AfterError: what was decoded so far is published.
PublishAnyway == "put"

\* A frame that does not decode is skipped; the thread goes on.
AfterError == "wait"

DecodeFails ==
    /\ dpc = "decode"
    /\ Fault
    /\ decodeErrors' = decodeErrors + 1
    /\ dpc' = AfterError
    /\ UNCHANGED <<capture, status, compressed, output, decoding, scratch>>
    /\ UNCHANGED <<decoded, droppedPost, renderer, users, stalls, runRestarts, runReopens>>

\* output.put; the displaced buffer is the next scratch.
PutOutput ==
    /\ dpc = "put"
    /\ output' = Put(output, scratch)
    /\ IF Displaces(output)
       THEN dpc' = "tally" /\ scratch' = (IF output.closed THEN scratch ELSE output.value)
       ELSE dpc' = "wait" /\ scratch' = 0
    /\ UNCHANGED <<capture, status, compressed, decoding, decoded, droppedPost>>
    /\ UNCHANGED <<decodeErrors, renderer, users, accounts>>

TallyPost ==
    /\ dpc = "tally"
    /\ droppedPost' = IF output.closed THEN droppedPost ELSE droppedPost + 1
    /\ dpc' = "wait"
    /\ UNCHANGED <<capture, status, compressed, output, decoding, scratch, decoded>>
    /\ UNCHANGED <<decodeErrors, renderer, users, accounts>>

-----------------------------------------------------------------------------
(* The renderer, the user and the handle                                   *)

TakeOutput ==
    /\ output.value # 0
    /\ taken' = output.value
    /\ takenCount' = takenCount + 1
    /\ output' = [output EXCEPT !.value = 0]
    /\ UNCHANGED <<capture, status, compressed, decode, users, accounts>>

\* request_format: a newer pending request replaces an older one.
RequestFormat ==
    /\ hpc = "live"
    /\ requests < MaxRequests /\ requests' = requests + 1
    /\ request' \in Formats
    /\ UNCHANGED <<capture, status, compressed, output, decode, renderer>>
    /\ UNCHANGED <<stopping, hpc, accounts>>

\* stop and Drop: the flag, then one handoff after the other, then the joins.
StopStep ==
    /\ \/ hpc = "live" /\ hpc' = "closing" /\ stopping' = TRUE
          /\ UNCHANGED <<compressed, output>>
       \/ hpc = "closing" /\ hpc' = "closing output" /\ compressed' = Closed(compressed)
          /\ UNCHANGED <<stopping, output>>
       \/ hpc = "closing output" /\ hpc' = "joining" /\ output' = Closed(output)
          /\ UNCHANGED <<stopping, compressed>>
    /\ UNCHANGED <<capture, status, decode, renderer, request, requests, accounts>>

Joined ==
    /\ hpc = "joining"
    /\ cpc = "ended" /\ dpc = "ended"
    /\ hpc' = "stopped"
    /\ state' = "Stopped"
    /\ UNCHANGED <<capture, shown, lost, captured, droppedPre, compressed, output>>
    /\ UNCHANGED <<decode, renderer, request, requests, stopping, accounts>>

-----------------------------------------------------------------------------
\* A step the capture thread takes by itself once it is there.
CaptureSteps ==
    \/ LoopHead \/ Announce \/ BackoffEnds \/ ApplyRequest \/ AbandonOpen
    \/ SourceLost \/ NoFrame \/ StallRestart \/ NextFrame
    \/ PutCompressed \/ TallyPre
    \/ WatchQuiet \/ WatchRestarts \/ WatchReopens \/ WatchAccepts

Opens == OpenSucceeds \/ OpenFails

DecodeSteps == TakeCompressed \/ DecodeOk \/ DecodeFails \/ PutOutput \/ TallyPost

HandleSteps == StopStep \/ Joined

Next ==
    \/ CaptureSteps \/ Opens \/ DecodeSteps
    \/ TakeOutput \/ RequestFormat \/ HandleSteps

Spec == Init /\ [][Next]_vars

\* Both threads are scheduled and bound every call of theirs: next_frame by
\* its timeout, a backoff by its cap.  A stop once begun runs to its end.
\* Nothing bounds an open on the helper thread, so it has no fairness.
Fairness ==
    /\ WF_vars(CaptureSteps)
    /\ WF_vars(DecodeSteps)
    /\ WF_vars(HandleSteps /\ hpc # "live")

FairSpec == Spec /\ Fairness

-----------------------------------------------------------------------------
(* Properties                                                              *)

One(condition) == IF condition THEN 1 ELSE 0

\* The counters of PipelineStats account for every frame while the handoffs
\* are open: one captured is pending, dropped, being decoded, failed or
\* decoded, and one decoded is pending, dropped or taken, never two of these.
FramesAccounted ==
    /\ ~compressed.closed =>
          captured = droppedPre + One(cpc \in {"put", "tally"}) + One(compressed.value # 0)
                       + One(dpc = "decode") + decodeErrors + decoded
    /\ ~output.closed =>
          decoded = droppedPost + One(dpc \in {"put", "tally"}) + One(output.value # 0)
                      + takenCount

\* The renderer never shows an older frame after a newer one, through drops
\* at both handoffs, recycled buffers, decode errors and reopened devices.
FramesMoveForward == [][taken' # taken => taken' > taken]_vars

\* However often the stream is restarted for a stall, a run of mismatched
\* frames costs at most two restart budgets and one reopen, and one budget
\* where there is nothing to reopen.
WatchdogBounded ==
    /\ runReopens <= One(recover)
    /\ runRestarts <= RestartLimit * (1 + One(recover))

\* What the handle reports agrees with the capture thread: Running never goes
\* with an outage, no format is shown that the source in service did not
\* negotiate, and Stopped means both threads are gone.
StatusHonest ==
    /\ state = "Running" => ~lost
    /\ shown # NoFormat /\ cpc # "ended" => shown = source
    /\ state = "Stopped" => cpc = "ended" /\ dpc = "ended"

\* stop returns even if an open never does.
StopCompletes == stopping ~> hpc = "stopped"

OpensReturn == []<>(cpc \notin {"first", "reopen"})

\* Once failures cease a lost device is streaming again, provided opens
\* return and the user does not stop the pipeline.
DeviceComesBack == recover /\ OpensReturn => (lost ~> (~lost \/ stopping))

\* "Request a format for the next open without blocking.  A newer pending
\* request replaces an older one" (PipelineHandle::request_format): a request
\* reaches the opener although the one before it cannot be opened.
RequestServed ==
    recover /\ OpensReturn =>
        (request \in Formats \ RefusedFormats ~> (request = NoFormat \/ stopping))

=============================================================================
