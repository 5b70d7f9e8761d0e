--------------------------- MODULE CaptureProofs ---------------------------
(***************************************************************************)
(* Proofs about video capture: the safety properties of CapturePipeline    *)
(* for any formats, budgets and numbers of frames, faults and requests,    *)
(* and, below it, StreamIntact of CaptureStream for a driver that grants   *)
(* any number of buffers.                                                  *)
(***************************************************************************)
EXTENDS CapturePipeline, CaptureStream, TLAPS

Slots == [value: Nat, closed: BOOLEAN]

-----------------------------------------------------------------------------
(* Frames                                                                  *)

FrameTypes ==
    /\ captured \in Nat /\ droppedPre \in Nat /\ decodeErrors \in Nat /\ decoded \in Nat
    /\ droppedPost \in Nat /\ takenCount \in Nat /\ taken \in Nat
    /\ fresh.id \in Nat /\ decoding \in Nat /\ scratch \in Nat
    /\ compressed \in Slots /\ output \in Slots

\* Whether number n is that of a frame newer than all the renderer has or will
\* get from behind it.
After(n) == n > taken /\ n > output.value

\* The same for what the decode thread has in hand as well.
AfterDecode(n) ==
    /\ After(n)
    /\ dpc = "decode" => n > decoding
    /\ dpc = "put" => n > scratch

\* Frames are in order from the renderer back to the capture thread, and none
\* is newer than the last captured.
Ordered ==
    /\ output.value # 0 => output.value > taken
    /\ dpc = "put" => After(scratch)
    /\ dpc = "decode" => After(decoding)
    /\ compressed.value # 0 => AfterDecode(compressed.value)
    /\ cpc = "put" => AfterDecode(fresh.id) /\ fresh.id > compressed.value

Known ==
    /\ taken <= captured /\ output.value <= captured /\ compressed.value <= captured
    /\ dpc = "put" => scratch <= captured
    /\ dpc = "decode" => decoding <= captured
    /\ cpc = "put" => fresh.id <= captured

FrameInv == FrameTypes /\ FramesAccounted /\ Ordered /\ Known

LEMMA FrameStart == Init => FrameInv
  <1> SUFFICES ASSUME Init PROVE FrameInv
    OBVIOUS
  <1>1. /\ compressed = [value |-> 0, closed |-> FALSE]
        /\ output = [value |-> 0, closed |-> FALSE]
        /\ fresh = [id |-> 0, match |-> TRUE]
    BY DEF Init, EmptySlot
  <1>2. FrameTypes
    BY <1>1 DEF Init, FrameTypes, Slots
  <1>3. FramesAccounted /\ Ordered /\ Known
    BY <1>1 DEF Init, FramesAccounted, Ordered, Known, One
  <1> QED
    BY <1>2, <1>3 DEF FrameInv

LEMMA SlotParts ==
  ASSUME NEW s, s \in Slots
  PROVE  /\ s.value \in Nat /\ s.closed \in BOOLEAN
         /\ Closed(s) \in Slots /\ Closed(s).value = 0 /\ Closed(s).closed = TRUE
         /\ [s EXCEPT !.value = 0] \in Slots /\ [s EXCEPT !.value = 0].value = 0
         /\ [s EXCEPT !.value = 0].closed = s.closed
  BY DEF Slots, Closed

LEMMA PutFacts ==
  ASSUME NEW s, s \in Slots, NEW n, n \in Nat
  PROVE  /\ Put(s, n) \in Slots /\ Put(s, n).closed = s.closed
         /\ Put(s, n).value = IF s.closed THEN s.value ELSE n
  BY DEF Slots, Put

frameVars == <<captured, droppedPre, output, dpc, decoding, scratch, decoded, droppedPost,
               decodeErrors, taken, takenCount>>

\* What the capture thread does away from its frames, and closing its handoff.
LEMMA AwayKeeps ==
  ASSUME FrameInv, UNCHANGED <<fresh, frameVars>>, cpc \notin {"put", "tally"},
         cpc' \notin {"put", "tally"}, compressed' \in {compressed, Closed(compressed)}
  PROVE  FrameInv'
  <1>1. /\ compressed \in Slots /\ compressed' \in Slots
        /\ compressed'.value \in {0, compressed.value}
        /\ ~compressed'.closed => compressed' = compressed
    <2>1. compressed \in Slots
      BY DEF FrameInv, FrameTypes
    <2>2. Closed(compressed) \in Slots /\ Closed(compressed).value = 0 /\ Closed(compressed).closed
      BY <2>1, SlotParts
    <2>3. CASE compressed' = compressed
      BY <2>1, <2>3
    <2>4. CASE compressed' = Closed(compressed)
      BY <2>1, <2>2, <2>4
    <2> QED
      BY <2>3, <2>4
  <1>2. FrameTypes'
    BY <1>1 DEF FrameInv, FrameTypes, frameVars
  <1>3. FramesAccounted'
    BY <1>1 DEF FrameInv, FramesAccounted, frameVars
  <1>4. Ordered' /\ Known'
    BY <1>1 DEF FrameInv, FrameTypes, Ordered, Known, AfterDecode, After, frameVars
  <1> QED
    BY <1>2, <1>3, <1>4 DEF FrameInv

LEMMA NextFrameKeeps ==
  ASSUME FrameInv, NextFrame
  PROVE  FrameInv'
  <1> USE DEF FrameInv, FrameTypes
  <1>1. /\ captured' = captured + 1 /\ fresh'.id = captured + 1
        /\ cpc = "step" /\ cpc' = "put" /\ UNCHANGED <<droppedPre, compressed, output, decode>>
        /\ UNCHANGED <<taken, takenCount>>
    BY DEF NextFrame, renderer
  <1>2. compressed.value \in Nat /\ output.value \in Nat
    BY SlotParts
  <1>3. FrameTypes'
    BY <1>1 DEF decode
  <1>4. FramesAccounted'
    BY <1>1 DEF FramesAccounted, One, decode
  <1>5. Ordered' /\ Known'
    BY <1>1, <1>2 DEF Ordered, Known, AfterDecode, After, decode
  <1> QED
    BY <1>3, <1>4, <1>5

LEMMA PutCompressedKeeps ==
  ASSUME FrameInv, PutCompressed
  PROVE  FrameInv'
  <1> USE DEF FrameInv, FrameTypes
  <1>1. /\ compressed' = Put(compressed, fresh.id) /\ cpc = "put"
        /\ cpc' = (IF Displaces(compressed) THEN "tally" ELSE "watch")
        /\ UNCHANGED <<fresh, captured, droppedPre, output, decode, taken, takenCount>>
    BY DEF PutCompressed, status, renderer
  <1>2. /\ compressed'.closed = compressed.closed /\ compressed' \in Slots
        /\ compressed'.value = IF compressed.closed THEN compressed.value ELSE fresh.id
        /\ compressed.value \in Nat /\ output.value \in Nat
    <2>1. compressed \in Slots /\ output \in Slots /\ fresh.id \in Nat
      OBVIOUS
    <2>2. /\ Put(compressed, fresh.id) \in Slots /\ Put(compressed, fresh.id).closed = compressed.closed
          /\ Put(compressed, fresh.id).value = IF compressed.closed THEN compressed.value ELSE fresh.id
      BY <2>1, PutFacts
    <2>3. compressed.value \in Nat /\ output.value \in Nat
      BY <2>1, SlotParts
    <2> QED
      BY <1>1, <2>2, <2>3
  <1>3. FrameTypes'
    BY <1>1, <1>2 DEF decode
  <1>4. FramesAccounted'
    BY <1>1, <1>2 DEF FramesAccounted, Ordered, One, Displaces, decode
  <1>5. Ordered' /\ Known'
    BY <1>1, <1>2 DEF Ordered, Known, AfterDecode, After, decode
  <1> QED
    BY <1>3, <1>4, <1>5

LEMMA TallyPreKeeps ==
  ASSUME FrameInv, TallyPre
  PROVE  FrameInv'
  <1> USE DEF FrameInv, FrameTypes
  <1>1. /\ droppedPre' = (IF compressed.closed THEN droppedPre ELSE droppedPre + 1)
        /\ cpc = "tally" /\ cpc' = "watch"
        /\ UNCHANGED <<fresh, captured, compressed, output, decode, taken, takenCount>>
    BY DEF TallyPre, renderer
  <1>2. FrameTypes'
    BY <1>1 DEF decode
  <1>3. FramesAccounted'
    BY <1>1 DEF FramesAccounted, One, decode
  <1>4. Ordered' /\ Known'
    BY <1>1 DEF Ordered, Known, AfterDecode, After, decode
  <1> QED
    BY <1>2, <1>3, <1>4

LEMMA TakeCompressedKeeps ==
  ASSUME FrameInv, TakeCompressed
  PROVE  FrameInv'
  <1> USE DEF FrameInv, FrameTypes
  <1>1. /\ dpc = "wait"
        /\ UNCHANGED <<cpc, fresh, captured, droppedPre, output, scratch, decoded, droppedPost,
                       decodeErrors, taken, takenCount>>
    BY DEF TakeCompressed, capture, status, renderer
  <1>2. compressed.value \in Nat /\ output.value \in Nat
    BY SlotParts
  <1>3. CASE compressed.value # 0
    <2>1. /\ dpc' = "decode" /\ decoding' = compressed.value /\ compressed' \in Slots
          /\ compressed'.value = 0 /\ compressed'.closed = compressed.closed
      <3>1. compressed \in Slots /\ compressed' = [compressed EXCEPT !.value = 0]
        BY <1>3 DEF TakeCompressed
      <3>2. /\ [compressed EXCEPT !.value = 0] \in Slots
            /\ [compressed EXCEPT !.value = 0].value = 0
            /\ [compressed EXCEPT !.value = 0].closed = compressed.closed
        BY <3>1, SlotParts
      <3> QED
        BY <1>3, <3>1, <3>2 DEF TakeCompressed
    <2>2. FrameTypes'
      BY <1>1, <1>2, <2>1
    <2>3. FramesAccounted'
      BY <1>1, <1>3, <2>1 DEF FramesAccounted, One
    <2>4. Ordered' /\ Known'
      BY <1>1, <1>2, <1>3, <2>1 DEF Ordered, Known, AfterDecode, After
    <2> QED
      BY <2>2, <2>3, <2>4
  <1>4. CASE compressed.value = 0
    <2>1. dpc' = "ended" /\ UNCHANGED <<decoding, compressed>>
      BY <1>4 DEF TakeCompressed
    <2> QED
      BY <1>1, <2>1 DEF FramesAccounted, One, Ordered, Known, AfterDecode, After
  <1> QED
    BY <1>3, <1>4

LEMMA DecodeKeeps ==
  ASSUME FrameInv, DecodeOk \/ DecodeFails
  PROVE  FrameInv'
  <1> USE DEF FrameInv, FrameTypes
  <1>1. /\ dpc = "decode"
        /\ UNCHANGED <<cpc, fresh, captured, droppedPre, compressed, output, decoding,
                       droppedPost, taken, takenCount>>
    BY DEF DecodeOk, DecodeFails, capture, status, renderer
  <1>2. CASE DecodeOk
    <2>1. /\ dpc' = "put" /\ decoded' = decoded + 1 /\ scratch' = decoding
          /\ decodeErrors' = decodeErrors
      BY <1>2 DEF DecodeOk
    <2> QED
      BY <1>1, <2>1 DEF FramesAccounted, One, Ordered, Known, AfterDecode, After
  <1>3. CASE DecodeFails
    <2>1. dpc' = "wait" /\ decodeErrors' = decodeErrors + 1 /\ UNCHANGED <<decoded, scratch>>
      BY <1>3 DEF DecodeFails, AfterError
    <2> QED
      BY <1>1, <2>1 DEF FramesAccounted, One, Ordered, Known, AfterDecode, After
  <1> QED
    BY <1>2, <1>3

LEMMA PutOutputKeeps ==
  ASSUME FrameInv, PutOutput
  PROVE  FrameInv'
  <1> USE DEF FrameInv, FrameTypes
  <1>1. /\ dpc = "put" /\ output' = Put(output, scratch)
        /\ dpc' = (IF Displaces(output) THEN "tally" ELSE "wait")
        /\ scratch' \in {scratch, output.value, 0}
        /\ UNCHANGED <<cpc, fresh, captured, droppedPre, compressed, decoding, decoded,
                       droppedPost, decodeErrors, taken, takenCount>>
    BY DEF PutOutput, capture, status, renderer
  <1>2. /\ output'.closed = output.closed /\ output' \in Slots
        /\ output'.value = IF output.closed THEN output.value ELSE scratch
        /\ compressed.value \in Nat /\ output.value \in Nat
    <2>1. compressed \in Slots /\ output \in Slots /\ scratch \in Nat
      OBVIOUS
    <2>2. /\ Put(output, scratch) \in Slots /\ Put(output, scratch).closed = output.closed
          /\ Put(output, scratch).value = IF output.closed THEN output.value ELSE scratch
      BY <2>1, PutFacts
    <2>3. compressed.value \in Nat /\ output.value \in Nat
      BY <2>1, SlotParts
    <2> QED
      BY <1>1, <2>2, <2>3
  <1>3. FrameTypes'
    BY <1>1, <1>2
  <1>4. FramesAccounted'
    BY <1>1, <1>2 DEF FramesAccounted, Ordered, After, One, Displaces
  <1>5. Ordered' /\ Known'
    BY <1>1, <1>2 DEF Ordered, Known, AfterDecode, After
  <1> QED
    BY <1>3, <1>4, <1>5

LEMMA TallyPostKeeps ==
  ASSUME FrameInv, TallyPost
  PROVE  FrameInv'
  <1> USE DEF FrameInv, FrameTypes
  <1>1. /\ droppedPost' = (IF output.closed THEN droppedPost ELSE droppedPost + 1)
        /\ dpc = "tally" /\ dpc' = "wait"
        /\ UNCHANGED <<cpc, fresh, captured, droppedPre, compressed, output, decoding, scratch,
                       decoded, decodeErrors, taken, takenCount>>
    BY DEF TallyPost, capture, status, renderer
  <1> QED
    BY <1>1 DEF FramesAccounted, One, Ordered, Known, AfterDecode, After

LEMMA TakeOutputKeeps ==
  ASSUME FrameInv, TakeOutput
  PROVE  FrameInv'
  <1> USE DEF FrameInv, FrameTypes
  <1>1. /\ output.value # 0 /\ taken' = output.value /\ takenCount' = takenCount + 1
        /\ UNCHANGED <<cpc, fresh, captured, droppedPre, compressed, dpc, decoding, scratch,
                       decoded, droppedPost, decodeErrors>>
    BY DEF TakeOutput, capture, status, decode
  <1>2. /\ output' \in Slots /\ output'.value = 0 /\ output'.closed = output.closed
        /\ output.value \in Nat /\ compressed.value \in Nat
    BY SlotParts DEF TakeOutput
  <1>3. FrameTypes'
    BY <1>1, <1>2
  <1>4. FramesAccounted'
    BY <1>1, <1>2 DEF FramesAccounted, One
  <1>5. Ordered' /\ Known'
    BY <1>1, <1>2 DEF Ordered, Known, AfterDecode, After
  <1> QED
    BY <1>3, <1>4, <1>5

LEMMA StopKeeps ==
  ASSUME FrameInv, StopStep
  PROVE  FrameInv'
  <1> USE DEF FrameInv, FrameTypes
  <1>1. /\ compressed' \in {compressed, Closed(compressed)} /\ output' \in {output, Closed(output)}
        /\ UNCHANGED <<cpc, fresh, captured, droppedPre, decode, taken, takenCount>>
    BY DEF StopStep, capture, status, renderer
  <1>2. /\ compressed' \in Slots /\ compressed'.value \in {0, compressed.value}
        /\ ~compressed'.closed => compressed' = compressed
        /\ output' \in Slots /\ output'.value \in {0, output.value}
        /\ ~output'.closed => output' = output
        /\ compressed.value \in Nat /\ output.value \in Nat
    <2>1. compressed \in Slots /\ output \in Slots
      OBVIOUS
    <2>2. /\ Closed(compressed) \in Slots /\ Closed(compressed).value = 0
          /\ Closed(compressed).closed
      BY <2>1, SlotParts
    <2>3. Closed(output) \in Slots /\ Closed(output).value = 0 /\ Closed(output).closed
      BY <2>1, SlotParts
    <2>4. compressed.value \in Nat /\ output.value \in Nat
      BY <2>1, SlotParts
    <2>5. CASE compressed' = compressed
      BY <1>1, <2>1, <2>3, <2>4, <2>5
    <2>6. CASE compressed' = Closed(compressed)
      BY <1>1, <2>1, <2>2, <2>3, <2>4, <2>6
    <2> QED
      BY <1>1, <2>5, <2>6
  <1>3. FrameTypes'
    BY <1>1, <1>2 DEF decode
  <1>4. FramesAccounted'
    BY <1>1, <1>2 DEF FramesAccounted, decode
  <1>5. Ordered' /\ Known'
    BY <1>1, <1>2 DEF Ordered, Known, AfterDecode, After, decode
  <1> QED
    BY <1>3, <1>4, <1>5

LEMMA FrameStep == FrameInv /\ [Next]_vars => FrameInv'
  <1> SUFFICES ASSUME FrameInv, [Next]_vars PROVE FrameInv'
    OBVIOUS
  <1>1. CASE LoopHead \/ Announce \/ BackoffEnds \/ ApplyRequest \/ AbandonOpen
             \/ SourceLost \/ NoFrame \/ StallRestart \/ Opens
    BY <1>1, AwayKeeps
    DEF LoopHead, Announce, BackoffEnds, ApplyRequest, AbandonOpen, SourceLost, NoFrame,
        StallRestart, Opens, OpenSucceeds, OpenFails, AfterFailedReopen, InvokeRestart, LoseDevice,
        capture, status, decode, renderer, frameVars
  <1>2. CASE WatchQuiet \/ WatchRestarts \/ WatchReopens \/ WatchAccepts
    BY <1>2, AwayKeeps
    DEF WatchQuiet, WatchRestarts, WatchReopens, WatchAccepts, WatchFires, InvokeRestart,
        LoseDevice, capture, status, decode, renderer, frameVars
  <1>3. CASE RequestFormat \/ Joined \/ UNCHANGED vars
    <2>1. UNCHANGED <<cpc, fresh, compressed, frameVars>>
      BY <1>3 DEF RequestFormat, Joined, vars, capture, status, decode, renderer, frameVars
    <2> QED
      BY <2>1 DEF FrameInv, FrameTypes, FramesAccounted, Ordered, Known, AfterDecode, After,
                  frameVars
  <1> QED
    BY <1>1, <1>2, <1>3, NextFrameKeeps, PutCompressedKeeps, TallyPreKeeps, TakeCompressedKeeps,
       DecodeKeeps, PutOutputKeeps, TallyPostKeeps, TakeOutputKeeps, StopKeeps
    DEF Next, CaptureSteps, DecodeSteps, HandleSteps

-----------------------------------------------------------------------------
(* The format watchdog                                                     *)

Watches == [run: Nat, restarts: Nat, reopened: BOOLEAN, escalating: BOOLEAN, accepted: BOOLEAN]

\* While its own reopen is under way there is no source, so no frame can move
\* the watchdog.
Escalation ==
    watch.escalating =>
        /\ watch.reopened /\ watch.restarts = RestartLimit
        /\ source = NoFormat /\ cpc \notin {"first", "put", "tally", "watch"}

\* What the run has cost, by the watchdog's own record of it.
RunCost ==
    /\ watch.restarts <= RestartLimit
    /\ watch.reopened => recover
    /\ runReopens = One(watch.reopened)
    /\ runRestarts = watch.restarts
                       + IF watch.reopened /\ ~watch.escalating THEN RestartLimit ELSE 0

WatchInv ==
    /\ watch \in Watches /\ recover \in BOOLEAN
    /\ Escalation /\ RunCost

LEMMA LimitIsNat == RestartLimit \in Nat /\ NoFormat \notin Formats
  BY CaptureAssumption

LEMMA NoWatchIs ==
  /\ NoWatch \in Watches /\ NoWatch.restarts = 0
  /\ ~NoWatch.reopened /\ ~NoWatch.escalating
  BY DEF NoWatch, Watches

LEMMA MismatchedIs ==
  ASSUME NEW w, w \in Watches, w = watch
  PROVE  /\ Mismatched \in Watches /\ Mismatched.restarts = w.restarts
         /\ Mismatched.reopened = w.reopened /\ Mismatched.escalating = w.escalating
  <1>1. w.run + 1 \in Nat
    BY DEF Watches
  <1> QED
    BY <1>1 DEF Mismatched, Watches

LEMMA WatchUpdates ==
  ASSUME NEW w \in Watches
  PROVE  /\ \A n \in Nat : [w EXCEPT !.run = n] \in Watches
         /\ \A n \in Nat : [w EXCEPT !.restarts = n] \in Watches
         /\ \A b \in BOOLEAN : [w EXCEPT !.reopened = b] \in Watches
         /\ \A b \in BOOLEAN : [w EXCEPT !.escalating = b] \in Watches
         /\ \A b \in BOOLEAN : [w EXCEPT !.accepted = b] \in Watches
  BY DEF Watches

LEMMA Counted ==
  ASSUME NEW w, w \in Watches
  PROVE  LET v == [w EXCEPT !.run = 0, !.restarts = @ + 1]
         IN  /\ v \in Watches /\ v.restarts = w.restarts + 1
             /\ v.reopened = w.reopened /\ v.escalating = w.escalating
  <1> DEFINE u == [w EXCEPT !.run = 0]
             v == [w EXCEPT !.run = 0, !.restarts = @ + 1]
  <1>1. u \in Watches
    BY WatchUpdates
  <1>2. u.restarts = w.restarts /\ u.reopened = w.reopened /\ u.escalating = w.escalating
    BY DEF Watches
  <1>3. v = [u EXCEPT !.restarts = u.restarts + 1]
    BY <1>2
  <1> HIDE DEF u
  <1>4. u.restarts + 1 \in Nat
    BY <1>1 DEF Watches
  <1>5. v \in Watches
    BY <1>1, <1>3, <1>4, WatchUpdates
  <1>6. /\ v.restarts = u.restarts + 1 /\ v.reopened = u.reopened
        /\ v.escalating = u.escalating
    BY <1>1, <1>3 DEF Watches
  <1> QED
    BY <1>2, <1>5, <1>6

LEMMA Escalated ==
  ASSUME NEW w, w \in Watches
  PROVE  LET v == [w EXCEPT !.reopened = TRUE, !.escalating = TRUE]
         IN  /\ v \in Watches /\ v.restarts = w.restarts
             /\ v.reopened = TRUE /\ v.escalating = TRUE
  <1> DEFINE u == [w EXCEPT !.reopened = TRUE]
             v == [w EXCEPT !.reopened = TRUE, !.escalating = TRUE]
  <1>1. u \in Watches
    BY WatchUpdates
  <1>2. u.restarts = w.restarts /\ u.reopened = TRUE
    BY DEF Watches
  <1>3. v = [u EXCEPT !.escalating = TRUE]
    OBVIOUS
  <1> HIDE DEF u
  <1>4. v \in Watches
    BY <1>1, <1>3, WatchUpdates
  <1>5. v.restarts = u.restarts /\ v.reopened = u.reopened /\ v.escalating = TRUE
    BY <1>1, <1>3 DEF Watches
  <1> QED
    BY <1>2, <1>4, <1>5

LEMMA Accepted ==
  ASSUME NEW w, w \in Watches
  PROVE  LET v == [w EXCEPT !.accepted = TRUE]
         IN  /\ v \in Watches /\ v.restarts = w.restarts
             /\ v.reopened = w.reopened /\ v.escalating = w.escalating
  <1>1. [w EXCEPT !.accepted = TRUE] \in Watches
    BY WatchUpdates
  <1> QED
    BY <1>1 DEF Watches

\* Steps that leave the watchdog and its accounts alone.
LEMMA WatchAlone ==
  ASSUME WatchInv, UNCHANGED <<watch, recover, runRestarts, runReopens>>,
         watch.escalating => source' = NoFormat /\ cpc' \notin {"first", "put", "tally", "watch"}
  PROVE  WatchInv'
  BY DEF WatchInv, Escalation, RunCost

LEMMA WatchStarts == Init => WatchInv
  BY NoWatchIs, LimitIsNat DEF Init, WatchInv, Escalation, RunCost, One

LEMMA WatchOpens ==
  ASSUME WatchInv, OpenSucceeds
  PROVE  WatchInv'
  <1>1. /\ watch' = Armed /\ NewRun /\ recover' = recover
        /\ watch \in Watches /\ recover \in BOOLEAN
    BY DEF OpenSucceeds, WatchInv
  <1>2. /\ watch' \in Watches /\ watch'.restarts = 0 /\ watch'.escalating = FALSE
        /\ watch'.reopened = (watch.escalating /\ watch.reopened)
    BY <1>1 DEF Armed, NoWatch, Watches
  <1>3. CASE watch.escalating
    <2>1. UNCHANGED <<runRestarts, runReopens>> /\ watch.reopened /\ watch'.reopened
      BY <1>1, <1>2, <1>3 DEF NewRun, WatchInv, Escalation
    <2> QED
      BY <1>1, <1>2, <1>3, <2>1, LimitIsNat DEF WatchInv, Escalation, RunCost, One
  <1>4. CASE ~watch.escalating
    <2>1. runRestarts' = 0 /\ runReopens' = 0 /\ ~watch'.reopened
      BY <1>1, <1>2, <1>4 DEF NewRun
    <2> QED
      BY <1>1, <1>2, <2>1, LimitIsNat DEF WatchInv, Escalation, RunCost, One
  <1> QED
    BY <1>3, <1>4

LEMMA WatchMoves ==
  ASSUME WatchInv, WatchQuiet \/ WatchRestarts \/ WatchReopens \/ WatchAccepts
  PROVE  WatchInv'
  <1>1. /\ cpc = "watch" /\ recover' = recover /\ recover \in BOOLEAN
        /\ watch \in Watches /\ ~watch.escalating
    BY DEF WatchQuiet, WatchRestarts, WatchReopens, WatchAccepts, WatchFires, WatchInv, Escalation
  <1>2. CASE WatchQuiet
    <2>1. CASE fresh.match
      <3>1. watch' = NoWatch /\ runRestarts' = 0 /\ runReopens' = 0
        BY <1>2, <2>1 DEF WatchQuiet
      <3> QED
        BY <1>1, <3>1, NoWatchIs, LimitIsNat DEF WatchInv, Escalation, RunCost, One
    <2>2. CASE ~fresh.match
      <3>1. watch' \in {watch, Mismatched} /\ UNCHANGED <<runRestarts, runReopens>>
        BY <1>2, <2>2 DEF WatchQuiet
      <3>2. /\ watch' \in Watches /\ watch'.restarts = watch.restarts
            /\ watch'.reopened = watch.reopened /\ watch'.escalating = watch.escalating
        BY <1>1, <3>1 DEF Mismatched, Watches
      <3> QED
        BY <1>1, <3>1, <3>2 DEF WatchInv, Escalation, RunCost, One
    <2> QED
      BY <2>1, <2>2
  <1>3. CASE WatchRestarts
    <2>1. /\ watch' = [watch EXCEPT !.run = 0, !.restarts = @ + 1] /\ watch.restarts < RestartLimit
          /\ runRestarts' = runRestarts + 1 /\ runReopens' = runReopens
      BY <1>1, <1>3, LimitIsNat DEF WatchRestarts, Spent, Watches
    <2>2. /\ watch' \in Watches /\ watch'.restarts = watch.restarts + 1
          /\ watch'.reopened = watch.reopened /\ watch'.escalating = watch.escalating
      BY <1>1, <2>1, Counted
    <2> QED
      BY <1>1, <2>1, <2>2, LimitIsNat DEF WatchInv, Escalation, RunCost, One, Watches
  <1>4. CASE WatchReopens
    <2>1. /\ watch' = [Mismatched EXCEPT !.reopened = TRUE, !.escalating = TRUE]
          /\ watch.restarts >= RestartLimit /\ recover /\ ~watch.reopened
          /\ runReopens' = runReopens + 1 /\ runRestarts' = runRestarts
          /\ source' = NoFormat /\ cpc' = "loop"
      BY <1>4 DEF WatchReopens, Spent, MayEscalate
    <2>2. /\ watch' \in Watches /\ watch'.restarts = watch.restarts
          /\ watch'.reopened = TRUE /\ watch'.escalating = TRUE
      <3>1. /\ Mismatched \in Watches /\ Mismatched.restarts = watch.restarts
            /\ Mismatched.reopened = watch.reopened /\ Mismatched.escalating = watch.escalating
        BY <1>1, MismatchedIs
      <3> QED
        BY <1>1, <2>1, <3>1, Escalated
    <2> QED
      BY <1>1, <2>1, <2>2, LimitIsNat DEF WatchInv, Escalation, RunCost, One, Watches
  <1>5. CASE WatchAccepts
    <2>1. /\ watch' = [Mismatched EXCEPT !.accepted = TRUE]
          /\ UNCHANGED <<runRestarts, runReopens>>
      BY <1>5 DEF WatchAccepts, accounts
    <2>2. /\ watch' \in Watches /\ watch'.restarts = watch.restarts
          /\ watch'.reopened = watch.reopened /\ watch'.escalating = watch.escalating
      <3>1. /\ Mismatched \in Watches /\ Mismatched.restarts = watch.restarts
            /\ Mismatched.reopened = watch.reopened /\ Mismatched.escalating = watch.escalating
        BY <1>1, MismatchedIs
      <3> QED
        BY <1>1, <2>1, <3>1, Accepted
    <2> QED
      BY <1>1, <2>1, <2>2 DEF WatchInv, Escalation, RunCost, One
  <1> QED
    BY <1>2, <1>3, <1>4, <1>5

LEMMA WatchStep == WatchInv /\ [Next]_vars => WatchInv'
  <1> SUFFICES ASSUME WatchInv, [Next]_vars PROVE WatchInv'
    OBVIOUS
  <1>1. CASE LoopHead \/ Announce \/ BackoffEnds \/ ApplyRequest \/ AbandonOpen \/ OpenFails
    <2>1. /\ UNCHANGED <<watch, recover, runRestarts, runReopens>>
          /\ source' \in {source, NoFormat} /\ cpc' \notin {"first", "put", "tally", "watch"}
      BY <1>1
      DEF LoopHead, Announce, BackoffEnds, ApplyRequest, AbandonOpen, OpenFails,
          AfterFailedReopen, accounts
    <2> QED
      BY <2>1, WatchAlone DEF WatchInv, Escalation
  <1>2. CASE SourceLost \/ NoFrame \/ StallRestart \/ NextFrame
    <2>1. /\ UNCHANGED <<watch, recover, runRestarts, runReopens>>
          /\ ~Held => source' = source /\ cpc' = "loop"
      BY <1>2
      DEF SourceLost, NoFrame, StallRestart, NextFrame, StallWatch, accounts
    <2> QED
      BY <2>1, WatchAlone DEF WatchInv, Escalation, Held
  <1>3. CASE PutCompressed \/ TallyPre
    <2>1. UNCHANGED <<watch, recover, runRestarts, runReopens>> /\ cpc \in {"put", "tally"}
      BY <1>3 DEF PutCompressed, TallyPre, accounts
    <2> QED
      BY <2>1, WatchAlone DEF WatchInv, Escalation
  <1>4. CASE DecodeSteps \/ TakeOutput \/ RequestFormat \/ HandleSteps \/ UNCHANGED vars
    <2>1. UNCHANGED <<watch, recover, runRestarts, runReopens, source, cpc>>
      BY <1>4
      DEF DecodeSteps, TakeCompressed, DecodeOk, DecodeFails, PutOutput, TallyPost, TakeOutput,
          RequestFormat, HandleSteps, StopStep, Joined, capture, accounts, vars
    <2> QED
      BY <2>1, WatchAlone DEF WatchInv, Escalation
  <1> QED
    BY <1>1, <1>2, <1>3, <1>4, WatchOpens, WatchMoves DEF Next, CaptureSteps, Opens

-----------------------------------------------------------------------------
(* What the handle reports                                                 *)

LEMMA StatusStep == StatusHonest /\ [Next]_vars => StatusHonest'
  <1> SUFFICES ASSUME StatusHonest, [Next]_vars PROVE StatusHonest'
    OBVIOUS
  <1> USE DEF StatusHonest
  <1>1. CASE LoopHead \/ Announce \/ BackoffEnds \/ ApplyRequest \/ AbandonOpen \/ NoFrame
             \/ NextFrame \/ PutCompressed \/ TallyPre
    BY <1>1
    DEF LoopHead, Announce, BackoffEnds, ApplyRequest, AbandonOpen, NoFrame, NextFrame,
        PutCompressed, TallyPre, status, decode
  <1>2. CASE SourceLost \/ StallRestart \/ Opens
    BY <1>2
    DEF SourceLost, StallRestart, Opens, OpenSucceeds, OpenFails, AfterFailedReopen,
        InvokeRestart, LoseDevice, decode
  <1>3. CASE WatchQuiet \/ WatchRestarts \/ WatchReopens \/ WatchAccepts
    BY <1>3
    DEF WatchQuiet, WatchRestarts, WatchReopens, WatchAccepts, WatchFires, InvokeRestart,
        LoseDevice, status, decode
  <1>4. CASE DecodeSteps
    <2>1. dpc # "ended" /\ UNCHANGED <<cpc, source, shown, state, lost>>
      BY <1>4
      DEF DecodeSteps, TakeCompressed, DecodeOk, DecodeFails, PutOutput, TallyPost, capture,
          status
    <2> QED
      BY <2>1
  <1>5. CASE TakeOutput \/ RequestFormat \/ HandleSteps \/ UNCHANGED vars
    <2>1. /\ UNCHANGED <<cpc, dpc, source, shown, lost>>
          /\ state' = state \/ (Joined /\ state' = "Stopped")
      <3>1. CASE TakeOutput \/ RequestFormat \/ StopStep
        BY <3>1 DEF TakeOutput, RequestFormat, StopStep, capture, status, decode
      <3>2. CASE Joined
        BY <3>2 DEF Joined, capture, decode
      <3>3. CASE UNCHANGED vars
        BY <3>3 DEF vars, capture, status, decode
      <3> QED
        BY <1>5, <3>1, <3>2, <3>3 DEF HandleSteps
    <2>2. Joined => cpc = "ended" /\ dpc = "ended"
      BY DEF Joined
    <2> QED
      BY <2>1, <2>2
  <1> QED
    BY <1>1, <1>2, <1>3, <1>4, <1>5 DEF Next, CaptureSteps

-----------------------------------------------------------------------------
(* The theorems                                                            *)

LEMMA FrameInvariant == Spec => []FrameInv
  BY FrameStart, FrameStep, PTL DEF Spec

\* Every captured frame is in one place or counted once, while the handoffs
\* are open (capture/pipeline.rs, Slot::put and the two threads).
THEOREM FramesAreAccounted == Spec => []FramesAccounted
  <1>1. FrameInv => FramesAccounted
    BY DEF FrameInv
  <1> QED
    BY <1>1, FrameInvariant, PTL

\* The renderer never goes back to an older frame (capture/pipeline.rs, take).
THEOREM FramesOnlyAdvance == Spec => FramesMoveForward
  <1>1. ASSUME FrameInv, [Next]_vars
        PROVE  [taken' # taken => taken' > taken]_vars
    <2>1. CASE TakeOutput
      BY <1>1, <2>1 DEF TakeOutput, FrameInv, Ordered
    <2>2. CASE ~TakeOutput
      <3>1. taken' = taken
        BY <1>1, <2>2
        DEF Next, CaptureSteps, DecodeSteps, HandleSteps, Opens, LoopHead, Announce, BackoffEnds,
            ApplyRequest, AbandonOpen, SourceLost, NoFrame, StallRestart, NextFrame,
            PutCompressed, TallyPre, WatchQuiet, WatchRestarts, WatchReopens, WatchAccepts,
            OpenSucceeds, OpenFails, TakeCompressed, DecodeOk, DecodeFails, PutOutput, TallyPost,
            RequestFormat, StopStep, Joined, renderer, vars
      <3> QED
        BY <3>1
    <2> QED
      BY <2>1, <2>2
  <1> QED
    BY <1>1, FrameInvariant, PTL DEF FramesMoveForward, Spec

\* A run of mismatched frames costs at most two restart budgets and one
\* reopen, and one budget where there is nothing to reopen
\* (capture/pipeline.rs, watch_format and arm_format_watch).
THEOREM WatchdogIsBounded == Spec => []WatchdogBounded
  <1>1. WatchInv => WatchdogBounded
    <2> SUFFICES ASSUME WatchInv PROVE WatchdogBounded
      OBVIOUS
    <2>1. /\ watch.restarts \in Nat /\ recover \in BOOLEAN /\ RestartLimit \in Nat
          /\ watch.reopened \in BOOLEAN
      BY LimitIsNat DEF WatchInv, Watches
    <2>2. CASE recover
      <3>1. RestartLimit * (1 + One(recover)) = RestartLimit + RestartLimit
        BY <2>1, <2>2 DEF One
      <3> QED
        BY <2>1, <2>2, <3>1 DEF WatchInv, RunCost, WatchdogBounded, One
    <2>3. CASE ~recover
      <3>1. RestartLimit * (1 + One(recover)) = RestartLimit
        BY <2>1, <2>3 DEF One
      <3> QED
        BY <2>1, <2>3, <3>1 DEF WatchInv, RunCost, WatchdogBounded, One
    <2> QED
      BY <2>2, <2>3
  <1> QED
    BY <1>1, WatchStarts, WatchStep, PTL DEF Spec

\* The state, format and outage the handle shows are those of the threads
\* (capture/pipeline.rs, Shared and the places that write it).
THEOREM StatusIsHonest == Spec => []StatusHonest
  <1>1. Init => StatusHonest
    BY DEF Init, StatusHonest
  <1> QED
    BY <1>1, StatusStep, PTL DEF Spec

-----------------------------------------------------------------------------
(* The stream of the V4L2 source                                           *)

Owners == {"none", "ours", "queued", "filled"}

StreamTypes ==
    /\ v4l2 \in [at: {"closed", "idle", "dequeue"}, stream: BOOLEAN, broken: BOOLEAN,
                   index: Nat]
    /\ buffers \in [Buffers -> Owners]
    /\ driver \in [present: BOOLEAN, error: BOOLEAN]

\* An open source that is not marked has a stream, whose index names a buffer.
IndexOurs ==
    v4l2.at # "closed" /\ ~v4l2.broken => v4l2.stream /\ v4l2.index \in Buffers

StreamInv == StreamTypes /\ IndexOurs /\ StreamIntact

-----------------------------------------------------------------------------
LEMMA StreamStarts == StreamInit => StreamInv
  BY DEF StreamInit, StreamInv, StreamTypes, IndexOurs, StreamIntact, NoSource, NoBuffers, Owners

\* A stream that has just been started holds the first buffer alone.
LEMMA StartedIntact ==
  ASSUME BufferCount \in Nat, StreamTypes, Started
  PROVE  StreamInv'
  <1>1. PICK granted \in 2..BufferCount :
           buffers' = [b \in Buffers |-> IF b = 0 THEN "ours" ELSE IF b < granted THEN "queued"
                                         ELSE "none"]
    BY DEF Started, Primed
  <1>2. /\ v4l2' = [at |-> "idle", stream |-> TRUE, broken |-> FALSE, index |-> 0]
        /\ driver' \in [present: BOOLEAN, error: BOOLEAN]
    BY DEF Started, StreamTypes
  <1>3. buffers' \in [Buffers -> Owners] /\ 0 \in Buffers
    BY <1>1 DEF Owners, Buffers
  <1>4. \A b \in Buffers : buffers'[b] = "ours" <=> b = 0
    BY <1>1
  <1>5. {b \in Buffers : buffers'[b] = "ours"} = {0}
    BY <1>3, <1>4
  <1> QED
    BY <1>2, <1>3, <1>5 DEF StreamInv, StreamTypes, IndexOurs, StreamIntact, Owned

\* Without a stream, or with one that is marked, nothing is promised.
LEMMA UnusableIntact ==
  ASSUME StreamTypes', v4l2'.at # "dequeue",
         v4l2'.broken \/ (v4l2'.at = "closed" /\ ~v4l2'.stream)
  PROVE  StreamInv'
  BY DEF StreamInv, IndexOurs, StreamIntact

\* What the driver does to the buffers takes none of ours and adds none.
LEMMA DriverKeeps ==
  ASSUME StreamInv, StreamTypes', v4l2' = v4l2,
         \A b \in Buffers : \/ buffers'[b] = buffers[b]
                            \/ buffers[b] = "queued" /\ buffers'[b] = "filled"
  PROVE  StreamInv'
  <1>1. Owned("ours")' = Owned("ours") /\ Owned("filled") \subseteq Owned("filled")'
    BY DEF Owned
  <1> QED
    BY <1>1 DEF StreamInv, IndexOurs, StreamIntact

LEMMA NotStartedTypes ==
  ASSUME StreamTypes, NEW left, NotStarted(left),
         left \in [at: {"closed", "idle", "dequeue"}, stream: BOOLEAN, broken: BOOLEAN, index: Nat]
  PROVE  StreamTypes' /\ v4l2' = left
  BY DEF NotStarted, StreamTypes, NoBuffers, Owners

LEMMA SourceUpdates ==
  ASSUME StreamTypes
  PROVE  LET Sources == [at: {"closed", "idle", "dequeue"}, stream: BOOLEAN, broken: BOOLEAN,
                         index: Nat] IN
         /\ Broken \in Sources /\ Broken.at = "idle" /\ Broken.broken = TRUE
         /\ [Broken EXCEPT !.stream = FALSE] \in Sources
         /\ [Broken EXCEPT !.stream = FALSE].at = "idle"
         /\ [Broken EXCEPT !.stream = FALSE].broken = TRUE
         /\ NoSource \in Sources /\ NoSource.at = "closed" /\ NoSource.stream = FALSE
  BY DEF StreamTypes, Broken, NoSource

LEMMA StreamStep ==
  ASSUME BufferCount \in Nat, StreamInv, [StreamNext]_streamVars
  PROVE  StreamInv'
  <1>1. StreamTypes
    BY DEF StreamInv
  <1>2. CASE Started
    BY <1>1, <1>2, StartedIntact
  <1>3. ASSUME NotStarted([Broken EXCEPT !.stream = FALSE]) \/ NotStarted(NoSource)
        PROVE  StreamInv'
    BY <1>1, <1>3, SourceUpdates, NotStartedTypes, UnusableIntact
  <1>4. CASE PollFindsBuffer
    <2>1. /\ v4l2.at = "idle" /\ ~v4l2.broken /\ Owned("filled") # {}
          /\ v4l2' = [v4l2 EXCEPT !.at = "dequeue"] /\ UNCHANGED <<buffers, driver>>
      BY <1>4 DEF PollFindsBuffer, Unbroken
    <2>2. StreamTypes' /\ v4l2'.at = "dequeue" /\ v4l2'.stream = v4l2.stream
          /\ v4l2'.broken = v4l2.broken /\ v4l2'.index = v4l2.index
      BY <1>1, <2>1 DEF StreamTypes
    <2>3. v4l2.stream
      BY <2>1 DEF StreamInv, IndexOurs
    <2> QED
      BY <2>1, <2>2, <2>3 DEF StreamInv, IndexOurs, StreamIntact, Owned
  <1>5. CASE PollFindsError
    <2>1. v4l2' = Broken /\ UNCHANGED <<buffers, driver>>
      BY <1>5 DEF PollFindsError
    <2>2. StreamTypes'
      BY <1>1, <2>1, SourceUpdates DEF StreamTypes
    <2> QED
      BY <1>1, <2>1, <2>2, SourceUpdates, UnusableIntact
  <1>6. CASE Dequeue
    <2>1. PICK b \in Buffers :
             /\ buffers[b] = "filled" /\ buffers' = [Requeued EXCEPT ![b] = "ours"]
             /\ v4l2' = [v4l2 EXCEPT !.at = "idle", !.index = b]
      BY <1>6 DEF Dequeue, Owned
    <2>2. /\ v4l2.at = "dequeue" /\ v4l2.stream /\ ~v4l2.broken /\ driver' = driver
          /\ v4l2.index \in Buffers /\ buffers[v4l2.index] = "ours"
          /\ Owned("ours") = {v4l2.index}
      BY <1>6 DEF Dequeue, StreamInv, StreamIntact, IndexOurs
    <2>3. \A c \in Buffers : buffers'[c] = IF c = b THEN "ours" ELSE
                                IF c = v4l2.index THEN "queued" ELSE buffers[c]
      BY <1>1, <2>1, <2>2 DEF StreamTypes, Requeued
    <2>4. \A c \in Buffers : buffers'[c] = "ours" <=> c = b
      BY <2>1, <2>2, <2>3 DEF Owned
    <2>5. Owned("ours")' = {b}
      BY <2>1, <2>4 DEF Owned
    <2>6. buffers' \in [Buffers -> Owners]
      BY <1>1, <2>1, <2>2 DEF StreamTypes, Requeued, Owners
    <2>7. /\ v4l2' \in [at: {"closed", "idle", "dequeue"}, stream: BOOLEAN, broken: BOOLEAN,
                          index: Nat]
          /\ v4l2'.at = "idle" /\ v4l2'.index = b
      <3> DEFINE left == [v4l2 EXCEPT !.at = "idle"]
      <3>1. /\ left \in [at: {"closed", "idle", "dequeue"}, stream: BOOLEAN, broken: BOOLEAN,
                         index: Nat]
            /\ left.at = "idle"
        BY <1>1 DEF StreamTypes
      <3>2. v4l2' = [left EXCEPT !.index = b] /\ b \in Nat
        BY <2>1 DEF Buffers
      <3> HIDE DEF left
      <3> QED
        BY <3>1, <3>2
    <2> QED
      BY <1>1, <2>2, <2>1, <2>5, <2>6, <2>7 DEF StreamInv, StreamTypes, IndexOurs, StreamIntact
  <1>7. CASE DequeueFails
    <2>1. v4l2' = Broken /\ driver' = driver
          /\ (buffers' = buffers \/ buffers' = [buffers EXCEPT ![v4l2.index] = "queued"])
      BY <1>7 DEF DequeueFails, DequeueLeft, Requeued
    <2>2. StreamTypes'
      BY <1>1, <2>1, SourceUpdates DEF StreamTypes, Owners
    <2> QED
      BY <1>1, <2>1, <2>2, SourceUpdates, UnusableIntact
  <1>8. CASE Fill
    <2>1. PICK b \in Buffers : /\ buffers[b] = "queued"
                               /\ buffers' = [buffers EXCEPT ![b] = "filled"]
                               /\ UNCHANGED <<v4l2, driver>>
      BY <1>8 DEF Fill, Owned
    <2>2. StreamTypes'
      BY <1>1, <2>1 DEF StreamTypes, Owners
    <2> QED
      BY <1>1, <2>1, <2>2, DriverKeeps DEF StreamTypes
  <1>9. CASE QueueError \/ Unplug \/ Replug \/ UNCHANGED streamVars
    <2>1. /\ UNCHANGED <<v4l2, buffers>>
          /\ \/ driver' = [driver EXCEPT !.error = TRUE]
             \/ driver' = [driver EXCEPT !.present = FALSE]
             \/ driver' = [present |-> TRUE, error |-> FALSE]
             \/ driver' = driver
      BY <1>9 DEF QueueError, Unplug, Replug, streamVars
    <2>2. driver' \in [present: BOOLEAN, error: BOOLEAN]
      <3>1. [driver EXCEPT !.error = TRUE] \in [present: BOOLEAN, error: BOOLEAN]
        BY <1>1 DEF StreamTypes
      <3>2. [driver EXCEPT !.present = FALSE] \in [present: BOOLEAN, error: BOOLEAN]
        BY <1>1 DEF StreamTypes
      <3>3. [present |-> TRUE, error |-> FALSE] \in [present: BOOLEAN, error: BOOLEAN]
        OBVIOUS
      <3> QED
        BY <1>1, <2>1, <3>1, <3>2, <3>3 DEF StreamTypes
    <2> QED
      BY <1>1, <2>1, <2>2, DriverKeeps DEF StreamTypes
  <1> QED
    BY <1>2, <1>3, <1>4, <1>5, <1>6, <1>7, <1>8, <1>9
    DEF StreamNext, Open, Rebuild, PollHangsUp, DequeueDisconnects

\* The crate's stream is dequeued only where it can answer, whatever failed
\* before and however many buffers there are (capture/v4l2.rs, next_frame and
\* rebuild_stream).
THEOREM StreamStaysIntact ==
  ASSUME BufferCount \in Nat
  PROVE  StreamInit /\ [][StreamNext]_streamVars => []StreamIntact
  <1>1. StreamInv => StreamIntact
    BY DEF StreamInv
  <1>2. StreamInv /\ [StreamNext]_streamVars => StreamInv'
    BY StreamStep
  <1> QED
    BY <1>1, <1>2, StreamStarts, PTL
=============================================================================
