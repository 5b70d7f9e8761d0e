-------------------------- MODULE InputPathProofs --------------------------
(***************************************************************************)
(* The inductive invariant of the input path.  One lemma per part of IInv  *)
(* shows that every step preserves it, action by action.                   *)
(***************************************************************************)
EXTENDS InputPath, InputQueueProofs

\* Severity is compared, and the slot keeps one of the two reasons.
LEMMA NoteReasonType ==
    ASSUME NEW pending \in Reasons \cup {NoReason}, NEW reason \in Reasons
    PROVE  /\ NoteReason(pending, reason) \in Reasons
           /\ reason = "Shutdown" => NoteReason(pending, reason) = "Shutdown"
           /\ pending = "Shutdown" => NoteReason(pending, reason) = "Shutdown"
  <1>1. Severity("Shutdown") = 3 /\ Severity(pending) \in 0..3
          /\ (pending # "Shutdown" => Severity(pending) < 3)
          /\ Severity(reason) \in 0..3
    BY DEF Severity
  <1> QED
    BY <1>1 DEF NoteReason, NoReason

\* A sequence's record keeps its other fields when its outcome turns.
LEMMA OutcomeTurns ==
    ASSUME NEW r \in Releases
    PROVE  LET u == [r EXCEPT !.outcome = "Unsent"] IN
           /\ u \in Releases /\ u.outcome = "Unsent" /\ u.kind = r.kind
           /\ u.epoch = r.epoch /\ u.reason = r.reason /\ u.back = r.back
  BY DEF Releases

\* The record at rest.
LEMMA NoReleaseType ==
    NoRelease \in Releases
  BY DEF NoRelease, Releases, NoReason

\* The fields of a sequence's record.
LEMMA ReleaseFields ==
    ASSUME NEW r \in Releases
    PROVE  /\ r.epoch \in Nat /\ r.back \in {"loop", "backoff"}
           /\ r.reason \in Reasons \cup {NoReason}
           /\ r.outcome \in {"none", "Submitted", "Unsent"}
  BY DEF Releases

\* The flag stays armed exactly while a release is owed (shared.rs raise, the
\* conditional clear of cancellation_sequence and commission).
LEMMA EpochStep == TypeOK /\ EpochInv /\ [Next]_vars => EpochInv'
  <1> SUFFICES ASSUME TypeOK, EpochInv, [Next]_vars PROVE EpochInv'
    OBVIOUS
  <1>1. requested \in Nat /\ acked \in Nat /\ release \in Releases /\ cancel
     \in BOOLEAN /\ engaged \in BOOLEAN /\ shuttingDown \in BOOLEAN
    BY DEF TypeOK
  <1>2. release.epoch \in Nat
    BY <1>1 DEF Releases
  <1> USE DEF EpochInv, Drained, shared, callers, writer, transport, history
  <1>3. ASSUME NEW p \in Producers, NEW event \in Events, Submit(p, event)
     PROVE EpochInv'
    BY <1>3, <1>1, <1>2 DEF Submit
  <1>4. ASSUME NEW p \in Producers, TriggerOverflow(p) PROVE EpochInv'
    BY <1>4, <1>1, <1>2 DEF TriggerOverflow, Raise
  <1>5. ASSUME NEW reason \in UserReasons, RequestReleaseAll(reason) PROVE
     EpochInv'
    BY <1>5, <1>1, <1>2 DEF RequestReleaseAll, Raise
  <1>6. CASE Engage
    BY <1>6, <1>1, <1>2 DEF Engage, Engageable
  <1>7. ASSUME NEW next \in {"joining", "dropped"}, BeginShutdown(next) PROVE
     EpochInv'
    BY <1>7, <1>1, <1>2 DEF BeginShutdown, Raise
  <1>8. CASE Join
    BY <1>8, <1>1, <1>2 DEF Join
  <1>9. CASE Latch
    BY <1>9, <1>1, <1>2 DEF Latch, ServesCancel, FirstReleaseFrame
  <1>10. CASE NothingPending
    BY <1>10, <1>1, <1>2 DEF NothingPending
  <1>11. CASE ExitOrServe
    BY <1>11, <1>1, <1>2 DEF ExitOrServe, MayExit, Reacquires
  <1>12. CASE NextEntry
    BY <1>12, <1>1, <1>2 DEF NextEntry
  <1>13. CASE WakeUp
    BY <1>13, <1>1, <1>2 DEF WakeUp
  <1>14. CASE TriggerLinkDown
    BY <1>14, <1>1, <1>2 DEF TriggerLinkDown, Raise
  <1>15. CASE WriteKey
    BY <1>15, <1>1, <1>2 DEF WriteKey, Hand
  <1>16. CASE WriteButton
    BY <1>16, <1>1, <1>2 DEF WriteButton, Hand
  <1>17. CASE WriteMotion
    BY <1>17, <1>1, <1>2 DEF WriteMotion, Hand, Abandons
  <1>18. CASE EmitRelease
    BY <1>18, <1>1, <1>2, ReleaseFields, OutcomeTurns, NoReleaseType DEF
       EmitRelease, ReleasesAbs, AfterRelease
  <1>19. CASE Record
    BY <1>19, <1>1, <1>2, ReleaseFields, OutcomeTurns, NoReleaseType DEF
       Record, AfterRecord
  <1>20. CASE Acknowledge
    BY <1>20, <1>1, <1>2, ReleaseFields, OutcomeTurns, NoReleaseType DEF
       Acknowledge, StillOwed
  <1>21. CASE BackoffEnds
    BY <1>21, <1>1, <1>2 DEF BackoffEnds
  <1>22. CASE Attempt
    BY <1>22, <1>1, <1>2 DEF Attempt
  <1>23. CASE AwaitOpen
    BY <1>23, <1>1, <1>2 DEF AwaitOpen, AbandonsOpen
  <1>24. CASE Begin
    BY <1>24, <1>1, <1>2 DEF Begin
  <1>25. CASE Resync
    BY <1>25, <1>1, <1>2, ReleaseFields, OutcomeTurns, NoReleaseType DEF
       Resync, FirstReleaseFrame
  <1>26. CASE MarkLinkUp
    BY <1>26, <1>1, <1>2, ReleaseFields, OutcomeTurns, NoReleaseType DEF
       MarkLinkUp
  <1>27. ASSUME NEW answers \in BOOLEAN, QueryInfo(answers) PROVE EpochInv'
    BY <1>27, <1>1, <1>2, ReleaseFields, OutcomeTurns, NoReleaseType DEF
       QueryInfo
  <1>28. CASE LinkHangsUp
    BY <1>28, <1>1, <1>2 DEF LinkHangsUp
  <1>29. ASSUME NEW result \in {"opened", "failed", "died"},
     OpenReturns(result) PROVE EpochInv'
    BY <1>29, <1>1, <1>2 DEF OpenReturns
  <1>30. CASE UNCHANGED vars
    BY <1>30 DEF vars
  <1> QED
    BY <1>3, <1>4, <1>5, <1>6, <1>7, <1>8, <1>9, <1>10, <1>11, <1>12, <1>13,
       <1>14, <1>15, <1>16, <1>17, <1>18, <1>19, <1>20, <1>21, <1>22, <1>23,
       <1>24, <1>25, <1>26, <1>27, <1>28, <1>29, <1>30 DEF Next, CallerNext,
       WriterNext, EnvironmentNext

\* At most one report follows a trigger (writer.rs write_step).
LEMMA LateStep == TypeOK /\ EpochInv /\ LateInv /\ [Next]_vars => LateInv'
  <1> SUFFICES ASSUME TypeOK, EpochInv, LateInv, [Next]_vars PROVE LateInv'
    OBVIOUS
  <1>1. late \in Nat /\ cancel \in BOOLEAN
    BY DEF TypeOK
  <1> USE DEF LateInv, shared, callers, writer, transport, history
  <1>2. ASSUME NEW p \in Producers, NEW event \in Events, Submit(p, event)
     PROVE LateInv'
    BY <1>2, <1>1 DEF Submit
  <1>3. ASSUME NEW p \in Producers, TriggerOverflow(p) PROVE LateInv'
    BY <1>3, <1>1 DEF TriggerOverflow, Raise
  <1>4. ASSUME NEW reason \in UserReasons, RequestReleaseAll(reason) PROVE
     LateInv'
    BY <1>4, <1>1 DEF RequestReleaseAll, Raise
  <1>5. CASE Engage
    BY <1>5, <1>1 DEF Engage, Engageable
  <1>6. ASSUME NEW next \in {"joining", "dropped"}, BeginShutdown(next) PROVE
     LateInv'
    BY <1>6, <1>1 DEF BeginShutdown, Raise
  <1>7. CASE Join
    BY <1>7, <1>1 DEF Join
  <1>8. CASE Latch
    BY <1>8, <1>1 DEF Latch, ServesCancel, FirstReleaseFrame
  <1>9. CASE NothingPending
    BY <1>9, <1>1 DEF NothingPending
  <1>10. CASE ExitOrServe
    BY <1>10, <1>1 DEF ExitOrServe, MayExit, Reacquires
  <1>11. CASE NextEntry
    BY <1>11, <1>1 DEF NextEntry
  <1>12. CASE WakeUp
    BY <1>12, <1>1 DEF WakeUp
  <1>13. CASE TriggerLinkDown
    BY <1>13, <1>1 DEF TriggerLinkDown, Raise
  <1>14. CASE WriteKey
    BY <1>14, <1>1 DEF WriteKey, Hand
  <1>15. CASE WriteButton
    BY <1>15, <1>1 DEF WriteButton, Hand
  <1>16. CASE WriteMotion
    BY <1>16, <1>1 DEF WriteMotion, Hand, Abandons
  <1>17. CASE EmitRelease
    BY <1>17, <1>1 DEF EmitRelease, ReleasesAbs, AfterRelease
  <1>18. CASE Record
    BY <1>18, <1>1 DEF Record, AfterRecord
  <1>19. CASE Acknowledge
    BY <1>19, <1>1 DEF Acknowledge, StillOwed
  <1>20. CASE BackoffEnds
    BY <1>20, <1>1 DEF BackoffEnds
  <1>21. CASE Attempt
    BY <1>21, <1>1 DEF Attempt
  <1>22. CASE AwaitOpen
    BY <1>22, <1>1 DEF AwaitOpen, AbandonsOpen
  <1>23. CASE Begin
    BY <1>23, <1>1 DEF Begin
  <1>24. CASE Resync
    BY <1>24, <1>1 DEF Resync, FirstReleaseFrame
  <1>25. CASE MarkLinkUp
    BY <1>25, <1>1 DEF MarkLinkUp
  <1>26. ASSUME NEW answers \in BOOLEAN, QueryInfo(answers) PROVE LateInv'
    BY <1>26, <1>1 DEF QueryInfo
  <1>27. CASE LinkHangsUp
    BY <1>27, <1>1 DEF LinkHangsUp
  <1>28. ASSUME NEW result \in {"opened", "failed", "died"},
     OpenReturns(result) PROVE LateInv'
    BY <1>28, <1>1 DEF OpenReturns
  <1>29. CASE UNCHANGED vars
    BY <1>29 DEF vars
  <1> QED
    BY <1>2, <1>3, <1>4, <1>5, <1>6, <1>7, <1>8, <1>9, <1>10, <1>11, <1>12,
       <1>13, <1>14, <1>15, <1>16, <1>17, <1>18, <1>19, <1>20, <1>21, <1>22,
       <1>23, <1>24, <1>25, <1>26, <1>27, <1>28, <1>29 DEF Next, CallerNext,
       WriterNext, EnvironmentNext

\* What is queued belongs to the acknowledged epoch, and nothing is queued
\* while a link is acquired (queue.rs, Producer::submit).
LEMMA QueueStep ==
    TypeOK /\ EpochInv /\ QueueInv /\ ReleaseInv /\ [Next]_vars => QueueInv'
  <1> SUFFICES ASSUME TypeOK, EpochInv, QueueInv, ReleaseInv, [Next]_vars
     PROVE QueueInv'
    OBVIOUS
  <1>1. queue \in Queues /\ requested \in Nat /\ acked \in Nat /\ cancel \in
     BOOLEAN /\ engaged \in BOOLEAN /\ linkDown \in BOOLEAN /\ shuttingDown
     \in BOOLEAN /\ release \in Releases
    BY DEF TypeOK
  <1>2. acked <= requested /\ (cancel <=> acked < requested) /\ (engaged =>
     ~cancel /\ acked = requested) /\ (pc \in Drained \cup {"resync"} =>
     cancel /\ acked < release.epoch /\ release.epoch <= requested)
    BY <1>1 DEF EpochInv, Releases
  <1>3. release.epoch \in Nat
    BY <1>1 DEF Releases
  <1>4. EmptyQueue \in Queues /\ BarriersCounted(EmptyQueue) /\
     EmptyQueue.entries = << >> /\ EmptyQueue.barriers = 0 /\ BarrierLimit \in
     Nat /\ BarrierLimit > 0 /\ \A epoch \in Nat : OfEpoch(EmptyQueue, epoch)
    BY EmptyQueueType, BoundsAssumption DEF EmptyQueue, BarrierLimit
  <1> USE DEF QueueInv, Drained, Acquiring, shared, callers, writer,
     transport, history
  <1>5. ASSUME NEW p \in Producers, NEW event \in Events, Submit(p, event)
     PROVE QueueInv'
    <2>1. engaged /\ ~cancel /\ acked = requested /\ ~linkDown
      BY <1>5, <1>1, <1>2 DEF Submit
    <2>2. event \in AllEvents
      BY PathAssumption
    <2>3. CASE Overflows(queue, event)
      BY <1>5, <2>3, <1>1 DEF Submit
    <2>4. CASE ~Overflows(queue, event)
      <3>1. queue' = Push(queue, event, requested)
        BY <1>5, <2>4 DEF Submit
      <3>2. /\ BarriersCounted(queue') /\ OfEpoch(queue', acked)
        BY <2>1, <2>2, <3>1, <1>1, PushType
      <3>3. queue'.barriers <= BarrierLimit
        <4>1. CASE IsTransition(event)
          BY <4>1, <3>1, <2>4, <1>1, <1>4
          DEF Push, PushBarrier, Overflows, Queues
        <4>2. CASE ~IsTransition(event)
          <5>1. queue'.barriers = queue.barriers
            BY <4>2, <3>1, <1>1 DEF Push, PushMotion, Queues
          <5> QED
            BY <5>1
        <4> QED
          BY <4>1, <4>2
      <3>4. pc \notin Drained \cup Acquiring
        BY <2>1, <1>2
      <3> QED
        BY <1>5, <2>1, <3>2, <3>3, <3>4 DEF Submit
    <2> QED
      BY <2>3, <2>4
  <1>6. ASSUME NEW p \in Producers, TriggerOverflow(p) PROVE QueueInv'
    BY <1>6, <1>1, <1>2, <1>3, <1>4 DEF TriggerOverflow, Raise
  <1>7. ASSUME NEW reason \in UserReasons, RequestReleaseAll(reason) PROVE
     QueueInv'
    BY <1>7, <1>1, <1>2, <1>3, <1>4 DEF RequestReleaseAll, Raise
  <1>8. CASE Engage
    BY <1>8, <1>1, <1>2, <1>3, <1>4 DEF Engage, Engageable
  <1>9. ASSUME NEW next \in {"joining", "dropped"}, BeginShutdown(next) PROVE
     QueueInv'
    BY <1>9, <1>1, <1>2, <1>3, <1>4 DEF BeginShutdown, Raise
  <1>10. CASE Join
    BY <1>10, <1>1, <1>2, <1>3, <1>4 DEF Join
  <1>11. CASE Latch
    <2>1. queue' = EmptyQueue
      BY <1>11, <1>1, <1>2, DrainEmpties DEF Latch
    <2>2. release' \in [kind: {"cancel"}, epoch: {requested},
                        reason: {release'.reason}, outcome: {release'.outcome},
                        back: {pc}]
      BY <1>11 DEF Latch
    <2>3. /\ pc' \in {"record", "kb"} /\ acked' = acked
          /\ pc \in {"loop", "backoff"} /\ linkDown' = linkDown
          /\ release'.kind = "cancel" /\ release'.back = pc
      BY <1>11, <2>2 DEF Latch, ServesCancel, FirstReleaseFrame
    <2> QED
      BY <2>1, <2>3, <1>1, <1>4
  <1>12. CASE NothingPending
    BY <1>12, <1>1, <1>2, <1>3, <1>4 DEF NothingPending
  <1>13. CASE ExitOrServe
    BY <1>13, <1>1, <1>2, <1>3, <1>4 DEF ExitOrServe, MayExit, Reacquires
  <1>14. CASE NextEntry
    <2>1. CASE cancel \/ shuttingDown \/ queue.entries = << >>
      BY <1>14, <2>1, <1>1, <1>2 DEF NextEntry
    <2>2. CASE ~(cancel \/ shuttingDown \/ queue.entries = << >>)
      <3> DEFINE first == Head(queue.entries)
      <3>1. /\ queue' = Pop(queue) /\ pc = "idle"
            /\ UNCHANGED <<acked, cancel, engaged, linkDown, release>>
            /\ IF first.epoch < acked \/ linkDown THEN pc' = "loop"
               ELSE pc' = "write" /\ entry' = [first EXCEPT !.what = Capped(@)]
        BY <1>14, <2>2 DEF NextEntry
      <3>2. /\ queue' \in Queues /\ BarriersCounted(queue')
            /\ OfEpoch(queue', acked)
            /\ first \in Entries /\ first.epoch = acked
        BY <2>2, <3>1, <1>1, PopType
      <3>3. queue'.barriers <= queue.barriers
        BY <3>1, <1>1 DEF Pop, Queues
      <3>4. ~linkDown /\ engaged
        BY <2>2, <3>1
      <3>5. pc' = "write" /\ entry' = [first EXCEPT !.what = Capped(@)]
        BY <3>1, <3>2, <3>4, <1>1
      <3>6. entry'.epoch = first.epoch
        BY <3>2, <3>5 DEF Entries
      <3> QED
        BY <3>1, <3>2, <3>3, <3>4, <3>5, <3>6, <2>2, <1>1, <1>4 DEF Queues
    <2> QED
      BY <2>1, <2>2
  <1>15. CASE WakeUp
    BY <1>15, <1>1, <1>2, <1>3, <1>4 DEF WakeUp
  <1>16. CASE TriggerLinkDown
    BY <1>16, <1>1, <1>2, <1>3, <1>4 DEF TriggerLinkDown, Raise
  <1>17. CASE WriteKey
    BY <1>17, <1>1, <1>2, <1>3, <1>4 DEF WriteKey, Hand
  <1>18. CASE WriteButton
    BY <1>18, <1>1, <1>2, <1>3, <1>4 DEF WriteButton, Hand
  <1>19. CASE WriteMotion
    <2>1. /\ pc = "write" /\ pc' \in {"loop", "failed", "write"}
          /\ UNCHANGED <<queue, acked, cancel, engaged, release>>
          /\ pc' # "failed" => linkDown' = linkDown
          /\ pc' = "write" =>
                entry' = [entry EXCEPT !.what = AfterReport(entry.what)]
      BY <1>19 DEF WriteMotion, Hand
    <2>2. entry \in Entries
      BY DEF TypeOK
    <2>3. pc' = "write" => entry'.epoch = acked
      BY <2>1, <2>2 DEF Entries
    <2> QED
      BY <2>1, <2>3
  <1>20. CASE EmitRelease
    BY <1>20, <1>1, <1>2, <1>3, <1>4, ReleaseFields, OutcomeTurns,
       NoReleaseType DEF EmitRelease, ReleasesAbs, AfterRelease
  <1>21. CASE Record
    BY <1>21, <1>1, <1>2, <1>3, <1>4, ReleaseFields, OutcomeTurns,
       NoReleaseType DEF Record, AfterRecord
  <1>22. CASE Acknowledge
    <2>1. /\ pc = "ack" /\ acked' = release.epoch /\ release' = NoRelease
          /\ pc' = IF release.kind = "commission" /\ release.outcome = "Unsent"
                   THEN "backoff" ELSE release.back
          /\ UNCHANGED <<queue, engaged, linkDown>>
      BY <1>22 DEF Acknowledge
    <2>2. queue.entries = << >> /\ ~engaged
      BY <2>1, <1>2
    <2>3. OfEpoch(queue', acked')
      BY <2>1, <2>2, EmptySeq DEF OfEpoch
    <2>4. pc' \in {"loop", "backoff"} /\ (pc' = "backoff" => linkDown)
      BY <2>1, <1>1, ReleaseFields
    <2> QED
      BY <2>1, <2>2, <2>3, <2>4, <1>1
  <1>23. CASE BackoffEnds
    BY <1>23, <1>1, <1>2, <1>3, <1>4 DEF BackoffEnds
  <1>24. CASE Attempt
    BY <1>24, <1>1, <1>2, <1>3, <1>4 DEF Attempt
  <1>25. CASE AwaitOpen
    BY <1>25, <1>1, <1>2, <1>3, <1>4 DEF AwaitOpen, AbandonsOpen
  <1>26. CASE Begin
    BY <1>26, <1>1, <1>2, <1>3, <1>4 DEF Begin, Releases
  <1>27. CASE Resync
    <2>1. CASE link = "up"
      <3>1. queue' = EmptyQueue /\ pc' = "kb" /\ pc = "resync"
        BY <1>27, <2>1, <1>1, <1>2, <1>3, DrainEmpties
        DEF Resync, FirstReleaseFrame
      <3>2. UNCHANGED <<acked, cancel, engaged, linkDown, release>>
        BY <1>27, <2>1 DEF Resync
      <3>3. linkDown /\ cancel /\ release.back = "loop"
        BY <3>1, <1>2 DEF ReleaseInv
      <3> QED
        BY <3>1, <3>2, <3>3, <1>1, <1>4
    <2>2. CASE link # "up"
      <3>1. /\ release' = [release EXCEPT !.outcome = "Unsent"]
            /\ pc = "resync" /\ pc' = "record"
            /\ UNCHANGED <<queue, acked, cancel, engaged, linkDown>>
        BY <1>27, <2>2 DEF Resync
      <3>2. release'.kind = release.kind /\ release'.back = release.back
        BY <3>1, <1>1, OutcomeTurns
      <3>3. linkDown /\ cancel /\ release.back = "loop" /\ queue.entries = << >>
        BY <3>1, <1>2 DEF ReleaseInv
      <3> QED
        BY <3>1, <3>2, <3>3, <1>1
    <2> QED
      BY <2>1, <2>2
  <1>28. CASE MarkLinkUp
    BY <1>28, <1>1, <1>2, <1>3, <1>4, ReleaseFields, OutcomeTurns,
       NoReleaseType DEF MarkLinkUp, ReleaseInv
  <1>29. ASSUME NEW answers \in BOOLEAN, QueryInfo(answers) PROVE QueueInv'
    BY <1>29, <1>1, <1>2, <1>3, <1>4, ReleaseFields, OutcomeTurns,
       NoReleaseType DEF QueryInfo
  <1>30. CASE LinkHangsUp
    BY <1>30, <1>1, <1>2, <1>3, <1>4 DEF LinkHangsUp
  <1>31. ASSUME NEW result \in {"opened", "failed", "died"},
     OpenReturns(result) PROVE QueueInv'
    BY <1>31, <1>1, <1>2, <1>3, <1>4 DEF OpenReturns
  <1>32. CASE UNCHANGED vars
    BY <1>32 DEF vars
  <1> QED
    BY <1>5, <1>6, <1>7, <1>8, <1>9, <1>10, <1>11, <1>12, <1>13, <1>14, <1>15,
       <1>16, <1>17, <1>18, <1>19, <1>20, <1>21, <1>22, <1>23, <1>24, <1>25,
       <1>26, <1>27, <1>28, <1>29, <1>30, <1>31, <1>32 DEF Next, CallerNext,
       WriterNext, EnvironmentNext

\* Clamping keeps a delta within what a report or a run carries.
LEMMA ClampType ==
    ASSUME NEW n \in Deltas, NEW bound \in Nat, bound <= MaxDelta
    PROVE  Clamp(n, bound) \in Deltas /\ n - Clamp(n, bound) \in Deltas
  BY BoundsAssumption DEF Clamp, Deltas

\* cap_run keeps what it takes from the queue a run.
LEMMA CappedType ==
    ASSUME NEW what \in Transitions \cup MotionRuns
    PROVE  Capped(what) \in Transitions \cup MotionRuns
  <1>1. CASE IsBarrier(what)
    BY <1>1 DEF Capped
  <1>2. CASE ~IsBarrier(what)
    <2>1. what \in MotionRuns
      BY <1>2, WhatKinds
    <2>2. Clamp(what.rel, RunMax) \in Deltas /\ Clamp(what.wheel, RunMax) \in Deltas
      BY <2>1, ClampType, PathAssumption DEF MotionRuns
    <2>3. [what EXCEPT !.rel = Clamp(@, RunMax), !.wheel = Clamp(@, RunMax)]
            \in MotionRuns
      BY <2>1, <2>2 DEF MotionRuns
    <2> QED
      BY <1>2, <2>3 DEF Capped
  <1> QED
    BY <1>1, <1>2

\* What a report leaves of a run is a run.
LEMMA AfterReportType ==
    ASSUME NEW run \in MotionRuns
    PROVE  AfterReport(run) \in MotionRuns
  <1>1. run.rel - Clamp(run.rel, StepMax) \in Deltas
    BY ClampType, PathAssumption DEF MotionRuns
  <1>2. run.wheel - Clamp(run.wheel, StepMax) \in Deltas
    BY ClampType, PathAssumption DEF MotionRuns
  <1>3. [run EXCEPT !.abs = NoPosition] \in MotionRuns
    BY DEF MotionRuns
  <1>4. [run EXCEPT !.rel = @ - Clamp(@, StepMax), !.wheel = @ - Clamp(@, StepMax)]
          \in MotionRuns
    BY <1>1, <1>2 DEF MotionRuns
  <1> QED
    BY <1>3, <1>4 DEF AfterReport

\* A trigger keeps the shared state in its types.
LEMMA RaiseType ==
    ASSUME TypeOK, NEW reason \in Reasons, Raise(reason)
    PROVE  /\ requested' \in Nat /\ pendingReason' \in Reasons
           /\ cancel' \in BOOLEAN /\ engaged' \in BOOLEAN
  <1>1. NoteReason(pendingReason, reason) \in Reasons
    BY NoteReasonType DEF TypeOK
  <1>2. requested' \in Nat
    BY DEF Raise, TypeOK
  <1> QED
    BY <1>1, <1>2 DEF Raise

\* A mouse report lands on one of the two mice.
LEMMA MouseWire ==
    ASSUME wire \in Wires, NEW buttons \in SUBSET Buttons, NEW m
    PROVE  [wire EXCEPT ![DeviceOf(m)] = buttons] \in Wires
  <1>1. [wire EXCEPT !.abs = buttons] \in Wires
    BY DEF Wires
  <1>2. [wire EXCEPT !.rel = buttons] \in Wires
    BY DEF Wires
  <1> QED
    BY <1>1, <1>2 DEF DeviceOf

\* A handle that begins a shutdown is a handle.
LEMMA HandleTurns ==
    ASSUME NEW h \in Handles, NEW state \in {"joining", "dropped"},
           NEW epoch \in Nat
    PROVE  [h EXCEPT !.state = state, !.epoch = epoch + 1] \in Handles
  <1>1. epoch + 1 \in Nat
    OBVIOUS
  <1> QED
    BY <1>1 DEF Handles

\* Handing a report over, or failing to, keeps what it touches in its types.
LEMMA HandType ==
    ASSUME TypeOK, NEW report \in Wires, Hand(report)
    PROVE  wire' \in Wires /\ late' \in Nat /\ linkDown' \in BOOLEAN
  <1>1. late + 1 \in Nat /\ late \in Nat
    BY DEF TypeOK
  <1>2. wire' \in Wires /\ linkDown' \in BOOLEAN
    BY DEF Hand, history, TypeOK
  <1>3. late' = late \/ late' = late + 1
    BY DEF Hand, history
  <1> QED
    BY <1>1, <1>2, <1>3

\* Every step keeps the variables in their types.
LEMMA TypeStep ==
    TypeOK /\ EpochInv /\ QueueInv /\ ReleaseInv /\ [Next]_vars => TypeOK'
  <1> SUFFICES ASSUME TypeOK, EpochInv, QueueInv, ReleaseInv, [Next]_vars
     PROVE TypeOK'
    OBVIOUS
  <1>1. requested \in Nat /\ acked \in Nat /\ acked <= requested
    BY DEF TypeOK, EpochInv
  <1>2. \A reason \in Reasons : NoteReason(pendingReason, reason) \in Reasons
     \cup {NoReason}
    BY NoteReasonType DEF TypeOK
  <1>3. NoEntry \in Entries
    BY EmptyRunType DEF NoEntry, Entries
  <1>4. UserReasons \subseteq Reasons /\ {"Overflow", "LinkDown", "Shutdown",
     "Reconnected"} \subseteq Reasons
    BY PathAssumption DEF Reasons
  <1> USE DEF TypeOK, Labels, shared, callers, writer, transport, history
  <1>5. ASSUME NEW p \in Producers, NEW event \in Events, Submit(p, event)
     PROVE TypeOK'
    <2>1. event \in AllEvents /\ acked = requested
      BY <1>5, PathAssumption DEF Submit, EpochInv
    <2>2. queue' \in Queues
      <3>1. CASE Overflows(queue, event)
        BY <1>5, <3>1 DEF Submit
      <3>2. CASE ~Overflows(queue, event)
        BY <1>5, <3>2, <2>1, PushType DEF Submit, QueueInv
      <3> QED
        BY <3>1, <3>2
    <2> QED
      BY <1>5, <2>2 DEF Submit
  <1>6. ASSUME NEW p \in Producers, TriggerOverflow(p) PROVE TypeOK'
    <2>1. /\ requested' \in Nat /\ pendingReason' \in Reasons
          /\ cancel' \in BOOLEAN /\ engaged' \in BOOLEAN
      BY <1>6, <1>4, RaiseType DEF TriggerOverflow
    <2> QED
      BY <1>6, <2>1 DEF TriggerOverflow
  <1>7. ASSUME NEW reason \in UserReasons, RequestReleaseAll(reason) PROVE
     TypeOK'
    <2>1. /\ requested' \in Nat /\ pendingReason' \in Reasons
          /\ cancel' \in BOOLEAN /\ engaged' \in BOOLEAN
      BY <1>7, <1>4, RaiseType DEF RequestReleaseAll
    <2> QED
      BY <1>7, <2>1 DEF RequestReleaseAll
  <1>8. CASE Engage
    BY <1>8, <1>1, <1>2, <1>3, <1>4 DEF Engage, Engageable
  <1>9. ASSUME NEW next \in {"joining", "dropped"}, BeginShutdown(next) PROVE
     TypeOK'
    <2>1. handle' \in Handles
      <3>1. handle' = [handle EXCEPT !.state = next, !.epoch = requested + 1]
        BY <1>9 DEF BeginShutdown
      <3> QED
        BY <1>9, <3>1, <1>1, HandleTurns
    <2>2. /\ requested' \in Nat /\ pendingReason' \in Reasons
          /\ cancel' \in BOOLEAN /\ engaged' \in BOOLEAN
      BY <1>9, <1>4, RaiseType DEF BeginShutdown
    <2> QED
      BY <1>9, <2>1, <2>2 DEF BeginShutdown
  <1>10. CASE Join
    <2>1. lastRelease # NoRecord => lastRelease.outcome \in {"Submitted", "Unsent"}
      BY DEF ReleaseRecords
    <2>2. handle' \in Handles
      BY <1>10, <2>1 DEF Join, Handles
    <2> QED
      BY <1>10, <2>2 DEF Join
  <1>11. CASE Latch
    <2>1. queue' \in Queues
      BY <1>11, <1>1, DrainEmpties, EmptyQueueType DEF Latch, QueueInv, EpochInv
    <2>2. release' \in Releases
      BY <1>11 DEF Latch, ServesCancel, Releases, Reasons
    <2> QED
      BY <1>11, <2>1, <2>2 DEF Latch, FirstReleaseFrame
  <1>12. CASE NothingPending
    BY <1>12, <1>1, <1>2, <1>3, <1>4 DEF NothingPending
  <1>13. CASE ExitOrServe
    BY <1>13, <1>1, <1>2, <1>3, <1>4 DEF ExitOrServe, MayExit, Reacquires
  <1>14. CASE NextEntry
    <2>1. queue' \in Queues /\ entry' \in Entries
      <3>1. CASE queue.entries = << >> \/ cancel \/ shuttingDown
        BY <1>14, <3>1 DEF NextEntry
      <3>2. CASE ~(queue.entries = << >> \/ cancel \/ shuttingDown)
        <4>1. queue' = Pop(queue) /\ queue' \in Queues
              /\ Head(queue.entries) \in Entries
          BY <1>14, <3>2, PopType DEF NextEntry, QueueInv
        <4>2. [Head(queue.entries) EXCEPT !.what = Capped(@)] \in Entries
          BY <4>1, CappedType DEF Entries
        <4> QED
          BY <1>14, <3>2, <4>1, <4>2 DEF NextEntry
      <3> QED
        BY <3>1, <3>2
    <2> QED
      BY <1>14, <2>1 DEF NextEntry
  <1>15. CASE WakeUp
    <2>1. linkDown' \in BOOLEAN /\ pc' \in Labels
      BY <1>15 DEF WakeUp
    <2> QED
      BY <1>15, <2>1 DEF WakeUp
  <1>16. CASE TriggerLinkDown
    <2>1. /\ requested' \in Nat /\ pendingReason' \in Reasons
          /\ cancel' \in BOOLEAN /\ engaged' \in BOOLEAN
      BY <1>16, <1>4, RaiseType DEF TriggerLinkDown
    <2> QED
      BY <1>16, <2>1 DEF TriggerLinkDown
  <1>17. CASE WriteKey
    <2>1. entry.what \in KeyEvents
      BY <1>17, <1>3, WhatKinds DEF WriteKey, Transitions, IsBarrier,
         Entries, KeyEvents, ButtonEvents
    <2>2. held' \in Held
      BY <1>17, <2>1, ApplyKeyType DEF WriteKey, KeyEvents
    <2>3. [wire EXCEPT !.kb = KeyboardReport(held')] \in Wires
      BY <2>2, KeyboardReportType DEF Wires
    <2>4. wire' \in Wires /\ late' \in Nat /\ linkDown' \in BOOLEAN
      BY <1>17, <2>3, HandType DEF WriteKey
    <2> QED
      BY <1>17, <2>2, <2>4, <1>3 DEF WriteKey
  <1>18. CASE WriteButton
    <2>1. entry.what \in ButtonEvents
      BY <1>18, <1>3, WhatKinds DEF WriteButton, Transitions, IsBarrier,
         Entries, KeyEvents, ButtonEvents
    <2>2. held' \in Held
      BY <1>18, <2>1, ApplyButtonsType DEF WriteButton, ButtonEvents
    <2>3. held'.buttons \in SUBSET Buttons
      BY <2>2 DEF Held
    <2>4. [wire EXCEPT ![DeviceOf(mode)] = held'.buttons] \in Wires
      BY <2>3, MouseWire
    <2>5. wire' \in Wires /\ late' \in Nat /\ linkDown' \in BOOLEAN
      BY <1>18, <2>4, HandType DEF WriteButton
    <2> QED
      BY <1>18, <2>2, <2>5, <1>3 DEF WriteButton
  <1>19. CASE WriteMotion
    <2>1. entry.what \in MotionRuns
      BY <1>19, <1>3, WhatKinds DEF WriteMotion, IsBarrier, Entries
    <2>2. AfterReport(entry.what) \in MotionRuns
      BY <2>1, AfterReportType
    <2>3. TargetMode(entry.what) \in Modes
      BY <2>1 DEF TargetMode, MotionRuns, Modes
    <2>4. held.buttons \in SUBSET Buttons
      BY DEF Held
    <2>9. [wire EXCEPT ![DeviceOf(TargetMode(entry.what))] = held.buttons]
            \in Wires
      BY <2>4, MouseWire
    <2>5. wire' \in Wires /\ late' \in Nat /\ linkDown' \in BOOLEAN
      BY <1>19, <2>9, HandType DEF WriteMotion
    <2>6. [entry EXCEPT !.what = AfterReport(entry.what)] \in Entries
      BY <2>2 DEF Entries
    <2>7. entry' \in Entries
      BY <1>19, <2>6, <1>3 DEF WriteMotion
    <2>8. mode' \in Modes
      BY <1>19, <2>3 DEF WriteMotion
    <2> QED
      BY <1>19, <2>5, <2>7, <2>8 DEF WriteMotion
  <1>20. CASE EmitRelease
    <2>1. wire' \in Wires
      BY <1>20 DEF EmitRelease, Wires, KeyboardReleaseAll, KeyboardReports
    <2>2. release' \in Releases
      BY <1>20, OutcomeTurns DEF EmitRelease
    <2>3. pc' \in Labels
      BY <1>20 DEF EmitRelease, AfterRelease
    <2>4. linkDown' \in BOOLEAN
      BY <1>20 DEF EmitRelease
    <2>5. late' \in Nat
      BY <1>20 DEF EmitRelease
    <2> QED
      BY <1>20, <2>1, <2>2, <2>3, <2>4, <2>5 DEF EmitRelease
  <1>21. CASE Record
    <2>1. lastRelease' \in ReleaseRecords
      BY <1>21, ReleaseFields DEF Record, ReleaseRecords, ReleaseInv, Drained
    <2>2. held' \in Held /\ mode' \in Modes /\ pc' \in Labels
      BY <1>21 DEF Record, AfterRecord, Held, NothingHeld, Modes
    <2> QED
      BY <1>21, <2>1, <2>2 DEF Record
  <1>22. CASE Acknowledge
    <2>1. acked' \in Nat /\ release' \in Releases /\ pc' \in Labels
      BY <1>22, ReleaseFields, NoReleaseType DEF Acknowledge
    <2> QED
      BY <1>22, <2>1 DEF Acknowledge, StillOwed
  <1>23. CASE BackoffEnds
    BY <1>23, <1>1, <1>2, <1>3, <1>4 DEF BackoffEnds
  <1>24. CASE Attempt
    BY <1>24, <1>1, <1>2, <1>3, <1>4 DEF Attempt
  <1>25. CASE AwaitOpen
    BY <1>25, <1>1, <1>2, <1>3, <1>4 DEF AwaitOpen, AbandonsOpen
  <1>26. CASE Begin
    <2>1. release' \in Releases
      BY <1>26 DEF Begin, Releases, Severity, Reasons
    <2>2. requested' \in Nat /\ pendingReason' \in Reasons \cup {NoReason}
      BY <1>26, <1>1 DEF Begin
    <2> QED
      BY <1>26, <2>1, <2>2 DEF Begin
  <1>27. CASE Resync
    <2>1. queue' \in Queues
      BY <1>27, <1>1, DrainEmpties, EmptyQueueType, ReleaseFields
      DEF Resync, QueueInv, EpochInv
    <2>2. release' \in Releases
      BY <1>27, OutcomeTurns DEF Resync
    <2> QED
      BY <1>27, <2>1, <2>2 DEF Resync, FirstReleaseFrame
  <1>28. CASE MarkLinkUp
    BY <1>28, <1>1, <1>2, <1>3, <1>4 DEF MarkLinkUp
  <1>29. ASSUME NEW answers \in BOOLEAN, QueryInfo(answers) PROVE TypeOK'
    <2>1. release' \in Releases
      BY <1>29, OutcomeTurns DEF QueryInfo
    <2> QED
      BY <1>29, <2>1 DEF QueryInfo
  <1>30. CASE LinkHangsUp
    BY <1>30, <1>1, <1>2, <1>3, <1>4 DEF LinkHangsUp
  <1>31. ASSUME NEW result \in {"opened", "failed", "died"},
     OpenReturns(result) PROVE TypeOK'
    BY <1>31, <1>1, <1>2, <1>3, <1>4 DEF OpenReturns
  <1>32. CASE UNCHANGED vars
    BY <1>32 DEF vars
  <1> QED
    BY <1>5, <1>6, <1>7, <1>8, <1>9, <1>10, <1>11, <1>12, <1>13, <1>14, <1>15,
       <1>16, <1>17, <1>18, <1>19, <1>20, <1>21, <1>22, <1>23, <1>24, <1>25,
       <1>26, <1>27, <1>28, <1>29, <1>30, <1>31, <1>32 DEF Next, CallerNext,
       WriterNext, EnvironmentNext

\* What a release has cleared so far, and that nothing is delivered after it
\* until input is engaged again (writer.rs emit_release_all).
LEMMA ReleaseStep ==
    TypeOK /\ EpochInv /\ QueueInv /\ ReleaseInv /\ [Next]_vars => ReleaseInv'
  <1> SUFFICES ASSUME TypeOK, EpochInv, QueueInv, ReleaseInv, [Next]_vars
     PROVE ReleaseInv'
    OBVIOUS
  <1>1. wire \in Wires /\ cancel \in BOOLEAN /\ engaged \in BOOLEAN /\ link
     \in {"none", "up", "hungup"} /\ release \in Releases /\ pendingReason \in
     Reasons \cup {NoReason} /\ mode \in Modes /\ requested \in Nat /\ acked
     \in Nat /\ linkDown \in BOOLEAN
    BY DEF TypeOK
  <1>2. (cancel <=> acked < requested) /\ (engaged => ~cancel) /\ (pc \in
     Drained \cup {"resync"} => cancel)
    BY <1>1, ReleaseFields DEF EpochInv
  <1>3. Relative \notin Positions
    BY PathAssumption
  <1> USE DEF ReleaseInv, Drained, WireCleared, shared, callers, writer,
     transport, history
  <1>4. ASSUME NEW p \in Producers, NEW event \in Events, Submit(p, event)
     PROVE ReleaseInv'
    BY <1>4, <1>1, <1>2, <1>3 DEF Submit
  <1>5. ASSUME NEW p \in Producers, TriggerOverflow(p) PROVE ReleaseInv'
    BY <1>5, <1>1, <1>2, <1>3 DEF TriggerOverflow, Raise
  <1>6. ASSUME NEW reason \in UserReasons, RequestReleaseAll(reason) PROVE
     ReleaseInv'
    BY <1>6, <1>1, <1>2, <1>3 DEF RequestReleaseAll, Raise
  <1>7. CASE Engage
    BY <1>7, <1>1, <1>2, <1>3 DEF Engage, Engageable
  <1>8. ASSUME NEW next \in {"joining", "dropped"}, BeginShutdown(next) PROVE
     ReleaseInv'
    BY <1>8, <1>1, <1>2, <1>3 DEF BeginShutdown, Raise
  <1>9. CASE Join
    BY <1>9, <1>1, <1>2, <1>3 DEF Join
  <1>10. CASE Latch
    <2>1. /\ release'.outcome \in {"Submitted", "Unsent"}
          /\ release'.outcome = "Unsent" <=> pc' = "record"
          /\ release'.reason \in Reasons /\ pc' \in {"record", "kb"}
          /\ UNCHANGED <<cancel, engaged, lastRelease, wire>>
          /\ cancel
      BY <1>10, <1>1 DEF Latch, FirstReleaseFrame, Reasons
    <2> QED
      BY <2>1
  <1>11. CASE NothingPending
    BY <1>11, <1>1, <1>2, <1>3 DEF NothingPending
  <1>12. CASE ExitOrServe
    BY <1>12, <1>1, <1>2, <1>3 DEF ExitOrServe, MayExit, Reacquires
  <1>13. CASE NextEntry
    <2>1. pc = "idle" /\ pc' \in {"loop", "waiting", "write"}
          /\ (pc' = "write" => ~cancel /\ queue.entries # << >>)
          /\ UNCHANGED <<cancel, engaged, wire, release, lastRelease>>
      BY <1>13 DEF NextEntry
    <2>2. pc' = "write" => engaged
      BY <2>1 DEF QueueInv
    <2> QED
      BY <2>1, <2>2, <1>1
  <1>14. CASE WakeUp
    BY <1>14, <1>1, <1>2, <1>3 DEF WakeUp
  <1>15. CASE TriggerLinkDown
    BY <1>15, <1>1, <1>2, <1>3 DEF TriggerLinkDown, Raise
  <1>16. CASE WriteKey
    BY <1>16, <1>1, <1>2, <1>3 DEF WriteKey, Hand
  <1>17. CASE WriteButton
    BY <1>17, <1>1, <1>2, <1>3 DEF WriteButton, Hand
  <1>18. CASE WriteMotion
    BY <1>18, <1>1, <1>2, <1>3 DEF WriteMotion, Hand, Abandons
  <1>19. CASE EmitRelease
    <2>1. CASE link # "up"
      <3>1. release' = [release EXCEPT !.outcome = "Unsent"] /\ pc' = "record"
            /\ UNCHANGED <<lastRelease, cancel, engaged, wire>>
        BY <1>19, <2>1 DEF EmitRelease
      <3>2. /\ release'.outcome = "Unsent" /\ release'.reason = release.reason
        BY <3>1, <1>1, OutcomeTurns
      <3> QED
        BY <1>19, <3>1, <3>2, <1>2 DEF EmitRelease
    <2>2. CASE link = "up" /\ pc = "kb"
      <3>1. wire'.kb = KeyboardReleaseAll /\ wire'.rel = wire.rel
        BY <1>19, <2>2, <1>1 DEF EmitRelease, Wires
      <3> QED
        BY <1>19, <3>1, <2>2, <1>1, <1>2 DEF EmitRelease, ReleasesAbs
    <2>3. CASE link = "up" /\ pc = "abs"
      <3>1. wire'.kb = wire.kb /\ pc' = "rel"
        BY <1>19, <2>3, <1>1 DEF EmitRelease, Wires
      <3> QED
        BY <1>19, <3>1, <2>3, <1>1, <1>2 DEF EmitRelease
    <2>4. CASE link = "up" /\ pc = "rel"
      <3>1. wire'.kb = wire.kb /\ wire'.rel = {}
        BY <1>19, <2>4, <1>1 DEF EmitRelease, Wires
      <3> QED
        BY <1>19, <3>1, <2>4, <1>1, <1>2 DEF EmitRelease, AfterRelease
    <2> QED
      BY <1>19, <2>1, <2>2, <2>3, <2>4 DEF EmitRelease
  <1>20. CASE Record
    BY <1>20, <1>1, <1>2, <1>3 DEF Record, AfterRecord
  <1>21. CASE Acknowledge
    <2>1. /\ pc = "ack" /\ pc' \in {"loop", "backoff"}
          /\ UNCHANGED <<lastRelease, engaged, wire>>
      BY <1>21, <1>1, ReleaseFields DEF Acknowledge
    <2>2. lastRelease.outcome = "Submitted" => WireCleared
      BY <2>1
    <2> QED
      BY <2>1, <2>2
  <1>22. CASE BackoffEnds
    BY <1>22, <1>1, <1>2, <1>3 DEF BackoffEnds
  <1>23. CASE Attempt
    BY <1>23, <1>1, <1>2, <1>3 DEF Attempt
  <1>24. CASE AwaitOpen
    BY <1>24, <1>1, <1>2, <1>3 DEF AwaitOpen, AbandonsOpen
  <1>25. CASE Begin
    <2>1. /\ release'.outcome = "Submitted" /\ release'.reason \in Reasons
          /\ pc' = "resync" /\ cancel' /\ UNCHANGED wire
      <3>1. CASE pendingReason = NoReason
        BY <1>25, <3>1 DEF Begin, Severity, Reasons, NoReason
      <3>2. CASE pendingReason # NoReason
        BY <1>25, <3>2, <1>1 DEF Begin, Reasons
      <3> QED
        BY <3>1, <3>2
    <2> QED
      BY <2>1
  <1>26. CASE Resync
    <2>1. CASE link = "up"
      BY <1>26, <2>1, <1>1, <1>2 DEF Resync, FirstReleaseFrame
    <2>2. CASE link # "up"
      <3>1. release' = [release EXCEPT !.outcome = "Unsent"]
            /\ pc' = "record" /\ pc = "resync"
            /\ UNCHANGED <<lastRelease, cancel, engaged, wire>>
        BY <1>26, <2>2 DEF Resync
      <3> QED
        BY <3>1, <1>1, <1>2, OutcomeTurns
    <2> QED
      BY <2>1, <2>2
  <1>27. CASE MarkLinkUp
    BY <1>27, <1>1, <1>2, <1>3 DEF MarkLinkUp
  <1>28. ASSUME NEW answers \in BOOLEAN, QueryInfo(answers) PROVE ReleaseInv'
    BY <1>28, <1>1, <1>2, <1>3, ReleaseFields, OutcomeTurns, NoReleaseType DEF
       QueryInfo
  <1>29. CASE LinkHangsUp
    BY <1>29, <1>1, <1>2, <1>3 DEF LinkHangsUp
  <1>30. ASSUME NEW result \in {"opened", "failed", "died"},
     OpenReturns(result) PROVE ReleaseInv'
    BY <1>30, <1>1, <1>2, <1>3 DEF OpenReturns
  <1>31. CASE UNCHANGED vars
    BY <1>31 DEF vars
  <1> QED
    BY <1>4, <1>5, <1>6, <1>7, <1>8, <1>9, <1>10, <1>11, <1>12, <1>13, <1>14,
       <1>15, <1>16, <1>17, <1>18, <1>19, <1>20, <1>21, <1>22, <1>23, <1>24,
       <1>25, <1>26, <1>27, <1>28, <1>29, <1>30, <1>31 DEF Next, CallerNext,
       WriterNext, EnvironmentNext

\* The shutdown's release is served before the writer exits, under its own
\* reason (shared.rs begin_shutdown, writer.rs should_exit).
LEMMA ShutdownStep ==
    TypeOK /\ EpochInv /\ ReleaseInv /\ ShutdownInv /\ [Next]_vars
      => ShutdownInv'
  <1> SUFFICES ASSUME TypeOK, EpochInv, ReleaseInv, ShutdownInv, [Next]_vars
     PROVE ShutdownInv'
    OBVIOUS
  <1>1. requested \in Nat /\ acked \in Nat /\ cancel \in BOOLEAN /\ engaged
     \in BOOLEAN /\ shuttingDown \in BOOLEAN /\ release \in Releases /\ handle
     \in Handles /\ pendingReason \in Reasons \cup {NoReason}
    BY DEF TypeOK
  <1>2. handle.epoch \in Nat /\ release.epoch \in Nat
    BY <1>1 DEF Handles, Releases
  <1>3. acked <= requested /\ (cancel <=> acked < requested) /\ (engaged =>
     ~cancel /\ ~shuttingDown) /\ (pc \in Drained \cup {"resync"} => acked <
     release.epoch /\ release.epoch <= requested)
    BY DEF EpochInv
  <1>4. \A reason \in Reasons : (reason = "Shutdown" \/ pendingReason =
     "Shutdown") => NoteReason(pendingReason, reason) = "Shutdown"
    BY <1>1, NoteReasonType
  <1>5. UserReasons \subseteq Reasons /\ {"Overflow", "LinkDown", "Shutdown",
     "Reconnected"} \subseteq Reasons
    BY PathAssumption DEF Reasons
  <1> USE DEF ShutdownInv, Drained, WireCleared, shared, callers, writer,
     transport, history
  <1>6. ASSUME NEW p \in Producers, NEW event \in Events, Submit(p, event)
     PROVE ShutdownInv'
    BY <1>6, <1>1, <1>2, <1>3, <1>4, <1>5 DEF Submit
  <1>7. ASSUME NEW p \in Producers, TriggerOverflow(p) PROVE ShutdownInv'
    BY <1>7, <1>1, <1>2, <1>3, <1>4, <1>5 DEF TriggerOverflow, Raise
  <1>8. ASSUME NEW reason \in UserReasons, RequestReleaseAll(reason) PROVE
     ShutdownInv'
    BY <1>8, <1>1, <1>2, <1>3, <1>4, <1>5 DEF RequestReleaseAll, Raise
  <1>9. CASE Engage
    BY <1>9, <1>1, <1>2, <1>3, <1>4, <1>5 DEF Engage, Engageable
  <1>10. ASSUME NEW next \in {"joining", "dropped"}, BeginShutdown(next) PROVE
     ShutdownInv'
    <2>1. /\ handle.state = "live" /\ ~shuttingDown /\ shuttingDown'
          /\ handle'.state = next /\ handle'.epoch = requested + 1
          /\ handle'.outcome = handle.outcome
          /\ requested' = requested + 1 /\ pendingReason' = "Shutdown"
          /\ UNCHANGED <<pc, acked, release, lastRelease, wire>>
      BY <1>10, <1>1, <1>4, <1>5 DEF BeginShutdown, Raise, Handles
    <2>2. pc # "done"
      BY <2>1
    <2>3. pc \in Drained \cup {"resync"} => release.epoch < requested + 1
      BY <1>1, <1>2, <1>3
    <2> QED
      BY <2>1, <2>2, <2>3, <1>1, <1>2, <1>3
  <1>11. CASE Join
    <2>1. /\ handle.state = "joining" /\ handle'.state = "joined" /\ pc = "done"
          /\ handle'.epoch = handle.epoch
          /\ handle'.outcome = "Submitted" => lastRelease.outcome = "Submitted"
          /\ UNCHANGED <<requested, acked, shuttingDown, pc, wire, lastRelease,
                         release, pendingReason>>
      BY <1>11, <1>1 DEF Join, Handles
    <2> QED
      BY <2>1, <1>1, <1>2
  <1>12. CASE Latch
    <2>1. /\ release'.epoch = requested /\ pc \in {"loop", "backoff"}
          /\ pendingReason = "Shutdown" => release'.reason = "Shutdown"
          /\ pc' \in {"record", "kb"}
          /\ UNCHANGED <<requested, acked, shuttingDown, handle, wire, lastRelease>>
      BY <1>12 DEF Latch, ServesCancel, FirstReleaseFrame, NoReason
    <2> QED
      BY <2>1, <1>1, <1>2, <1>3
  <1>13. CASE NothingPending
    BY <1>13, <1>1, <1>2, <1>3, <1>4, <1>5 DEF NothingPending
  <1>14. CASE ExitOrServe
    <2>1. /\ pc = "exit" /\ pc' \in {"done", "backoff", "idle"}
          /\ pc' = "done" => shuttingDown /\ ~cancel
          /\ UNCHANGED <<requested, acked, shuttingDown, handle, wire,
                         lastRelease, release, pendingReason>>
      BY <1>14 DEF ExitOrServe, MayExit
    <2>2. pc' = "done" => /\ acked = requested /\ ~engaged /\ ~cancel
                          /\ lastRelease.outcome = "Submitted" => WireCleared
      BY <2>1, <1>1, <1>3 DEF ReleaseInv
    <2> QED
      BY <2>1, <2>2, <1>1, <1>2, <1>3
  <1>15. CASE NextEntry
    BY <1>15, <1>1, <1>2, <1>3, <1>4, <1>5 DEF NextEntry
  <1>16. CASE WakeUp
    BY <1>16, <1>1, <1>2, <1>3, <1>4, <1>5 DEF WakeUp
  <1>17. CASE TriggerLinkDown
    BY <1>17, <1>1, <1>2, <1>3, <1>4, <1>5 DEF TriggerLinkDown, Raise
  <1>18. CASE WriteKey
    BY <1>18, <1>1, <1>2, <1>3, <1>4, <1>5 DEF WriteKey, Hand
  <1>19. CASE WriteButton
    BY <1>19, <1>1, <1>2, <1>3, <1>4, <1>5 DEF WriteButton, Hand
  <1>20. CASE WriteMotion
    BY <1>20, <1>1, <1>2, <1>3, <1>4, <1>5 DEF WriteMotion, Hand, Abandons
  <1>21. CASE EmitRelease
    <2>1. /\ release'.epoch = release.epoch /\ release'.reason = release.reason
          /\ pc \in {"kb", "abs", "rel"} /\ pc' \in {"abs", "rel", "info", "record"}
          /\ UNCHANGED <<requested, acked, shuttingDown, handle, lastRelease,
                         pendingReason>>
      BY <1>21, <1>1, OutcomeTurns DEF EmitRelease, AfterRelease
    <2>2. handle.outcome # "Submitted"
      BY <2>1
    <2> QED
      BY <2>1, <2>2
  <1>22. CASE Record
    BY <1>22, <1>1, <1>2, <1>3, <1>4, <1>5 DEF Record, AfterRecord
  <1>23. CASE Acknowledge
    <2>1. /\ pc = "ack" /\ pc' \in {"loop", "backoff"} /\ acked' = release.epoch
          /\ UNCHANGED <<requested, shuttingDown, handle, wire, lastRelease,
                         pendingReason>>
      BY <1>23, <1>1, ReleaseFields DEF Acknowledge
    <2>2. release.epoch >= handle.epoch \/ pendingReason = "Shutdown"
             \/ ~shuttingDown \/ acked >= handle.epoch
      BY <2>1, <1>1, <1>2
    <2>3. acked' > acked
      BY <2>1, <1>1, <1>2, <1>3
    <2> QED
      BY <2>1, <2>2, <2>3, <1>1, <1>2, <1>3
  <1>24. CASE BackoffEnds
    BY <1>24, <1>1, <1>2, <1>3, <1>4, <1>5 DEF BackoffEnds
  <1>25. CASE Attempt
    BY <1>25, <1>1, <1>2, <1>3, <1>4, <1>5 DEF Attempt
  <1>26. CASE AwaitOpen
    BY <1>26, <1>1, <1>2, <1>3, <1>4, <1>5 DEF AwaitOpen, AbandonsOpen
  <1>27. CASE Begin
    <2>1. /\ release'.epoch = requested + 1 /\ pc = "begin" /\ pc' = "resync"
          /\ requested' = requested + 1
          /\ UNCHANGED <<acked, shuttingDown, handle, wire, lastRelease>>
      BY <1>27 DEF Begin
    <2>2. pendingReason = "Shutdown" => release'.reason = "Shutdown"
      BY <1>27 DEF Begin, Severity
    <2> QED
      BY <2>1, <2>2, <1>1, <1>2, <1>3
  <1>28. CASE Resync
    <2>1. /\ release'.epoch = release.epoch /\ release'.reason = release.reason
          /\ pc = "resync" /\ pc' \in {"kb", "record"}
          /\ UNCHANGED <<requested, acked, shuttingDown, handle, wire,
                         lastRelease, pendingReason>>
      BY <1>28, <1>1, OutcomeTurns DEF Resync, FirstReleaseFrame
    <2> QED
      BY <2>1
  <1>29. CASE MarkLinkUp
    BY <1>29, <1>1, <1>2, <1>3, <1>4, <1>5 DEF MarkLinkUp
  <1>30. ASSUME NEW answers \in BOOLEAN, QueryInfo(answers) PROVE ShutdownInv'
    BY <1>30, <1>1, <1>2, <1>3, <1>4, <1>5, ReleaseFields, OutcomeTurns,
       NoReleaseType DEF QueryInfo
  <1>31. CASE LinkHangsUp
    BY <1>31, <1>1, <1>2, <1>3, <1>4, <1>5 DEF LinkHangsUp
  <1>32. ASSUME NEW result \in {"opened", "failed", "died"},
     OpenReturns(result) PROVE ShutdownInv'
    BY <1>32, <1>1, <1>2, <1>3, <1>4, <1>5 DEF OpenReturns
  <1>33. CASE UNCHANGED vars
    BY <1>33 DEF vars
  <1> QED
    BY <1>6, <1>7, <1>8, <1>9, <1>10, <1>11, <1>12, <1>13, <1>14, <1>15,
       <1>16, <1>17, <1>18, <1>19, <1>20, <1>21, <1>22, <1>23, <1>24, <1>25,
       <1>26, <1>27, <1>28, <1>29, <1>30, <1>31, <1>32, <1>33 DEF Next,
       CallerNext, WriterNext, EnvironmentNext

=============================================================================
