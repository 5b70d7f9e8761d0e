------------------------- MODULE InputPathTheorems -------------------------
(***************************************************************************)
(* What holds of the input path for every value of the constants.          *)
(***************************************************************************)
EXTENDS InputPathProofs

\* The writer starts with nothing held, owed or queued.
LEMMA InitHolds == Init => IInv
  <1> SUFFICES ASSUME Init PROVE IInv
    OBVIOUS
  <1>1. queue = EmptyQueue /\ queue \in Queues /\ BarriersCounted(queue)
        /\ OfEpoch(queue, 0) /\ queue.entries = << >> /\ queue.barriers = 0
    BY EmptyQueueType DEF Init, EmptyQueue
  <1>2. TypeOK
    <2>1. wire \in Wires /\ held \in Held
      BY DEF Init, Wires, KeyboardReports, KeyboardReleaseAll, Held, NothingHeld
    <2>2. entry \in Entries
      BY EmptyRunType DEF Init, NoEntry, Entries
    <2>3. release \in Releases /\ lastRelease \in ReleaseRecords
      BY NoReleaseType DEF Init, ReleaseRecords
    <2>4. handle \in Handles
      BY DEF Init, Handles
    <2>5. pc \in Labels /\ mode \in Modes
      BY DEF Init, Labels, Modes
    <2> QED
      BY <1>1, <2>1, <2>2, <2>3, <2>4, <2>5, PathAssumption DEF Init, TypeOK
  <1>3. EpochInv /\ LateInv
    BY DEF Init, EpochInv, LateInv, Drained
  <1>4. QueueInv
    <2>1. 0 <= BarrierLimit
      BY BoundsAssumption DEF BarrierLimit
    <2> QED
      BY <1>1, <2>1 DEF Init, QueueInv, Drained, Acquiring, NoRelease
  <1>5. ReleaseInv
    BY DEF Init, ReleaseInv, Drained, NoRecord
  <1>6. ShutdownInv
    BY DEF Init, ShutdownInv, Drained
  <1> QED
    BY <1>2, <1>3, <1>4, <1>5, <1>6 DEF IInv

\* The inductive invariant holds throughout.
THEOREM InductiveInvariant == Spec => []IInv
  <1>1. IInv /\ [Next]_vars => IInv'
    BY TypeStep, EpochStep, QueueStep, LateStep, ReleaseStep, ShutdownStep
    DEF IInv
  <1> QED
    BY InitHolds, <1>1, PTL DEF Spec

\* Every variable keeps its type, the queue's barrier count and the reason
\* slot included.
THEOREM TypeCorrect == Spec => []TypeOK
  <1>1. IInv => TypeOK
    BY DEF IInv
  <1> QED
    BY <1>1, InductiveInvariant, PTL

\* No trigger is lost: the flag stays armed while any requested release is
\* unacknowledged, whatever coalesced (writer.rs, the conditional clear).
THEOREM ReleasesAreNeverLost == Spec => []NoLostRelease
  <1>1. IInv => NoLostRelease
    BY DEF IInv, EpochInv, NoLostRelease
  <1> QED
    BY <1>1, InductiveInvariant, PTL

\* Input is admitted only when every release is acknowledged and no shutdown
\* has begun (mod.rs, Producer::engage).
THEOREM EngagementWaits == Spec => []EngagedMeansReleased
  <1>1. IInv => EngagedMeansReleased
    BY DEF IInv, TypeOK, EpochInv, EngagedMeansReleased
  <1> QED
    BY <1>1, InductiveInvariant, PTL

\* Nothing submitted before a release is delivered after it: what is queued
\* or being written is of the acknowledged epoch.
THEOREM NothingIsReplayed == Spec => []NoReplay
  <1>1. IInv => NoReplay
    BY DEF IInv, QueueInv, NoReplay
  <1> QED
    BY <1>1, InductiveInvariant, PTL

\* At most one input report follows a trigger (writer.rs write_step).
THEOREM ReleasesArePrompt == Spec => []PromptRelease
  <1>1. IInv => PromptRelease
    BY DEF IInv, LateInv, PromptRelease
  <1> QED
    BY <1>1, InductiveInvariant, PTL

\* A release-all reported as submitted leaves no key and no relative-mouse
\* button down until input is engaged again (writer.rs emit_release_all).
THEOREM SubmittedMeansCleared == Spec => []ReleaseClearsKeys
  <1>1. IInv => ReleaseClearsKeys
    BY DEF IInv, TypeOK, EpochInv, ReleaseInv, ReleaseClearsKeys,
           ReleasedAndSent, WireCleared
  <1> QED
    BY <1>1, InductiveInvariant, PTL

\* The writer exits only behind the shutdown's own release, and a shutdown
\* reported as submitted left nothing down (mod.rs, WriterHandle::shutdown).
THEOREM ShutdownIsHonest == Spec => []ShutdownHonest
  <1>1. IInv => ShutdownHonest
    BY DEF IInv, ShutdownInv, ShutdownHonest, WireCleared
  <1> QED
    BY <1>1, InductiveInvariant, PTL

\* Which actions can move the acknowledged epoch, the outage, the queue and
\* the reports.
LEMMA WhatMoves ==
    [Next]_vars =>
       /\ acked' = acked \/ Acknowledge
       /\ linkDown' = linkDown \/ linkDown' \/ MarkLinkUp
       /\ \/ queue' = queue \/ Latch \/ NextEntry \/ Resync
          \/ \E p \in Producers, event \in Events : Submit(p, event)
       /\ wire' = wire \/ WriteKey \/ WriteButton \/ WriteMotion \/ EmitRelease
  <1> DEFINE Moves ==
         /\ acked' = acked \/ Acknowledge
         /\ linkDown' = linkDown \/ linkDown' \/ MarkLinkUp
         /\ \/ queue' = queue \/ Latch \/ NextEntry \/ Resync
            \/ \E p \in Producers, event \in Events : Submit(p, event)
         /\ wire' = wire \/ WriteKey \/ WriteButton \/ WriteMotion \/ EmitRelease
  <1> SUFFICES ASSUME [Next]_vars PROVE Moves
    OBVIOUS
  <1> USE DEF shared, callers, writer, transport, history
  <1>1. ASSUME NEW p \in Producers, NEW event \in Events, Submit(p, event)
     PROVE Moves
    BY <1>1 DEF Submit
  <1>2. ASSUME NEW p \in Producers, TriggerOverflow(p) PROVE Moves
    BY <1>2 DEF TriggerOverflow, Raise
  <1>3. ASSUME NEW reason \in UserReasons, RequestReleaseAll(reason) PROVE
     Moves
    BY <1>3 DEF RequestReleaseAll, Raise
  <1>4. CASE Engage
    BY <1>4 DEF Engage, Engageable
  <1>5. ASSUME NEW next \in {"joining", "dropped"}, BeginShutdown(next) PROVE
     Moves
    BY <1>5 DEF BeginShutdown, Raise
  <1>6. CASE Join
    BY <1>6 DEF Join
  <1>7. CASE Latch
    BY <1>7 DEF Latch, ServesCancel, FirstReleaseFrame
  <1>8. CASE NothingPending
    BY <1>8 DEF NothingPending
  <1>9. CASE ExitOrServe
    BY <1>9 DEF ExitOrServe, MayExit, Reacquires
  <1>10. CASE NextEntry
    BY <1>10 DEF NextEntry
  <1>11. CASE WakeUp
    BY <1>11 DEF WakeUp
  <1>12. CASE TriggerLinkDown
    BY <1>12 DEF TriggerLinkDown, Raise
  <1>13. CASE WriteKey
    BY <1>13 DEF WriteKey, Hand
  <1>14. CASE WriteButton
    BY <1>14 DEF WriteButton, Hand
  <1>15. CASE WriteMotion
    BY <1>15 DEF WriteMotion, Hand, Abandons
  <1>16. CASE EmitRelease
    BY <1>16 DEF EmitRelease, ReleasesAbs, AfterRelease
  <1>17. CASE Record
    BY <1>17 DEF Record, AfterRecord
  <1>18. CASE Acknowledge
    BY <1>18 DEF Acknowledge, StillOwed
  <1>19. CASE BackoffEnds
    BY <1>19 DEF BackoffEnds
  <1>20. CASE Attempt
    BY <1>20 DEF Attempt
  <1>21. CASE AwaitOpen
    BY <1>21 DEF AwaitOpen, AbandonsOpen
  <1>22. CASE Begin
    BY <1>22 DEF Begin
  <1>23. CASE Resync
    BY <1>23 DEF Resync, FirstReleaseFrame
  <1>24. CASE MarkLinkUp
    BY <1>24 DEF MarkLinkUp
  <1>25. ASSUME NEW answers \in BOOLEAN, QueryInfo(answers) PROVE Moves
    BY <1>25 DEF QueryInfo
  <1>26. CASE LinkHangsUp
    BY <1>26 DEF LinkHangsUp
  <1>27. ASSUME NEW result \in {"opened", "failed", "died"},
     OpenReturns(result) PROVE Moves
    BY <1>27 DEF OpenReturns
  <1>28. CASE UNCHANGED vars
    BY <1>28 DEF vars
  <1> QED
    BY <1>1, <1>2, <1>3, <1>4, <1>5, <1>6, <1>7, <1>8, <1>9, <1>10, <1>11,
       <1>12, <1>13, <1>14, <1>15, <1>16, <1>17, <1>18, <1>19, <1>20, <1>21,
       <1>22, <1>23, <1>24, <1>25, <1>26, <1>27, <1>28 DEF Next, CallerNext,
       WriterNext, EnvironmentNext

\* The release that first covers a shutdown says so, whichever triggers and
\* commissionings it coalesced with (queue.rs note_reason, writer.rs commission).
THEOREM ShutdownReasonIsKept == Spec => ShutdownReasonKept
  <1> DEFINE A == handle.state # "live" /\ acked < handle.epoch
                     /\ acked' >= handle.epoch
                    => lastRelease.reason = "Shutdown"
  <1>1. IInv /\ [Next]_vars => [A]_vars
    <2> SUFFICES ASSUME IInv, [Next]_vars, acked < handle.epoch,
                        acked' >= handle.epoch, handle.state # "live"
                 PROVE  lastRelease.reason = "Shutdown"
      OBVIOUS
    <2>1. handle.epoch \in Nat /\ acked \in Nat /\ release.epoch \in Nat
      BY ReleaseFields DEF IInv, TypeOK, Handles
    <2>2. pc = "ack" /\ acked' = release.epoch
      <3>1. Acknowledge
        <4>1. acked' # acked
          BY <2>1
        <4> QED
          BY <4>1, WhatMoves
      <3> QED
        BY <3>1 DEF Acknowledge
    <2>3. lastRelease = [epoch |-> release.epoch, reason |-> release.reason,
                         outcome |-> release.outcome]
      BY <2>2 DEF IInv, ReleaseInv
    <2>4. release.reason = "Shutdown"
      BY <2>1, <2>2 DEF IInv, ShutdownInv, Drained
    <2> QED
      BY <2>3, <2>4
  <1> QED
    BY <1>1, InductiveInvariant, PTL DEF Spec, ShutdownReasonKept

\* A replacement link enters service behind its own submitted release, with an
\* empty queue and input disengaged (writer.rs commission).
THEOREM RecaptureIsRequired == Spec => RecaptureAfterReconnect
  <1> DEFINE A == linkDown /\ ~linkDown' =>
                    /\ ~engaged' /\ queue'.entries = << >>
                    /\ lastRelease'.outcome = "Submitted"
                    /\ lastRelease'.epoch > acked
  <1>1. IInv /\ [Next]_vars => [A]_vars
    <2> SUFFICES ASSUME IInv, [Next]_vars, linkDown, ~linkDown' PROVE A
      OBVIOUS
    <2>1. pc = "markup" /\ UNCHANGED <<engaged, queue, lastRelease>>
      BY WhatMoves DEF MarkLinkUp
    <2>2. acked \in Nat /\ release.epoch \in Nat
      BY ReleaseFields DEF IInv, TypeOK
    <2>3. lastRelease = [epoch |-> release.epoch, reason |-> release.reason,
                         outcome |-> release.outcome]
          /\ release.outcome = "Submitted"
      BY <2>1 DEF IInv, ReleaseInv
    <2>4. acked < release.epoch /\ release.epoch <= requested
      BY <2>1 DEF IInv, EpochInv, Drained
    <2>5. ~engaged
      BY <2>2, <2>4 DEF IInv, EpochInv, TypeOK
    <2>6. queue.entries = << >>
      BY <2>1 DEF IInv, QueueInv, Drained
    <2> QED
      BY <2>1, <2>2, <2>3, <2>4, <2>5, <2>6
  <1> QED
    BY <1>1, InductiveInvariant, PTL DEF Spec, RecaptureAfterReconnect

-----------------------------------------------------------------------------
(* What the queue holds and what the reports show                          *)

\* Motion stays coalesced, whatever producers submit between two reads of the
\* writer (queue.rs push_motion).
LEMMA RunsStep ==
    IInv /\ RunsApart(queue.entries) /\ [Next]_vars => RunsApart(queue.entries)'
  <1> SUFFICES ASSUME IInv, RunsApart(queue.entries), [Next]_vars
               PROVE  RunsApart(queue'.entries)
    OBVIOUS
  <1>1. /\ queue \in Queues /\ OfEpoch(queue, acked)
        /\ requested \in Nat /\ acked \in Nat /\ acked <= requested
        /\ release.epoch \in Nat
    BY ReleaseFields DEF IInv, TypeOK, QueueInv, EpochInv
  <1>2. RunsApart(EmptyQueue.entries)
    BY DEF RunsApart, EmptyQueue
  <1>3. CASE queue' = queue
    BY <1>3
  <1>4. ASSUME NEW p \in Producers, NEW event \in Events, Submit(p, event)
        PROVE  RunsApart(queue'.entries)
    <2>1. OfEpoch(queue, requested) /\ event \in AllEvents
      BY <1>4, <1>1, PathAssumption DEF Submit, IInv, TypeOK, EpochInv
    <2>2. queue' = queue \/ queue' = Push(queue, event, requested)
      BY <1>4 DEF Submit
    <2> QED
      BY <2>1, <2>2, <1>1, PushRunsApart
  <1>5. CASE Latch
    <2>1. queue' = EmptyQueue
      BY <1>5, <1>1, DrainEmpties DEF Latch
    <2> QED
      BY <2>1, <1>2
  <1>6. CASE NextEntry
    <2>1. queue' = queue \/ (queue.entries # << >> /\ queue' = Pop(queue))
      BY <1>6 DEF NextEntry
    <2> QED
      BY <2>1, <1>1, PopRunsApart
  <1>7. CASE Resync
    <2>1. CASE link = "up"
      <3>1. acked <= release.epoch /\ queue' = DrainUpto(queue, release.epoch)
        BY <1>7, <2>1, <1>1 DEF Resync, IInv, EpochInv, Drained
      <3>2. queue' = EmptyQueue
        BY <3>1, <1>1, DrainEmpties
      <3> QED
        BY <3>2, <1>2
    <2>2. CASE link # "up"
      BY <1>7, <2>2 DEF Resync
    <2> QED
      BY <2>1, <2>2
  <1> QED
    BY <1>3, <1>4, <1>5, <1>6, <1>7, WhatMoves

\* The queue is bounded whatever the producers do: the transitions by the limit,
\* and the motion between them by coalescing (queue.rs push).
THEOREM QueueIsBounded == Spec => []QueueBounded
  <1>1. Init => RunsApart(queue.entries)
    BY DEF Init, EmptyQueue, RunsApart
  <1>2. IInv /\ RunsApart(queue.entries) => QueueBounded
    <2> SUFFICES ASSUME IInv, RunsApart(queue.entries) PROVE QueueBounded
      OBVIOUS
    <2>1. /\ queue \in Queues /\ BarriersCounted(queue)
          /\ queue.barriers <= BarrierLimit
      BY DEF IInv, TypeOK, QueueInv
    <2>2. /\ BarrierLimit \in Nat /\ queue.barriers \in Nat
          /\ Len(queue.entries) \in Nat
      BY <2>1, BoundsAssumption, LenProperties DEF BarrierLimit, Queues
    <2>3. Len(queue.entries) <= queue.barriers + (queue.barriers + 1)
      BY <2>1, RunsBound
    <2>4. Len(queue.entries) <= BarrierLimit + (BarrierLimit + 1)
      BY <2>1, <2>2, <2>3
    <2>5. BarrierLimit + (BarrierLimit + 1) = 2 * BarrierLimit + 1
      BY <2>2, TwoTimes
    <2> QED
      BY <2>1, <2>4, <2>5 DEF QueueBounded
  <1> QED
    BY <1>1, <1>2, RunsStep, InductiveInvariant, PTL DEF Spec

\* The reports keep following the held state: a transition is reported when it
\* changes what a report shows and only then, and a release clears both sides.
LEMMA MatchStep == IInv /\ MatchInv /\ [Next]_vars => MatchInv'
  <1> SUFFICES ASSUME IInv, MatchInv, [Next]_vars PROVE MatchInv'
    OBVIOUS
  <1>1. /\ wire \in Wires /\ held \in Held /\ entry \in Entries
        /\ release \in Releases
    BY DEF IInv, TypeOK
  <1>2. QueueInv /\ ReleaseInv
    BY DEF IInv
  <1>3. pc \in Acquiring => linkDown
    BY <1>2 DEF QueueInv
  <1> USE <1>2 DEF MatchInv, Serving, WireShowsHeld, Acquiring, shared, callers,
          writer, transport, history
  <1>4. ASSUME NEW p \in Producers, NEW event \in Events, Submit(p, event)
     PROVE MatchInv'
    BY <1>4, <1>3 DEF Submit
  <1>5. ASSUME NEW p \in Producers, TriggerOverflow(p) PROVE MatchInv'
    BY <1>5, <1>3 DEF TriggerOverflow, Raise
  <1>6. ASSUME NEW reason \in UserReasons, RequestReleaseAll(reason) PROVE
     MatchInv'
    BY <1>6, <1>3 DEF RequestReleaseAll, Raise
  <1>7. CASE Engage
    BY <1>7, <1>3 DEF Engage, Engageable
  <1>8. ASSUME NEW next \in {"joining", "dropped"}, BeginShutdown(next) PROVE
     MatchInv'
    BY <1>8, <1>3 DEF BeginShutdown, Raise
  <1>9. CASE Join
    BY <1>9, <1>3 DEF Join
  <1>10. CASE Latch
    <2>1. /\ pc' \in {"record", "kb"} /\ UNCHANGED <<link, linkDown>>
          /\ release'.outcome = "Unsent" => link = "none" \/ linkDown
          /\ pc' = "kb" \/ release'.outcome = "Submitted" => link # "none"
      BY <1>10 DEF Latch, FirstReleaseFrame
    <2> QED
      BY <2>1
  <1>11. CASE NothingPending
    BY <1>11, <1>3 DEF NothingPending
  <1>12. CASE ExitOrServe
    BY <1>12, <1>3 DEF ExitOrServe, MayExit, Reacquires
  <1>13. CASE NextEntry
    BY <1>13, <1>3 DEF NextEntry
  <1>14. CASE WakeUp
    BY <1>14, <1>3 DEF WakeUp
  <1>15. CASE TriggerLinkDown
    BY <1>15, <1>3 DEF TriggerLinkDown, Raise
  <1>16. CASE WriteKey
    <2>1. entry.what \in KeyEvents /\ pc = "write" /\ ~linkDown /\ WireShowsHeld
      BY <1>16, <1>1, WhatKinds DEF WriteKey, Transitions, IsBarrier, Entries,
         KeyEvents, ButtonEvents, QueueInv
    <2> DEFINE key == entry.what.key
               down == entry.what.down
    <2>2. key \in Keys /\ down \in BOOLEAN
      BY <2>1 DEF KeyEvents
    <2>3. held' = ApplyKey(held, key, down) /\ held'.buttons = held.buttons
      BY <1>16, <1>1, <2>2, ApplyKeyButtons DEF WriteKey
    <2>4. /\ pc' \in {"loop", "failed"} /\ mode' = mode /\ link' = link
          /\ pc' = "loop" \/ linkDown'
      BY <1>16 DEF WriteKey, Hand
    <2>5. CASE KeyReportDue(held, key, down) /\ link = "up"
      <3>1. wire' = [wire EXCEPT !.kb = KeyboardReport(held')]
        BY <1>16, <2>5 DEF WriteKey, Hand
      <3>2. /\ wire'.kb = KeyboardReport(held')
            /\ wire'[DeviceOf(mode)] = wire[DeviceOf(mode)]
        BY <3>1, <1>1 DEF Wires, DeviceOf
      <3> QED
        BY <1>16, <2>1, <2>3, <2>4, <3>2, <2>5 DEF WriteKey, Hand
    <2>6. CASE KeyReportDue(held, key, down) /\ link # "up"
      BY <1>16, <2>4, <2>6 DEF WriteKey, Hand
    <2>7. CASE ~KeyReportDue(held, key, down)
      <3>1. KeyboardReport(held') = KeyboardReport(held)
        BY <2>2, <2>3, <2>7, <1>1, KeyNotDue
      <3>2. UNCHANGED <<wire, linkDown>>
        BY <1>16, <2>7 DEF WriteKey
      <3> QED
        BY <1>16, <2>1, <2>3, <2>4, <3>1, <3>2, <2>7 DEF WriteKey
    <2> QED
      BY <2>5, <2>6, <2>7
  <1>17. CASE WriteButton
    <2>1. entry.what \in ButtonEvents /\ pc = "write" /\ ~linkDown /\ WireShowsHeld
      BY <1>17, <1>1, WhatKinds DEF WriteButton, Transitions, IsBarrier, Entries,
         KeyEvents, ButtonEvents, QueueInv
    <2> DEFINE mask == entry.what.mask
               down == entry.what.down
    <2>2. /\ held' = ApplyButtons(held, mask, down)
          /\ KeyboardReport(held') = KeyboardReport(held)
      BY <1>17, <1>1 DEF WriteButton, ApplyButtons, KeyboardReport, Held
    <2>3. /\ pc' \in {"loop", "failed"} /\ mode' = mode /\ link' = link
          /\ pc' = "loop" \/ linkDown'
      BY <1>17 DEF WriteButton, Hand
    <2>4. CASE ButtonReportDue(held, mask, down) /\ link = "up"
      <3>1. wire' = [wire EXCEPT ![DeviceOf(mode)] = held'.buttons]
        BY <1>17, <2>4 DEF WriteButton, Hand
      <3>2. wire'.kb = wire.kb /\ wire'[DeviceOf(mode)] = held'.buttons
        BY <3>1, <1>1 DEF Wires, DeviceOf
      <3> QED
        BY <1>17, <2>1, <2>2, <2>3, <3>2, <2>4 DEF WriteButton, Hand
    <2>5. CASE ButtonReportDue(held, mask, down) /\ link # "up"
      BY <1>17, <2>3, <2>5 DEF WriteButton, Hand
    <2>6. CASE ~ButtonReportDue(held, mask, down)
      <3>1. held' = held /\ UNCHANGED <<wire, linkDown>>
        BY <1>17, <2>2, <2>6 DEF WriteButton, ButtonReportDue
      <3> QED
        BY <1>17, <2>1, <2>3, <3>1
    <2> QED
      BY <2>4, <2>5, <2>6
  <1>18. CASE WriteMotion
    <2>1. /\ pc = "write" /\ pc' \in {"loop", "failed", "write"}
          /\ held' = held /\ link' = link /\ release' = release
          /\ pc' = "failed" => linkDown'
          /\ linkDown => linkDown'
      BY <1>18 DEF WriteMotion, Hand
    <2>2. WireShowsHeld
      BY <2>1 DEF QueueInv
    <2>3. CASE entry.what = EmptyRun
      BY <1>18, <2>1, <2>2, <2>3 DEF WriteMotion
    <2>4. CASE entry.what # EmptyRun /\ link # "up"
      BY <1>18, <2>1, <2>4 DEF WriteMotion, Hand
    <2>5. CASE entry.what # EmptyRun /\ link = "up"
      <3>1. /\ mode' = TargetMode(entry.what)
            /\ wire' = [wire EXCEPT ![DeviceOf(mode')] = held.buttons]
        BY <1>18, <2>5 DEF WriteMotion, Hand
      <3>2. wire'.kb = wire.kb /\ wire'[DeviceOf(mode')] = held.buttons
        BY <3>1, <1>1 DEF Wires, DeviceOf
      <3> QED
        BY <2>1, <2>2, <3>2, <2>5
    <2> QED
      BY <2>3, <2>4, <2>5
  <1>19. CASE EmitRelease
    <2>1. /\ pc \in {"kb", "abs", "rel"} /\ link' = link
          /\ pc' \in {"abs", "rel", "info", "record"}
          /\ pc' = "info" => release.kind = "commission"
      BY <1>19 DEF EmitRelease, AfterRelease
    <2>2. CASE link = "up"
      <3>1. release' = release /\ linkDown' = linkDown
        BY <1>19, <2>2 DEF EmitRelease
      <3>2. release.outcome = "Submitted"
        BY <2>1 DEF ReleaseInv
      <3> QED
        BY <2>1, <3>1, <3>2, <2>2
    <2>3. CASE link # "up"
      <3>1. linkDown' /\ pc' = "record" /\ release'.outcome = "Unsent"
        BY <1>19, <2>3, <1>1, OutcomeTurns DEF EmitRelease
      <3> QED
        BY <2>1, <3>1
    <2> QED
      BY <2>2, <2>3
  <1>20. CASE Record
    <2>1. /\ pc = "record" /\ pc' \in {"markup", "ack"}
          /\ UNCHANGED <<link, linkDown, release>>
          /\ held' = NothingHeld /\ mode' = Relative
          /\ pc' = "markup" => release.outcome = "Submitted"
      BY <1>20 DEF Record, AfterRecord
    <2> QED
      BY <2>1
  <1>21. CASE Acknowledge
    <2>1. /\ pc = "ack" /\ UNCHANGED <<linkDown, held, mode, wire>>
          /\ pc' = IF release.kind = "commission" /\ release.outcome = "Unsent"
                   THEN "backoff" ELSE release.back
          /\ link' = IF release.kind = "commission" /\ release.outcome = "Unsent"
                     THEN "none" ELSE link
      BY <1>21 DEF Acknowledge
    <2>2. pc' \in {"loop", "backoff"}
      BY <2>1, <1>1, ReleaseFields
    <2>3. held = NothingHeld /\ mode = Relative
      BY <2>1
    <2>4. link' = "none" => linkDown
      BY <2>1 DEF QueueInv, Drained
    <2>5. ~linkDown => WireShowsHeld
      <3> SUFFICES ASSUME ~linkDown PROVE WireShowsHeld
        OBVIOUS
      <3>1. WireCleared
        BY <2>1 DEF ReleaseInv
      <3> QED
        BY <2>3, <3>1
        DEF WireCleared, KeyboardReport, KeyboardReleaseAll, NothingHeld, DeviceOf
    <2> QED
      BY <2>1, <2>2, <2>3, <2>4, <2>5
  <1>22. CASE BackoffEnds
    BY <1>22, <1>3 DEF BackoffEnds
  <1>23. CASE Attempt
    BY <1>23, <1>3 DEF Attempt
  <1>24. CASE AwaitOpen
    BY <1>24, <1>3 DEF AwaitOpen, AbandonsOpen
  <1>25. CASE Begin
    BY <1>25, <1>3 DEF Begin
  <1>26. CASE Resync
    BY <1>26, <1>3 DEF Resync, FirstReleaseFrame
  <1>27. CASE MarkLinkUp
    BY <1>27, <1>3 DEF MarkLinkUp, ReleaseInv
  <1>28. ASSUME NEW answers \in BOOLEAN, QueryInfo(answers) PROVE MatchInv'
    <2>1. pc = "info" /\ pc' = "record" /\ UNCHANGED <<link, linkDown>>
      BY <1>28 DEF QueryInfo
    <2>2. linkDown
      BY <2>1 DEF QueueInv, Drained
    <2> QED
      BY <2>1, <2>2
  <1>29. CASE LinkHangsUp
    BY <1>29, <1>3 DEF LinkHangsUp
  <1>30. ASSUME NEW result \in {"opened", "failed", "died"},
     OpenReturns(result) PROVE MatchInv'
    BY <1>30, <1>3 DEF OpenReturns
  <1>31. CASE UNCHANGED vars
    BY <1>31, <1>3 DEF vars
  <1> QED
    BY <1>4, <1>5, <1>6, <1>7, <1>8, <1>9, <1>10, <1>11, <1>12, <1>13, <1>14,
       <1>15, <1>16, <1>17, <1>18, <1>19, <1>20, <1>21, <1>22, <1>23, <1>24,
       <1>25, <1>26, <1>27, <1>28, <1>29, <1>30, <1>31 DEF Next, CallerNext,
       WriterNext, EnvironmentNext

LEMMA MatchHolds == Spec => []MatchInv
  <1>1. Init => MatchInv
    BY DEF Init, MatchInv, Serving, WireShowsHeld, KeyboardReport,
           KeyboardReleaseAll, NothingHeld, DeviceOf
  <1> QED
    BY <1>1, MatchStep, InductiveInvariant, PTL DEF Spec

\* Between entries, on a link in service, the last reports handed over show
\* exactly what is held (writer.rs write_step, held.rs).
THEOREM ReportsMatchHeld == Spec => []WireMatchesHeld
  <1>1. MatchInv => WireMatchesHeld
    BY DEF MatchInv, WireMatchesHeld, WireShowsHeld, Serving
  <1> QED
    BY <1>1, MatchHolds, PTL

\* A key enters a report only by its own press: a key suppressed by a full
\* report is not promoted when a slot frees (held.rs, Reported and Suppressed).
THEOREM NoKeyIsPromoted == Spec => NoPromotion
  <1> DEFINE A == \A key \in wire'.kb.keys \ wire.kb.keys :
                    /\ pc = "write"
                    /\ entry.what = [kind |-> "key", key |-> key, down |-> TRUE]
  <1>1. IInv /\ MatchInv /\ [Next]_vars => [A]_vars
    <2> SUFFICES ASSUME IInv, MatchInv, [Next]_vars,
                        NEW key \in wire'.kb.keys \ wire.kb.keys
                 PROVE  /\ pc = "write"
                        /\ entry.what = [kind |-> "key", key |-> key, down |-> TRUE]
      OBVIOUS
    <2>1. wire \in Wires /\ held \in Held /\ entry \in Entries
      BY DEF IInv, TypeOK
    <2>2. CASE WriteKey
      <3>1. entry.what \in KeyEvents /\ pc = "write"
        BY <2>2, <2>1, WhatKinds DEF WriteKey, Transitions, IsBarrier, Entries,
           KeyEvents, ButtonEvents
      <3>2. held.reported = wire.kb.keys
        BY <3>1 DEF MatchInv, WireShowsHeld, Serving, KeyboardReport, IInv, QueueInv
      <3>3. held' = ApplyKey(held, entry.what.key, entry.what.down)
        BY <2>2 DEF WriteKey
      <3>4. wire'.kb.keys = held'.reported
        <4>1. wire' = [wire EXCEPT !.kb = KeyboardReport(held')]
          <5>1. wire' # wire
            OBVIOUS
          <5> QED
            BY <5>1, <2>2 DEF WriteKey, Hand, history
        <4> QED
          BY <4>1, <2>1 DEF Wires, KeyboardReport
      <3>5. key \in held'.reported \ held.reported
        BY <3>2, <3>4
      <3>6. entry.what.key \in Keys /\ entry.what.down \in BOOLEAN
        BY <3>1 DEF KeyEvents
      <3>7. key \in ApplyKey(held, entry.what.key, entry.what.down).reported
                  \ held.reported
        BY <3>3, <3>5
      <3>8. key = entry.what.key /\ entry.what.down = TRUE
        <4> DEFINE k == entry.what.key
                   d == entry.what.down
        <4> HIDE DEF k, d
        <4>1. k \in Keys /\ d \in BOOLEAN
          BY <3>6 DEF k, d
        <4>2. \A new \in ApplyKey(held, k, d).reported \ held.reported :
                 new = k /\ d = TRUE
          BY <4>1, <2>1, ReportedByPress
        <4> QED
          BY <4>2, <3>7 DEF k, d
      <3> QED
        BY <3>1, <3>8 DEF KeyEvents
    <2>3. CASE WriteButton
      <3>1. wire' = wire
              \/ wire' = [wire EXCEPT ![DeviceOf(mode)] = held'.buttons]
        BY <2>3 DEF WriteButton, Hand, history
      <3> QED
        BY <3>1, <2>1 DEF Wires, DeviceOf
    <2>4. CASE WriteMotion
      <3>1. wire' = wire
              \/ wire' = [wire EXCEPT ![DeviceOf(TargetMode(entry.what))]
                                  = held.buttons]
        BY <2>4 DEF WriteMotion, Hand, history
      <3> QED
        BY <3>1, <2>1 DEF Wires, DeviceOf
    <2>5. CASE EmitRelease
      <3>1. \/ wire' = wire
            \/ wire' = [wire EXCEPT ![pc] = IF pc = "kb" THEN KeyboardReleaseAll
                                            ELSE {}]
        BY <2>5 DEF EmitRelease
      <3>2. pc \in {"kb", "abs", "rel"}
        BY <2>5 DEF EmitRelease
      <3> QED
        BY <3>1, <3>2, <2>1 DEF Wires, KeyboardReleaseAll
    <2> QED
      BY <2>2, <2>3, <2>4, <2>5, WhatMoves
  <1> QED
    BY <1>1, MatchHolds, InductiveInvariant, PTL DEF Spec, NoPromotion

-----------------------------------------------------------------------------
(* One link that is never replaced, one absolute pointer                   *)

\* A push of an event that is no relative motion queues none.
LEMMA PushAbsolute ==
    ASSUME NEW q \in Queues, NEW event \in AllEvents, event.kind # "rel",
           NEW epoch \in Nat,
           \A i \in DOMAIN q.entries : MovesAbsolutely(q.entries[i].what)
    PROVE  LET t == Push(q, event, epoch).entries IN
           \A i \in DOMAIN t : MovesAbsolutely(t[i].what)
  <1> DEFINE s == q.entries
             n == Len(s)
             t == Push(q, event, epoch).entries
  <1> SUFFICES \A i \in DOMAIN t : MovesAbsolutely(t[i].what)
    OBVIOUS
  <1>1. /\ s \in Seq(Entries) /\ n \in Nat /\ DOMAIN s = 1..n
    BY LenProperties DEF Queues
  <1>2. ASSUME NEW e, t = Append(s, e), MovesAbsolutely(e.what)
        PROVE  \A i \in DOMAIN t : MovesAbsolutely(t[i].what)
    <2>1. /\ DOMAIN t = 1..n + 1 /\ t[n + 1] = e
          /\ \A i \in 1..n : t[i] = s[i]
      BY <1>1, <1>2
    <2> HIDE DEF t
    <2> QED
      BY <2>1, <1>1, <1>2
  <1>3. CASE IsTransition(event)
    <2>1. t = Append(s, [what |-> event, epoch |-> epoch])
      BY <1>3 DEF Push, PushBarrier
    <2>2. MovesAbsolutely(event)
      BY <1>3 DEF MovesAbsolutely, IsTransition
    <2> HIDE DEF t, s
    <2> QED
      BY <1>2, <2>1, <2>2
  <1>4. CASE ~IsTransition(event) /\ ~TailIsRun(q, epoch)
    <2> DEFINE e == [what |-> Merge(EmptyRun, event), epoch |-> epoch]
    <2>1. t = Append(s, e)
      BY <1>1, <1>4 DEF Push, PushMotion, Queues
    <2>2. MovesAbsolutely(e.what)
      BY <1>4, EventKinds DEF MovesAbsolutely, Merge, EmptyRun, MotionEvents
    <2> HIDE DEF t, s, e
    <2> QED
      BY <1>2, <2>1, <2>2
  <1>5. CASE ~IsTransition(event) /\ TailIsRun(q, epoch)
    <2> DEFINE e == [s[n] EXCEPT !.what = Merge(@, event)]
    <2>1. t = [s EXCEPT ![n] = e]
      BY <1>1, <1>5 DEF Push, PushMotion, Queues
    <2>2. n \in 1..n /\ ~IsBarrier(s[n].what)
      BY <1>1, <1>5, EmptySeq DEF TailIsRun
    <2>3. s[n] \in Entries /\ MovesAbsolutely(s[n].what)
      BY <2>2, <1>1, ElementOfSeq
    <2>4. s[n].what \in MotionRuns /\ s[n].what.rel = 0
      BY <2>2, <2>3, WhatKinds DEF Entries, MovesAbsolutely, IsBarrier
    <2>5. event \in MotionEvents
      BY <1>5, EventKinds
    <2>6. Merge(s[n].what, event).rel = 0
      BY <2>4, <2>5 DEF Merge, MotionEvents, MotionRuns
    <2>7. e.what = Merge(s[n].what, event)
      BY <2>3 DEF Entries
    <2>8. MovesAbsolutely(e.what)
      BY <2>6, <2>7 DEF MovesAbsolutely
    <2>9. DOMAIN t = 1..n /\ t[n] = e /\ \A i \in 1..n : i # n => t[i] = s[i]
      BY <1>1, <2>1, <2>2
    <2> HIDE DEF t, e
    <2> QED
      BY <2>8, <2>9, <1>1
  <1> QED
    BY <1>3, <1>4, <1>5

\* Nor does taking the oldest entry add any.
LEMMA PopAbsolute ==
    ASSUME NEW q \in Queues, q.entries # << >>,
           \A i \in DOMAIN q.entries : MovesAbsolutely(q.entries[i].what)
    PROVE  /\ \A i \in DOMAIN Pop(q).entries : MovesAbsolutely(Pop(q).entries[i].what)
           /\ Head(q.entries) \in Entries
           /\ MovesAbsolutely(Head(q.entries).what)
  <1> DEFINE s == q.entries
             t == Tail(s)
  <1>1. Pop(q).entries = t /\ s \in Seq(Entries)
    BY DEF Pop, Queues
  <1>2. /\ Len(s) \in Nat \ {0} /\ DOMAIN s = 1..Len(s)
        /\ DOMAIN t = 1..Len(s) - 1
        /\ \A i \in 1..Len(s) - 1 : t[i] = s[i + 1]
        /\ Head(s) = s[1] /\ Head(s) \in Entries
    BY <1>1, HeadTailProperties, LenProperties, EmptySeq
  <1>3. MovesAbsolutely(s[1].what)
    BY <1>2
  <1> HIDE DEF s, t
  <1>4. \A i \in DOMAIN t : MovesAbsolutely(t[i].what)
    <2> SUFFICES ASSUME NEW i \in 1..Len(s) - 1 PROVE MovesAbsolutely(t[i].what)
      BY <1>2
    <2>1. i + 1 \in DOMAIN s
      BY <1>2
    <2> QED
      BY <2>1, <1>2 DEF s
  <1> QED
    BY <1>1, <1>2, <1>3, <1>4 DEF s

\* cap_run moves nothing that did not move.
LEMMA CappedAbsolute ==
    ASSUME NEW what \in Transitions \cup MotionRuns, MovesAbsolutely(what)
    PROVE  MovesAbsolutely(Capped(what))
  <1>1. CASE IsBarrier(what)
    BY <1>1 DEF Capped
  <1>2. CASE ~IsBarrier(what)
    <2>1. what \in MotionRuns /\ what.rel = 0
      BY <1>2, WhatKinds DEF MovesAbsolutely, IsBarrier
    <2>2. Clamp(0, RunMax) = 0
      BY PathAssumption DEF Clamp
    <2> QED
      BY <1>2, <2>1, <2>2 DEF Capped, MotionRuns, MovesAbsolutely
  <1> QED
    BY <1>1, <1>2

\* With one link and absolute motion only, the mode never leaves a button of the
\* absolute mouse behind while the link is in service.
LEMMA MouseStep ==
    FixedAbsolute /\ IInv /\ MatchInv /\ MouseInv /\ [Next]_vars => MouseInv'
  <1> SUFFICES ASSUME FixedAbsolute, IInv, MatchInv, MouseInv, [Next]_vars
               PROVE  MouseInv'
    OBVIOUS
  <1>1. /\ queue \in Queues /\ wire \in Wires /\ entry \in Entries
        /\ release \in Releases /\ requested \in Nat /\ acked \in Nat
        /\ cancel \in BOOLEAN /\ engaged \in BOOLEAN /\ OfEpoch(queue, acked)
    BY DEF IInv, TypeOK, QueueInv
  <1>2. /\ acked <= requested
        /\ pc \in Drained => cancel
    BY <1>1, ReleaseFields DEF IInv, EpochInv
  <1>3. Reconnect = FALSE /\ \A event \in Events : event.kind # "rel"
    BY PathAssumption DEF FixedAbsolute
  <1>4. ReleaseInv /\ (pc = "write" => engaged \/ cancel)
    BY DEF IInv, ReleaseInv
  <1> USE <1>3 DEF MouseInv, Acquiring, shared, callers, writer, transport, history
  <1>5. ASSUME NEW p \in Producers, NEW event \in Events, Submit(p, event)
     PROVE MouseInv'
    <2>1. event \in AllEvents /\ event.kind # "rel"
      BY PathAssumption
    <2>2. queue' = queue \/ queue' = Push(queue, event, requested)
      BY <1>5 DEF Submit
    <2>3. \A i \in DOMAIN queue'.entries : MovesAbsolutely(queue'.entries[i].what)
      BY <2>1, <2>2, <1>1, PushAbsolute
    <2> QED
      BY <1>5, <2>3 DEF Submit
  <1>6. ASSUME NEW p \in Producers, TriggerOverflow(p) PROVE MouseInv'
    BY <1>6 DEF TriggerOverflow, Raise
  <1>7. ASSUME NEW reason \in UserReasons, RequestReleaseAll(reason) PROVE
     MouseInv'
    BY <1>7 DEF RequestReleaseAll, Raise
  <1>8. CASE Engage
    BY <1>8 DEF Engage, Engageable
  <1>9. ASSUME NEW next \in {"joining", "dropped"}, BeginShutdown(next) PROVE
     MouseInv'
    BY <1>9 DEF BeginShutdown, Raise
  <1>10. CASE Join
    BY <1>10 DEF Join
  <1>11. CASE Latch
    <2>1. /\ pc = "loop" /\ pc' \in {"record", "kb"}
          /\ pc' = "kb" => ~linkDown
          /\ pc' = "record" => release'.outcome = "Unsent"
          /\ release'.kind = "cancel" /\ release'.back = "loop"
          /\ UNCHANGED <<linkDown, mode, wire, cancel, engaged, lastRelease>>
      BY <1>11 DEF Latch, ServesCancel, FirstReleaseFrame
    <2>2. queue' = EmptyQueue
      BY <1>11, <1>1, <1>2, DrainEmpties DEF Latch
    <2> QED
      BY <2>1, <2>2 DEF EmptyQueue
  <1>12. CASE NothingPending
    BY <1>12 DEF NothingPending
  <1>13. CASE ExitOrServe
    <2>1. pc' \in {"done", "idle"}
      BY <1>13, <1>3 DEF ExitOrServe, Reacquires
    <2> QED
      BY <1>13, <2>1 DEF ExitOrServe
  <1>14. CASE NextEntry
    <2>1. /\ pc' \in {"loop", "waiting", "write"}
          /\ queue' = queue \/ (queue.entries # << >> /\ queue' = Pop(queue))
          /\ pc' = "write" => /\ queue.entries # << >>
                             /\ entry' = [Head(queue.entries) EXCEPT
                                             !.what = Capped(Head(queue.entries).what)]
          /\ UNCHANGED <<release, linkDown, mode, wire, cancel, engaged, lastRelease>>
      BY <1>14 DEF NextEntry
    <2>2. queue.entries # << >> =>
             /\ \A i \in DOMAIN Pop(queue).entries :
                   MovesAbsolutely(Pop(queue).entries[i].what)
             /\ Head(queue.entries) \in Entries
             /\ MovesAbsolutely(Head(queue.entries).what)
      BY <1>1, PopAbsolute
    <2>3. \A i \in DOMAIN queue'.entries : MovesAbsolutely(queue'.entries[i].what)
      BY <2>1, <2>2
    <2>4. pc' = "write" => MovesAbsolutely(entry'.what)
      <3> SUFFICES ASSUME pc' = "write" PROVE MovesAbsolutely(entry'.what)
        OBVIOUS
      <3> DEFINE first == Head(queue.entries)
      <3>1. first \in Entries /\ MovesAbsolutely(first.what)
        BY <2>1, <2>2
      <3>2. entry'.what = Capped(first.what)
        BY <2>1, <3>1 DEF Entries
      <3>3. first.what \in Transitions \cup MotionRuns
        BY <3>1 DEF Entries
      <3> QED
        BY <3>1, <3>2, <3>3, CappedAbsolute
    <2> QED
      BY <2>1, <2>3, <2>4
  <1>15. CASE WakeUp
    BY <1>15 DEF WakeUp
  <1>16. CASE TriggerLinkDown
    BY <1>16 DEF TriggerLinkDown, Raise
  <1>17. CASE WriteKey
    <2>1. /\ pc = "write" /\ pc' \in {"loop", "failed"}
          /\ UNCHANGED <<queue, release, mode, cancel, engaged, lastRelease>>
          /\ linkDown => linkDown'
          /\ wire' = wire \/ wire' = [wire EXCEPT !.kb = KeyboardReport(held')]
      BY <1>17 DEF WriteKey, Hand
    <2>2. wire'.abs = wire.abs
      BY <2>1, <1>1 DEF Wires
    <2> QED
      BY <2>1, <2>2, <1>4
  <1>18. CASE WriteButton
    <2>1. /\ pc = "write" /\ pc' \in {"loop", "failed"}
          /\ UNCHANGED <<queue, release, mode, cancel, engaged, lastRelease>>
          /\ linkDown => linkDown'
          /\ \/ wire' = wire
             \/ wire' = [wire EXCEPT ![DeviceOf(mode)] = held'.buttons]
      BY <1>18 DEF WriteButton, Hand
    <2>2. mode = Relative => wire'.abs = wire.abs
      BY <2>1, <1>1 DEF Wires, DeviceOf
    <2> QED
      BY <2>1, <2>2, <1>4
  <1>19. CASE WriteMotion
    <2>1. /\ pc = "write" /\ pc' \in {"loop", "failed", "write"}
          /\ UNCHANGED <<queue, release, cancel, engaged, lastRelease>>
          /\ linkDown => linkDown'
          /\ pc' = "write" =>
                entry' = [entry EXCEPT !.what = AfterReport(entry.what)]
          /\ \/ mode' = mode /\ wire' = wire
             \/ /\ mode' = TargetMode(entry.what)
                /\ \/ wire' = wire
                   \/ wire' = [wire EXCEPT ![DeviceOf(mode')] = held.buttons]
      BY <1>19 DEF WriteMotion, Hand
    <2>2. entry.what \in MotionRuns /\ entry.what.rel = 0
      BY <1>19, <2>1, <1>1, WhatKinds
      DEF WriteMotion, IsBarrier, Entries, MovesAbsolutely
    <2>3. mode' = Relative => mode = Relative
      BY <2>1, <2>2, PathAssumption DEF TargetMode, MotionRuns
    <2>4. mode' = Relative => wire'.abs = wire.abs
      BY <2>1, <1>1 DEF Wires, DeviceOf
    <2>5. pc' = "write" => MovesAbsolutely(entry'.what)
      <3>1. MovesAbsolutely(AfterReport(entry.what))
        BY <2>2, PathAssumption DEF AfterReport, MotionRuns, MovesAbsolutely, Clamp
      <3> QED
        BY <2>1, <3>1, <1>1 DEF Entries
    <2> QED
      BY <2>1, <2>3, <2>4, <2>5, <1>4
  <1>20. CASE EmitRelease
    <2>1. /\ pc \in {"kb", "abs", "rel"} /\ cancel /\ cancel' = cancel
          /\ UNCHANGED <<queue, mode, lastRelease>>
      BY <1>20, <1>2 DEF EmitRelease, Drained
    <2>2. CASE link = "up"
      <3>1. /\ UNCHANGED <<linkDown, release>>
            /\ wire' = [wire EXCEPT ![pc] = IF pc = "kb" THEN KeyboardReleaseAll
                                            ELSE {}]
            /\ \/ pc = "kb" /\ mode # Relative /\ pc' = "abs"
               \/ pc = "kb" /\ mode = Relative /\ pc' = "rel"
               \/ pc = "abs" /\ pc' = "rel"
               \/ pc = "rel" /\ pc' = "record"
        BY <1>20, <2>1, <2>2 DEF EmitRelease, ReleasesAbs, AfterRelease
      <3>2. wire'.abs = IF pc = "abs" THEN {} ELSE wire.abs
        BY <2>1, <3>1, <1>1 DEF Wires
      <3> QED
        BY <2>1, <3>1, <3>2
    <2>3. CASE link # "up"
      <3>1. /\ linkDown' /\ pc' = "record" /\ wire' = wire
            /\ release' = [release EXCEPT !.outcome = "Unsent"]
        BY <1>20, <2>3 DEF EmitRelease
      <3>2. /\ release'.outcome = "Unsent" /\ release'.kind = release.kind
            /\ release'.back = release.back
        BY <3>1, <1>1, OutcomeTurns
      <3> QED
        BY <2>1, <3>1, <3>2
    <2> QED
      BY <2>2, <2>3
  <1>21. CASE Record
    <2>1. /\ pc = "record" /\ pc' = "ack" /\ cancel /\ cancel' = cancel
          /\ UNCHANGED <<queue, linkDown, release, wire>>
      BY <1>21, <1>2 DEF Record, AfterRecord, Drained
    <2>2. ~linkDown => wire.abs = {}
      BY <2>1, <1>4 DEF ReleaseInv, MatchInv
    <2> QED
      BY <2>1, <2>2
  <1>22. CASE Acknowledge
    <2>1. /\ pc = "ack" /\ pc' = "loop" /\ release' = NoRelease
          /\ UNCHANGED <<queue, linkDown, mode, wire, engaged, lastRelease>>
      BY <1>22 DEF Acknowledge
    <2>2. lastRelease.outcome = release.outcome
      BY <2>1, <1>4 DEF ReleaseInv
    <2> QED
      BY <2>1, <2>2 DEF NoRelease
  <1>23. CASE BackoffEnds
    BY <1>23 DEF BackoffEnds
  <1>24. CASE Attempt
    BY <1>24 DEF Attempt
  <1>25. CASE AwaitOpen
    BY <1>25 DEF AwaitOpen, AbandonsOpen
  <1>26. CASE Begin
    BY <1>26 DEF Begin
  <1>27. CASE Resync
    BY <1>27 DEF Resync, FirstReleaseFrame
  <1>28. CASE MarkLinkUp
    BY <1>28 DEF MarkLinkUp
  <1>29. ASSUME NEW answers \in BOOLEAN, QueryInfo(answers) PROVE MouseInv'
    BY <1>29 DEF QueryInfo
  <1>30. CASE LinkHangsUp
    BY <1>30 DEF LinkHangsUp
  <1>31. ASSUME NEW result \in {"opened", "failed", "died"},
     OpenReturns(result) PROVE MouseInv'
    BY <1>31 DEF OpenReturns
  <1>32. CASE UNCHANGED vars
    BY <1>32 DEF vars
  <1> QED
    BY <1>5, <1>6, <1>7, <1>8, <1>9, <1>10, <1>11, <1>12, <1>13, <1>14, <1>15,
       <1>16, <1>17, <1>18, <1>19, <1>20, <1>21, <1>22, <1>23, <1>24, <1>25,
       <1>26, <1>27, <1>28, <1>29, <1>30, <1>31, <1>32 DEF Next, CallerNext,
       WriterNext, EnvironmentNext

\* Where no link is replaced and the pointer only moves absolutely, a release-all
\* reported as submitted clears the keyboard and both mice: the case outside it is
\* the stuck button that run input_stuck_button shows (writer.rs emit_release_all).
THEOREM SubmittedClearsBothMice ==
    ASSUME FixedAbsolute
    PROVE  Spec => []ReleaseClears
  <1>1. Init => MouseInv
    BY DEF Init, MouseInv, FixedAbsolute, EmptyQueue, NoRelease, Acquiring, NoRecord
  <1>2. IInv /\ MouseInv => ReleaseClears
    <2> SUFFICES ASSUME IInv, MouseInv, ReleasedAndSent
                 PROVE  wire = [kb |-> KeyboardReleaseAll, abs |-> {}, rel |-> {}]
      BY DEF ReleaseClears
    <2>1. ~cancel /\ ~engaged /\ lastRelease.outcome = "Submitted"
      BY DEF ReleasedAndSent, IInv, TypeOK, EpochInv
    <2>2. wire.abs = {} /\ WireCleared
      BY <2>1 DEF MouseInv, IInv, ReleaseInv
    <2> QED
      BY <2>2 DEF WireCleared, IInv, TypeOK, Wires
  <1>3. IInv /\ MatchInv /\ MouseInv /\ [Next]_vars => MouseInv'
    BY MouseStep
  <1> QED
    BY <1>1, <1>2, <1>3, MatchHolds, InductiveInvariant, PTL DEF Spec

\* Every step of the path is a step of the barrier, or none of its business.
LEMMA BarrierStep == IInv /\ [Next]_vars => [Barrier!Next]_(Barrier!vars)
  <1> SUFFICES ASSUME IInv, [Next]_vars PROVE [Barrier!Next]_(Barrier!vars)
    OBVIOUS
  <1>1. requested \in Nat /\ acked \in Nat /\ release.epoch \in Nat
    BY ReleaseFields DEF IInv, TypeOK
  <1>2. /\ pc \in {"kb", "abs", "rel", "ack"} =>
              acked < release.epoch /\ release.epoch <= requested
        /\ pc = "write" => engaged \/ acked < requested
    BY DEF IInv, EpochInv, ReleaseInv, Drained
  <1>3. ASSUME UNCHANGED <<requested, acked, engaged, shuttingDown>>,
               engaged \/ acked < requested
        PROVE  [Barrier!Next]_(Barrier!vars)
    <2>1. CASE wire' = wire
      BY <1>3, <2>1 DEF Barrier!vars
    <2>2. CASE wire' # wire
      BY <1>3, <2>2 DEF Barrier!Next, Barrier!Deliver, Barrier!Pending
    <2> QED
      BY <2>1, <2>2
  <1> USE DEF Barrier!vars, shared, callers, writer, transport, history
  <1>4. ASSUME NEW p \in Producers, NEW event \in Events, Submit(p, event)
     PROVE [Barrier!Next]_(Barrier!vars)
    BY <1>4, <1>1, <1>2, <1>3 DEF Submit
  <1>5. ASSUME NEW p \in Producers, TriggerOverflow(p) PROVE [Barrier!Next]_(Barrier!vars)
    <2>1. Barrier!Ask
      BY <1>5 DEF TriggerOverflow, Raise, Barrier!Ask
    <2> QED
      BY <2>1 DEF Barrier!Next
  <1>6. ASSUME NEW reason \in UserReasons, RequestReleaseAll(reason) PROVE
     [Barrier!Next]_(Barrier!vars)
    <2>1. Barrier!Ask
      BY <1>6 DEF RequestReleaseAll, Raise, Barrier!Ask
    <2> QED
      BY <2>1 DEF Barrier!Next
  <1>7. CASE Engage
    <2>1. Barrier!Open
      BY <1>7, <1>1 DEF Engage, Engageable, Barrier!Open, Barrier!Pending
    <2> QED
      BY <2>1 DEF Barrier!Next
  <1>8. ASSUME NEW next \in {"joining", "dropped"}, BeginShutdown(next) PROVE
     [Barrier!Next]_(Barrier!vars)
    <2>1. Barrier!Ask
      BY <1>8 DEF BeginShutdown, Raise, Barrier!Ask
    <2> QED
      BY <2>1 DEF Barrier!Next
  <1>9. CASE Join
    BY <1>9, <1>1, <1>2, <1>3 DEF Join
  <1>10. CASE Latch
    BY <1>10, <1>1, <1>2, <1>3 DEF Latch, ServesCancel, FirstReleaseFrame
  <1>11. CASE NothingPending
    BY <1>11, <1>1, <1>2, <1>3 DEF NothingPending
  <1>12. CASE ExitOrServe
    BY <1>12, <1>1, <1>2, <1>3 DEF ExitOrServe, MayExit, Reacquires
  <1>13. CASE NextEntry
    BY <1>13, <1>1, <1>2, <1>3 DEF NextEntry
  <1>14. CASE WakeUp
    BY <1>14, <1>1, <1>2, <1>3 DEF WakeUp
  <1>15. CASE TriggerLinkDown
    <2>1. Barrier!Ask
      BY <1>15 DEF TriggerLinkDown, Raise, Barrier!Ask
    <2> QED
      BY <2>1 DEF Barrier!Next
  <1>16. CASE WriteKey
    <2>1. pc = "write" /\ UNCHANGED <<requested, acked, engaged, shuttingDown>>
      BY <1>16 DEF WriteKey
    <2>2. engaged \/ acked < requested
      BY <2>1, <1>2
    <2> QED
      BY <2>1, <2>2, <1>3
  <1>17. CASE WriteButton
    <2>1. pc = "write" /\ UNCHANGED <<requested, acked, engaged, shuttingDown>>
      BY <1>17 DEF WriteButton
    <2>2. engaged \/ acked < requested
      BY <2>1, <1>2
    <2> QED
      BY <2>1, <2>2, <1>3
  <1>18. CASE WriteMotion
    <2>1. pc = "write" /\ UNCHANGED <<requested, acked, engaged, shuttingDown>>
      BY <1>18 DEF WriteMotion
    <2>2. engaged \/ acked < requested
      BY <2>1, <1>2
    <2> QED
      BY <2>1, <2>2, <1>3
  <1>19. CASE EmitRelease
    <2>1. pc \in {"kb", "abs", "rel"}
          /\ UNCHANGED <<requested, acked, engaged, shuttingDown>>
      BY <1>19 DEF EmitRelease
    <2> QED
      BY <2>1, <1>1, <1>2, <1>3
  <1>20. CASE Record
    BY <1>20, <1>1, <1>2, <1>3 DEF Record, AfterRecord
  <1>21. CASE Acknowledge
    <2>1. pc = "ack" /\ acked' = release.epoch
          /\ UNCHANGED <<requested, engaged, shuttingDown, wire>>
      BY <1>21 DEF Acknowledge
    <2>2. Barrier!Finish
      BY <2>1, <1>1, <1>2 DEF Barrier!Finish, Barrier!Pending
    <2> QED
      BY <2>2 DEF Barrier!Next
  <1>22. CASE BackoffEnds
    BY <1>22, <1>1, <1>2, <1>3 DEF BackoffEnds
  <1>23. CASE Attempt
    BY <1>23, <1>1, <1>2, <1>3 DEF Attempt
  <1>24. CASE AwaitOpen
    BY <1>24, <1>1, <1>2, <1>3 DEF AwaitOpen, AbandonsOpen
  <1>25. CASE Begin
    <2>1. Barrier!Ask
      BY <1>25 DEF Begin, Barrier!Ask
    <2> QED
      BY <2>1 DEF Barrier!Next
  <1>26. CASE Resync
    BY <1>26, <1>1, <1>2, <1>3 DEF Resync, FirstReleaseFrame
  <1>27. CASE MarkLinkUp
    BY <1>27, <1>1, <1>2, <1>3 DEF MarkLinkUp
  <1>28. ASSUME NEW answers \in BOOLEAN, QueryInfo(answers) PROVE [Barrier!Next]_(Barrier!vars)
    BY <1>28, <1>1, <1>2, <1>3 DEF QueryInfo
  <1>29. CASE LinkHangsUp
    BY <1>29, <1>1, <1>2, <1>3 DEF LinkHangsUp
  <1>30. ASSUME NEW result \in {"opened", "failed", "died"},
     OpenReturns(result) PROVE [Barrier!Next]_(Barrier!vars)
    BY <1>30, <1>1, <1>2, <1>3 DEF OpenReturns
  <1>31. CASE UNCHANGED vars
    BY <1>31 DEF vars
  <1> QED
    BY <1>4, <1>5, <1>6, <1>7, <1>8, <1>9, <1>10, <1>11, <1>12, <1>13, <1>14,
       <1>15, <1>16, <1>17, <1>18, <1>19, <1>20, <1>21, <1>22, <1>23, <1>24,
       <1>25, <1>26, <1>27, <1>28, <1>29, <1>30, <1>31 DEF Next, CallerNext,
       WriterNext, EnvironmentNext

\* The path implements the release barrier: the queue, the writer's labels, the
\* link and its commissioning refine five variables and four actions.
THEOREM PathImplementsBarrier == Spec => ImplementsBarrier
  <1>1. Init => Barrier!Init
    BY DEF Init, Barrier!Init
  <1> QED
    BY <1>1, BarrierStep, InductiveInvariant, PTL
    DEF Spec, ImplementsBarrier, Barrier!Spec

=============================================================================
