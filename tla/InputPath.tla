----------------------------- MODULE InputPath -----------------------------
(***************************************************************************)
(* The input path of src/src/input: producers that submit events and raise *)
(* cancellations, the handle that shuts the path down, and the one writer  *)
(* thread that owns the link, delivers reports, runs release-all sequences *)
(* and commissions replacement links.                                      *)
(*                                                                         *)
(* Every critical section of the queue mutex is one action.  The writer's  *)
(* own steps are cut where another thread can see or change something: at  *)
(* each report handed to the link, each locked section and each re-read of *)
(* the cancellation flag.                                                  *)
(***************************************************************************)
EXTENDS InputQueue

CONSTANTS
    Producers,    \* threads that call Producer::submit
    Events,       \* the events they submit
    UserReasons,  \* the reasons request_release_all is called with
    Reconnect,    \* spawn_with_source (TRUE) or spawn (FALSE)
    RunMax,       \* REL_RUN_MAX, the cap on a run's accumulated deltas
    StepMax,      \* MouseRelReport::DELTA_MAX, the most one report carries
    MaxEpoch,     \* bound: users neither release nor engage from this epoch on
    MaxFaults,    \* bound: link, open and query failures in a behaviour
    Relative      \* PointerMode::Rel; an absolute mode is its position

ASSUME PathAssumption ==
    /\ Events \subseteq AllEvents
    /\ UserReasons \subseteq Reasons
    /\ Reconnect \in BOOLEAN
    /\ RunMax \in Nat /\ RunMax <= MaxDelta
    /\ StepMax \in Nat \ {0} /\ StepMax <= MaxDelta
    /\ MaxEpoch \in Nat /\ MaxFaults \in Nat
    /\ Relative \notin Positions

VARIABLES
    \* Shared, src/src/input/shared.rs
    queue, pendingReason, requested, acked, cancel, engaged, shuttingDown,
    linkDown, lastRelease,
    \* the callers' side
    overflowing,  \* producers between a refused push and its trigger
    handle,       \* the WriterHandle
    \* Writer, src/src/input/writer.rs
    pc, entry, release, held, mode,
    link,         \* the transport in service and its health
    opening,      \* the source, on the helper thread or at rest
    faults,       \* failures so far
    \* history
    wire,         \* the report last handed over, per HID device of the bridge
    late          \* input reports handed over since the cancellation was armed

shared == <<queue, pendingReason, requested, acked, cancel, engaged,
            shuttingDown, linkDown, lastRelease>>
callers == <<overflowing, handle>>
writer == <<pc, entry, release, held, mode>>
transport == <<link, opening, faults>>
history == <<wire, late>>
vars == <<shared, callers, writer, transport, history>>

-----------------------------------------------------------------------------
Modes == Positions \cup {Relative}

NoEntry == [what |-> EmptyRun, epoch |-> 0]

NoRelease == [kind |-> "none", epoch |-> 0, reason |-> NoReason,
              outcome |-> "none", back |-> "loop"]

\* The sequence in progress: what started it, the epoch it latched, its
\* reason, its outcome so far and where the writer resumes after it.
Releases == [kind: {"none", "cancel", "commission"}, epoch: Nat,
             reason: Reasons \cup {NoReason},
             outcome: {"none", "Submitted", "Unsent"}, back: {"loop", "backoff"}]

NoRecord == [epoch |-> 0, reason |-> NoReason, outcome |-> "none"]

ReleaseRecords == [epoch: Nat, reason: Reasons, outcome: {"Submitted", "Unsent"}]
                    \cup {NoRecord}

Handles == [state: {"live", "joining", "joined", "dropped"}, epoch: Nat,
            outcome: {"none", "Submitted", "Unsent"}]

Wires == [kb: KeyboardReports, abs: SUBSET Buttons, rel: SUBSET Buttons]

Labels == {"loop", "exit", "idle", "waiting", "write", "failed",
           "kb", "abs", "rel", "record", "markup", "ack",
           "backoff", "attempt", "opening", "begin", "resync", "info", "done"}

\* spawn hands the writer its link; spawn_with_source starts without one and
\* its writer begins at the first, immediate attempt.
Init ==
    /\ queue = EmptyQueue
    /\ pendingReason = NoReason
    /\ requested = 0 /\ acked = 0
    /\ cancel = FALSE /\ engaged = TRUE /\ shuttingDown = FALSE
    /\ linkDown = Reconnect
    /\ lastRelease = NoRecord
    /\ overflowing = {}
    /\ handle = [state |-> "live", epoch |-> 0, outcome |-> "none"]
    /\ pc = IF Reconnect THEN "attempt" ELSE "loop"
    /\ entry = NoEntry
    /\ release = NoRelease
    /\ held = NothingHeld
    /\ mode = Relative
    /\ link = IF Reconnect THEN "none" ELSE "up"
    /\ opening = IF Reconnect THEN "idle" ELSE "gone"
    /\ faults = 0
    /\ wire = [kb |-> KeyboardReleaseAll, abs |-> {}, rel |-> {}]
    /\ late = 0

-----------------------------------------------------------------------------
(* Cancellation triggers                                                   *)

\* Shared::raise: one critical section bumps the epoch, arms the flag and
\* disengages; the reason is noted in the slot.
Raise(reason) ==
    /\ requested' = requested + 1
    /\ pendingReason' = NoteReason(pendingReason, reason)
    /\ cancel' = TRUE
    /\ engaged' = FALSE

\* Producer::submit.  A refused event changes nothing; a transition the
\* full queue cannot take leaves the caller owing the Overflow trigger,
\* which it raises after giving up the lock.
Submit(p, event) ==
    /\ p \notin overflowing
    /\ ~shuttingDown /\ engaged /\ ~linkDown
    /\ IF Overflows(queue, event)
       THEN /\ overflowing' = overflowing \cup {p}
            /\ UNCHANGED queue
       ELSE /\ queue' = Push(queue, event, requested)
            /\ UNCHANGED overflowing
    /\ UNCHANGED <<pendingReason, requested, acked, cancel, engaged,
                   shuttingDown, linkDown, lastRelease, handle,
                   writer, transport, history>>

TriggerOverflow(p) ==
    /\ p \in overflowing
    /\ Raise("Overflow")
    /\ overflowing' = overflowing \ {p}
    /\ UNCHANGED <<queue, acked, shuttingDown, linkDown, lastRelease, handle,
                   writer, transport, history>>

RequestReleaseAll(reason) ==
    /\ requested < MaxEpoch
    /\ Raise(reason)
    /\ UNCHANGED <<queue, acked, shuttingDown, linkDown, lastRelease, callers,
                   writer, transport, history>>

\* Mutation of Engageable: a shutdown does not close recapture.
EngageableWhenAcked == acked >= requested

\* Mutation of Engageable: no release is waited for.
EngageableUnlessClosed == ~shuttingDown

Engageable == ~shuttingDown /\ acked >= requested

\* Producer::engage; a refusal changes nothing.
Engage ==
    /\ requested < MaxEpoch
    /\ Engageable /\ ~engaged
    /\ engaged' = TRUE
    /\ UNCHANGED <<queue, pendingReason, requested, acked, cancel,
                   shuttingDown, linkDown, lastRelease, callers,
                   writer, transport, history>>

\* begin_shutdown, by WriterHandle::shutdown (which goes on to join) or by
\* dropping the handle (which does not).
BeginShutdown(next) ==
    /\ handle.state = "live"
    /\ Raise("Shutdown")
    /\ shuttingDown' = TRUE
    /\ handle' = [handle EXCEPT !.state = next, !.epoch = requested + 1]
    /\ UNCHANGED <<queue, acked, linkDown, lastRelease, overflowing,
                   writer, transport, history>>

\* The join returns once the writer has; the outcome is that of a release
\* at or after the epoch this shutdown requested.
Join ==
    /\ handle.state = "joining" /\ pc = "done"
    /\ handle' = [handle EXCEPT !.state = "joined",
                    !.outcome = IF acked >= handle.epoch
                                   /\ lastRelease # NoRecord
                                   /\ lastRelease.epoch >= handle.epoch
                                THEN lastRelease.outcome ELSE "Unsent"]
    /\ UNCHANGED <<shared, overflowing, writer, transport, history>>

-----------------------------------------------------------------------------
(* The writer's loop                                                       *)

\* Mutation of FirstReleaseFrame: the keyboard is forgotten.
MouseReleaseFrame == "rel"

FirstReleaseFrame == "kb"

\* Mutation of ServesCancel: the backoff wait does not serve cancellations.
ServesInLoopOnly == pc = "loop"

\* Where the flag is read: the top of the loop, and in the backoff wait
\* after the shutdown check.
ServesCancel == pc = "loop" \/ (pc = "backoff" /\ ~shuttingDown)

\* cancellation_sequence up to its first report: latch the requested epoch,
\* take the reason, drain.  Without a usable link the release is not sent.
Latch ==
    /\ ServesCancel /\ cancel
    /\ LET unusable == link = "none" \/ linkDown
       IN /\ release' = [kind |-> "cancel", epoch |-> requested,
                         reason |-> IF pendingReason = NoReason
                                    THEN "UserRequested" ELSE pendingReason,
                         outcome |-> IF unusable THEN "Unsent" ELSE "Submitted",
                         back |-> pc]
          /\ pc' = IF unusable THEN "record" ELSE FirstReleaseFrame
    /\ pendingReason' = NoReason
    /\ queue' = DrainUpto(queue, requested)
    /\ late' = 0
    /\ UNCHANGED <<requested, acked, cancel, engaged, shuttingDown, linkDown,
                   lastRelease, callers, entry, held, mode, transport, wire>>

\* The flag was read clear at the top of the loop.
NothingPending ==
    /\ pc = "loop" /\ ~cancel
    /\ pc' = "exit"
    /\ UNCHANGED <<shared, callers, entry, release, held, mode, transport,
                   history>>

\* Mutation of MayExit: the release owed by the shutdown is not looked at.
MayExitOnRequest == shuttingDown

\* should_exit: both flags are read under the queue lock.
MayExit == shuttingDown /\ ~cancel

\* Mutation of Reacquires: an outage is left as it is.
NeverReacquires == FALSE

Reacquires == Reconnect /\ linkDown

\* should_exit, under the queue lock; then the choice between reacquiring a
\* link (which drops the old one) and serving the queue.
ExitOrServe ==
    /\ pc = "exit"
    /\ pc' = IF MayExit THEN "done" ELSE IF Reacquires THEN "backoff" ELSE "idle"
    /\ link' = IF pc' = "backoff" THEN "none" ELSE link
    /\ UNCHANGED <<shared, callers, entry, release, held, mode, opening, faults,
                   history>>

Clamp(n, bound) == IF n > bound THEN bound ELSE IF n < -bound THEN -bound ELSE n

\* cap_run
Capped(what) ==
    IF IsBarrier(what) THEN what
    ELSE [what EXCEPT !.rel = Clamp(@, RunMax), !.wheel = Clamp(@, RunMax)]

\* next_entry, under the queue lock: back to the checks, take the oldest
\* entry (discarded when stale or when there is nothing to write it to), or
\* wait.
NextEntry ==
    /\ pc = "idle"
    /\ IF cancel \/ shuttingDown
       THEN pc' = "loop" /\ UNCHANGED <<queue, entry>>
       ELSE IF queue.entries = << >>
       THEN pc' = "waiting" /\ UNCHANGED <<queue, entry>>
       ELSE LET first == Head(queue.entries)
            IN /\ queue' = Pop(queue)
               /\ IF first.epoch < acked \/ linkDown
                  THEN pc' = "loop" /\ UNCHANGED entry
                  ELSE /\ pc' = "write"
                       /\ entry' = [first EXCEPT !.what = Capped(@)]
    /\ UNCHANGED <<pendingReason, requested, acked, cancel, engaged,
                   shuttingDown, linkDown, lastRelease, callers,
                   release, held, mode, transport, history>>

\* The wait ends (notified, or after LINK_HEALTH_POLL) and note_link_lost
\* asks the link, off the queue lock.
WakeUp ==
    /\ pc = "waiting"
    /\ IF ~linkDown /\ link = "hungup"
       THEN linkDown' = TRUE /\ pc' = "failed"
       ELSE pc' = "idle" /\ UNCHANGED linkDown
    /\ UNCHANGED <<queue, pendingReason, requested, acked, cancel, engaged,
                   shuttingDown, lastRelease, callers, entry, release, held,
                   mode, transport, history>>

\* The link failed and is already marked down: raise the cancellation.
TriggerLinkDown ==
    /\ pc = "failed"
    /\ Raise("LinkDown")
    /\ pc' = "loop"
    /\ UNCHANGED <<queue, acked, shuttingDown, linkDown, lastRelease, callers,
                   entry, release, held, mode, transport, history>>

-----------------------------------------------------------------------------
(* Delivering an entry                                                     *)

\* write_frame: a device error or a timeout still counts as handed over, so
\* a healthy link hands the report over and a hung-up one is marked down.
Hand(report) ==
    IF link = "up"
    THEN /\ wire' = report
         /\ late' = IF cancel THEN late + 1 ELSE late
         /\ UNCHANGED linkDown
    ELSE linkDown' = TRUE /\ UNCHANGED history

DeviceOf(m) == IF m = Relative THEN "rel" ELSE "abs"

WriteKey ==
    /\ pc = "write" /\ entry.what.kind = "key"
    /\ LET key == entry.what
       IN /\ held' = ApplyKey(held, key.key, key.down)
          /\ IF KeyReportDue(held, key.key, key.down)
             THEN /\ Hand([wire EXCEPT !.kb = KeyboardReport(held')])
                  /\ pc' = IF link = "up" THEN "loop" ELSE "failed"
             ELSE pc' = "loop" /\ UNCHANGED <<linkDown, history>>
    /\ entry' = NoEntry
    /\ UNCHANGED <<queue, pendingReason, requested, acked, cancel, engaged,
                   shuttingDown, lastRelease, callers, release, mode, transport>>

\* A button carries no position: it goes to the device of the current mode.
WriteButton ==
    /\ pc = "write" /\ entry.what.kind = "button"
    /\ LET button == entry.what
       IN /\ held' = ApplyButtons(held, button.mask, button.down)
          /\ IF ButtonReportDue(held, button.mask, button.down)
             THEN /\ Hand([wire EXCEPT ![DeviceOf(mode)] = held'.buttons])
                  /\ pc' = IF link = "up" THEN "loop" ELSE "failed"
             ELSE pc' = "loop" /\ UNCHANGED <<linkDown, history>>
    /\ entry' = NoEntry
    /\ UNCHANGED <<queue, pendingReason, requested, acked, cancel, engaged,
                   shuttingDown, lastRelease, callers, release, mode, transport>>

\* What is left of a run after one report.  The position goes first; when
\* deltas follow it, it goes alone and the wheel rides with the deltas.
AfterReport(run) ==
    LET positionAlone == run.abs # NoPosition /\ run.rel # 0
        rest(n) == n - Clamp(n, StepMax)
    IN  IF positionAlone THEN [run EXCEPT !.abs = NoPosition]
        ELSE [run EXCEPT !.rel = rest(@), !.wheel = rest(@)]

\* The mode a run's next report is sent in.
TargetMode(run) ==
    IF run.abs # NoPosition THEN run.abs
    ELSE IF run.rel # 0 THEN Relative
    ELSE mode

\* Mutation of Abandons: a run is written to its end.
NeverAbandons == FALSE

\* The flags write_step reads after each report of a run.
Abandons == cancel \/ shuttingDown

\* flush_motion, one report at a time, the flags read after each.
WriteMotion ==
    /\ pc = "write" /\ entry.what.kind = "motion"
    /\ LET run == entry.what
           rest == AfterReport(run)
           finished == rest.rel = 0 /\ rest.wheel = 0
       IN IF run = EmptyRun
          THEN /\ pc' = "loop" /\ entry' = NoEntry
               /\ UNCHANGED <<mode, linkDown, history>>
          ELSE /\ mode' = TargetMode(run)
               /\ Hand([wire EXCEPT ![DeviceOf(TargetMode(run))] = held.buttons])
               /\ IF link # "up"
                  THEN pc' = "failed" /\ entry' = NoEntry
                  ELSE IF finished \/ Abandons
                  THEN pc' = "loop" /\ entry' = NoEntry
                  ELSE pc' = "write" /\ entry' = [entry EXCEPT !.what = rest]
    /\ UNCHANGED <<queue, pendingReason, requested, acked, cancel, engaged,
                   shuttingDown, lastRelease, callers, release, held, transport>>

-----------------------------------------------------------------------------
(* Release-all, in a cancellation or in a commissioning                    *)

AfterRelease == IF release.kind = "commission" THEN "info" ELSE "record"

\* Mutation of ReleasesAbs: only one of the mice is released.
NeverReleasesAbs == FALSE

ReleasesAbs == mode # Relative

\* emit_release_all: the keyboard, the absolute mouse only in absolute
\* mode, the relative mouse.  A failed frame ends it, unsent.
EmitRelease ==
    /\ pc \in {"kb", "abs", "rel"}
    /\ IF link = "up"
       THEN /\ wire' = [wire EXCEPT ![pc] = IF pc = "kb" THEN KeyboardReleaseAll
                                            ELSE {}]
            /\ pc' = CASE pc = "kb" /\ ReleasesAbs -> "abs"
                       [] pc = "rel" -> AfterRelease
                       [] OTHER -> "rel"
            /\ UNCHANGED <<linkDown, release>>
       ELSE /\ linkDown' = TRUE
            /\ release' = [release EXCEPT !.outcome = "Unsent"]
            /\ pc' = "record"
            /\ UNCHANGED wire
    /\ UNCHANGED <<queue, pendingReason, requested, acked, cancel, engaged,
                   shuttingDown, lastRelease, callers, entry, held, mode,
                   transport, late>>

\* Mutation of AfterRecord: a rejected link is put into service.
AcceptsRejected == IF release.kind = "commission" THEN "markup" ELSE "ack"

\* Only a commissioning that went through puts its link into service.
AfterRecord ==
    IF release.kind = "commission" /\ release.outcome = "Submitted"
    THEN "markup" ELSE "ack"

\* The tracked state is cleared and the outcome published.
Record ==
    /\ pc = "record"
    /\ held' = NothingHeld
    /\ mode' = Relative
    /\ lastRelease' = [epoch |-> release.epoch, reason |-> release.reason,
                       outcome |-> release.outcome]
    /\ pc' = AfterRecord
    /\ UNCHANGED <<queue, pendingReason, requested, acked, cancel, engaged,
                   shuttingDown, linkDown, callers, entry, release, transport,
                   history>>

\* Mutation of StillOwed: the flag is cleared whatever came in meanwhile.
NothingOwed(epoch) == FALSE

\* A trigger newer than the latched epoch is owed a release of its own.
StillOwed(epoch) == requested # epoch

\* Under the queue lock: acknowledge the latched epoch, and disarm the flag
\* only if no newer trigger is owed its own release.  A rejected link is
\* dropped.
Acknowledge ==
    /\ pc = "ack"
    /\ acked' = release.epoch
    /\ cancel' = IF StillOwed(release.epoch) THEN cancel ELSE FALSE
    /\ pc' = IF release.kind = "commission" /\ release.outcome = "Unsent"
             THEN "backoff" ELSE release.back
    /\ link' = IF release.kind = "commission" /\ release.outcome = "Unsent"
               THEN "none" ELSE link
    /\ release' = NoRelease
    /\ UNCHANGED <<queue, pendingReason, requested, engaged, shuttingDown,
                   linkDown, lastRelease, callers, entry, held, mode,
                   opening, faults, history>>

-----------------------------------------------------------------------------
(* Acquiring a replacement link                                            *)

\* backoff_wait: a shutdown ends it, a cancellation is served inside it
\* (Latch), and otherwise the deadline passes.
BackoffEnds ==
    /\ pc = "backoff"
    /\ shuttingDown \/ ~cancel
    /\ pc' = IF shuttingDown THEN "loop" ELSE "attempt"
    /\ UNCHANGED <<shared, callers, entry, release, held, mode, transport,
                   history>>

\* open_bounded hands the source to the helper thread.  Once the source is
\* gone every attempt returns at once.
Attempt ==
    /\ pc = "attempt"
    /\ IF shuttingDown \/ opening = "gone"
       THEN pc' = "loop" /\ UNCHANGED opening
       ELSE pc' = "opening" /\ opening' = "running"
    /\ UNCHANGED <<shared, callers, entry, release, held, mode, link, faults,
                   history>>

\* The helper thread finishes: it has a link, an error, or it died with the
\* source.
OpenReturns(result) ==
    /\ pc = "opening" /\ opening = "running"
    /\ result # "opened" => faults < MaxFaults
    /\ opening' = result
    /\ faults' = IF result = "opened" THEN faults ELSE faults + 1
    /\ UNCHANGED <<shared, callers, writer, link, history>>

\* Mutation of AbandonsOpen: an open in flight is waited for.
NeverAbandonsOpen == FALSE

\* The one flag polled while an open is in flight.
AbandonsOpen == opening = "running" /\ shuttingDown

\* The writer's wait in open_bounded: the helper's result first, then
\* shutdown, which abandons the source to the helper.
AwaitOpen ==
    /\ pc = "opening"
    /\ \/ /\ opening = "opened"
          /\ pc' = "begin" /\ link' = "up" /\ opening' = "idle"
       \/ /\ opening = "failed"
          /\ pc' = "backoff" /\ opening' = "idle" /\ UNCHANGED link
       \/ /\ opening = "died"
          /\ pc' = "backoff" /\ opening' = "gone" /\ UNCHANGED link
       \/ /\ AbandonsOpen
          /\ pc' = "loop" /\ opening' = "gone" /\ UNCHANGED link
    /\ UNCHANGED <<shared, callers, entry, release, held, mode, faults, history>>

\* begin_reconnect: raise an epoch of its own and take the pending reason
\* this commissioning covers.
Begin ==
    /\ pc = "begin"
    /\ requested' = requested + 1
    /\ pendingReason' = NoReason
    /\ cancel' = TRUE
    /\ engaged' = FALSE
    /\ release' = [kind |-> "commission", epoch |-> requested + 1,
                   reason |-> IF Severity(pendingReason) > Severity("Reconnected")
                              THEN pendingReason ELSE "Reconnected",
                   outcome |-> "Submitted", back |-> "loop"]
    /\ pc' = "resync"
    /\ late' = 0
    /\ UNCHANGED <<queue, acked, shuttingDown, linkDown, lastRelease, callers,
                   entry, held, mode, transport, wire>>

\* Resynchronise the bridge's parser, then drain what was queued before.
Resync ==
    /\ pc = "resync"
    /\ IF link = "up"
       THEN /\ queue' = DrainUpto(queue, release.epoch)
            /\ pc' = FirstReleaseFrame /\ UNCHANGED release
       ELSE /\ release' = [release EXCEPT !.outcome = "Unsent"]
            /\ pc' = "record" /\ UNCHANGED queue
    /\ UNCHANGED <<pendingReason, requested, acked, cancel, engaged,
                   shuttingDown, linkDown, lastRelease, callers, entry, held,
                   mode, transport, history>>

\* GET_INFO decides whether the link is accepted.  A healthy link may still
\* time out or answer nonsense.
QueryInfo(answers) ==
    /\ pc = "info"
    /\ ~answers => link # "up" \/ faults < MaxFaults
    /\ answers => link = "up"
    /\ release' = IF answers THEN release
                  ELSE [release EXCEPT !.outcome = "Unsent"]
    /\ faults' = IF ~answers /\ link = "up" THEN faults + 1 ELSE faults
    /\ pc' = "record"
    /\ UNCHANGED <<shared, callers, entry, held, mode, link, opening, history>>

\* mark_link_up
MarkLinkUp ==
    /\ pc = "markup"
    /\ linkDown' = FALSE
    /\ pc' = "ack"
    /\ UNCHANGED <<queue, pendingReason, requested, acked, cancel, engaged,
                   shuttingDown, lastRelease, callers, entry, release, held,
                   mode, transport, history>>

-----------------------------------------------------------------------------
\* The cable is pulled, or the port reports an error, at any time.
LinkHangsUp ==
    /\ link = "up" /\ faults < MaxFaults
    /\ link' = "hungup"
    /\ faults' = faults + 1
    /\ UNCHANGED <<shared, callers, writer, opening, history>>

CallerNext ==
    \/ \E p \in Producers, event \in Events : Submit(p, event)
    \/ \E p \in Producers : TriggerOverflow(p)
    \/ \E reason \in UserReasons : RequestReleaseAll(reason)
    \/ Engage
    \/ \E next \in {"joining", "dropped"} : BeginShutdown(next)
    \/ Join

WriterNext ==
    \/ Latch \/ NothingPending \/ ExitOrServe
    \/ NextEntry \/ WakeUp \/ TriggerLinkDown
    \/ WriteKey \/ WriteButton \/ WriteMotion
    \/ EmitRelease \/ Record \/ Acknowledge
    \/ BackoffEnds \/ Attempt \/ AwaitOpen
    \/ Begin \/ Resync \/ MarkLinkUp
    \/ \E answers \in BOOLEAN : QueryInfo(answers)

EnvironmentNext ==
    \/ LinkHangsUp
    \/ \E result \in {"opened", "failed", "died"} : OpenReturns(result)

Next == CallerNext \/ WriterNext \/ EnvironmentNext

Spec == Init /\ [][Next]_vars

-----------------------------------------------------------------------------
(* Fairness: the writer thread is scheduled and each of its calls on the   *)
(* link is bounded by a timeout; a thread that owes the overflow trigger   *)
(* raises it; a join returns.  Nothing bounds the open on the helper       *)
(* thread, so OpenReturns has no fairness.                                 *)

Fairness ==
    /\ WF_vars(WriterNext)
    /\ \A p \in Producers : WF_vars(TriggerOverflow(p))
    /\ WF_vars(Join)

FairSpec == Spec /\ Fairness

-----------------------------------------------------------------------------
(* Properties                                                              *)

TypeOK ==
    /\ queue \in Queues
    /\ pendingReason \in Reasons \cup {NoReason}
    /\ requested \in Nat /\ acked \in Nat
    /\ cancel \in BOOLEAN /\ engaged \in BOOLEAN
    /\ shuttingDown \in BOOLEAN /\ linkDown \in BOOLEAN
    /\ lastRelease \in ReleaseRecords
    /\ overflowing \subseteq Producers
    /\ handle \in Handles
    /\ pc \in Labels
    /\ entry \in Entries
    /\ release \in Releases
    /\ held \in Held
    /\ mode \in Modes
    /\ link \in {"none", "up", "hungup"}
    /\ opening \in {"idle", "running", "opened", "failed", "died", "gone"}
    /\ faults \in Nat
    /\ wire \in Wires
    /\ late \in Nat

\* A release that is owed stays armed: whatever order triggers and the
\* acknowledgement come in, no epoch is left requested with nothing scheduled
\* to serve it (cancellation_sequence and commission, the conditional clear).
NoLostRelease == acked <= requested /\ (acked < requested => cancel)

\* Input is admitted only in a session whose releases are all acknowledged
\* and that no shutdown has closed (Producer::engage against raise).
EngagedMeansReleased ==
    engaged => acked = requested /\ ~shuttingDown /\ ~cancel

\* Nothing submitted before a release survives it: whatever is queued or being
\* written belongs to the last acknowledged epoch, and a disengaged path with
\* no release pending has an empty queue.
NoReplay ==
    /\ OfEpoch(queue, acked)
    /\ pc = "write" => entry.epoch = acked
    /\ ~cancel /\ ~engaged => queue.entries = << >>

\* Cancellation is checked between reports, those of one motion run included:
\* once it is armed at most one more input report is handed over before the
\* release is latched.
PromptRelease == late <= 1

\* The queue is bounded whatever the producers do: never more barriers than
\* the limit, counted exactly, and at most one motion run between two of them.
QueueBounded ==
    /\ BarriersCounted(queue)
    /\ queue.barriers <= BarrierLimit
    /\ Len(queue.entries) <= 2 * BarrierLimit + 1

\* The path is at rest after a release it reported as submitted.
ReleasedAndSent ==
    acked = requested /\ ~engaged /\ lastRelease.outcome = "Submitted"

\* A release-all reported as submitted left no key and no relative-mouse
\* button down in the last reports handed over, until input is engaged again.
ReleaseClearsKeys ==
    ReleasedAndSent => /\ wire.kb = KeyboardReleaseAll
                       /\ wire.rel = {}

\* The same of both mice the bridge exposes: docs/protocol.md:87 has the
\* release clear both.
ReleaseClears ==
    ReleasedAndSent => wire = [kb |-> KeyboardReleaseAll, abs |-> {}, rel |-> {}]

\* The writer exits only behind the shutdown's own release, and a shutdown
\* that reports Submitted leaves nothing down.
ShutdownHonest ==
    /\ pc = "done" => handle.state # "live" /\ acked >= handle.epoch
    /\ handle.outcome = "Submitted" => /\ wire.kb = KeyboardReleaseAll
                                       /\ wire.rel = {}

\* Between entries, on a link in service, the last reports handed over show
\* exactly what is held: no transition was reported twice, dropped or undone.
WireMatchesHeld ==
    pc \in {"loop", "exit", "idle", "waiting"} /\ ~linkDown =>
        /\ wire.kb = KeyboardReport(held)
        /\ wire[DeviceOf(mode)] = held.buttons

\* A key appears in a report only by its own press: a key suppressed by a
\* full report is never promoted when a slot frees.
NoPromotion ==
    [][\A key \in wire'.kb.keys \ wire.kb.keys :
          /\ pc = "write"
          /\ entry.what = [kind |-> "key", key |-> key, down |-> TRUE]]_vars

\* The release that first covers a shutdown says so, whichever triggers and
\* commissionings it coalesced with.
ShutdownReasonKept ==
    [][handle.state # "live" /\ acked < handle.epoch /\ acked' >= handle.epoch
         => lastRelease.reason = "Shutdown"]_vars

\* A replacement link enters service only after its own release was sent,
\* with an empty queue, and with input disengaged until it is recaptured.
RecaptureAfterReconnect ==
    [][linkDown /\ ~linkDown' =>
          /\ ~engaged' /\ queue'.entries = << >>
          /\ lastRelease'.outcome = "Submitted"
          /\ lastRelease'.epoch > acked]_vars

-----------------------------------------------------------------------------
(* The inductive strengthening of the safety properties                    *)

\* Steps between the drain of a sequence and its acknowledgement.
Drained == {"kb", "abs", "rel", "info", "record", "markup", "ack"}

\* Steps of acquiring a link before that drain.
Acquiring == {"backoff", "attempt", "opening", "begin", "resync"}

WireCleared == wire.kb = KeyboardReleaseAll /\ wire.rel = {}

\* The flag is armed exactly while a release is owed, and a sequence serves
\* an epoch that is still owed.
EpochInv ==
    /\ acked <= requested
    /\ cancel <=> acked < requested
    /\ engaged => ~cancel /\ ~shuttingDown
    /\ pc \in Drained \cup {"resync"} =>
          acked < release.epoch /\ release.epoch <= requested

\* Nothing is queued while a link is acquired or a drained sequence runs.
QueueInv ==
    /\ BarriersCounted(queue) /\ queue.barriers <= BarrierLimit
    /\ OfEpoch(queue, acked)
    /\ ~cancel /\ ~engaged => queue.entries = << >>
    /\ pc \in Drained \cup Acquiring => queue.entries = << >>
    /\ pc \in Acquiring => linkDown
    /\ pc \in Drained \ {"ack"} /\ release.kind = "commission" => linkDown
    /\ pc = "ack" /\ release.kind = "commission" /\ release.outcome = "Unsent" =>
          linkDown
    /\ pc \in Drained /\ release.back = "backoff" =>
          linkDown /\ release.kind = "cancel"
    /\ pc = "markup" => release.kind = "commission"
    /\ pc = "resync" => release.kind = "commission" /\ release.back = "loop"
    /\ linkDown /\ queue.entries # << >> =>
          pc = "failed" \/ (pc = "loop" /\ cancel)
    /\ pc = "write" => entry.epoch = acked /\ ~linkDown

\* The one report that can follow a trigger sends the writer to the release.
LateInv == late = 0 \/ (late = 1 /\ pc = "loop" /\ cancel)

\* What a sequence has released so far, and what a submitted one leaves.
ReleaseInv ==
    /\ pc = "write" => engaged \/ cancel
    /\ pc \in {"abs", "rel", "info"} => wire.kb = KeyboardReleaseAll
    /\ pc = "info" => wire.rel = {}
    /\ pc \in {"record", "markup", "ack"} =>
          /\ release.outcome \in {"Submitted", "Unsent"}
          /\ release.outcome = "Submitted" => WireCleared
    /\ pc \in Drained \cup {"resync"} => release.reason \in Reasons
    /\ pc \in {"kb", "abs", "rel", "info", "resync"} =>
          release.outcome = "Submitted"
    /\ pc \in {"markup", "ack"} =>
          lastRelease = [epoch |-> release.epoch, reason |-> release.reason,
                         outcome |-> release.outcome]
    /\ pc = "markup" => release.outcome = "Submitted"
    /\ ~cancel /\ ~engaged /\ lastRelease.outcome = "Submitted" => WireCleared

\* The shutdown's release is owed until it is acknowledged, and its reason
\* outlives whatever it coalesces with.
ShutdownInv ==
    /\ shuttingDown <=> handle.state # "live"
    /\ handle.epoch <= requested
    /\ pc = "done" => /\ shuttingDown /\ acked >= handle.epoch
                      /\ lastRelease.outcome = "Submitted" => WireCleared
    /\ handle.outcome = "Submitted" => pc = "done" /\ WireCleared
    /\ shuttingDown /\ acked < handle.epoch =>
          \/ /\ pendingReason = "Shutdown"
             /\ pc \in Drained \cup {"resync"} => release.epoch < handle.epoch
          \/ /\ pc \in Drained \cup {"resync"}
             /\ release.epoch >= handle.epoch
             /\ release.reason = "Shutdown"

IInv == TypeOK /\ EpochInv /\ QueueInv /\ LateInv /\ ReleaseInv /\ ShutdownInv

\* Steps of serving the queue.
Serving == {"loop", "exit", "idle", "waiting", "write"}

WireShowsHeld ==
    wire.kb = KeyboardReport(held) /\ wire[DeviceOf(mode)] = held.buttons

\* The reports follow the held state while the link is in service, and a
\* release that was not sent leaves it out of service.
MatchInv ==
    /\ link = "none" \/ pc = "failed" => linkDown
    /\ pc \in Serving /\ ~linkDown => WireShowsHeld
    /\ pc \in {"record", "ack"} /\ release.outcome = "Unsent" => linkDown
    /\ pc \in {"markup", "ack"} => held = NothingHeld /\ mode = Relative
    /\ pc = "info" => release.kind = "commission"
    /\ pc \in {"begin", "resync", "kb", "abs", "rel", "info", "markup"} => link # "none"
    /\ pc = "record" /\ release.outcome = "Submitted" => link # "none"

\* A link that is never replaced, and a pointer that only moves absolutely.
FixedAbsolute == ~Reconnect /\ \A event \in Events : event.kind # "rel"

MovesAbsolutely(what) == what.kind = "motion" => what.rel = 0

\* In such a session the absolute mouse is clear whenever the mode says so.
MouseInv ==
    /\ pc \notin Acquiring \cup {"info", "markup"}
    /\ release.kind # "commission" /\ release.back = "loop"
    /\ \A i \in DOMAIN queue.entries : MovesAbsolutely(queue.entries[i].what)
    /\ pc = "write" => MovesAbsolutely(entry.what)
    /\ pc \in {"kb", "abs", "rel"} => ~linkDown
    /\ mode = Relative /\ ~linkDown => wire.abs = {}
    /\ pc = "rel" => wire.abs = {}
    /\ pc \in {"record", "ack"} /\ release.outcome = "Submitted" => wire.abs = {}
    /\ ~cancel /\ ~engaged /\ lastRelease.outcome = "Submitted" => wire.abs = {}

-----------------------------------------------------------------------------
Barrier == INSTANCE ReleaseBarrier WITH
    asked <- requested, done <- acked, open <- engaged, closed <- shuttingDown,
    delivered <- wire

\* The path implements the release barrier it promises.
ImplementsBarrier == Barrier!Spec

\* Shutdown ends the writer, even when an open never returns.
ShutdownCompletes == handle.state # "live" ~> pc = "done"

\* Every open returns in the end.
OpensReturn == []<>(opening # "running")

\* A cancellation is acknowledged, or the writer has exited before it came,
\* provided opens return.
CancelServed == OpensReturn => (cancel ~> (~cancel \/ pc = "done"))

\* docs/architecture.md has cancellation serviceable during waits, the open
\* included.
CancelServedDuringOpen == cancel ~> (~cancel \/ pc = "done")

\* An outage ends, once faults stop, unless the path shuts down or the source
\* died with its helper.
LinkRestored ==
    OpensReturn => (linkDown ~> (~linkDown \/ shuttingDown \/ opening = "gone"))

=============================================================================
