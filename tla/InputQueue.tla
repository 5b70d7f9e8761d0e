----------------------------- MODULE InputQueue -----------------------------
(***************************************************************************)
(* The bounded input queue (src/src/input/queue.rs).  Motion coalesces     *)
(* into the run at the tail; key and button transitions are barriers, of   *)
(* which at most MaxBarriers are queued.  The two relative axes are added  *)
(* up and saturate alike, so a run keeps one of them (rel).                *)
(***************************************************************************)
EXTENDS HeldState, Integers, Sequences

CONSTANTS
    Positions,   \* absolute pointer positions
    NoPosition,  \* MotionRun::abs == None
    MaxDelta,    \* i32::MAX; the accumulators saturate at it
    MaxBarriers  \* Config::max_barriers

ASSUME PositionAssumption == NoPosition \notin Positions

ASSUME BoundsAssumption == MaxDelta \in Nat /\ MaxBarriers \in Nat

Deltas == -(MaxDelta + 1) .. MaxDelta

\* i32::saturating_add
SaturatingAdd(a, b) ==
    CASE a + b > MaxDelta -> MaxDelta
      [] a + b < -(MaxDelta + 1) -> -(MaxDelta + 1)
      [] OTHER -> a + b

KeyEvents == [kind: {"key"}, key: Keys, down: BOOLEAN]
ButtonEvents == [kind: {"button"}, mask: SUBSET Buttons, down: BOOLEAN]
Transitions == KeyEvents \cup ButtonEvents
MotionEvents == [kind: {"abs"}, position: Positions]
                  \cup [kind: {"rel", "wheel"}, delta: Deltas]
AllEvents == Transitions \cup MotionEvents

MotionRuns == [kind: {"motion"}, abs: Positions \cup {NoPosition},
               rel: Deltas, wheel: Deltas]

EmptyRun == [kind |-> "motion", abs |-> NoPosition, rel |-> 0, wheel |-> 0]

IsBarrier(what) == what.kind # "motion"

Entries == [what: Transitions \cup MotionRuns, epoch: Nat]

Queues == [entries: Seq(Entries), barriers: Nat]

EmptyQueue == [entries |-> << >>, barriers |-> 0]

\* A bound of zero is raised to one.
BarrierLimit == IF MaxBarriers = 0 THEN 1 ELSE MaxBarriers

IsTransition(event) == event.kind \in {"key", "button"}

Overflows(q, event) == IsTransition(event) /\ q.barriers >= BarrierLimit

\* The tail can take more motion only when it is a run of the same epoch.
TailIsRun(q, epoch) ==
    /\ q.entries # << >>
    /\ LET tail == q.entries[Len(q.entries)]
       IN  ~IsBarrier(tail.what) /\ tail.epoch = epoch

Merge(run, event) ==
    CASE event.kind = "abs"   -> [run EXCEPT !.abs = event.position]
      [] event.kind = "rel"   -> [run EXCEPT !.rel = SaturatingAdd(@, event.delta)]
      [] event.kind = "wheel" -> [run EXCEPT !.wheel = SaturatingAdd(@, event.delta)]

PushMotion(q, event, epoch) ==
    IF TailIsRun(q, epoch)
    THEN [q EXCEPT !.entries[Len(q.entries)].what = Merge(@, event)]
    ELSE [q EXCEPT !.entries =
            Append(@, [what |-> Merge(EmptyRun, event), epoch |-> epoch])]

PushBarrier(q, event, epoch) ==
    [entries  |-> Append(q.entries, [what |-> event, epoch |-> epoch]),
     barriers |-> q.barriers + 1]

\* The push of one event that does not overflow.
Push(q, event, epoch) ==
    IF IsTransition(event) THEN PushBarrier(q, event, epoch)
    ELSE PushMotion(q, event, epoch)

\* Mutation of Pop: the barrier count is left alone.
PopUncounted(q) == [entries |-> Tail(q.entries), barriers |-> q.barriers]

\* The oldest entry leaves.
Pop(q) ==
    [entries  |-> Tail(q.entries),
     barriers |-> IF IsBarrier(Head(q.entries).what) THEN q.barriers - 1
                  ELSE q.barriers]

BarrierIndices(s) == {i \in DOMAIN s : IsBarrier(s[i].what)}

\* Mutation of DrainUpto: coalesced motion is kept.
DrainKeepingMotion(q, epoch) ==
    LET Kept(e) == e.epoch > epoch \/ ~IsBarrier(e.what)
        kept == SelectSeq(q.entries, Kept)
    IN  [entries |-> kept, barriers |-> Cardinality(BarrierIndices(kept))]

\* Keeps the entries above the epoch and recounts the barriers among them;
\* with none above it nothing is left.
DrainUpto(q, epoch) ==
    LET Newer(e) == e.epoch > epoch
        kept == SelectSeq(q.entries, Newer)
    IN  IF \E i \in DOMAIN q.entries : Newer(q.entries[i])
        THEN [entries |-> kept, barriers |-> Cardinality(BarrierIndices(kept))]
        ELSE EmptyQueue

\* The counter equals the number of barriers among the entries.
BarriersCounted(q) ==
    /\ IsFiniteSet(BarrierIndices(q.entries))
    /\ q.barriers = Cardinality(BarrierIndices(q.entries))

\* Motion has coalesced: no two motion runs are next to each other.
RunsApart(s) ==
    \A i \in DOMAIN s :
       i > 1 /\ ~IsBarrier(s[i].what) => IsBarrier(s[i - 1].what)

\* Every queued entry was submitted in the given epoch.
OfEpoch(q, epoch) == \A i \in DOMAIN q.entries : q.entries[i].epoch = epoch

-----------------------------------------------------------------------------
(* The reason slot beside the queue: coalesced triggers keep the most      *)
(* severe reason, ties going to the first.                                 *)

Reasons == {"FocusLost", "CaptureReleased", "UserRequested", "Overflow",
            "LinkDown", "Reconnected", "Shutdown"}

NoReason == "none"

Severity(reason) ==
    CASE reason = "Shutdown" -> 3
      [] reason \in {"LinkDown", "Reconnected"} -> 2
      [] reason = "Overflow" -> 1
      [] OTHER -> 0

\* Mutation of NoteReason: the first reason stays.
NoteFirstReason(pending, reason) == IF pending = NoReason THEN reason ELSE pending

NoteReason(pending, reason) ==
    IF pending = NoReason \/ Severity(reason) > Severity(pending)
    THEN reason ELSE pending

=============================================================================
