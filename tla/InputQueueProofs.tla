-------------------------- MODULE InputQueueProofs --------------------------
(***************************************************************************)
(* Lemmas about the held set and the queue operators: what each returns,   *)
(* that the barrier counter counts, and that a push never mixes epochs.    *)
(***************************************************************************)
EXTENDS InputQueue, FiniteSetTheorems, SequenceTheorems, TLAPS

\* apply_key keeps the held set well formed.
LEMMA ApplyKeyType ==
    ASSUME NEW h \in Held, NEW key \in Keys, NEW down \in BOOLEAN
    PROVE  ApplyKey(h, key, down) \in Held
  BY DEF ApplyKey, Held, Keys, Released, Admitted, HasFreeSlot

\* apply_button keeps the held set well formed.
LEMMA ApplyButtonsType ==
    ASSUME NEW h \in Held, NEW mask \in SUBSET Buttons, NEW down \in BOOLEAN
    PROVE  ApplyButtons(h, mask, down) \in Held
  BY DEF ApplyButtons, Held

\* A key transition leaves the buttons alone.
LEMMA ApplyKeyButtons ==
    ASSUME NEW h \in Held, NEW key \in Keys, NEW down \in BOOLEAN
    PROVE  ApplyKey(h, key, down).buttons = h.buttons
  BY DEF ApplyKey, Held, Keys, Released, Admitted, HasFreeSlot

\* A transition that is not reported changes nothing a report shows.
LEMMA KeyNotDue ==
    ASSUME NEW h \in Held, NEW key \in Keys, NEW down \in BOOLEAN,
           ~KeyReportDue(h, key, down)
    PROVE  KeyboardReport(ApplyKey(h, key, down)) = KeyboardReport(h)
  BY KeyAssumption DEF KeyReportDue, KeyboardReport, ApplyKey, Held, Keys, Released,
         Admitted, HasFreeSlot

\* A key is reported by its own press and by nothing else.
LEMMA ReportedByPress ==
    ASSUME NEW h \in Held, NEW key \in Keys, NEW down \in BOOLEAN
    PROVE  \A new \in ApplyKey(h, key, down).reported \ h.reported :
              new = key /\ down = TRUE
  BY DEF ApplyKey, Held, Keys, Released, Admitted, HasFreeSlot

\* A report shows usages and modifiers only.
LEMMA KeyboardReportType ==
    ASSUME NEW h \in Held
    PROVE  KeyboardReport(h) \in KeyboardReports
  BY DEF KeyboardReport, KeyboardReports, Held

\* Twice is once and once more.
LEMMA TwoTimes == \A n \in Nat : n + (n + 1) = 2 * n + 1
  OBVIOUS

\* Accumulators stay in the range of an i32, scaled to MaxDelta.
LEMMA SaturatingAddType ==
    ASSUME NEW a \in Deltas, NEW b \in Deltas
    PROVE  SaturatingAdd(a, b) \in Deltas
  BY BoundsAssumption DEF SaturatingAdd, Deltas

\* Folding a motion event into a run gives a run.
LEMMA MergeType ==
    ASSUME NEW run \in MotionRuns, NEW event \in MotionEvents
    PROVE  Merge(run, event) \in MotionRuns
  <1>1. CASE event.kind = "abs"
    BY <1>1 DEF Merge, MotionRuns, MotionEvents
  <1>2. CASE event.kind = "rel"
    <2>1. event.delta \in Deltas /\ run.rel \in Deltas
      BY <1>2 DEF MotionRuns, MotionEvents
    <2>2. SaturatingAdd(run.rel, event.delta) \in Deltas
      BY <2>1, SaturatingAddType
    <2> QED
      BY <1>2, <2>2 DEF Merge, MotionRuns
  <1>3. CASE event.kind = "wheel"
    <2>1. event.delta \in Deltas /\ run.wheel \in Deltas
      BY <1>3 DEF MotionRuns, MotionEvents
    <2>2. SaturatingAdd(run.wheel, event.delta) \in Deltas
      BY <2>1, SaturatingAddType
    <2> QED
      BY <1>3, <2>2 DEF Merge, MotionRuns
  <1> QED
    BY <1>1, <1>2, <1>3 DEF MotionEvents

\* A run that carries nothing is a run.
LEMMA EmptyRunType == EmptyRun \in MotionRuns
  BY BoundsAssumption DEF EmptyRun, MotionRuns, Deltas

\* What an event is, by its kind.
LEMMA EventKinds ==
    ASSUME NEW event \in AllEvents
    PROVE  /\ IsTransition(event) => event \in Transitions /\ IsBarrier(event)
           /\ ~IsTransition(event) => event \in MotionEvents
  BY DEF AllEvents, IsTransition, IsBarrier, Transitions, KeyEvents,
         ButtonEvents, MotionEvents

\* A motion run is not a barrier.
LEMMA RunIsNoBarrier ==
    ASSUME NEW run \in MotionRuns
    PROVE  ~IsBarrier(run)
  BY DEF MotionRuns, IsBarrier

\* The other entries of the queue are barriers.
LEMMA WhatKinds ==
    ASSUME NEW what \in Transitions \cup MotionRuns
    PROVE  /\ IsBarrier(what) => what \in Transitions
           /\ ~IsBarrier(what) => what \in MotionRuns
  BY DEF IsBarrier, Transitions, KeyEvents, ButtonEvents, MotionRuns

-----------------------------------------------------------------------------
\* The empty queue is well formed.
LEMMA EmptyQueueType ==
    /\ EmptyQueue \in Queues
    /\ BarriersCounted(EmptyQueue)
    /\ \A epoch \in Nat : OfEpoch(EmptyQueue, epoch)
  <1>1. BarrierIndices(<< >>) = {}
    BY DEF BarrierIndices
  <1>2. << >> \in Seq(Entries) /\ DOMAIN << >> = {}
    BY EmptySeq
  <1> QED
    BY <1>1, <1>2, FS_EmptySet
    DEF EmptyQueue, Queues, BarriersCounted, OfEpoch

\* A drain through an epoch no entry is above leaves nothing.
LEMMA DrainEmpties ==
    ASSUME NEW q \in Queues, NEW epoch \in Nat, NEW old \in Nat,
           OfEpoch(q, old), old <= epoch
    PROVE  DrainUpto(q, epoch) = EmptyQueue
  BY DEF DrainUpto, OfEpoch

\* A barrier is appended in the epoch it is submitted in, and counted.
LEMMA PushBarrierType ==
    ASSUME NEW q \in Queues, NEW event \in Transitions, NEW epoch \in Nat,
           IsBarrier(event), BarriersCounted(q), OfEpoch(q, epoch)
    PROVE  /\ PushBarrier(q, event, epoch) \in Queues
           /\ BarriersCounted(PushBarrier(q, event, epoch))
           /\ OfEpoch(PushBarrier(q, event, epoch), epoch)
  <1> DEFINE s == q.entries
             e == [what |-> event, epoch |-> epoch]
             t == Append(s, e)
  <1>1. s \in Seq(Entries) /\ q.barriers \in Nat /\ e \in Entries
    BY DEF Queues, Entries
  <1>2. /\ t \in Seq(Entries) /\ Len(t) = Len(s) + 1
        /\ \A i \in 1..Len(s) : t[i] = s[i]
        /\ t[Len(s) + 1] = e
        /\ Len(s) \in Nat /\ DOMAIN s = 1..Len(s) /\ DOMAIN t = 1..Len(t)
    BY <1>1, AppendProperties, LenProperties
  <1>3. DOMAIN t = DOMAIN s \cup {Len(s) + 1} /\ Len(s) + 1 \notin DOMAIN s
    BY <1>2
  <1>4. BarrierIndices(t) = BarrierIndices(s) \cup {Len(s) + 1}
    BY <1>2, <1>3 DEF BarrierIndices
  <1>5. Len(s) + 1 \notin BarrierIndices(s)
    BY <1>3 DEF BarrierIndices
  <1>6. /\ IsFiniteSet(BarrierIndices(t))
        /\ Cardinality(BarrierIndices(t)) = Cardinality(BarrierIndices(s)) + 1
    BY <1>4, <1>5, FS_AddElement DEF BarriersCounted
  <1>7. \A i \in DOMAIN t : t[i].epoch = epoch
    BY <1>2, <1>3 DEF OfEpoch
  <1> HIDE DEF s, e, t
  <1>8. PushBarrier(q, event, epoch) = [entries |-> t, barriers |-> q.barriers + 1]
    BY DEF PushBarrier, s, e, t
  <1>9. q.barriers = Cardinality(BarrierIndices(s))
    BY DEF BarriersCounted, s
  <1> QED
    BY <1>1, <1>2, <1>6, <1>7, <1>8, <1>9
    DEF Queues, BarriersCounted, OfEpoch

\* Motion is folded into the tail run or starts one; the barriers stay.
LEMMA PushMotionType ==
    ASSUME NEW q \in Queues, NEW event \in MotionEvents, NEW epoch \in Nat,
           BarriersCounted(q), OfEpoch(q, epoch)
    PROVE  /\ PushMotion(q, event, epoch) \in Queues
           /\ BarriersCounted(PushMotion(q, event, epoch))
           /\ OfEpoch(PushMotion(q, event, epoch), epoch)
  <1> DEFINE s == q.entries
             n == Len(s)
  <1>1. /\ s \in Seq(Entries) /\ q.barriers \in Nat
        /\ n \in Nat /\ DOMAIN s = 1..n
    BY LenProperties DEF Queues
  <1>2. CASE TailIsRun(q, epoch)
    <2> DEFINE e == [s[n] EXCEPT !.what = Merge(@, event)]
               t == [s EXCEPT ![n] = e]
    <2>1. n \in 1..n
      BY <1>1, <1>2, EmptySeq DEF TailIsRun
    <2>2. s[n] \in Entries /\ ~IsBarrier(s[n].what)
      BY <1>1, <1>2, <2>1, ElementOfSeq DEF TailIsRun
    <2>3. s[n].what \in MotionRuns
      BY <2>2, WhatKinds DEF Entries
    <2>4. Merge(s[n].what, event) \in MotionRuns
      BY <2>3, MergeType
    <2>5. /\ e \in Entries /\ e.epoch = s[n].epoch
          /\ e.what = Merge(s[n].what, event)
      BY <2>2, <2>4 DEF Entries
    <2>6. ~IsBarrier(e.what)
      BY <2>4, <2>5, RunIsNoBarrier
    <2> HIDE DEF e
    <2>7. /\ t \in Seq(Entries) /\ Len(t) = n
          /\ \A j \in 1..n : t[j] = IF j = n THEN e ELSE s[j]
      BY <1>1, <2>1, <2>5, ExceptSeq
    <2>8. DOMAIN t = 1..n
      BY <1>1
    <2> HIDE DEF t
    <2>9. BarrierIndices(t) = BarrierIndices(s)
      BY <1>1, <2>2, <2>6, <2>7, <2>8 DEF BarrierIndices
    <2>10. \A i \in DOMAIN t : t[i].epoch = epoch
      <3>1. \A i \in 1..n : s[i].epoch = epoch
        BY <1>1 DEF OfEpoch
      <3>2. e.epoch = epoch
        BY <3>1, <2>1, <2>5
      <3> QED
        BY <3>1, <3>2, <2>7, <2>8
    <2>11. PushMotion(q, event, epoch) = [q EXCEPT !.entries = t]
      BY <1>2, <2>1 DEF PushMotion, t, e
    <2>12. PushMotion(q, event, epoch) = [entries |-> t, barriers |-> q.barriers]
      BY <2>11 DEF Queues
    <2> QED
      BY <1>1, <2>7, <2>9, <2>10, <2>12 DEF Queues, BarriersCounted, OfEpoch
  <1>3. CASE ~TailIsRun(q, epoch)
    <2> DEFINE e == [what |-> Merge(EmptyRun, event), epoch |-> epoch]
               t == Append(s, e)
    <2>1. Merge(EmptyRun, event) \in MotionRuns
      BY EmptyRunType, MergeType
    <2>2. e \in Entries /\ ~IsBarrier(e.what)
      BY <2>1, RunIsNoBarrier DEF Entries
    <2>3. /\ t \in Seq(Entries) /\ Len(t) = n + 1
          /\ \A i \in 1..n : t[i] = s[i]
          /\ t[n + 1] = e
      BY <1>1, <2>2, AppendProperties
    <2>4. DOMAIN t = 1..n + 1
      BY <2>3, LenProperties
    <2>5. e.epoch = epoch
      OBVIOUS
    <2> HIDE DEF e, t
    <2>6. BarrierIndices(t) = BarrierIndices(s)
      BY <1>1, <2>2, <2>3, <2>4 DEF BarrierIndices
    <2>7. \A i \in DOMAIN t : t[i].epoch = epoch
      <3>1. \A i \in 1..n : s[i].epoch = epoch
        BY <1>1 DEF OfEpoch
      <3>2. \A i \in 1..n : t[i].epoch = epoch
        BY <3>1, <2>3
      <3>3. t[n + 1].epoch = epoch
        BY <2>3, <2>5
      <3>4. \A i \in DOMAIN t : i \in 1..n \/ i = n + 1
        BY <1>1, <2>4
      <3> QED
        BY <3>2, <3>3, <3>4
    <2>8. PushMotion(q, event, epoch) = [q EXCEPT !.entries = t]
      BY <1>3 DEF PushMotion, t, e
    <2>9. PushMotion(q, event, epoch) = [entries |-> t, barriers |-> q.barriers]
      BY <2>8 DEF Queues
    <2> QED
      BY <1>1, <2>3, <2>6, <2>7, <2>9 DEF Queues, BarriersCounted, OfEpoch
  <1> QED
    BY <1>2, <1>3

\* A push of any event keeps the queue well formed and of one epoch.
LEMMA PushType ==
    ASSUME NEW q \in Queues, NEW event \in AllEvents, NEW epoch \in Nat,
           BarriersCounted(q), OfEpoch(q, epoch)
    PROVE  /\ Push(q, event, epoch) \in Queues
           /\ BarriersCounted(Push(q, event, epoch))
           /\ OfEpoch(Push(q, event, epoch), epoch)
  BY EventKinds, PushBarrierType, PushMotionType DEF Push

\* The barriers of the tail are those of the sequence, one place earlier.
LEMMA TailBarriers ==
    ASSUME NEW s \in Seq(Entries), s # << >>, IsFiniteSet(BarrierIndices(s))
    PROVE  /\ IsFiniteSet(BarrierIndices(Tail(s)))
           /\ Cardinality(BarrierIndices(Tail(s)))
                = IF IsBarrier(Head(s).what)
                  THEN Cardinality(BarrierIndices(s)) - 1
                  ELSE Cardinality(BarrierIndices(s))
  <1> DEFINE B == BarrierIndices(s)
             R == B \ {1}
             T == BarrierIndices(Tail(s))
             f == [i \in R |-> i - 1]
  <1>1. /\ Tail(s) \in Seq(Entries) /\ Len(Tail(s)) = Len(s) - 1
        /\ \A i \in 1..Len(Tail(s)) : Tail(s)[i] = s[i + 1]
        /\ Len(s) \in Nat \ {0}
        /\ DOMAIN s = 1..Len(s) /\ DOMAIN Tail(s) = 1..Len(Tail(s))
        /\ Head(s) = s[1]
    BY HeadTailProperties, LenProperties, EmptySeq
  <1>2. \A i \in R : i - 1 \in T
    BY <1>1 DEF BarrierIndices
  <1>3. \A j \in T : j + 1 \in R
    BY <1>1 DEF BarrierIndices
  <1>4. R \subseteq Int /\ T \subseteq Int
    BY <1>1 DEF BarrierIndices
  <1> HIDE DEF R, T
  <1>5. f \in Bijection(R, T)
    <2>1. f \in [R -> T]
      BY <1>2
    <2>2. \A i, j \in R : f[i] = f[j] => i = j
      BY <1>4
    <2>3. \A j \in T : j + 1 \in R /\ f[j + 1] = j
      BY <1>3, <1>4
    <2> QED
      BY <2>1, <2>2, <2>3 DEF Bijection, Injection, Surjection, IsInjective
  <1>6. IsFiniteSet(R)
    BY FS_Subset DEF R
  <1>7. IsFiniteSet(T) /\ Cardinality(T) = Cardinality(R)
    BY <1>5, <1>6, FS_Bijection DEF ExistsBijection
  <1>8. 1 \in B <=> IsBarrier(Head(s).what)
    BY <1>1 DEF BarrierIndices
  <1>9. Cardinality(R) = IF 1 \in B THEN Cardinality(B) - 1 ELSE Cardinality(B)
    BY FS_RemoveElement DEF R
  <1> QED
    BY <1>7, <1>8, <1>9 DEF T

\* Taking the oldest entry keeps the queue well formed and counted.
LEMMA PopType ==
    ASSUME NEW q \in Queues, NEW epoch \in Nat, q.entries # << >>,
           BarriersCounted(q), OfEpoch(q, epoch)
    PROVE  /\ Pop(q) \in Queues
           /\ BarriersCounted(Pop(q))
           /\ OfEpoch(Pop(q), epoch)
           /\ Head(q.entries) \in Entries
           /\ Head(q.entries).epoch = epoch
  <1> DEFINE s == q.entries
             b == IF IsBarrier(Head(s).what) THEN q.barriers - 1 ELSE q.barriers
  <1>1. s \in Seq(Entries) /\ q.barriers \in Nat
    BY DEF Queues
  <1>2. /\ Head(s) \in Entries /\ Tail(s) \in Seq(Entries)
        /\ Len(Tail(s)) = Len(s) - 1
        /\ \A i \in 1..Len(Tail(s)) : Tail(s)[i] = s[i + 1]
    BY <1>1, HeadTailProperties
  <1>3. /\ Len(s) \in Nat \ {0} /\ DOMAIN s = 1..Len(s)
        /\ DOMAIN Tail(s) = 1..Len(Tail(s)) /\ Head(s) = s[1]
    BY <1>1, <1>2, LenProperties, EmptySeq
  <1>4. \A i \in DOMAIN Tail(s) : Tail(s)[i].epoch = epoch
    BY <1>2, <1>3 DEF OfEpoch
  <1>5. Head(s).epoch = epoch
    BY <1>3 DEF OfEpoch
  <1>6. /\ IsFiniteSet(BarrierIndices(Tail(s)))
        /\ Cardinality(BarrierIndices(Tail(s))) = b
    BY <1>1, TailBarriers DEF BarriersCounted
  <1>7. Cardinality(BarrierIndices(Tail(s))) \in Nat
    BY <1>6, FS_CardinalityType
  <1>8. Pop(q) = [entries |-> Tail(s), barriers |-> b]
    BY DEF Pop
  <1> HIDE DEF s, b
  <1>9. Pop(q) \in Queues /\ BarriersCounted(Pop(q)) /\ OfEpoch(Pop(q), epoch)
    BY <1>2, <1>4, <1>6, <1>7, <1>8 DEF Queues, BarriersCounted, OfEpoch
  <1> QED
    BY <1>2, <1>5, <1>9 DEF s

-----------------------------------------------------------------------------
\* A push keeps motion coalesced: a new run starts only behind a barrier.
LEMMA PushRunsApart ==
    ASSUME NEW q \in Queues, NEW event \in AllEvents, NEW epoch \in Nat,
           OfEpoch(q, epoch), RunsApart(q.entries)
    PROVE  RunsApart(Push(q, event, epoch).entries)
  <1> DEFINE s == q.entries
             n == Len(s)
             t == Push(q, event, epoch).entries
  <1> SUFFICES RunsApart(t)
    OBVIOUS
  <1>1. /\ s \in Seq(Entries) /\ n \in Nat /\ DOMAIN s = 1..n
    BY LenProperties DEF Queues
  <1>2. ASSUME NEW e, t = Append(s, e),
               n > 0 /\ ~IsBarrier(e.what) => IsBarrier(s[n].what)
        PROVE  RunsApart(t)
    <2>1. /\ DOMAIN t = 1..n + 1 /\ t[n + 1] = e
          /\ \A i \in 1..n : t[i] = s[i]
      BY <1>1, <1>2
    <2> HIDE DEF t, s, n
    <2> SUFFICES ASSUME NEW i \in 1..n + 1, i > 1, ~IsBarrier(t[i].what)
                 PROVE  IsBarrier(t[i - 1].what)
      BY <2>1 DEF RunsApart
    <2>2. i - 1 \in 1..n
      BY <1>1
    <2>3. CASE i = n + 1
      BY <2>1, <2>2, <2>3, <1>1, <1>2
    <2>4. CASE i # n + 1
      <3>1. i \in 1..n
        BY <2>4, <1>1
      <3>2. IsBarrier(s[i - 1].what)
        BY <3>1, <2>1, <1>1 DEF RunsApart, s
      <3> QED
        BY <3>2, <2>1, <2>2
    <2> QED
      BY <2>3, <2>4
  <1>3. CASE IsTransition(event)
    <2>1. t = Append(s, [what |-> event, epoch |-> epoch])
      BY <1>3 DEF Push, PushBarrier
    <2>2. IsBarrier(event)
      BY <1>3, EventKinds
    <2> HIDE DEF t, s
    <2> QED
      BY <1>2, <2>1, <2>2
  <1>4. CASE ~IsTransition(event) /\ ~TailIsRun(q, epoch)
    <2> DEFINE e == [what |-> Merge(EmptyRun, event), epoch |-> epoch]
    <2>1. t = Append(s, e)
      BY <1>1, <1>4 DEF Push, PushMotion, Queues
    <2>2. n > 0 => IsBarrier(s[n].what)
      <3> SUFFICES ASSUME n > 0 PROVE IsBarrier(s[n].what)
        OBVIOUS
      <3>1. n \in DOMAIN s /\ s # << >>
        BY <1>1
      <3>2. s[n].epoch = epoch
        BY <3>1 DEF OfEpoch
      <3> QED
        BY <3>1, <3>2, <1>4 DEF TailIsRun
    <2> HIDE DEF t, s, n, e
    <2> QED
      BY <1>2, <2>1, <2>2
  <1>5. CASE ~IsTransition(event) /\ TailIsRun(q, epoch)
    <2> DEFINE e == [s[n] EXCEPT !.what = Merge(@, event)]
    <2>1. t = [s EXCEPT ![n] = e]
      BY <1>1, <1>5 DEF Push, PushMotion, Queues
    <2>2. n \in 1..n /\ ~IsBarrier(s[n].what)
      BY <1>1, <1>5, EmptySeq DEF TailIsRun
    <2>3. DOMAIN t = 1..n /\ \A i \in 1..n : i # n => t[i] = s[i]
      BY <1>1, <2>1
    <2> HIDE DEF t, e
    <2> SUFFICES ASSUME NEW i \in 1..n, i > 1, ~IsBarrier(t[i].what)
                 PROVE  IsBarrier(t[i - 1].what)
      BY <2>3 DEF RunsApart
    <2>4. i - 1 \in 1..n /\ i - 1 # n
      BY <1>1
    <2>5. ~IsBarrier(s[i].what)
      BY <2>2, <2>3
    <2>6. IsBarrier(s[i - 1].what)
      BY <2>5, <1>1 DEF RunsApart
    <2> QED
      BY <2>3, <2>4, <2>6
  <1> QED
    BY <1>3, <1>4, <1>5

\* Taking the oldest entry leaves the others apart.
LEMMA PopRunsApart ==
    ASSUME NEW q \in Queues, q.entries # << >>, RunsApart(q.entries)
    PROVE  RunsApart(Pop(q).entries)
  <1> DEFINE s == q.entries
             t == Tail(s)
  <1>1. Pop(q).entries = t /\ s \in Seq(Entries)
    BY DEF Pop, Queues
  <1>2. /\ Len(s) \in Nat /\ DOMAIN s = 1..Len(s) /\ DOMAIN t = 1..Len(s) - 1
        /\ \A i \in 1..Len(s) - 1 : t[i] = s[i + 1]
    BY <1>1, HeadTailProperties, LenProperties, EmptySeq
  <1> HIDE DEF s, t
  <1> SUFFICES ASSUME NEW i \in 1..Len(s) - 1, i > 1, ~IsBarrier(t[i].what)
               PROVE  IsBarrier(t[i - 1].what)
    BY <1>1, <1>2 DEF RunsApart
  <1>3. i + 1 \in 1..Len(s) /\ i - 1 \in 1..Len(s) - 1 /\ (i + 1) - 1 = i
        /\ (i - 1) + 1 = i
    BY <1>2
  <1>4. IsBarrier(s[i].what)
    BY <1>2, <1>3 DEF RunsApart, s
  <1> QED
    BY <1>2, <1>3, <1>4

\* Runs that are apart are at most one more than the barriers.
LEMMA RunsBound ==
    ASSUME NEW q \in Queues, BarriersCounted(q), RunsApart(q.entries)
    PROVE  Len(q.entries) <= q.barriers + (q.barriers + 1)
  <1> DEFINE s == q.entries
             n == Len(s)
             B == BarrierIndices(s)
             R == (1..n) \ B
             P == B \cup {0}
             f == [i \in R |-> i - 1]
  <1>1. /\ s \in Seq(Entries) /\ n \in Nat /\ DOMAIN s = 1..n
    BY LenProperties DEF Queues
  <1>2. B \subseteq 1..n /\ IsFiniteSet(B) /\ q.barriers = Cardinality(B)
    BY <1>1 DEF BarrierIndices, BarriersCounted
  <1>3. IsFiniteSet(1..n) /\ Cardinality(1..n) = n
    BY <1>1, FS_Interval
  <1>4. IsFiniteSet(P) /\ Cardinality(P) = q.barriers + 1
    <2>1. 0 \notin B
      BY <1>2
    <2> QED
      BY <1>2, <2>1, FS_AddElement
  <1>5. \A i \in R : i \in Int /\ i - 1 \in P
    <2> SUFFICES ASSUME NEW i \in R PROVE i - 1 \in P
      OBVIOUS
    <2>1. i \in 1..n /\ ~IsBarrier(s[i].what)
      BY <1>1 DEF BarrierIndices
    <2>2. CASE i = 1
      BY <2>2
    <2>3. CASE i > 1
      <3>1. IsBarrier(s[i - 1].what) /\ i - 1 \in DOMAIN s
        BY <2>1, <2>3, <1>1 DEF RunsApart
      <3> QED
        BY <3>1 DEF BarrierIndices
    <2> QED
      BY <2>1, <2>2, <2>3
  <1> HIDE DEF s, n, B, P
  <1>6. f \in Injection(R, P)
    <2> HIDE DEF R
    <2>1. f \in [R -> P]
      BY <1>5
    <2>2. \A i, j \in R : f[i] = f[j] => i = j
      BY <1>5
    <2> QED
      BY <2>1, <2>2 DEF Injection, IsInjective
  <1>7. Cardinality(R) <= Cardinality(P)
    BY <1>4, <1>6, FS_Injection DEF ExistsInjection
  <1>8. Cardinality(R) = n - Cardinality(B)
    <2>1. Cardinality((1..n) \ B) = Cardinality(1..n) - Cardinality((1..n) \cap B)
      BY <1>3, FS_Difference
    <2>2. (1..n) \cap B = B
      BY <1>2
    <2> QED
      BY <2>1, <2>2, <1>3
  <1>9. Cardinality(B) \in Nat
    BY <1>2, FS_CardinalityType
  <1> QED
    BY <1>1, <1>2, <1>4, <1>7, <1>8, <1>9 DEF s, n

=============================================================================
