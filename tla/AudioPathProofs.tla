-------------------------- MODULE AudioPathProofs --------------------------
(***************************************************************************)
(* The safety properties of AudioPath for a ring of any size and a drift   *)
(* policy of any patience.                                                 *)
(***************************************************************************)
EXTENDS AudioPath, TLAPS

Counts == [Counters -> Nat]

-----------------------------------------------------------------------------
(* The ring                                                                *)

\* Slow with the streaks in progress: each correction costs Hold calls, the
\* current streak is already paid for, and a wall starts the streak again.
Paid(r) ==
    /\ Hold * r.counts["drops"] + r.counts["overruns"] + r.high <= r.counts["pushed"]
    /\ Hold * r.counts["inserts"] + r.low <= r.counts["popped"] + r.counts["inserts"]

RingInv(r) == r \in Rings /\ Accounted(r) /\ Paid(r)

LEMMA BumpedCounts ==
  ASSUME NEW k \in Counts, NEW which
  PROVE  /\ Bumped(k, which) \in Counts
         /\ \A c \in Counters :
               Bumped(k, which)[c] = k[c] + (IF c \in which THEN 1 ELSE 0)
  BY DEF Bumped, Counts

LEMMA RingParts ==
  ASSUME NEW r \in Rings
  PROVE  /\ r.level \in 0..Periods /\ r.high \in 0..(Hold - 1) /\ r.low \in 0..(Hold - 1)
         /\ r.counts \in Counts
         /\ \A c \in Counters : r.counts[c] \in Nat
         /\ r = [level |-> r.level, high |-> r.high, low |-> r.low, counts |-> r.counts]
  BY DEF Rings, Counts

LEMMA RingMade ==
  ASSUME NEW v \in 0..Periods, NEW h \in 0..(Hold - 1), NEW l \in 0..(Hold - 1),
         NEW k \in Counts
  PROVE  [level |-> v, high |-> h, low |-> l, counts |-> k] \in Rings
  BY DEF Rings, Counts

LEMMA OneMore ==
  ASSUME NEW n \in Nat
  PROVE  Hold * (n + 1) = Hold * n + Hold /\ Hold * n \in Nat
  BY RingAssumption

LEMMA HighStreakBound ==
  ASSUME NEW r \in Rings
  PROVE  HighStreak(r) \in 0..(Hold - 1) /\ HighStreak(r) <= r.high + 1
  <1>1. r.high \in 0..(Hold - 1) /\ r.level \in 0..Periods /\ HighWater \in Nat
    BY RingParts, RingAssumption DEF HighWater
  <1>2. CASE r.level < HighWater \/ DropDue(r)
    BY <1>1, <1>2, RingAssumption DEF HighStreak
  <1>3. CASE ~(r.level < HighWater \/ DropDue(r))
    <2>1. HighStreak(r) = r.high + 1
      BY <1>3 DEF HighStreak
    <2>2. r.high + 1 < Hold
      BY <1>1, <1>3, RingAssumption DEF DropDue
    <2> QED
      BY <1>1, <2>1, <2>2, RingAssumption
  <1> QED
    BY <1>2, <1>3

LEMMA LowStreakBound ==
  ASSUME NEW r \in Rings
  PROVE  LowStreak(r) \in 0..(Hold - 1) /\ LowStreak(r) <= r.low + 1
  <1>1. r.low \in 0..(Hold - 1) /\ r.level \in 0..Periods
    BY RingParts
  <1>2. CASE r.level > LowWater \/ InsertDue(r)
    BY <1>1, <1>2, RingAssumption DEF LowStreak
  <1>3. CASE ~(r.level > LowWater \/ InsertDue(r))
    <2>1. LowStreak(r) = r.low + 1
      BY <1>3 DEF LowStreak
    <2>2. r.low + 1 < Hold
      BY <1>1, <1>3, RingAssumption DEF InsertDue, LowWater
    <2> QED
      BY <1>1, <2>1, <2>2, RingAssumption
  <1> QED
    BY <1>2, <1>3

Made(r, v, h, l, w) == [level |-> v, high |-> h, low |-> l, counts |-> Bumped(r.counts, w)]

\* q is the ring r with another level and other streaks, having counted w.
StepsTo(r, q, v, h, l, w) ==
    /\ q \in Rings /\ q.level = v /\ q.high = h /\ q.low = l
    /\ \A c \in Counters : q.counts[c] = r.counts[c] + (IF c \in w THEN 1 ELSE 0)

LEMMA RingStep ==
  ASSUME NEW r \in Rings, NEW v \in 0..Periods, NEW h \in 0..(Hold - 1),
         NEW l \in 0..(Hold - 1), NEW w
  PROVE  StepsTo(r, Made(r, v, h, l, w), v, h, l, w)
  BY RingParts, BumpedCounts, RingMade DEF Made, StepsTo

LEMMA PushKeeps ==
  ASSUME NEW r, RingInv(r)
  PROVE  RingInv(Push(r))
  <1>1. /\ r \in Rings /\ Accounted(r) /\ Paid(r) /\ r.counts \in Counts
        /\ r.level \in 0..Periods /\ r.high \in 0..(Hold - 1) /\ r.low \in 0..(Hold - 1)
        /\ r.counts["pushed"] \in Nat /\ r.counts["popped"] \in Nat
        /\ r.counts["overruns"] \in Nat /\ r.counts["drops"] \in Nat
        /\ r.counts["inserts"] \in Nat /\ 0 \in 0..(Hold - 1)
    BY RingParts, RingAssumption DEF RingInv, Counters
  <1>2. CASE DropDue(r) /\ r.level < Periods
    <2> DEFINE q == Made(r, r.level, 0, r.low, {"pushed", "drops"})
    <2>1. Push(r) = q
      <3>1. Push(r) = [r EXCEPT !.high = 0, !.counts = Bumped(@, {"pushed", "drops"})]
        BY <1>1, <1>2, RingAssumption DEF Push
      <3> QED
        BY <1>1, <3>1 DEF Rings, Made
    <2>2. StepsTo(r, q, r.level, 0, r.low, {"pushed", "drops"})
      BY <1>1, RingStep
    <2> HIDE DEF q
    <2>3. /\ q.counts["pushed"] = r.counts["pushed"] + 1
          /\ q.counts["drops"] = r.counts["drops"] + 1
          /\ q.counts["overruns"] = r.counts["overruns"]
          /\ q.counts["popped"] = r.counts["popped"]
          /\ q.counts["inserts"] = r.counts["inserts"]
      BY <1>1, <2>2 DEF Counters, StepsTo
    <2>4. r.high = Hold - 1
      BY <1>1, <1>2, RingAssumption DEF DropDue
    <2>5. Accounted(q)
      BY <1>1, <2>2, <2>3 DEF Accounted, StepsTo
    <2>6. Paid(q)
      <3>1. Hold * (r.counts["drops"] + 1) = Hold * r.counts["drops"] + Hold
            /\ Hold * r.counts["drops"] \in Nat
        BY <1>1, OneMore
      <3> QED
        BY <1>1, <2>2, <2>3, <2>4, <3>1, RingAssumption DEF Paid, StepsTo
    <2> QED
      BY <2>1, <2>2, <2>5, <2>6 DEF RingInv, StepsTo
  <1>3. CASE r.level = Periods
    <2> DEFINE q == Made(r, r.level, 0, 0, {"pushed", "overruns"})
    <2>1. Push(r) = q
      <3>1. Push(r) = [r EXCEPT !.high = 0, !.low = 0,
                                !.counts = Bumped(@, {"pushed", "overruns"})]
        <4>1. ~(r.level < Periods)
          BY <1>1, <1>3, RingAssumption
        <4> QED
          BY <1>3, <4>1 DEF Push
      <3> QED
        BY <1>1, <3>1 DEF Rings, Made
    <2>2. StepsTo(r, q, r.level, 0, 0, {"pushed", "overruns"})
      BY <1>1, RingStep
    <2> HIDE DEF q
    <2>3. /\ q.counts["pushed"] = r.counts["pushed"] + 1
          /\ q.counts["drops"] = r.counts["drops"]
          /\ q.counts["overruns"] = r.counts["overruns"] + 1
          /\ q.counts["popped"] = r.counts["popped"]
          /\ q.counts["inserts"] = r.counts["inserts"]
      BY <1>1, <2>2 DEF Counters, StepsTo
    <2>4. Accounted(q)
      BY <1>1, <2>2, <2>3 DEF Accounted, StepsTo
    <2>5. Paid(q)
      <3>1. Hold * r.counts["drops"] \in Nat /\ Hold * r.counts["inserts"] \in Nat
        BY <1>1, OneMore
      <3> QED
        BY <1>1, <2>2, <2>3, <3>1 DEF Paid, StepsTo
    <2> QED
      BY <2>1, <2>2, <2>4, <2>5 DEF RingInv, StepsTo
  <1>4. CASE ~(DropDue(r) /\ r.level < Periods) /\ r.level # Periods
    <2> DEFINE q == Made(r, r.level + 1, HighStreak(r), r.low, {"pushed"})
    <2>1. Push(r) = q
      BY <1>1, <1>4 DEF Push, Rings, Made
    <2>2. StepsTo(r, q, r.level + 1, HighStreak(r), r.low, {"pushed"})
      <3>1. r.level + 1 \in 0..Periods
        BY <1>1, <1>4, RingAssumption
      <3> QED
        BY <1>1, <3>1, RingStep, HighStreakBound
    <2> HIDE DEF q
    <2>3. /\ q.counts["pushed"] = r.counts["pushed"] + 1
          /\ q.counts["drops"] = r.counts["drops"]
          /\ q.counts["overruns"] = r.counts["overruns"]
          /\ q.counts["popped"] = r.counts["popped"]
          /\ q.counts["inserts"] = r.counts["inserts"]
      BY <1>1, <2>2 DEF Counters, StepsTo
    <2>4. Accounted(q)
      BY <1>1, <2>2, <2>3 DEF Accounted, StepsTo
    <2>5. Paid(q)
      <3>1. Hold * r.counts["drops"] \in Nat /\ Hold * r.counts["inserts"] \in Nat
        BY <1>1, OneMore
      <3>2. HighStreak(r) \in Nat /\ HighStreak(r) <= r.high + 1
        BY <1>1, HighStreakBound
      <3> QED
        BY <1>1, <2>2, <2>3, <3>1, <3>2 DEF Paid, StepsTo
    <2> QED
      BY <2>1, <2>2, <2>4, <2>5 DEF RingInv, StepsTo
  <1> QED
    BY <1>2, <1>3, <1>4
LEMMA PopKeeps ==
  ASSUME NEW r, RingInv(r)
  PROVE  RingInv(Pop(r))
  <1>1. /\ r \in Rings /\ Accounted(r) /\ Paid(r) /\ r.counts \in Counts
        /\ r.level \in 0..Periods /\ r.high \in 0..(Hold - 1) /\ r.low \in 0..(Hold - 1)
        /\ r.counts["pushed"] \in Nat /\ r.counts["popped"] \in Nat
        /\ r.counts["overruns"] \in Nat /\ r.counts["drops"] \in Nat
        /\ r.counts["inserts"] \in Nat /\ 0 \in 0..(Hold - 1)
    BY RingParts, RingAssumption DEF RingInv, Counters
  <1>2. CASE InsertDue(r) /\ r.level > 0
    <2> DEFINE q == Made(r, r.level, r.high, 0, {"inserts"})
    <2>1. Pop(r) = q
      <3>1. Pop(r) = [r EXCEPT !.low = 0, !.counts = Bumped(@, {"inserts"})]
        BY <1>1, <1>2, RingAssumption DEF Pop
      <3> QED
        BY <1>1, <3>1 DEF Rings, Made
    <2>2. StepsTo(r, q, r.level, r.high, 0, {"inserts"})
      BY <1>1, RingStep
    <2> HIDE DEF q
    <2>3. /\ q.counts["pushed"] = r.counts["pushed"]
          /\ q.counts["popped"] = r.counts["popped"]
          /\ q.counts["overruns"] = r.counts["overruns"]
          /\ q.counts["drops"] = r.counts["drops"]
          /\ q.counts["inserts"] = r.counts["inserts"] + 1
      BY <1>1, <2>2 DEF Counters, StepsTo
    <2>4. Accounted(q)
      BY <1>1, <2>2, <2>3 DEF Accounted, StepsTo
    <2>5. Paid(q)
      <3>1. /\ Hold * (r.counts["inserts"] + 1) = Hold * r.counts["inserts"] + Hold
            /\ Hold * r.counts["inserts"] \in Nat /\ Hold * r.counts["drops"] \in Nat
        BY <1>1, OneMore
      <3>2. r.low = Hold - 1
        BY <1>1, <1>2, RingAssumption DEF InsertDue
      <3> QED
        BY <1>1, <2>2, <2>3, <3>1, <3>2, RingAssumption DEF Paid, StepsTo
    <2> QED
      BY <2>1, <2>2, <2>4, <2>5 DEF RingInv, StepsTo
  <1>3. CASE r.level = 0
    <2> DEFINE q == Made(r, r.level, 0, 0, {"underruns"})
    <2>1. Pop(r) = q
      <3>1. Pop(r) = [r EXCEPT !.high = 0, !.low = 0, !.counts = Bumped(@, {"underruns"})]
        <4>1. ~(r.level > 0)
          BY <1>1, <1>3
        <4> QED
          BY <1>3, <4>1 DEF Pop
      <3> QED
        BY <1>1, <3>1 DEF Rings, Made
    <2>2. StepsTo(r, q, r.level, 0, 0, {"underruns"})
      BY <1>1, RingStep
    <2> HIDE DEF q
    <2>3. /\ q.counts["pushed"] = r.counts["pushed"]
          /\ q.counts["popped"] = r.counts["popped"]
          /\ q.counts["overruns"] = r.counts["overruns"]
          /\ q.counts["drops"] = r.counts["drops"]
          /\ q.counts["inserts"] = r.counts["inserts"]
      BY <1>1, <2>2 DEF Counters, StepsTo
    <2>4. Accounted(q)
      BY <1>1, <2>2, <2>3 DEF Accounted, StepsTo
    <2>5. Paid(q)
      <3>1. Hold * r.counts["drops"] \in Nat /\ Hold * r.counts["inserts"] \in Nat
        BY <1>1, OneMore
      <3> QED
        BY <1>1, <2>2, <2>3, <3>1 DEF Paid, StepsTo
    <2> QED
      BY <2>1, <2>2, <2>4, <2>5 DEF RingInv, StepsTo
  <1>4. CASE ~(InsertDue(r) /\ r.level > 0) /\ r.level # 0
    <2> DEFINE q == Made(r, r.level - 1, r.high, LowStreak(r), {"popped"})
    <2>1. Pop(r) = q
      <3>1. Pop(r) = [r EXCEPT !.low = LowStreak(r), !.level = @ - 1,
                                !.counts = Bumped(@, {"popped"})]
        BY <1>1, <1>4, RingAssumption DEF Pop
      <3> QED
        BY <1>1, <3>1 DEF Rings, Made
    <2>2. StepsTo(r, q, r.level - 1, r.high, LowStreak(r), {"popped"})
      <3>1. r.level - 1 \in 0..Periods
        BY <1>1, <1>4, RingAssumption
      <3> QED
        BY <1>1, <3>1, RingStep, LowStreakBound
    <2> HIDE DEF q
    <2>3. /\ q.counts["pushed"] = r.counts["pushed"]
          /\ q.counts["popped"] = r.counts["popped"] + 1
          /\ q.counts["overruns"] = r.counts["overruns"]
          /\ q.counts["drops"] = r.counts["drops"]
          /\ q.counts["inserts"] = r.counts["inserts"]
      BY <1>1, <2>2 DEF Counters, StepsTo
    <2>4. Accounted(q)
      BY <1>1, <2>2, <2>3 DEF Accounted, StepsTo
    <2>5. Paid(q)
      <3>1. Hold * r.counts["drops"] \in Nat /\ Hold * r.counts["inserts"] \in Nat
        BY <1>1, OneMore
      <3>2. LowStreak(r) \in Nat /\ LowStreak(r) <= r.low + 1
        BY <1>1, LowStreakBound
      <3> QED
        BY <1>1, <2>2, <2>3, <3>1, <3>2 DEF Paid, StepsTo
    <2> QED
      BY <2>1, <2>2, <2>4, <2>5 DEF RingInv, StepsTo
  <1> QED
    BY <1>2, <1>3, <1>4

-----------------------------------------------------------------------------
(* The specification                                                       *)

Places == {"head", "open", "prime", "waits", "asleep", "inner", "unmark", "report", "backoff",
           "call", "push", "opened", "recover", "publish", "ended"}
Workers == [at: Places, working: BOOLEAN, counts: Counts]
Statistics == [counts: Counts, opening: [Sides -> {"no", "recent", "overdue"}],
               condition: [Sides -> {"none", "failed", "overdue"}]]

AudioTypes == worker \in [Sides -> Workers] /\ stats \in Statistics

\* A side that is about to show a condition works no more.
FailedStopped == \A s \in Sides : worker[s].at \in {"unmark", "report"} => ~worker[s].working

AudioInv == RingInv(ring) /\ AudioTypes /\ FailedStopped /\ ConditionsHonest

\* Worker s becomes w and the other stays as it was.
Becomes(s, w) ==
    /\ worker' \in [Sides -> Workers]
    /\ worker'[s] = w
    /\ \A u \in Sides \ {s} : worker'[u] = worker[u]

LEMMA WorkerMoves ==
  ASSUME AudioTypes, NEW s \in Sides, NEW to \in Places,
         worker' = [worker EXCEPT ![s].at = to]
  PROVE  \E w \in Workers : /\ Becomes(s, w)
                            /\ w.at = to /\ w.working = worker[s].working
                            /\ w.counts = worker[s].counts
  <1> DEFINE w == [worker[s] EXCEPT !.at = to]
  <1>1. w \in Workers /\ w.at = to /\ w.working = worker[s].working
        /\ w.counts = worker[s].counts
    BY DEF AudioTypes, Workers
  <1>2. worker' = [worker EXCEPT ![s] = w]
    OBVIOUS
  <1> HIDE DEF w
  <1>3. Becomes(s, w)
    BY <1>1, <1>2 DEF Becomes, AudioTypes
  <1> QED
    BY <1>1, <1>3

LEMMA WorkerTurns ==
  ASSUME AudioTypes, NEW s \in Sides, NEW to \in Places, NEW b \in BOOLEAN,
         worker' = [worker EXCEPT ![s].at = to, ![s].working = b]
  PROVE  \E w \in Workers : Becomes(s, w) /\ w.at = to /\ w.working = b
  <1> DEFINE w == [worker[s] EXCEPT !.at = to, !.working = b]
  <1>1. w \in Workers /\ w.at = to /\ w.working = b
    BY DEF AudioTypes, Workers
  <1>2. worker' = [worker EXCEPT ![s] = w]
    BY DEF AudioTypes
  <1> HIDE DEF w
  <1>3. Becomes(s, w)
    BY <1>1, <1>2 DEF Becomes, AudioTypes
  <1> QED
    BY <1>1, <1>3

LEMMA WorkerCarries ==
  ASSUME AudioTypes, NEW s \in Sides, NEW to \in Places, NEW k \in Counts,
         worker' = [worker EXCEPT ![s].at = to, ![s].counts = k]
  PROVE  \E w \in Workers : Becomes(s, w) /\ w.at = to /\ w.working = worker[s].working
  <1> DEFINE w == [worker[s] EXCEPT !.at = to, !.counts = k]
  <1>1. w \in Workers /\ w.at = to /\ w.working = worker[s].working
    BY DEF AudioTypes, Workers
  <1>2. worker' = [worker EXCEPT ![s] = w]
    BY DEF AudioTypes
  <1> HIDE DEF w
  <1>3. Becomes(s, w)
    BY <1>1, <1>2 DEF Becomes, AudioTypes
  <1> QED
    BY <1>1, <1>3

LEMMA NothingCounted == NewRing \in Rings /\ NewRing.counts \in Counts /\ RingInv(NewRing)
  <1>1. NewRing.counts \in Counts /\ \A c \in Counters : NewRing.counts[c] = 0
    BY DEF NewRing, Counts
  <1>2. /\ NewRing.level = 0 /\ NewRing.high = 0 /\ NewRing.low = 0
        /\ NewRing = [level |-> 0, high |-> 0, low |-> 0, counts |-> NewRing.counts]
    BY DEF NewRing
  <1> HIDE DEF NewRing
  <1>3. NewRing \in Rings
    BY <1>1, <1>2, RingMade, RingAssumption
  <1>4. Accounted(NewRing) /\ Paid(NewRing)
    <2>1. Hold * 0 = 0
      BY RingAssumption
    <2> QED
      BY <1>1, <1>2, <2>1 DEF Accounted, Paid, Counters
  <1> QED
    BY <1>1, <1>3, <1>4 DEF RingInv

LEMMA AudioStarts == AudioInit => AudioInv
  <1> SUFFICES ASSUME AudioInit PROVE AudioInv
    OBVIOUS
  <1>1. RingInv(ring)
    BY NothingCounted DEF AudioInit
  <1>2. worker \in [Sides -> Workers] /\ stats \in Statistics
    BY NothingCounted DEF AudioInit, Workers, Places, Statistics
  <1> QED
    BY <1>1, <1>2 DEF AudioInit, AudioInv, AudioTypes, FailedStopped, ConditionsHonest

\* Statistics change one part at a time.
LEMMA Published ==
  ASSUME stats \in Statistics, NEW k \in Counts, stats' = [stats EXCEPT !.counts = k]
  PROVE  stats' \in Statistics /\ stats'.condition = stats.condition /\ stats'.counts = k
  BY DEF Statistics

LEMMA Marked ==
  ASSUME stats \in Statistics, NEW s \in Sides, NEW m \in {"no", "recent", "overdue"},
         stats' = [stats EXCEPT !.opening[s] = m]
  PROVE  /\ stats' \in Statistics /\ stats'.condition = stats.condition
         /\ stats'.counts = stats.counts
  BY DEF Statistics

LEMMA Shown ==
  ASSUME stats \in Statistics, NEW s \in Sides, NEW e \in {"none", "failed", "overdue"},
         stats' = [stats EXCEPT !.condition[s] = e]
  PROVE  /\ stats' \in Statistics /\ stats'.counts = stats.counts
         /\ stats'.condition[s] = e
         /\ \A u \in Sides \ {s} : stats'.condition[u] = stats.condition[u]
  BY DEF Statistics

\* A step of worker s keeps the invariant if what s becomes fits its condition.
LEMMA SideStep ==
  ASSUME AudioInv, NEW s \in Sides, NEW w \in Workers, Becomes(s, w),
         RingInv(ring'), stats' \in Statistics,
         \A u \in Sides \ {s} : stats'.condition[u] = stats.condition[u],
         w.at \in {"unmark", "report"} => ~w.working,
         w.at = "backoff" => stats'.condition[s] # "none",
         w.working => stats'.condition[s] \in {"none", "overdue"}
  PROVE  AudioInv'
  <1>1. AudioTypes'
    BY DEF AudioTypes, Becomes
  <1>2. ASSUME NEW u \in Sides
        PROVE  /\ worker'[u].at \in {"unmark", "report"} => ~worker'[u].working
               /\ worker'[u].at = "backoff" => stats'.condition[u] # "none"
               /\ worker'[u].working => stats'.condition[u] \in {"none", "overdue"}
    <2>1. CASE u = s
      BY <2>1 DEF Becomes
    <2>2. CASE u # s
      <3>1. worker'[u] = worker[u] /\ stats'.condition[u] = stats.condition[u]
        BY <2>2 DEF Becomes
      <3> QED
        BY <3>1 DEF AudioInv, FailedStopped, ConditionsHonest
    <2> QED
      BY <2>1, <2>2
  <1> QED
    BY <1>1, <1>2 DEF AudioInv, FailedStopped, ConditionsHonest

\* A step that only moves worker s along.
LEMMA QuietMove ==
  ASSUME AudioInv, NEW s \in Sides, NEW to \in Places,
         worker' = [worker EXCEPT ![s].at = to],
         UNCHANGED ring, stats' \in Statistics, stats'.condition = stats.condition,
         to \notin {"unmark", "backoff"},
         to = "report" => worker[s].at = "unmark"
  PROVE  AudioInv'
  <1>1. AudioTypes /\ RingInv(ring)
    BY DEF AudioInv
  <1>2. PICK w \in Workers : /\ Becomes(s, w)
                             /\ w.at = to /\ w.working = worker[s].working
    BY <1>1, WorkerMoves
  <1>3. /\ worker[s].at = "unmark" => ~worker[s].working
        /\ worker[s].working => stats.condition[s] \in {"none", "overdue"}
    BY DEF AudioInv, FailedStopped, ConditionsHonest
  <1>4. RingInv(ring')
    BY <1>1
  <1> QED
    BY <1>2, <1>3, <1>4, SideStep

LEMMA InPlaces ==
  {"head", "open", "prime", "waits", "asleep", "inner", "unmark", "report", "backoff", "call",
   "push", "opened", "recover", "publish", "ended"} \subseteq Places
  BY DEF Places

\* A step that takes worker s off its device.
LEMMA StopsWorking ==
  ASSUME AudioInv, NEW s \in Sides, NEW to \in {"head", "unmark"},
         worker' = [worker EXCEPT ![s].at = to, ![s].working = FALSE],
         UNCHANGED <<ring, stats>>
  PROVE  AudioInv'
  <1>1. AudioTypes /\ RingInv(ring)
    BY DEF AudioInv
  <1>2. PICK w \in Workers : Becomes(s, w) /\ w.at = to /\ w.working = FALSE
    <2>1. to \in Places /\ FALSE \in BOOLEAN
      BY InPlaces
    <2> QED
      BY <1>1, <2>1, WorkerTurns
  <1>3. RingInv(ring') /\ stats' \in Statistics
    BY <1>1 DEF AudioTypes
  <1> QED
    BY <1>2, <1>3, SideStep

\* What a worker does outside its device.
LEMMA OwnKeeps ==
  ASSUME AudioInv, NEW s \in Sides, Own(s)
  PROVE  AudioInv'
  <1>1. AudioTypes /\ RingInv(ring) /\ stats \in Statistics
    BY DEF AudioInv, AudioTypes
  <1>2. CASE Top(s)
    <2>1. CASE audio.stop
      <3>1. worker' = [worker EXCEPT ![s].at = "ended"] /\ UNCHANGED <<ring, stats>>
        BY <1>2, <2>1 DEF Top, Moves
      <3> QED
        BY <1>1, <3>1, QuietMove, InPlaces
    <2>2. CASE ~audio.stop
      <3>1. /\ worker' = [worker EXCEPT ![s].at = "open"] /\ UNCHANGED ring
            /\ stats' = [stats EXCEPT !.opening[s] = "recent"]
        BY <1>2, <2>2 DEF Top, Moves
      <3>2. stats' \in Statistics /\ stats'.condition = stats.condition
        BY <1>1, <3>1, Marked
      <3> QED
        BY <3>1, <3>2, QuietMove, InPlaces
    <2> QED
      BY <2>1, <2>2
  <1>3. CASE Unmark(s)
    <2>1. /\ worker' = [worker EXCEPT ![s].at = "report"] /\ UNCHANGED ring
          /\ stats' = [stats EXCEPT !.opening[s] = "no"] /\ worker[s].at = "unmark"
      BY <1>3 DEF Unmark, Moves
    <2>2. stats' \in Statistics /\ stats'.condition = stats.condition
      BY <1>1, <2>1, Marked
    <2> QED
      BY <2>1, <2>2, QuietMove, InPlaces
  <1>4. CASE Report(s)
    <2>1. /\ worker' = [worker EXCEPT ![s].at = "backoff"] /\ UNCHANGED ring
          /\ stats' = [stats EXCEPT !.condition[s] = "failed"] /\ worker[s].at = "report"
      BY <1>4 DEF Report, Moves
    <2>2. PICK w \in Workers : /\ Becomes(s, w)
                               /\ w.at = "backoff" /\ w.working = worker[s].working
      <3>1. "backoff" \in Places
        BY InPlaces
      <3> QED
        BY <1>1, <2>1, <3>1, WorkerMoves
    <2>3. ~worker[s].working
      BY <2>1 DEF AudioInv, FailedStopped
    <2>4. /\ stats' \in Statistics /\ stats'.condition[s] = "failed"
          /\ \A u \in Sides \ {s} : stats'.condition[u] = stats.condition[u]
      BY <1>1, <2>1, Shown
    <2>5. RingInv(ring')
      BY <1>1, <2>1
    <2> QED
      BY <2>2, <2>3, <2>4, <2>5, SideStep
  <1>5. CASE SleepEnds(s)
    <2>1. worker' = [worker EXCEPT ![s].at = "head"] /\ UNCHANGED <<ring, stats>>
      BY <1>5 DEF SleepEnds, Moves
    <2> QED
      BY <1>1, <2>1, QuietMove, InPlaces
  <1>6. CASE MarkOpened(s)
    <2>1. /\ worker' = [worker EXCEPT ![s].at = "recover"] /\ UNCHANGED ring
          /\ stats' = [stats EXCEPT !.opening[s] = "no"]
      BY <1>6 DEF MarkOpened, Moves
    <2>2. stats' \in Statistics /\ stats'.condition = stats.condition
      BY <1>1, <2>1, Marked
    <2> QED
      BY <2>1, <2>2, QuietMove, InPlaces
  <1>7. CASE Recover(s)
    <2>1. /\ worker' = [worker EXCEPT ![s].at = Then(s), ![s].working = TRUE]
          /\ UNCHANGED ring /\ Then(s) \in {"push", "inner"}
          /\ stats' = [stats EXCEPT !.condition[s] = "none"]
      BY <1>7 DEF Recover, Then, Recovered
    <2>2. PICK w \in Workers : Becomes(s, w) /\ w.at = Then(s) /\ w.working = TRUE
      <3>1. Then(s) \in Places /\ TRUE \in BOOLEAN
        BY <2>1, InPlaces
      <3> QED
        BY <1>1, <2>1, <3>1, WorkerTurns
    <2>3. /\ stats' \in Statistics /\ stats'.condition[s] = "none"
          /\ \A u \in Sides \ {s} : stats'.condition[u] = stats.condition[u]
      BY <1>1, <2>1, Shown
    <2>4. RingInv(ring')
      BY <1>1, <2>1
    <2> QED
      BY <2>1, <2>2, <2>3, <2>4, SideStep
  <1>8. CASE Publish(s)
    <2> DEFINE to == IF s = "capture" THEN "inner" ELSE "call"
    <2>1. /\ worker' = [worker EXCEPT ![s].at = to, ![s].counts = NewRing.counts]
          /\ stats' = [stats EXCEPT !.counts = Absorbed(stats.counts, worker[s].counts)]
          /\ UNCHANGED ring /\ to \in {"inner", "call"}
      BY <1>8 DEF Publish
    <2> HIDE DEF to
    <2>2. PICK w \in Workers : Becomes(s, w) /\ w.at = to /\ w.working = worker[s].working
      <3>1. to \in Places /\ NewRing.counts \in Counts
        BY <2>1, NothingCounted, InPlaces
      <3> QED
        BY <1>1, <2>1, <3>1, WorkerCarries
    <2>3. Absorbed(stats.counts, worker[s].counts) \in Counts
      BY <1>1 DEF AudioTypes, Workers, Statistics, Absorbed, Counts
    <2>4. stats' \in Statistics /\ stats'.condition = stats.condition
      BY <1>1, <2>1, <2>3, Published
    <2>5. worker[s].working => stats.condition[s] \in {"none", "overdue"}
      BY DEF AudioInv, ConditionsHonest
    <2>6. RingInv(ring')
      BY <1>1, <2>1
    <2> QED
      BY <2>1, <2>2, <2>4, <2>5, <2>6, SideStep
  <1> QED
    BY <1>2, <1>3, <1>4, <1>5, <1>6, <1>7, <1>8 DEF Own

\* What its device does to it.
LEMMA DeviceKeeps ==
  ASSUME AudioInv, NEW s \in Sides, Device(s)
  PROVE  AudioInv'
  <1>1. stats \in Statistics
    BY DEF AudioInv, AudioTypes
  <1>2. CASE OpenBegins(s)
    <2>1. PICK to \in {"prime", "inner"} :
             worker' = [worker EXCEPT ![s].at = to] /\ UNCHANGED <<ring, stats>>
      BY <1>2 DEF OpenBegins, Moves
    <2> QED
      BY <1>1, <2>1, QuietMove, InPlaces
  <1>3. CASE Fails(s)
    <2>1. /\ worker' = [worker EXCEPT ![s].at = "unmark", ![s].working = FALSE]
          /\ UNCHANGED <<ring, stats>>
      BY <1>3 DEF Fails, Errs
    <2> QED
      BY <2>1, StopsWorking
  <1>4. CASE CallGivesUp(s)
    <2>1. /\ worker' = [worker EXCEPT ![s].at = "head", ![s].working = FALSE]
          /\ UNCHANGED <<ring, stats>>
      BY <1>4 DEF CallGivesUp
    <2> QED
      BY <2>1, StopsWorking
  <1>5. CASE CallReturns(s)
    <2>1. PICK to \in {"push", "inner", "opened"} :
             worker' = [worker EXCEPT ![s].at = to] /\ UNCHANGED <<ring, stats>>
      BY <1>5 DEF CallReturns, Moves, Then
    <2> QED
      BY <1>1, <2>1, QuietMove, InPlaces
  <1> QED
    BY <1>2, <1>3, <1>4, <1>5 DEF Device

\* A transfer of a period by worker s.
LEMMA TransferKeeps ==
  ASSUME AudioInv, NEW s \in Sides, NEW r, RingInv(r), Transfers(s, "publish", r),
         UNCHANGED stats
  PROVE  AudioInv'
  <1>1. AudioTypes /\ stats \in Statistics
    BY DEF AudioInv, AudioTypes
  <1>2. r.counts \in Counts /\ "publish" \in Places
    BY RingParts, InPlaces DEF RingInv
  <1>3. PICK w \in Workers : /\ Becomes(s, w)
                             /\ w.at = "publish" /\ w.working = worker[s].working
    BY <1>1, <1>2, WorkerCarries DEF Transfers
  <1>4. worker[s].working => stats.condition[s] \in {"none", "overdue"}
    BY DEF AudioInv, ConditionsHonest
  <1>5. RingInv(ring')
    BY DEF Transfers
  <1> QED
    BY <1>1, <1>3, <1>4, <1>5, SideStep

\* Steps that move no worker.
LEMMA TitleKeeps ==
  ASSUME AudioInv, UNCHANGED <<ring, worker>>, stats' \in Statistics,
         \A u \in Sides : stats'.condition[u] \in {stats.condition[u], "overdue"}
  PROVE  AudioInv'
  <1>1. RingInv(ring') /\ AudioTypes' /\ FailedStopped'
    BY DEF AudioInv, AudioTypes, FailedStopped
  <1>2. ConditionsHonest'
    BY DEF AudioInv, ConditionsHonest
  <1> QED
    BY <1>1, <1>2 DEF AudioInv

LEMMA AudioStep == AudioInv /\ [AudioNext]_audioVars => AudioInv'
  <1> SUFFICES ASSUME AudioInv, [AudioNext]_audioVars PROVE AudioInv'
    OBVIOUS
  <1>1. RingInv(ring) /\ stats \in Statistics
    BY DEF AudioInv, AudioTypes
  <1>2. ASSUME NEW s \in Sides, LimitPasses(s) PROVE AudioInv'
    <2>1. UNCHANGED <<ring, worker>> /\ stats' = [stats EXCEPT !.opening[s] = "overdue"]
      BY <1>2 DEF LimitPasses
    <2>2. stats' \in Statistics /\ stats'.condition = stats.condition
      BY <1>1, <2>1, Marked
    <2> QED
      BY <2>1, <2>2, TitleKeeps
  <1>3. ASSUME NEW s \in Sides, ReportOverdue(s) PROVE AudioInv'
    <2>1. UNCHANGED <<ring, worker>> /\ stats' = [stats EXCEPT !.condition[s] = "overdue"]
      BY <1>3 DEF ReportOverdue
    <2>2. /\ stats' \in Statistics /\ stats'.condition[s] = "overdue"
          /\ \A u \in Sides \ {s} : stats'.condition[u] = stats.condition[u]
      BY <1>1, <2>1, Shown
    <2>3. \A u \in Sides : stats'.condition[u] \in {stats.condition[u], "overdue"}
      BY <2>2
    <2> QED
      BY <2>1, <2>2, <2>3, TitleKeeps
  <1>4. CASE CaptureInner
    <2>1. CASE audio.stop
      BY <1>4, <2>1, StopsWorking DEF CaptureInner, Leaves, Sides
    <2>2. CASE ~audio.stop
      BY <1>1, <1>4, <2>2, QuietMove, InPlaces DEF CaptureInner, Moves, Sides
    <2> QED
      BY <2>1, <2>2
  <1>5. CASE PushPeriod
    <2>1. RingInv(Push(ring))
      BY <1>1, PushKeeps
    <2>2. Transfers("capture", "publish", Push(ring)) /\ UNCHANGED stats
      BY <1>5 DEF PushPeriod
    <2>3. "capture" \in Sides
      BY DEF Sides
    <2> QED
      BY <2>1, <2>2, <2>3, TransferKeeps
  <1>6. CASE PlaybackInner
    <2>1. CASE audio.stop /\ Leaves("playback")
      BY <1>6, <2>1, StopsWorking DEF PlaybackInner, Leaves, Sides
    <2>2. CASE Transfers("playback", "publish", Pop(ring))
      <3>1. RingInv(Pop(ring))
        BY <1>1, PopKeeps
      <3>2. UNCHANGED stats /\ "playback" \in Sides
        BY <1>6 DEF PlaybackInner, Sides
      <3> QED
        BY <2>2, <3>1, <3>2, TransferKeeps
    <2> QED
      BY <1>6, <2>1, <2>2 DEF PlaybackInner
  <1>7. CASE UNCHANGED <<ring, worker, stats>>
    BY <1>1, <1>7, TitleKeeps
  <1>8. CASE PrimeBegins \/ PrimeSleeps \/ PrimeEnds \/ Notify
    <2>1. CASE UNCHANGED <<ring, worker, stats>>
      BY <1>7, <2>1
    <2>2. ASSUME NEW to \in {"waits", "asleep", "inner"},
                 worker' = [worker EXCEPT !["playback"].at = to],
                 UNCHANGED <<ring, stats>>
          PROVE  AudioInv'
      BY <1>1, <2>2, QuietMove, InPlaces DEF Sides
    <2>3. \/ UNCHANGED <<ring, worker, stats>>
          \/ \E to \in {"waits", "asleep", "inner"} :
                /\ worker' = [worker EXCEPT !["playback"].at = to]
                /\ UNCHANGED <<ring, stats>>
      BY <1>8 DEF PrimeBegins, PrimeSleeps, PrimeEnds, Notify, Moves
    <2> QED
      BY <2>1, <2>2, <2>3
  <1> QED
    BY <1>2, <1>3, <1>4, <1>5, <1>6, <1>7, <1>8, OwnKeeps, DeviceKeeps
    DEF AudioNext, audioVars, ReadOverdue, Stop, CloseRing

-----------------------------------------------------------------------------
(* The theorems                                                            *)

LEMMA AudioInvariant == AudioSpec => []AudioInv
  BY AudioStarts, AudioStep, PTL DEF AudioSpec

\* Every period pushed is queued, played or counted once as lost, and drift is
\* corrected at most once in Hold calls, at any size of the ring
\* (audio/ring.rs, push and pop).
THEOREM PeriodsAreAccounted == AudioSpec => []PeriodsAccounted
  <1>1. AudioInv => PeriodsAccounted
    <2> SUFFICES ASSUME AudioInv PROVE PeriodsAccounted
      OBVIOUS
    <2>1. ring \in Rings /\ Accounted(ring) /\ Paid(ring)
      BY DEF AudioInv, RingInv
    <2>2. /\ ring.counts["pushed"] \in Nat /\ ring.counts["popped"] \in Nat
          /\ ring.counts["overruns"] \in Nat /\ ring.counts["drops"] \in Nat
          /\ ring.counts["inserts"] \in Nat /\ ring.high \in Nat /\ ring.low \in Nat
      BY <2>1, RingParts, RingAssumption DEF Counters
    <2>3. Hold * ring.counts["drops"] \in Nat /\ Hold * ring.counts["inserts"] \in Nat
      BY <2>2, OneMore
    <2>4. Slow(ring)
      BY <2>1, <2>2, <2>3 DEF Paid, Slow
    <2> QED
      BY <2>1, <2>4 DEF PeriodsAccounted
  <1> QED
    BY <1>1, AudioInvariant, PTL

\* A side that backs off shows a condition and one that moves periods shows
\* none of its own, however the two recover (audio/mod.rs, the condition slots).
THEOREM ConditionsAreHonest == AudioSpec => []ConditionsHonest
  <1>1. AudioInv => ConditionsHonest
    BY DEF AudioInv
  <1> QED
    BY <1>1, AudioInvariant, PTL

\* The published counters never go back, in whichever order the workers
\* publish (audio/mod.rs, absorb).
THEOREM CountersOnlyGrow == AudioSpec => CountersMoveForward
  <1>1. ASSUME AudioInv, [AudioNext]_audioVars
        PROVE  [\A c \in Counters : stats'.counts[c] >= stats.counts[c]]_audioVars
    <2>1. stats \in Statistics /\ \A c \in Counters : stats.counts[c] \in Nat
      BY <1>1 DEF AudioInv, AudioTypes, Statistics, Counts
    <2>2. CASE stats'.counts = stats.counts
      BY <2>1, <2>2
    <2>3. ASSUME NEW s \in Sides, Publish(s)
          PROVE  \A c \in Counters : stats'.counts[c] >= stats.counts[c]
      <3>1. \A c \in Counters : worker[s].counts[c] \in Nat
        BY <1>1 DEF AudioInv, AudioTypes, Workers, Counts
      <3>2. stats'.counts = Absorbed(stats.counts, worker[s].counts)
        BY <2>1, <2>3 DEF Publish, Statistics
      <3> QED
        BY <2>1, <3>1, <3>2 DEF Absorbed
    <2>4. ASSUME NEW s \in Sides, Own(s)
          PROVE  \A c \in Counters : stats'.counts[c] >= stats.counts[c]
      <3>1. CASE Publish(s)
        BY <2>3, <3>1
      <3>2. CASE ~Publish(s)
        <4>1. stats'.counts = stats.counts
          <5>1. \/ UNCHANGED stats
                \/ \E m \in {"no", "recent"} : stats' = [stats EXCEPT !.opening[s] = m]
                \/ \E e \in {"none", "failed"} : stats' = [stats EXCEPT !.condition[s] = e]
            BY <2>4, <3>2 DEF Own, Top, Unmark, Report, SleepEnds, MarkOpened, Recover,
                              Recovered
          <5> QED
            BY <2>1, <5>1, Marked, Shown
        <4> QED
          BY <2>1, <4>1
      <3> QED
        BY <3>1, <3>2
    <2>5. ASSUME NEW s \in Sides, LimitPasses(s) \/ ReportOverdue(s)
          PROVE  stats'.counts = stats.counts
      BY <2>1, <2>5, Marked, Shown DEF LimitPasses, ReportOverdue
    <2>6. ASSUME NEW s \in Sides, Device(s)
          PROVE  stats'.counts = stats.counts
      BY <2>6 DEF Device, OpenBegins, Fails, CallGivesUp, CallReturns
    <2>7. \/ CaptureInner \/ PushPeriod \/ PlaybackInner
          \/ PrimeBegins \/ PrimeSleeps \/ PrimeEnds
          \/ ReadOverdue \/ Stop \/ CloseRing \/ Notify \/ UNCHANGED audioVars
          => stats'.counts = stats.counts
      BY DEF CaptureInner, PushPeriod, PlaybackInner, PrimeBegins, PrimeSleeps, PrimeEnds,
             ReadOverdue, Stop, CloseRing, Notify, audioVars
    <2> QED
      BY <1>1, <2>2, <2>4, <2>5, <2>6, <2>7 DEF AudioNext
  <1> QED
    BY <1>1, AudioInvariant, PTL DEF CountersMoveForward, AudioSpec
=============================================================================
