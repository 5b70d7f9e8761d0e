----------------------------- MODULE AudioRing -----------------------------
(***************************************************************************)
(* The period ring between the audio workers, src/src/audio/ring.rs: a     *)
(* bounded FIFO whose drift policy spends one period at a time to stay off *)
(* its walls.  What a period holds is left out: a ring is its level, the   *)
(* two streaks of the policy and what it has counted.                      *)
(***************************************************************************)
EXTENDS Integers

CONSTANTS
    Periods,   \* RingConfig::periods
    Hold       \* DriftPolicy::hold, which DriftPolicy::new sets to 4 * Periods

ASSUME RingAssumption == Periods \in Nat \ {0} /\ Hold \in Nat \ {0}

HighWater == IF Periods > 1 THEN Periods - 1 ELSE 1
LowWater == 1

Counters == {"pushed", "popped", "overruns", "underruns", "drops", "inserts"}

NewRing == [level |-> 0, high |-> 0, low |-> 0,
            counts |-> [c \in Counters |-> 0]]

Rings == [level: 0..Periods, high: 0..(Hold - 1), low: 0..(Hold - 1),
          counts: [Counters -> Nat]]

Bumped(counts, which) ==
    [c \in Counters |-> counts[c] + (IF c \in which THEN 1 ELSE 0)]

\* on_push, on_pop: a level on one side for Hold observations in a row asks
\* for a correction, and firing starts the count again.
DropDue(r) == r.level >= HighWater /\ r.high + 1 >= Hold
InsertDue(r) == r.level <= LowWater /\ r.low + 1 >= Hold

HighStreak(r) == IF r.level < HighWater \/ DropDue(r) THEN 0 ELSE r.high + 1
LowStreak(r) == IF r.level > LowWater \/ InsertDue(r) THEN 0 ELSE r.low + 1

\* Mutation of Push: the oldest period of a full ring goes uncounted when a
\* correction was due as well.
PushUncounted(r) ==
    CASE DropDue(r) ->
            [r EXCEPT !.high = 0, !.counts =
                 Bumped(@, {"pushed"} \cup IF r.level < Periods THEN {"drops"} ELSE {})]
      [] r.level = Periods /\ ~DropDue(r) ->
            [r EXCEPT !.high = 0, !.low = 0,
                      !.counts = Bumped(@, {"pushed", "overruns"})]
      [] OTHER ->
            [r EXCEPT !.high = HighStreak(r), !.level = @ + 1,
                      !.counts = Bumped(@, {"pushed"})]

\* push: the oldest period makes room, as a correction off the wall and as an
\* overrun at it.
Push(r) ==
    CASE DropDue(r) /\ r.level < Periods ->
            [r EXCEPT !.high = 0, !.counts = Bumped(@, {"pushed", "drops"})]
      [] r.level = Periods ->
            [r EXCEPT !.high = 0, !.low = 0,
                      !.counts = Bumped(@, {"pushed", "overruns"})]
      [] OTHER ->
            [r EXCEPT !.high = HighStreak(r), !.level = @ + 1,
                      !.counts = Bumped(@, {"pushed"})]

\* pop: silence inserted off the wall, silence at it, or the oldest period.
Pop(r) ==
    CASE InsertDue(r) /\ r.level > 0 ->
            [r EXCEPT !.low = 0, !.counts = Bumped(@, {"inserts"})]
      [] r.level = 0 ->
            [r EXCEPT !.high = 0, !.low = 0, !.counts = Bumped(@, {"underruns"})]
      [] OTHER ->
            [r EXCEPT !.low = LowStreak(r), !.level = @ - 1,
                      !.counts = Bumped(@, {"popped"})]

-----------------------------------------------------------------------------
(* What every ring reached by Push and Pop keeps                           *)

\* Every period pushed is still queued, was played, or is counted as exactly
\* one of an overrun and a drift drop.
Accounted(r) ==
    r.counts["pushed"] =
        r.counts["popped"] + r.counts["overruns"] + r.counts["drops"] + r.level

\* Corrections on one side are at least Hold calls apart, and no call that
\* met a wall counts towards one.
Slow(r) ==
    /\ Hold * r.counts["drops"] + r.counts["overruns"] <= r.counts["pushed"]
    /\ Hold * r.counts["inserts"] <= r.counts["popped"] + r.counts["inserts"]
=============================================================================
