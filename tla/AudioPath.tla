----------------------------- MODULE AudioPath -----------------------------
(***************************************************************************)
(* The audio path, src/src/audio/mod.rs: a capture and a playback worker   *)
(* over one shared ring, each opening and reopening its own device, the    *)
(* statistics they publish outside the ring's lock, the title that reads   *)
(* them and reports opens that are overdue, and the handle that stops both.*)
(***************************************************************************)
EXTENDS AudioRing, FiniteSets

CONSTANTS
    Prefill,     \* AudioConfig::prefill_periods
    MaxPushes,   \* bound: periods the card delivers
    MaxPops,     \* bound: periods the playback worker asks for
    MaxFailures  \* bound: failed opens and device calls

ASSUME PrefillAssumption == Prefill \in Nat

VARIABLES
    ring,     \* SharedRing::ring
    worker,   \* per side: where its thread is, and the ring counts it holds
    stats,    \* AudioStats: counters, opening marks and conditions
    title,    \* overdue opens a snapshot has read and not yet reported
    audio     \* the stop flag, how far close has got, and the failures so far

audioVars == <<ring, worker, stats, title, audio>>

Sides == {"capture", "playback"}

AudioInit ==
    /\ ring = NewRing
    /\ worker = [s \in Sides |-> [at |-> "head", working |-> FALSE,
                                  counts |-> NewRing.counts]]
    /\ stats = [counts |-> NewRing.counts,
                opening |-> [s \in Sides |-> "no"],
                condition |-> [s \in Sides |-> "none"]]
    /\ title = {}
    /\ audio = [stop |-> FALSE, closed |-> FALSE, notified |-> FALSE, failures |-> 0]

\* Worker s moves from one place to another, its statistics as they become.
Moves(s, from, to) ==
    /\ worker[s].at = from
    /\ worker' = [worker EXCEPT ![s].at = to]

-----------------------------------------------------------------------------
(* Both loops                                                              *)

\* The head of the outer loop marks the open before the call that may block.
Top(s) ==
    /\ worker[s].at = "head"
    /\ IF audio.stop
       THEN Moves(s, "head", "ended") /\ UNCHANGED stats
       ELSE /\ Moves(s, "head", "open")
            /\ stats' = [stats EXCEPT !.opening[s] = "recent"]
    /\ UNCHANGED <<ring, title, audio>>

\* The open returns; playback primes first.
OpenBegins(s) ==
    /\ Moves(s, "open", IF s = "playback" THEN "prime" ELSE "inner")
    /\ UNCHANGED <<ring, stats, title, audio>>

\* prime looks for its periods and for the close with the ring locked...
PrimeBegins ==
    /\ Moves("playback", "prime",
             IF ring.level < Prefill /\ ~audio.closed THEN "waits" ELSE "inner")
    /\ UNCHANGED <<ring, stats, title, audio>>

\* ...and gives the lock up in the condition variable.
PrimeSleeps ==
    /\ Moves("playback", "waits", "asleep")
    /\ UNCHANGED <<ring, stats, title, audio>>

\* Mutation of PrimeEnds: prime waits for its periods without a deadline.
PrimeForEver ==
    /\ ring.level >= Prefill
    /\ Moves("playback", "asleep", "inner")
    /\ UNCHANGED <<ring, stats, title, audio>>

\* A push that completes the prefill wakes it, and so does the deadline.
PrimeEnds ==
    /\ Moves("playback", "asleep", "inner")
    /\ UNCHANGED <<ring, stats, title, audio>>

\* A failed open, or a device call that fails while nothing is stopping.
Errs(s) ==
    /\ audio.failures < MaxFailures
    /\ audio' = [audio EXCEPT !.failures = @ + 1]
    /\ worker[s].at \in {"open", "call"}
    /\ worker' = [worker EXCEPT ![s].at = "unmark", ![s].working = FALSE]

Fails(s) ==
    /\ worker[s].at = "call" => ~audio.stop
    /\ Errs(s)
    /\ UNCHANGED <<ring, stats, title>>

\* A device call that gives up because the path is stopping is no condition.
CallGivesUp(s) ==
    /\ audio.stop
    /\ worker[s].at = "call"
    /\ worker' = [worker EXCEPT ![s].at = "head", ![s].working = FALSE]
    /\ UNCHANGED <<ring, stats, title, audio>>

\* opened, then report, each under its own lock.
Unmark(s) ==
    /\ Moves(s, "unmark", "report")
    /\ stats' = [stats EXCEPT !.opening[s] = "no"]
    /\ UNCHANGED <<ring, title, audio>>

Report(s) ==
    /\ Moves(s, "report", "backoff")
    /\ stats' = [stats EXCEPT !.condition[s] = "failed"]
    /\ UNCHANGED <<ring, title, audio>>

\* The device has been dropped; sleep_until_stopped.
SleepEnds(s) ==
    /\ Moves(s, "backoff", "head")
    /\ UNCHANGED <<ring, stats, title, audio>>

\* A device call moved a period; the first of an open is the recovery.
Then(s) == IF s = "capture" THEN "push" ELSE "inner"

CallReturns(s) ==
    /\ s = "capture" => ring.counts["pushed"] < MaxPushes
    /\ Moves(s, "call", IF worker[s].working THEN Then(s) ELSE "opened")
    /\ UNCHANGED <<ring, stats, title, audio>>

MarkOpened(s) ==
    /\ Moves(s, "opened", "recover")
    /\ stats' = [stats EXCEPT !.opening[s] = "no"]
    /\ UNCHANGED <<ring, title, audio>>

Recovered(condition, s) == [condition EXCEPT ![s] = "none"]

Recover(s) ==
    /\ worker[s].at = "recover"
    /\ worker' = [worker EXCEPT ![s].at = Then(s), ![s].working = TRUE]
    /\ stats' = [stats EXCEPT !.condition = Recovered(@, s)]
    /\ UNCHANGED <<ring, title, audio>>

\* Mutation of Absorbed: the later publication wins.
AbsorbedLast(published, counts) == [c \in Counters |-> counts[c]]

\* absorb: fetch_max on every counter.
Absorbed(published, counts) ==
    [c \in Counters |-> IF counts[c] > published[c] THEN counts[c] ELSE published[c]]

Publish(s) ==
    /\ worker[s].at = "publish"
    /\ worker' = [worker EXCEPT ![s].at = IF s = "capture" THEN "inner" ELSE "call",
                                ![s].counts = NewRing.counts]
    /\ stats' = [stats EXCEPT !.counts = Absorbed(@, worker[s].counts)]
    /\ UNCHANGED <<ring, title, audio>>

-----------------------------------------------------------------------------
(* One side only                                                           *)

Leaves(s) ==
    /\ worker' = [worker EXCEPT ![s].at = "head", ![s].working = FALSE]
    /\ UNCHANGED ring

CaptureInner ==
    /\ worker["capture"].at = "inner"
    /\ IF audio.stop THEN Leaves("capture")
       ELSE Moves("capture", "inner", "call") /\ UNCHANGED ring
    /\ UNCHANGED <<stats, title, audio>>

\* The ring's counts are read under the lock the transfer holds.
Transfers(s, to, r) ==
    /\ ring' = r
    /\ worker' = [worker EXCEPT ![s].at = to, ![s].counts = r.counts]

PushPeriod ==
    /\ worker["capture"].at = "push"
    /\ worker["playback"].at # "waits"  \* the ring is locked
    /\ Transfers("capture", "publish", Push(ring))
    /\ UNCHANGED <<stats, title, audio>>

Pops(counts) == counts["popped"] + counts["underruns"] + counts["inserts"]

\* The inner loop's head and pop, which waits for a period, the close or its
\* timeout and so always returns, with silence if need be.
PlaybackInner ==
    /\ worker["playback"].at = "inner"
    /\ \/ audio.stop /\ Leaves("playback")
       \/ /\ ~audio.stop
          /\ Pops(ring.counts) < MaxPops
          /\ Transfers("playback", "publish", Pop(ring))
    /\ UNCHANGED <<stats, title, audio>>

-----------------------------------------------------------------------------
(* The title and the handle                                                *)

\* The limit on an open passes.
LimitPasses(s) ==
    /\ stats.opening[s] = "recent"
    /\ stats' = [stats EXCEPT !.opening[s] = "overdue"]
    /\ UNCHANGED <<ring, worker, title, audio>>

\* supervise_opening reads the marks under one lock...
ReadOverdue ==
    /\ title = {}
    /\ title' = {s \in Sides : stats.opening[s] = "overdue"}
    /\ title' # {}
    /\ UNCHANGED <<ring, worker, stats, audio>>

\* ...and reports each under the other.
ReportOverdue(s) ==
    /\ s \in title
    /\ title' = title \ {s}
    /\ stats' = [stats EXCEPT !.condition[s] = "overdue"]
    /\ UNCHANGED <<ring, worker, audio>>

\* stop and drop: the stop flag, and then close: its own flag, set without the
\* ring's lock, and a notification of whoever sleeps by then.  The join that
\* follows is bounded.
Stop ==
    /\ ~audio.stop
    /\ audio' = [audio EXCEPT !.stop = TRUE]
    /\ UNCHANGED <<ring, worker, stats, title>>

CloseRing ==
    /\ audio.stop /\ ~audio.closed
    /\ audio' = [audio EXCEPT !.closed = TRUE]
    /\ UNCHANGED <<ring, worker, stats, title>>

Notify ==
    /\ audio.closed /\ ~audio.notified
    /\ audio' = [audio EXCEPT !.notified = TRUE]
    /\ IF worker["playback"].at = "asleep" THEN Moves("playback", "asleep", "inner")
       ELSE UNCHANGED worker
    /\ UNCHANGED <<ring, stats, title>>

-----------------------------------------------------------------------------
\* What a worker does outside its device.
Own(s) ==
    \/ Top(s) \/ Unmark(s) \/ Report(s) \/ SleepEnds(s)
    \/ MarkOpened(s) \/ Recover(s) \/ Publish(s)

Device(s) == OpenBegins(s) \/ Fails(s) \/ CallGivesUp(s) \/ CallReturns(s)

AudioNext ==
    \/ \E s \in Sides : Own(s) \/ Device(s) \/ LimitPasses(s) \/ ReportOverdue(s)
    \/ CaptureInner \/ PushPeriod
    \/ PlaybackInner \/ PrimeBegins \/ PrimeSleeps \/ PrimeEnds
    \/ ReadOverdue
    \/ Stop \/ CloseRing \/ Notify

CaptureWorker == Own("capture") \/ CaptureInner \/ PushPeriod
PlaybackWorker ==
    Own("playback") \/ PlaybackInner \/ PrimeBegins \/ PrimeSleeps \/ PrimeEnds

AudioSpec == AudioInit /\ [][AudioNext]_audioVars

\* Both threads are scheduled and every wait of theirs has a timeout; nothing
\* is assumed of a device call.
AudioFairSpec == AudioSpec /\ WF_audioVars(CaptureWorker) /\ WF_audioVars(PlaybackWorker)

-----------------------------------------------------------------------------
(* Properties                                                              *)

\* Periods are neither lost nor made up between the workers, and drift is
\* corrected no faster than the policy observes it, through overruns,
\* underruns and outages of either side.
PeriodsAccounted == ring \in Rings /\ Accounted(ring) /\ Slow(ring)

\* The counters the title shows never go back, although the two workers
\* publish in either order counts they read under the ring's lock.
CountersMoveForward ==
    [][\A c \in Counters : stats'.counts[c] >= stats.counts[c]]_audioVars

\* A side that backs off after a failure shows a condition, whatever the other
\* side recovers from; a side that moves periods shows no failure of its own,
\* at most that its open was overdue (see WorkingShowsNothing).
ConditionsHonest ==
    \A s \in Sides :
        /\ worker[s].at = "backoff" => stats.condition[s] # "none"
        /\ worker[s].working => stats.condition[s] \in {"none", "overdue"}

\* AudioStats holds "the one condition it is currently in": a side that moves
\* periods, so that nothing of its is overdue, shows no condition once the
\* title has made its reports.
WorkingShowsNothing ==
    \A s \in Sides \ title : worker[s].working => stats.condition[s] = "none"

\* "Close wakes ring waiters" (AudioHandle::stop): when it has done so, nobody
\* sleeps in prime until the deadline.
CloseWakes == audio.notified => worker["playback"].at # "asleep"

\* Once stopped, each worker ends, unless a call into its device never
\* returns: no wait on the ring, prefill or backoff holds it.
DeviceReturns(s) == []<>(worker[s].at \notin {"open", "call"})

WorkersEnd ==
    \A s \in Sides : DeviceReturns(s) => (audio.stop ~> worker[s].at = "ended")
=============================================================================
