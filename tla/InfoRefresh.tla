---------------------------- MODULE InfoRefresh ----------------------------
(***************************************************************************)
(* The device information a paste asks for: the request and its generation *)
(* (src/src/input/shared.rs), the writer that serves it between its waits, *)
(* its refreshes and its reconnects (src/src/input/writer.rs), and the     *)
(* paste that compiles its text under the reading it then finds            *)
(* (src/src/viewer/app.rs).                                                *)
(*                                                                         *)
(* What InputPath models of the writer is left out here: its queue, and    *)
(* the cancellations and shutdown that only delay a refresh.               *)
(***************************************************************************)
EXTENDS Naturals

CONSTANTS
    MaxPastes,   \* bound: pastes
    MaxToggles,  \* bound: changes of CapsLock on the target
    MaxOutages   \* bound: losses of the link

VARIABLES
    asked,   \* Shared::refresh_info
    info,    \* LinkState: the generation and what the reading says of CapsLock
    writer,  \* the writer thread, its link and the GET_INFO it has under way
    target,  \* CapsLock as the target has it
    paste,   \* PasteState, and what has happened since it asked
    session, \* the viewer's session: "cut" once the path has ended a captured one
    owed     \* history: a request is still without a refresh of its own

vars == <<asked, info, writer, target, paste, session, owed>>

\* A reading that failed or is stale says nothing of CapsLock.
Locks == {"on", "off"}
Readings == Locks \cup {"unknown"}

\* since: the states CapsLock has been in since the paste asked, as history.
NoPaste == [state |-> "idle", baseline |-> 0, used |-> "unknown", since |-> {}]

Init ==
    /\ asked = FALSE
    /\ info = [generation |-> 0, reading |-> "unknown"]
    /\ writer = [at |-> "opening", link |-> "down", reading |-> "unknown",
                 covers |-> FALSE, outages |-> 0]
    /\ target = [lock |-> "off", toggles |-> 0]
    /\ paste = [now |-> NoPaste, count |-> 0]
    /\ session = "released"
    /\ owed = FALSE

-----------------------------------------------------------------------------
(* The writer                                                              *)

Goes(from, to) ==
    /\ writer.at = from
    /\ writer' = [writer EXCEPT !.at = to]

\* The flag is cleared before the transaction, so that a request made during
\* it survives; without a link the attempt fails at once.
BeginRefresh ==
    /\ writer.at = "checks" /\ asked
    /\ asked' = FALSE
    /\ writer' = [writer EXCEPT !.at = IF writer.link = "up" THEN "asking" ELSE "replied",
                                !.covers = TRUE]
    /\ UNCHANGED <<info, target, paste, session, owed>>

\* next_entry and backoff_wait find nothing to do, with the queue locked...
FindNothing ==
    /\ ~asked
    /\ Goes("checks", "decided")
    /\ UNCHANGED <<asked, info, target, paste, session, owed>>

\* ...and give the lock up in the condition variable, until a notification,
\* LINK_HEALTH_POLL or the backoff's deadline.
Sleeps ==
    /\ Goes("decided", "asleep")
    /\ UNCHANGED <<asked, info, target, paste, session, owed>>

WaitEnds ==
    /\ Goes("asleep", "checks")
    /\ UNCHANGED <<asked, info, target, paste, session, owed>>

Cut == IF session = "captured" THEN "cut" ELSE session

\* A wait that ended or a report that failed finds the link gone; the path
\* disengages.
LoseLink ==
    /\ writer.at = "checks" /\ writer.link = "up"
    /\ writer.outages < MaxOutages
    /\ writer' = [writer EXCEPT !.link = "down", !.outages = @ + 1]
    /\ session' = Cut
    /\ UNCHANGED <<asked, info, target, paste, owed>>

\* The deadline has passed: the next attempt.
BackoffEnds ==
    /\ writer.link = "down"
    /\ Goes("decided", "opening")
    /\ UNCHANGED <<asked, info, target, paste, session, owed>>

\* A replacement that opens disengages the path until it is accepted or
\* dropped, and is asked for its information.
Opened ==
    /\ writer.at = "opening"
    /\ \/ /\ writer' = [writer EXCEPT !.at = "commissioning", !.covers = TRUE]
          /\ session' = Cut
       \/ /\ writer' = [writer EXCEPT !.at = "checks"]
          /\ UNCHANGED session
    /\ UNCHANGED <<asked, info, target, paste, owed>>

Rejected ==
    /\ Goes("commissioning", "checks")
    /\ UNCHANGED <<asked, info, target, paste, session, owed>>

\* The device answers GET_INFO with what it knows at that moment, or the
\* attempt of a refresh fails.
DeviceAnswers ==
    /\ writer.at \in {"asking", "commissioning"}
    /\ writer' = [writer EXCEPT !.at = IF @ = "asking" THEN "replied" ELSE "accepted",
                                !.reading = target.lock]
    /\ UNCHANGED <<asked, info, target, paste, session, owed>>

NoAnswer ==
    /\ Goes("asking", "replied")
    /\ UNCHANGED <<asked, info, target, paste, session, owed>>

\* Mutation of Published: an attempt that failed leaves the generation alone.
PublishedIfRead(i, reading) ==
    IF reading = "unknown" THEN [i EXCEPT !.reading = reading]
    ELSE [generation |-> i.generation + 1, reading |-> reading]

\* Every attempt moves the generation; one that failed leaves a stale reading.
Published(i, reading) == [generation |-> i.generation + 1, reading |-> reading]

PublishInfo ==
    /\ writer.at \in {"replied", "accepted"}
    /\ info' = Published(info, writer.reading)
    /\ writer' = [writer EXCEPT !.at = "checks", !.reading = "unknown", !.covers = FALSE,
                                !.link = IF writer.at = "accepted" THEN "up" ELSE @]
    /\ owed' = (owed /\ ~writer.covers)
    /\ UNCHANGED <<asked, target, paste, session>>

-----------------------------------------------------------------------------
(* The paste and the target                                                *)

\* request_info_refresh: the flag and the generation under one lock, which is
\* not the queue's.
Ask ==
    /\ session # "released"
    /\ paste.now.state = "idle"
    /\ paste.count < MaxPastes
    /\ asked' = TRUE
    /\ owed' = TRUE
    /\ paste' = [count |-> paste.count + 1,
                 now |-> [NoPaste EXCEPT !.state = "asking", !.baseline = info.generation,
                                         !.since = {target.lock}]]
    /\ writer' = [writer EXCEPT !.covers = FALSE]
    /\ UNCHANGED <<info, target, session>>

\* ...and its notification of whoever sleeps by then.
NotifyWriter ==
    /\ paste.now.state = "asking"
    /\ paste' = [paste EXCEPT !.now.state = "preparing"]
    /\ writer' = [writer EXCEPT !.at = IF @ = "asleep" THEN "checks" ELSE @]
    /\ UNCHANGED <<asked, info, target, session, owed>>

Fresh(p) == info.generation # p.baseline

\* advance_preparing with the text at hand, and compile_and_start.
Compile ==
    /\ paste.now.state = "preparing"
    /\ Fresh(paste.now)
    /\ paste' = [paste EXCEPT !.now.state = "running", !.now.used = info.reading]
    /\ UNCHANGED <<asked, info, writer, target, session, owed>>

\* Refused for its clipboard or at its deadline, or typed.
PasteEnds ==
    /\ paste.now.state \in {"preparing", "running"}
    /\ paste' = [paste EXCEPT !.now = NoPaste]
    /\ UNCHANGED <<asked, info, writer, target, session, owed>>

\* The session engages by way of the queue's lock, over a link or without
\* one, once the last cancellation is acknowledged...
Capture ==
    /\ session = "released"
    /\ writer.at \notin {"decided", "commissioning", "accepted"}
    /\ session' = "captured"
    /\ UNCHANGED <<asked, info, writer, target, paste, owed>>

\* ...and ends by the user, or by the tick that finds the path disengaged;
\* its paste ends with it.
Release ==
    /\ session # "released" /\ paste.now.state # "asking"
    /\ session' = "released"
    /\ paste' = [paste EXCEPT !.now = NoPaste]
    /\ UNCHANGED <<asked, info, writer, target, owed>>

\* CapsLock changes on the target: a key of the user's that is acted upon
\* late, or the target's own keyboard.
Toggle ==
    /\ target.toggles < MaxToggles
    /\ \E lock \in Locks \ {target.lock} :
          /\ target' = [lock |-> lock, toggles |-> target.toggles + 1]
          /\ paste' = [paste EXCEPT !.now.since =
                          IF paste.now.state \in {"asking", "preparing"}
                          THEN @ \cup {lock} ELSE @]
    /\ UNCHANGED <<asked, info, writer, session, owed>>

-----------------------------------------------------------------------------
WriterSteps ==
    \/ BeginRefresh \/ FindNothing \/ Sleeps \/ WaitEnds \/ LoseLink \/ BackoffEnds
    \/ Opened \/ Rejected \/ DeviceAnswers \/ NoAnswer \/ PublishInfo

Next ==
    \/ WriterSteps
    \/ Ask \/ NotifyWriter \/ Compile \/ PasteEnds \/ Capture \/ Release
    \/ Toggle

Spec == Init /\ [][Next]_vars

\* The writer is scheduled, and its waits, transactions and backoffs have
\* deadlines.  Of an open this assumes that it returns.
FairSpec == Spec /\ WF_vars(WriterSteps)

-----------------------------------------------------------------------------
(* Properties                                                              *)

\* A request is not lost in the refresh that runs when it is made, in the
\* outage or in the wait that misses its notification: a refresh begun after
\* it ends, and the paste that still waits then finds the generation moved,
\* whether the device answered or not.
RequestsAnswered ==
    owed ~> (~owed /\ (paste.now.state = "preparing" => Fresh(paste.now)))

\* "The reading is fresh once this has moved" (PasteState): what a paste of an
\* engaged session compiles under is a state CapsLock was in after it asked.
FreshReading ==
    paste.now.state = "running" /\ paste.now.used \in Locks /\ session = "captured"
        => paste.now.used \in paste.now.since
=============================================================================
