--------------------------- MODULE ViewerSession ---------------------------
(***************************************************************************)
(* The viewer's event loop, src/src/viewer/app.rs, over the input path it  *)
(* submits to, the clipboard reader thread it starts and the user and      *)
(* compositor that send it events.  Everything the loop does in one        *)
(* callback is one action: Feed runs a trigger through the reducer and     *)
(* performs the actions it asks for, in order.                             *)
(*                                                                         *)
(* The input path appears as what its own model promises a producer: a     *)
(* raised release disengages at once and takes everything the target held, *)
(* and capture is granted again once that release is acknowledged.         *)
(***************************************************************************)
EXTENDS ViewerReducer, SequencesExt

CONSTANTS
    Bodies,       \* the transitions a clipboard text can compile to
    Shortcuts,    \* the transitions of the menu's shortcuts
    CanLock       \* the compositor grants pointer locks or confinements

\* compile and the shortcuts' transitions leave nothing held: whatever they
\* press they release later.
Balanced(events) ==
    \A i \in DOMAIN events : events[i].down =>
        \E k \in (i + 1)..Len(events) : events[k] = Edge(events[i].item, FALSE)

\* A layout has a fixed set of keys, and a button is none of them.
ASSUME ItemsAssumption == IsFiniteSet(Plain) /\ Left \notin Keys

\* A text compiles to transitions of keys.
ASSUME BodiesAssumption ==
    \A body \in Bodies : body \in Seq(KeyEdges) /\ Balanced(body)

\* The longest shortcut is Ctrl+Alt+Del.
ASSUME ShortcutsAssumption ==
    \A events \in Shortcuts :
        events \in Seq(KeyEdges) /\ Len(events) <= 6 /\ Balanced(events)

ASSUME CanLockAssumption == CanLock \in BOOLEAN

VARIABLES
    viewer,   \* Session, Outstanding and what the loop knows of its window
    paste,    \* PasteState and PasteJob
    path,     \* what a Producer can see of the input path, and its target
    reader,   \* the clipboard reader thread and its channel
    pressed   \* the keys and buttons the user holds down

vars == <<viewer, paste, path, reader, pressed>>

\* A text is what it compiles to: no body when the layout cannot type it, and
\* cased when CapsLock on the target would change it.
NoMail == [is |-> "nothing", body |-> << >>, cased |-> FALSE]
ReadError == [NoMail EXCEPT !.is = "error"]
Mails == [is: {"text"}, body: Bodies, cased: BOOLEAN] \cup {ReadError}

NoPaste == [state |-> "idle", text |-> NoMail, steps |-> << >>, sent |-> 0,
            prelude |-> 0, held |-> {}]

Init ==
    /\ viewer \in [session: {FreshSession}, outstanding: {{}}, armed: {FALSE},
                   grab: {FALSE}, relative: BOOLEAN, ended: {"none"}]
    /\ paste = NoPaste
    /\ path = [engaged |-> TRUE, acked |-> TRUE, link |-> "up", down |-> {},
               asked |-> FALSE, answer |-> "none",
               full |-> FALSE]
    /\ reader = [state |-> "idle", mail |-> NoMail]
    /\ pressed = {}

-----------------------------------------------------------------------------
(* The producer, as src/src/input/mod.rs answers it                        *)

\* A raised release: disengaged, unacknowledged, and the target is to hold
\* nothing.
Raised(p) == [p EXCEPT !.engaged = FALSE, !.acked = FALSE, !.down = {}]

\* Submissions are admitted again.
Engaged(p) == [p EXCEPT !.engaged = TRUE]

\* The link is up until its one loss, and again when it has been replaced.
Up == {"up", "replaced"}

Accepts(p) == p.engaged /\ p.link \in Up

Transition(set, event) ==
    IF event.down THEN set \cup {event.item} ELSE set \ {event.item}

Submitted(p, event) ==
    IF event = Motion THEN p ELSE [p EXCEPT !.down = Transition(@, event)]

-----------------------------------------------------------------------------
(* Performing actions.  w is the world a callback works on: the viewer, its *)
(* paste and its path.                                                      *)

World == [v |-> [viewer EXCEPT !.ended = "none"], j |-> paste, p |-> path]

\* ending_for
EndsAs(reason) ==
    IF reason \in {"UserRequested", "FocusLost", "Shutdown"} THEN "Cancelled"
    ELSE "Failed"

Finished(w, as) == [v |-> [w.v EXCEPT !.ended = as], j |-> NoPaste, p |-> w.p]

\* cancel_paste: an abandoned preparation leaves no outcome, a running job
\* leaves how it ended.
CancelPaste(w, reason) ==
    Finished(w, CASE w.j.state = "idle" -> w.v.ended
                  [] w.j.state = "preparing" -> "none"
                  [] w.j.state = "running" -> EndsAs(reason))

\* The actions of leave_capture, and Exit.
PerformRelease(w, action) ==
    CASE action.do = "DisarmInhibitor" -> [w EXCEPT !.v.armed = FALSE]
      [] action.do = "ReleasePointer" -> [w EXCEPT !.v.grab = FALSE]
      [] action.do = "ReleaseAll" ->
            LET c == CancelPaste(w, action.reason)
            IN [v |-> [c.v EXCEPT !.outstanding = {}], j |-> c.j, p |-> Raised(c.p)]
      [] OTHER -> w

\* feed for the triggers that ask for no further trigger: their actions, in
\* order, are at most the three of leave_capture.
ReleaseNth(w, actions, n) ==
    IF n \in DOMAIN actions THEN PerformRelease(w, actions[n]) ELSE w

ReleaseInOrder(w, actions) ==
    ReleaseNth(ReleaseNth(ReleaseNth(w, actions, 1), actions, 2), actions, 3)

FeedControl(w, trigger) ==
    LET r == Reduce(w.v.session, trigger)
    IN ReleaseInOrder([w EXCEPT !.v.session = r.session], r.actions)

\* grab_pointer
GrabPointer(w) == [w EXCEPT !.v.grab = @ \/ (w.v.relative /\ CanLock)]

TryEngage(w) ==
    IF w.p.acked
    THEN FeedControl([w EXCEPT !.p = Engaged(@)], Is("engage_succeeded"))
    ELSE FeedControl(w, Is("engage_deferred"))

\* Producer::submit under perform: outstanding is written before the answer
\* is known; a full queue raises Overflow by itself.
PerformForward(w, event) ==
    LET noted == IF event = Motion THEN w
                 ELSE [w EXCEPT !.v.outstanding = Transition(@, event)]
    IN CASE ~w.p.engaged -> FeedControl(noted, SubmitFailed("Disengaged"))
         [] w.p.engaged /\ ~Accepts(w.p) -> FeedControl(noted, SubmitFailed("LinkDown"))
         [] Accepts(w.p) /\ w.p.full /\ event # Motion ->
              FeedControl([noted EXCEPT !.p = Raised(@)], SubmitFailed("Overflow"))
         [] OTHER -> [noted EXCEPT !.p = Submitted(@, event)]

Perform(w, action) ==
    CASE action.do = "ArmInhibitor" -> [w EXCEPT !.v.armed = TRUE]
      [] action.do = "GrabPointer" -> GrabPointer(w)
      [] action.do = "TryEngage" -> TryEngage(w)
      [] action.do = "Forward" -> PerformForward(w, action.event)
      [] OTHER -> PerformRelease(w, action)

PerformNth(w, actions, n) ==
    IF n \in DOMAIN actions THEN Perform(w, actions[n]) ELSE w

\* No trigger asks for more than leave_capture's three actions and Exit.
PerformInOrder(w, actions) ==
    PerformNth(PerformNth(PerformNth(PerformNth(w, actions, 1),
                                     actions, 2), actions, 3), actions, 4)

Feed(w, trigger) ==
    LET r == Reduce(w.v.session, trigger)
    IN PerformInOrder([w EXCEPT !.v.session = r.session], r.actions)

-----------------------------------------------------------------------------
(* One callback of the event loop                                          *)

\* A paste that left its preparation drops its Fetch: a reader that has
\* answered is joined, any other is abandoned to its deadline.
ReaderAfter(w) ==
    IF paste.state = "preparing" /\ w.j.state # "preparing"
    THEN IF paste.text # NoMail
         THEN [state |-> "idle", mail |-> NoMail]
         ELSE [reader EXCEPT !.mail = NoMail]
    ELSE reader

\* A refresh is of interest to a preparation only, and each start asks anew.
Becomes(w) ==
    /\ viewer' = w.v
    /\ paste' = w.j
    /\ path' = [w.p EXCEPT !.full = FALSE,
                           !.asked = @ /\ w.j.state = "preparing",
                           !.answer = IF w.j.state = "preparing" THEN @ ELSE "none"]

Callback(w) == Becomes(w) /\ reader' = ReaderAfter(w)

\* The queue may be full for what a callback submits.
WithQueue(full) == [World EXCEPT !.p.full = full]

\* over and popover: where the user has moved the pointer by now, and whether
\* a panel is open.  Neither is read while the chrome is unreachable.
RouteInputs(over, popover) ==
    [capture |-> viewer.session.capture, relative |-> viewer.relative,
     locked |-> viewer.grab, popover |-> popover, over |-> over,
     pasting |-> paste.state # "idle", outstanding |-> viewer.outstanding,
     pasteHeld |-> paste.held]

Sinks(event) ==
    {IF event.item = Left THEN RoutePointer(RouteInputs(over, popover), event)
     ELSE RouteKey(RouteInputs(over, popover), event) :
        over \in BOOLEAN, popover \in BOOLEAN}

\* window_event for KeyboardInput and MouseInput.
UserEdge(event, full) ==
    /\ full => viewer.session.capture = "Captured"
    /\ event.down <=> event.item \notin pressed
    /\ pressed' = Transition(pressed, event)
    /\ \E sink \in Sinks(event) :
          Callback(IF sink = "Target" THEN Feed(WithQueue(full), event)
                   ELSE World)

\* CursorMoved and device_event: motion over the target.
Move ==
    /\ Callback(Feed(World, Motion))
    /\ UNCHANGED pressed

\* Focused(false): what is let go elsewhere is never seen.
FocusLost ==
    /\ pressed' \in SUBSET pressed
    /\ Callback(Feed(World, Is("focus_lost")))

\* The release key, and user_event for an inhibitor the compositor broke.
LetOut ==
    /\ \E kind \in {"release_key", "inhibitor_inactive"} :
          Callback(Feed(World, Is(kind)))
    /\ UNCHANGED pressed

\* A window closed, an interrupt or a deadline: fed on every tick until the
\* loop stops.
CloseRequested ==
    /\ Callback(Feed(World, Is("close")))
    /\ UNCHANGED pressed

\* Mutation of TickDue: only a failed submission ends a session.
OnlyRetries == viewer.session.capture = "Engaging" /\ path.acked

\* A tick that changes something: another attempt to engage that will be
\* granted, or a session the input path has ended by itself.
TickDue ==
    \/ viewer.session.capture = "Engaging" /\ path.acked
    \/ viewer.session.capture = "Captured" /\ EndedByPath(path.engaged, path.link \notin Up)

Tick ==
    /\ TickDue
    /\ Callback(Feed(World, IF viewer.session.capture = "Engaging" THEN Is("retry")
                            ELSE EndedByPathTrigger(path.engaged, path.link \notin Up)))
    /\ UNCHANGED pressed

-----------------------------------------------------------------------------
(* The chrome                                                              *)

\* A panel can be open and clicked.
Reachable == ~Unreachable(RouteInputs(TRUE, TRUE))

\* Mutation of SetMouseMode: the grab follows the mode in every phase.
GrabWithMode(w) == IF w.v.relative THEN GrabPointer(w) ELSE [w EXCEPT !.v.grab = FALSE]

MoveGrab(w) ==
    CASE w.v.session.capture # "Captured" -> w
      [] w.v.session.capture = "Captured" /\ w.v.relative -> GrabPointer(w)
      [] OTHER -> [w EXCEPT !.v.grab = FALSE]

SetMouseMode ==
    /\ Reachable
    /\ Callback(MoveGrab([World EXCEPT !.v.relative = ~@]))
    /\ UNCHANGED pressed

FeedNth(w, events, n) ==
    IF n \in DOMAIN events THEN Feed(w, events[n]) ELSE w

\* The transitions of a shortcut, of which there are at most six.
FeedInOrder(w, events) ==
    FeedNth(FeedNth(FeedNth(FeedNth(FeedNth(FeedNth(w,
        events, 1), events, 2), events, 3), events, 4), events, 5), events, 6)

\* send_shortcut, whether or not a paste runs.
SendShortcut(full) ==
    /\ Reachable
    /\ viewer.session.capture = "Captured"
    /\ \E events \in Shortcuts :
          Callback(FeedInOrder(WithQueue(full), events))
    /\ UNCHANGED pressed

-----------------------------------------------------------------------------
(* Pasting                                                                 *)

Refused(w) == Finished(w, "none")

\* start_paste, from the chord or the menu: one clipboard reader at a time,
\* and the generation a fresh reading must differ from.
StartPaste ==
    /\ paste.state = "idle"
    /\ LET starts == viewer.session.capture = "Captured" /\ reader.state = "idle"
       IN /\ Becomes(IF starts
                     THEN [v |-> World.v, j |-> [paste EXCEPT !.state = "preparing"],
                           p |-> [path EXCEPT !.asked = TRUE]]
                     ELSE Refused(World))
          /\ reader' = IF starts THEN [state |-> "reading", mail |-> NoMail]
                       ELSE reader
    /\ UNCHANGED pressed

\* The chord over a paste is the release key.
PasteChordAgain ==
    /\ PasteChordCancels(paste.state # "idle")
    /\ Callback(Feed(World, Is("release_key")))
    /\ UNCHANGED pressed

\* PasteJob::new releases what the target holds, keys before buttons.
UpOf(item) == Edge(item, FALSE)
Prelude(outstanding) ==
    SetToSeq({UpOf(k) : k \in outstanding \ {Left}})
        \o SetToSeq({UpOf(k) : k \in outstanding \cap {Left}})

NewJob(outstanding, body) ==
    [NoPaste EXCEPT !.state = "running",
                    !.steps = Prelude(outstanding) \o body,
                    !.prelude = Len(Prelude(outstanding))]

\* What the device says of CapsLock; a stale reading says nothing.
LockReadings(p) == IF p.answer = "stale" THEN {"unknown"} ELSE {"on", "off"}

\* compile_and_start: what cannot be typed as it is read is refused whole.
CompileAndStart(w, text, lock) ==
    IF text.body = << >> \/ (text.cased /\ lock # "off") THEN Refused(w)
    ELSE [w EXCEPT !.j = NewJob(w.v.outstanding, text.body)]

\* advance_preparing: poll the reader, then join its answer with a moved
\* generation, or give up at the deadline.
AdvancePreparing(late) ==
    /\ paste.state = "preparing"
    /\ LET text == IF paste.text = NoMail THEN reader.mail ELSE paste.text
           rest == IF text = NoMail THEN reader
                   ELSE [state |-> "idle", mail |-> NoMail]
       IN CASE text = ReadError -> Becomes(Refused(World)) /\ reader' = rest
            [] text.is = "text" /\ path.answer # "none" ->
                  /\ \E lock \in LockReadings(path) :
                        Becomes(CompileAndStart(World, text, lock))
                  /\ reader' = rest
            [] late /\ text # ReadError /\ ~(text.is = "text" /\ path.answer # "none") ->
                  Becomes(Refused(World)) /\ reader' = rest
            [] OTHER -> /\ Becomes([World EXCEPT !.j.text = text])
                        /\ reader' = [reader EXCEPT !.mail = NoMail]
    /\ UNCHANGED pressed

Counted(j) ==
    [j EXCEPT !.sent = @ + 1, !.held = Transition(@, j.steps[j.sent + 1])]

\* delivered, unless feeding the step ended the job.
Delivered(w) ==
    CASE w.j.state # "running" -> w
      [] w.j.state = "running" /\ w.j.sent + 1 = Len(w.j.steps) -> Finished(w, "Done")
      [] OTHER -> [w EXCEPT !.j = Counted(@)]

\* advance_running: at most one due transition a pass.
AdvanceRunning(full) ==
    /\ paste.state = "running"
    /\ Callback(IF viewer.session.capture # "Captured"
                THEN Finished(World, "Failed")
                ELSE Delivered(Feed(WithQueue(full),
                                    paste.steps[paste.sent + 1])))
    /\ UNCHANGED pressed

-----------------------------------------------------------------------------
(* The clipboard reader and the writer                                     *)

\* The thread sends its answer, if anyone still holds the receiver...
ReaderAnswers ==
    /\ reader.state = "reading"
    /\ reader' \in [state: {"sent"},
                    mail: IF paste.state = "preparing" THEN Mails ELSE {NoMail}]
    /\ UNCHANGED <<viewer, paste, path, pressed>>

\* ...and opens the gate last.
ReaderEnds ==
    /\ reader.state = "sent"
    /\ reader' = [reader EXCEPT !.state = "idle"]
    /\ UNCHANGED <<viewer, paste, path, pressed>>

Acknowledge ==
    /\ ~path.acked
    /\ path' = [path EXCEPT !.acked = TRUE]
    /\ UNCHANGED <<viewer, paste, reader, pressed>>

\* The link is marked down before its cancellation is raised.
LoseLink ==
    /\ path.link = "up"
    /\ path' = [path EXCEPT !.link = "marked"]
    /\ UNCHANGED <<viewer, paste, reader, pressed>>

RaiseLinkDown ==
    /\ path.link = "marked"
    /\ path' = [Raised(path) EXCEPT !.link = "down"]
    /\ UNCHANGED <<viewer, paste, reader, pressed>>

\* What a preparing paste finds once the generation has moved past its
\* baseline; to anything else the reading is of no interest.
Published(p, reading) ==
    IF paste.state = "preparing" THEN [p EXCEPT !.answer = reading] ELSE p

\* Commissioning a replacement ends the session and publishes its GET_INFO.
Commission ==
    /\ path.link = "down"
    /\ path' = Published([Raised(path) EXCEPT !.link = "replaced", !.acked = TRUE],
                         "fresh")
    /\ UNCHANGED <<viewer, paste, reader, pressed>>

\* refresh_device_info: every attempt moves the generation, and one that
\* fails leaves a stale reading.
ServeRefresh ==
    /\ path.asked
    /\ \E reading \in IF path.link \in Up THEN {"fresh", "stale"} ELSE {"stale"} :
          path' = Published([path EXCEPT !.asked = FALSE], reading)
    /\ UNCHANGED <<viewer, paste, reader, pressed>>

-----------------------------------------------------------------------------
Next ==
    \/ \E event \in Edges, full \in BOOLEAN : UserEdge(event, full)
    \/ Move
    \/ FocusLost
    \/ LetOut
    \/ CloseRequested
    \/ Tick
    \/ SetMouseMode
    \/ \E full \in BOOLEAN : SendShortcut(full)
    \/ StartPaste
    \/ PasteChordAgain
    \/ \E late \in BOOLEAN : AdvancePreparing(late)
    \/ \E full \in BOOLEAN : AdvanceRunning(full)
    \/ ReaderAnswers
    \/ ReaderEnds
    \/ Acknowledge
    \/ LoseLink
    \/ RaiseLinkDown
    \/ Commission
    \/ ServeRefresh

\* The loop ticks whether or not events arrive, and the writer serves the
\* releases asked of it.
\* TickDue is ENABLED <<Tick>>_vars, written out: the first conjunct is
\* WF_vars(Tick).
Fairness ==
    /\ []<>(~TickDue) \/ []<><<Tick>>_vars
    /\ WF_vars(Acknowledge)

Spec == Init /\ [][Next]_vars
FairSpec == Spec /\ Fairness

-----------------------------------------------------------------------------
(* Properties                                                              *)

\* Whatever the target holds down, the user still holds or the running paste
\* put there: no press reaches it whose release a panel, a paste, a consumed
\* edge or a lost focus has taken.
NothingStuck == path.down \subseteq pressed \cup paste.held

\* Once a paste has lifted what it found down, exactly its own keys are down
\* on the target while it types: no press of the user's joins them and no
\* release of the user's ends one.  (A menu shortcut on a key of the text
\* would; Shortcuts and Bodies share none.)
PasteTypesAlone ==
    paste.state = "running" /\ paste.sent >= paste.prelude /\ path.engaged
        => path.down = paste.held

\* Outside a capture the compositor has its shortcuts and the user the
\* pointer; nothing is owed to the target and no paste runs.
HostControlsReturned ==
    viewer.session.capture = "Released" =>
        /\ ~viewer.armed /\ ~viewer.grab
        /\ viewer.outstanding = {} /\ path.down = {}
        /\ paste.state = "idle"

\* A session the input path ended is noticed without any input, and one
\* waiting for the path to acknowledge a release does not wait for ever.
Unsettled ==
    \/ viewer.session.capture = "Engaging"
    \/ viewer.session.capture = "Captured" /\ ~path.engaged

SessionFollowsPath == Unsettled ~> ~Unsettled
=============================================================================
