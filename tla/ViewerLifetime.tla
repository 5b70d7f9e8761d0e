---------------------------- MODULE ViewerLifetime ----------------------------
(***************************************************************************)
(* The viewer from start to exit: the main thread (src/src/main.rs,        *)
(* viewer/app.rs) starts the parts, runs the event loop and takes the      *)
(* parts down; beside it run the thread that dispatches the shortcut       *)
(* inhibitor's queue on the display the event loop owns                    *)
(* (viewer/wayland.rs), the render thread, and the input path's writer.    *)
(***************************************************************************)
EXTENDS Integers

CONSTANT MaxCaptures    \* bound: captures while the loop runs

VARIABLES
    main,       \* where the main thread is, and the error it will return
    parts,      \* writer, pipeline, audio: "none", "running", "asked", "ended"
    display,    \* the event loop's connection: "none", "open", "closed"
    app,        \* App: closing, el.exit, captures; an interrupt
    inhibit,    \* ShortcutInhibit: whether held, armed, its stop and gone flags
    dispatch,   \* its thread: "none", "head", "reading", "polling", "ended"
    renderer,   \* the render thread: "none", "drawing", "presenting", "finished"
    told,       \* what RenderShared says of it: stop, finished, fatal
    trespass    \* history: the inhibitor was used on a closed display

lifetimeVars ==
    <<main, parts, display, app, inhibit, dispatch, renderer, told, trespass>>

LifetimeInit ==
    /\ main = [at |-> "link", error |-> FALSE]
    /\ parts = [writer |-> "running", pipeline |-> "none", audio |-> "none"]
    /\ display = "none"
    /\ app = [interrupted |-> FALSE, closing |-> FALSE, exit |-> FALSE,
                 captures |-> 0]
    /\ inhibit = [held |-> FALSE, armed |-> FALSE, stop |-> FALSE, gone |-> FALSE]
    /\ dispatch = "none"
    /\ renderer = "none"
    /\ told = [stop |-> FALSE, finished |-> FALSE, fatal |-> FALSE]
    /\ trespass = FALSE

At(place) == main.at = place
Goto(place) == main' = [main EXCEPT !.at = place]
FailTo(place) == main' = [at |-> place, error |-> TRUE]

-----------------------------------------------------------------------------
(* run_viewer: each part is started if the one before it came up           *)

loopVars == <<display, app, inhibit, dispatch, renderer, told, trespass>>

\* wait_for_link, the open of the capture device, the settings, a flag.
StartFails ==
    /\ main.at \in {"link", "capture", "settings", "flags"}
    /\ FailTo("unwind")
    /\ UNCHANGED <<parts, loopVars>>

LinkUp == At("link") /\ Goto("capture") /\ UNCHANGED <<parts, loopVars>>

OpenCapture ==
    /\ At("capture") /\ Goto("settings")
    /\ parts' = [parts EXCEPT !.pipeline = "running"]
    /\ UNCHANGED loopVars

\* Sound may be switched off or have no device; it never stops the start.
LoadSettings ==
    /\ At("settings") /\ Goto("flags")
    /\ \E audio \in {"none", "running"} : parts' = [parts EXCEPT !.audio = audio]
    /\ UNCHANGED loopVars

\* The handles are dropped last first: sound stops, the pipeline is joined, and
\* the writer is asked to release but not waited for.
Unwind ==
    /\ At("unwind") /\ Goto("done")
    /\ parts' = [p \in DOMAIN parts |-> IF parts[p] # "running" THEN parts[p]
                                        ELSE IF p = "writer" THEN "asked" ELSE "ended"]
    /\ UNCHANGED loopVars

\* viewer::run; without an event loop the parts are taken down in order.
BuildLoop ==
    /\ At("flags")
    /\ \/ Goto("resume") /\ display' = "open"
       \/ FailTo("shutdown") /\ UNCHANGED display
    /\ UNCHANGED <<parts, app, inhibit, dispatch, renderer, told, trespass>>

-----------------------------------------------------------------------------
(* The event loop                                                          *)

\* resumed: the window, the GPU and the render thread, or the loop is told to
\* exit with the error; the inhibitor is optional.
Resumed ==
    /\ At("resume")
    /\ \/ /\ FailTo("loop")
          /\ app' = [app EXCEPT !.exit = TRUE]
          /\ UNCHANGED <<inhibit, dispatch, renderer>>
       \/ /\ Goto("loop")
          /\ renderer' = "drawing"
          /\ \E bound \in BOOLEAN :
                /\ inhibit' = [inhibit EXCEPT !.held = bound]
                /\ dispatch' = IF bound THEN "head" ELSE "none"
          /\ UNCHANGED app
    /\ UNCHANGED <<parts, display, told, trespass>>

Running == At("loop") /\ renderer # "none"

\* arm and disarm do nothing where there is nothing to do; a call on a
\* connection that is gone is the trespass the module's docs forbid.
Armed(i) == [i EXCEPT !.armed = @ \/ (i.held /\ ~i.gone)]
Disarmed(i) == [i EXCEPT !.armed = FALSE]
Calls(i) == i.armed /\ ~i.gone

Capture ==
    /\ Running /\ ~app.closing
    /\ app.captures < MaxCaptures
    /\ app' = [app EXCEPT !.captures = @ + 1]
    /\ inhibit' = Armed(inhibit)
    /\ UNCHANGED <<main, parts, display, dispatch, renderer, told, trespass>>

LeaveCapture ==
    /\ Running /\ inhibit.armed
    /\ inhibit' = Disarmed(inhibit)
    /\ UNCHANGED <<main, parts, display, app, dispatch, renderer, told, trespass>>

\* on_interrupt stores a flag; everything else happens on the loop's tick.
Signal ==
    /\ ~app.interrupted /\ ~At("done")
    /\ app' = [app EXCEPT !.interrupted = TRUE]
    /\ UNCHANGED <<main, parts, display, inhibit, dispatch, renderer, told, trespass>>

\* CloseRequested releases once and asks the loop to exit: the user's close,
\* --exit-after, the tick that sees an interrupt, or a dead render thread.
Closing ==
    /\ app' = [app EXCEPT !.closing = TRUE, !.exit = TRUE]
    /\ inhibit' = Disarmed(inhibit)
    /\ UNCHANGED <<parts, display, dispatch, renderer, told, trespass>>

Close == At("loop") /\ ~app.exit /\ UNCHANGED main /\ Closing
SeeInterrupt == app.interrupted /\ Close
SeeFatal == At("loop") /\ told.fatal /\ ~main.error /\ FailTo("loop") /\ Closing

\* winit calls exiting while the display is still there...
Exiting ==
    /\ At("loop") /\ app.exit
    /\ Goto("teardown")
    /\ UNCHANGED <<parts, loopVars>>

\* ...but a loop that fails may return without, and run gives the display up.
Abandoned(i) == [i EXCEPT !.gone = TRUE]

LoopFails ==
    /\ At("loop")
    /\ FailTo("teardown")
    /\ display' = "closed"
    /\ inhibit' = Abandoned(inhibit)
    /\ UNCHANGED <<parts, app, dispatch, renderer, told, trespass>>

-----------------------------------------------------------------------------
(* teardown, once                                                          *)

\* ShortcutInhibit's drop: disarm, then the stop flag, then the join.
DropInhibit ==
    /\ At("teardown") /\ Goto("join dispatch")
    /\ inhibit' = [Disarmed(inhibit) EXCEPT !.stop = TRUE]
    /\ trespass' = (trespass \/ (Calls(inhibit) /\ display = "closed"))
    /\ UNCHANGED <<parts, display, app, dispatch, renderer, told>>

DispatchJoined == dispatch \in {"none", "ended"}

JoinDispatch ==
    /\ At("join dispatch") /\ DispatchJoined
    /\ Goto("join render")
    /\ inhibit' = [inhibit EXCEPT !.held = FALSE]
    /\ told' = [told EXCEPT !.stop = TRUE]
    /\ UNCHANGED <<parts, display, app, dispatch, renderer, trespass>>

\* The loop's display goes once teardown and run_app have returned.
LeaveLoop ==
    /\ At("join render")
    /\ Goto("shutdown")
    /\ display' = "closed"
    /\ UNCHANGED <<parts, app, inhibit, dispatch, renderer, told, trespass>>

JoinRender == (renderer = "none" \/ told.finished) /\ LeaveLoop

\* Mutation of DetachRender: the thread is joined however long it takes.
NeverDetached == FALSE /\ LeaveLoop

\* wait_finished is bounded: a thread still inside present is detached, its
\* GPU objects left to the exit of the process.
DetachRender == renderer # "none" /\ ~told.finished /\ LeaveLoop

\* shutdown joins the writer, stop the pipeline, the drop the sound.
AskWriter ==
    /\ At("shutdown") /\ Goto("join writer")
    /\ parts' = [parts EXCEPT !.writer = "asked"]
    /\ UNCHANGED loopVars

StopParts ==
    /\ At("join writer") /\ parts.writer = "ended"
    /\ Goto("done")
    /\ parts' = [parts EXCEPT !.pipeline = "ended",
                              !.audio = IF @ = "running" THEN "ended" ELSE @]
    /\ UNCHANGED loopVars

-----------------------------------------------------------------------------
(* The other threads                                                       *)

\* The writer's last act is the release-all (InputPath).
WriterEnds ==
    /\ parts.writer = "asked" /\ ~At("done")
    /\ parts' = [parts EXCEPT !.writer = "ended"]
    /\ UNCHANGED <<main, loopVars>>

\* dispatch_loop: the flag, then what is queued and the prepared read, then a
\* poll that ends by itself; any error ends the thread.
DispatchGoes(to) ==
    /\ dispatch' = to
    /\ UNCHANGED <<main, parts, display, app, inhibit, renderer, told, trespass>>

DispatchHead == dispatch = "head" /\ DispatchGoes(IF inhibit.stop THEN "ended" ELSE "reading")
DispatchReads == dispatch = "reading" /\ \E to \in {"head", "polling", "ended"} : DispatchGoes(to)
DispatchPolls == dispatch = "polling" /\ \E to \in {"head", "ended"} : DispatchGoes(to)

RenderGoes(to) ==
    /\ renderer' = to
    /\ UNCHANGED <<main, parts, display, app, inhibit, dispatch, told, trespass>>

Draws == renderer = "drawing" /\ ~told.stop /\ RenderGoes("presenting")
Presents == renderer = "presenting" /\ RenderGoes("drawing")   \* or never

\* FinishGuard marks the end however it comes; a failure leaves its message.
RenderEnds ==
    /\ renderer = "drawing"
    /\ renderer' = "finished"
    /\ \E fatal \in BOOLEAN :
          /\ told.stop \/ fatal
          /\ told' = [told EXCEPT !.finished = TRUE, !.fatal = @ \/ fatal]
    /\ UNCHANGED <<main, parts, display, app, inhibit, dispatch, trespass>>

-----------------------------------------------------------------------------
StartSteps == StartFails \/ LinkUp \/ OpenCapture \/ LoadSettings \/ Unwind \/ BuildLoop
LoopSteps == Resumed \/ SeeInterrupt \/ SeeFatal \/ Exiting
EndSteps == DropInhibit \/ JoinDispatch \/ JoinRender \/ DetachRender \/ AskWriter \/ StopParts
MainSteps == StartSteps \/ LoopSteps \/ EndSteps

DispatchSteps == DispatchHead \/ DispatchReads \/ DispatchPolls

LifetimeNext ==
    \/ MainSteps \/ WriterEnds \/ DispatchSteps
    \/ Capture \/ LeaveCapture \/ Signal \/ Close \/ LoopFails
    \/ Draws \/ Presents \/ RenderEnds

-----------------------------------------------------------------------------
(* Properties                                                              *)

\* Where the loop ended as it should, nobody is left on its display and no
\* inhibitor is left up; where it did not, the inhibitor's owner does not touch
\* the display.  And an interrupt, a close, a dead render thread or a failed
\* start always end the process with the release-all asked of the writer -
\* and, once the loop ran, done - though a present may never return.
OrderlyEnd ==
    /\ [](/\ display = "closed" /\ ~inhibit.gone =>
               dispatch \in {"none", "ended"} /\ ~inhibit.armed
          /\ ~trespass
          /\ At("done") => /\ parts.writer \in {"asked", "ended"}
                           /\ display = "closed" => parts.writer = "ended")
    /\ (app.interrupted \/ app.exit \/ told.fatal \/ main.error) ~> At("done")
=============================================================================
