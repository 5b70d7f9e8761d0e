--------------------------- MODULE ViewerReducer ---------------------------
(***************************************************************************)
(* The pure part of the viewer: the capture state machine of               *)
(* src/src/viewer/state.rs and the routing rule of                         *)
(* src/src/viewer/chrome/route.rs.  A trigger takes a session to a session *)
(* and a sequence of actions the event loop must perform in that order.    *)
(***************************************************************************)
EXTENDS Sequences, FiniteSets

CONSTANTS
    Left,      \* button::LEFT, the button whose press captures
    Enter,     \* the key whose press captures
    Plain      \* other keys

Keys == {Enter} \cup Plain
Items == Keys \cup {Left}

\* The two edges that can enter capture.
Capturing == {Left, Enter}

Phases == {"Released", "Engaging", "Captured"}

\* consumed is consumed_left and consumed_enter as one set.  The notice a
\* failed session leaves on screen is not kept.
Sessions == [capture: Phases, consumed: SUBSET Capturing, closing: BOOLEAN]

FreshSession == [capture |-> "Released", consumed |-> {}, closing |-> FALSE]

Edge(item, down) == [kind |-> "edge", item |-> item, down |-> down]
Edges == [kind: {"edge"}, item: Items, down: BOOLEAN]
KeyEdges == [kind: {"edge"}, item: Keys, down: BOOLEAN]

Motion == [kind |-> "motion"]

Is(kind) == [kind |-> kind]
SubmitFailed(error) == [kind |-> "submit_failed", error |-> error]

-----------------------------------------------------------------------------
(* reduce                                                                  *)

Act(name) == [do |-> name]
Forward(event) == [do |-> "Forward", event |-> event]
ReleaseAll(reason) == [do |-> "ReleaseAll", reason |-> reason]

LeaveCapture(reason) ==
    << ReleaseAll(reason), Act("DisarmInhibitor"), Act("ReleasePointer") >>

BeginCapture == << Act("ArmInhibitor"), Act("GrabPointer"), Act("TryEngage") >>

Outcome(session, actions) == [session |-> session, actions |-> actions]

ReasonFor(error) == IF error = "Disengaged" THEN "CaptureReleased" ELSE error

Release(s, reason) ==
    Outcome([s EXCEPT !.capture = "Released", !.consumed = {}],
            LeaveCapture(reason))

\* plain_input: motion and every edge that may not capture.
PlainInput(s, event) ==
    Outcome(s, CASE s.capture = "Captured" -> << Forward(event) >>
                 [] s.capture = "Engaging" -> << Act("TryEngage") >>
                 [] s.capture = "Released" -> << >>)

\* capturing_edge: a press that captures is consumed, and its release with it
\* in whatever phase it comes; a press while captured is genuine.
CapturingEdge(s, event) ==
    LET pending == [s EXCEPT !.consumed = @ \cup {event.item}]
        settled == [s EXCEPT !.consumed = @ \ {event.item}]
    IN CASE event.down /\ s.capture = "Captured" ->
              Outcome(settled, << Forward(event) >>)
         [] event.down /\ s.capture = "Released" ->
              Outcome([pending EXCEPT !.capture = "Engaging"], BeginCapture)
         [] event.down /\ s.capture = "Engaging" ->
              Outcome(pending, << Act("TryEngage") >>)
         [] ~event.down /\ event.item \in s.consumed -> Outcome(settled, << >>)
         [] OTHER -> PlainInput(s, event)

\* The arms that matter only outside Released.
Control(s, trigger) ==
    CASE trigger.kind = "focus_lost" -> Release(s, "FocusLost")
      [] trigger.kind \in {"inhibitor_inactive", "release_key"} ->
            Release(s, "UserRequested")
      [] trigger.kind = "submit_failed" ->
            Release(s, ReasonFor(trigger.error))
      [] trigger.kind = "engage_succeeded" /\ s.capture = "Engaging" ->
            Outcome([s EXCEPT !.capture = "Captured"], << >>)
      [] trigger.kind = "retry" /\ s.capture = "Engaging" ->
            Outcome(s, << Act("TryEngage") >>)
      [] OTHER -> Outcome(s, << >>)

\* Closing wins from every state and releases once; after it nothing else.
Close(s) ==
    IF s.closing THEN Outcome(s, << Act("Exit") >>)
    ELSE LET r == Release(s, "Shutdown")
         IN Outcome([r.session EXCEPT !.closing = TRUE],
                    Append(r.actions, Act("Exit")))

Reduce(s, trigger) ==
    CASE trigger.kind = "close" -> Close(s)
      [] trigger.kind # "close" /\ s.closing -> Outcome(s, << >>)
      [] trigger.kind = "edge" /\ ~s.closing ->
            IF trigger.item \in Capturing THEN CapturingEdge(s, trigger)
            ELSE PlainInput(s, trigger)
      [] trigger.kind = "motion" /\ ~s.closing -> PlainInput(s, trigger)
      [] OTHER -> IF s.capture = "Released" THEN Outcome(s, << >>)
                  ELSE Control(s, trigger)

\* self_release_trigger: the input path ended the session by itself.
EndedByPath(engaged, linkDown) == ~engaged \/ linkDown

EndedByPathTrigger(engaged, linkDown) ==
    SubmitFailed(IF ~engaged THEN "Disengaged" ELSE "LinkDown")

-----------------------------------------------------------------------------
(* route_key, route_pointer                                                *)

\* RouteInputs: capture, relative, locked, popover, over, pasting, outstanding
\* and pasteHeld, all read at once on the event loop's thread.
Unreachable(i) == i.capture = "Captured" /\ i.relative /\ i.locked

\* Mutation of RouteKey: a paste's own key takes the user's release.
RouteKeyOwedAlways(i, event) ==
    IF ~event.down /\ event.item \in i.outstanding THEN "Target"
    ELSE IF i.pasting THEN "Dropped"
    ELSE IF ~Unreachable(i) /\ i.popover THEN "Chrome"
    ELSE "Target"

RouteKey(i, event) ==
    IF ~event.down /\ event.item \in i.outstanding \ i.pasteHeld THEN "Target"
    ELSE IF i.pasting THEN "Dropped"
    ELSE IF ~Unreachable(i) /\ i.popover THEN "Chrome"
    ELSE "Target"

\* Mutation of RoutePointer: a panel that opened since the press takes the
\* release of a button the target holds.
RoutePointerToPanel(i, event) ==
    IF ~Unreachable(i) /\ (i.over \/ i.popover) THEN "Chrome"
    ELSE IF i.pasting /\ event.down THEN "Dropped" ELSE "Target"

RoutePointer(i, event) ==
    IF ~event.down /\ event.item \in i.outstanding THEN "Target"
    ELSE IF ~Unreachable(i) /\ (i.over \/ i.popover) THEN "Chrome"
    ELSE IF i.pasting /\ event.down THEN "Dropped"
    ELSE "Target"

\* resolve_paste_chord: the chord cancels the paste it would have repeated.
PasteChordCancels(pasting) == pasting
=============================================================================
