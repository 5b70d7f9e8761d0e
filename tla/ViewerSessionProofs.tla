------------------------ MODULE ViewerSessionProofs ------------------------
(***************************************************************************)
(* Proofs about the viewer's event loop: whatever a trigger is and however *)
(* its submission fails, a callback keeps the loop, its paste and the path *)
(* consistent; nothing is stuck on the target, a paste types alone and the *)
(* host's controls come back.                                              *)
(***************************************************************************)
EXTENDS ViewerSession, TLAPS, FiniteSetTheorems, SequenceTheorems

-----------------------------------------------------------------------------
(* Worlds                                                                  *)

Endings == {"none", "Cancelled", "Failed", "Done"}

Viewers == [session: Sessions, outstanding: SUBSET Items, armed: BOOLEAN,
            grab: BOOLEAN, relative: BOOLEAN, ended: Endings]

Pastes == [state: {"idle", "preparing", "running"}, text: Mails \cup {NoMail},
           steps: Seq(Edges), sent: Nat, prelude: Nat, held: SUBSET Items]

Paths == [engaged: BOOLEAN, acked: BOOLEAN,
          link: {"up", "marked", "down", "replaced"}, down: SUBSET Items,
          asked: BOOLEAN, answer: {"none", "fresh", "stale"}, full: BOOLEAN]

Worlds == [v: Viewers, j: Pastes, p: Paths]

\* The keys a text can compile to.
TypedKeys ==
    {x \in Keys : \E body \in Bodies : \E i \in DOMAIN body : body[i].item = x}

\* What a paste still has to release of what it has pressed comes up in a
\* step it has not sent.
RunningWell(j) ==
    /\ j.sent < Len(j.steps) /\ j.prelude < Len(j.steps)
    /\ \A i \in DOMAIN j.steps :
          IF i <= j.prelude THEN ~j.steps[i].down
          ELSE j.steps[i].item \in TypedKeys
    /\ Balanced(j.steps)
    /\ j.held \subseteq TypedKeys
    /\ \A x \in j.held :
          \E k \in (j.sent + 1)..Len(j.steps) : j.steps[k] = Edge(x, FALSE)

JobOk(j) ==
    /\ j.state = "idle" => j = NoPaste
    /\ j.state = "preparing" => j.held = {}
    /\ j.state = "running" => RunningWell(j)

\* Only a captured session holds anything or pastes; a consumed press is not
\* on the target; the target holds what is outstanding while engaged.
Sound(w) ==
    /\ w \in Worlds
    /\ JobOk(w.j)
    /\ w.v.session.capture # "Captured" => w.v.outstanding = {} /\ w.j = NoPaste
    /\ w.v.session.capture = "Released" => ~w.v.armed /\ ~w.v.grab
    /\ w.v.session.closing => w.v.session.capture = "Released"
    /\ w.v.session.consumed \cap w.v.outstanding = {}
    /\ w.p.down = IF w.p.engaged THEN w.v.outstanding ELSE {}

Errors == {"Disengaged", "LinkDown", "Overflow"}

Reasons == {"FocusLost", "UserRequested", "Shutdown", "CaptureReleased",
            "LinkDown", "Overflow"}

Triggers ==
    Edges \cup {Motion} \cup {SubmitFailed(error) : error \in Errors}
      \cup {Is(kind) : kind \in {"focus_lost", "release_key",
                                 "inhibitor_inactive", "retry", "close"}}

-----------------------------------------------------------------------------
(* The reducer                                                             *)

Stays(s, r) ==
    /\ r.session \in Sessions /\ r.session.capture = s.capture
    /\ r.session.closing = s.closing

Ends(r) ==
    /\ r.session \in Sessions /\ r.session.capture = "Released"
    /\ r.session.consumed = {}

\* What a trigger can ask for: nothing, an end, a forwarded event, or a step
\* towards capture.
Ignores(s, t, r) ==
    /\ r.actions = << >> /\ Stays(s, r)
    /\ r.session.consumed \subseteq s.consumed
    /\ s.capture = "Captured" /\ t.kind = "edge" =>
          ~t.down /\ t.item \in s.consumed

Leaves(r) == Ends(r) /\ \E reason \in Reasons : r.actions = LeaveCapture(reason)

Exits(s, r) ==
    \/ Ends(r) /\ r.actions = Append(LeaveCapture("Shutdown"), Act("Exit"))
    \/ s.closing /\ r.session = s /\ r.actions = << Act("Exit") >>

Forwards(s, t, r) ==
    /\ s.capture = "Captured" /\ t \in Edges \cup {Motion}
    /\ r.actions = << Forward(t) >> /\ Stays(s, r)
    /\ r.session.consumed \subseteq s.consumed
    /\ t.kind = "edge" /\ t.down => t.item \notin r.session.consumed

Tries(s, r) ==
    /\ s.capture = "Engaging" /\ r.actions = << Act("TryEngage") >>
    /\ Stays(s, r)

Begins(s, r) ==
    /\ s.capture = "Released" /\ r.actions = BeginCapture
    /\ r.session \in Sessions /\ r.session.capture = "Engaging"
    /\ ~r.session.closing

LEMMA SessionSets ==
    ASSUME NEW s \in Sessions
    PROVE /\ \A c \in SUBSET Capturing :
                /\ [s EXCEPT !.consumed = c] \in Sessions
                /\ [s EXCEPT !.consumed = c].consumed = c
                /\ [s EXCEPT !.consumed = c].capture = s.capture
                /\ [s EXCEPT !.consumed = c].closing = s.closing
          /\ \A phase \in Phases :
                /\ [s EXCEPT !.capture = phase] \in Sessions
                /\ [s EXCEPT !.capture = phase].capture = phase
                /\ [s EXCEPT !.capture = phase].consumed = s.consumed
                /\ [s EXCEPT !.capture = phase].closing = s.closing
          /\ [s EXCEPT !.closing = TRUE] \in Sessions
          /\ [s EXCEPT !.closing = TRUE].capture = s.capture
          /\ [s EXCEPT !.closing = TRUE].consumed = s.consumed
  BY DEF Sessions

\* An edge of a key or button is reduced to one of these (state.rs, reduce).
LEMMA EdgeReduced ==
    ASSUME NEW s \in Sessions, NEW t \in Edges, ~s.closing
    PROVE LET r == Reduce(s, t)
          IN Ignores(s, t, r) \/ Forwards(s, t, r) \/ Tries(s, r) \/ Begins(s, r)
  <1> DEFINE r == Reduce(s, t)
  <1>1. /\ s.capture \in Phases /\ s.consumed \subseteq Capturing
        /\ s = [capture |-> s.capture, consumed |-> s.consumed, closing |-> FALSE]
        /\ t.kind = "edge" /\ t.item \in Items /\ t.down \in BOOLEAN
    BY DEF Sessions, Edges
  <1>2. r = IF t.item \in Capturing THEN CapturingEdge(s, t) ELSE PlainInput(s, t)
    BY <1>1 DEF Reduce
  <1>3. CASE r = PlainInput(s, t) /\ (t.down => t.item \notin Capturing)
    <2>1. CASE s.capture = "Captured"
      <3>1. r.actions = << Forward(t) >> /\ r.session = s
        BY <1>3, <2>1 DEF PlainInput, Outcome
      <3> QED
        BY <3>1, <2>1, <1>1, <1>3 DEF Forwards, Stays
    <2>2. CASE s.capture = "Engaging"
      BY <1>3, <2>2 DEF PlainInput, Outcome, Tries, Stays
    <2>3. CASE s.capture = "Released"
      BY <1>3, <2>3 DEF PlainInput, Outcome, Ignores, Stays
    <2> QED
      BY <2>1, <2>2, <2>3, <1>1 DEF Phases
  <1>4. CASE t.item \in Capturing /\ t.down
    <2>1. CASE s.capture = "Captured"
      <3>1. /\ r.actions = << Forward(t) >>
            /\ r.session = [s EXCEPT !.consumed = @ \ {t.item}]
        BY <1>2, <1>4, <2>1 DEF CapturingEdge, Outcome
      <3>2. r.session \in Sessions /\ r.session.capture = s.capture /\
            r.session.closing = s.closing /\
            r.session.consumed = s.consumed \ {t.item}
        BY <3>1 DEF Sessions
      <3> QED
        BY <3>1, <3>2, <2>1 DEF Forwards, Stays
    <2>2. CASE s.capture = "Engaging"
      <3>1. /\ r.actions = << Act("TryEngage") >>
            /\ r.session = [s EXCEPT !.consumed = @ \cup {t.item}]
        BY <1>2, <1>4, <2>2 DEF CapturingEdge, Outcome
      <3>2. r.session \in Sessions /\ r.session.capture = s.capture /\
            r.session.closing = s.closing
        BY <3>1, <1>4 DEF Sessions
      <3> QED
        BY <3>1, <3>2, <2>2 DEF Tries, Stays
    <2>3. CASE s.capture = "Released"
      <3>1. /\ r.actions = BeginCapture
            /\ r.session = [[s EXCEPT !.consumed = @ \cup {t.item}]
                               EXCEPT !.capture = "Engaging"]
        BY <1>2, <1>4, <2>3 DEF CapturingEdge, Outcome
      <3> DEFINE s1 == [s EXCEPT !.consumed = @ \cup {t.item}]
      <3>2. s.consumed \cup {t.item} \in SUBSET Capturing
        BY <1>1, <1>4
      <3>3. s1 \in Sessions /\ s1.closing = s.closing
        BY <3>2, SessionSets
      <3>4. /\ [s1 EXCEPT !.capture = "Engaging"] \in Sessions
            /\ [s1 EXCEPT !.capture = "Engaging"].capture = "Engaging"
            /\ [s1 EXCEPT !.capture = "Engaging"].closing = s1.closing
        <4> HIDE DEF s1
        <4> QED
          BY <3>3, SessionSets DEF Phases
      <3>5. r.session \in Sessions /\ r.session.capture = "Engaging" /\
            ~r.session.closing
        BY <3>1, <3>3, <3>4
      <3> QED
        BY <3>1, <3>5, <2>3 DEF Begins
    <2> QED
      BY <2>1, <2>2, <2>3, <1>1 DEF Phases
  <1>5. CASE t.item \in Capturing /\ ~t.down
    <2>1. CASE t.item \in s.consumed
      <3>0. r = Outcome([s EXCEPT !.consumed = @ \ {t.item}], << >>)
        BY <1>2, <1>5, <2>1 DEF CapturingEdge
      <3>1. /\ r.actions = << >>
            /\ r.session = [s EXCEPT !.consumed = @ \ {t.item}]
        BY <3>0 DEF Outcome
      <3>2. r.session \in Sessions /\ r.session.capture = s.capture /\
            r.session.closing = s.closing /\
            r.session.consumed = s.consumed \ {t.item}
        BY <3>1 DEF Sessions
      <3> QED
        BY <3>1, <3>2, <2>1, <1>5 DEF Ignores, Stays
    <2>2. CASE t.item \notin s.consumed
      <3>1. r = PlainInput(s, t)
        BY <1>2, <1>5, <2>2 DEF CapturingEdge
      <3> QED
        BY <3>1, <1>3, <1>5
    <2> QED
      BY <2>1, <2>2
  <1> QED
    BY <1>2, <1>3, <1>4, <1>5, <1>1

\* Every other trigger ends the session, is ignored, forwarded or another
\* attempt to engage (state.rs, reduce).
LEMMA Reduced ==
    ASSUME NEW s \in Sessions, NEW t \in Triggers,
           s.closing => s.capture = "Released"
    PROVE LET r == Reduce(s, t)
          IN \/ Ignores(s, t, r) \/ Leaves(r) \/ Exits(s, r)
             \/ Forwards(s, t, r) \/ Tries(s, r) \/ Begins(s, r)
  <1> DEFINE r == Reduce(s, t)
  <1>1. /\ s.capture \in Phases /\ s.consumed \subseteq Capturing
        /\ s.closing \in BOOLEAN
    BY DEF Sessions
  <1>2. \A reason \in Reasons : Leaves(Release(s, reason))
    <2> SUFFICES ASSUME NEW reason \in Reasons PROVE Leaves(Release(s, reason))
      OBVIOUS
    <2>1. /\ Release(s, reason).actions = LeaveCapture(reason)
          /\ Release(s, reason).session =
                [s EXCEPT !.capture = "Released", !.consumed = {}]
      BY DEF Release, Outcome
    <2>2. Ends(Release(s, reason))
      BY <2>1 DEF Ends, Sessions, Phases
    <2> QED
      BY <2>1, <2>2 DEF Leaves
  <1>3. Ignores(s, t, Outcome(s, << >>)) \/ (s.capture = "Captured" /\ t.kind = "edge")
    BY DEF Ignores, Stays, Outcome
  <1>4. CASE t.kind = "close"
    <2>1. r = Close(s)
      BY <1>4 DEF Reduce
    <2>2. CASE s.closing
      BY <2>1, <2>2 DEF Close, Exits, Outcome
    <2>3. CASE ~s.closing
      <3>1. /\ r.session = [Release(s, "Shutdown").session EXCEPT !.closing = TRUE]
            /\ r.actions = Append(LeaveCapture("Shutdown"), Act("Exit"))
        BY <2>1, <2>3 DEF Close, Outcome, Release
      <3>2. Release(s, "Shutdown").session \in Sessions /\
            Release(s, "Shutdown").session.capture = "Released" /\
            Release(s, "Shutdown").session.consumed = {}
        BY <1>2 DEF Leaves, Ends, Reasons
      <3>3. Ends(r)
        BY <3>1, <3>2, SessionSets DEF Ends
      <3> QED
        BY <3>1, <3>3 DEF Exits
    <2> QED
      BY <2>2, <2>3
  <1>5. CASE t.kind # "close" /\ s.closing
    <2>1. r = Outcome(s, << >>)
      BY <1>5 DEF Reduce
    <2> QED
      BY <2>1, <1>3, <1>5
  <1>6. CASE t \in Edges /\ ~s.closing
    BY <1>6, EdgeReduced
  <1>7. CASE t = Motion /\ ~s.closing
    <2>1. r = PlainInput(s, t) /\ t.kind = "motion"
      BY <1>7 DEF Reduce, Motion
    <2>2. CASE s.capture = "Captured"
      <3>1. r.actions = << Forward(t) >> /\ r.session = s
        BY <2>1, <2>2 DEF PlainInput, Outcome
      <3> QED
        BY <3>1, <2>1, <2>2, <1>7 DEF Forwards, Stays
    <2>3. CASE s.capture = "Engaging"
      BY <2>1, <2>3 DEF PlainInput, Outcome, Tries, Stays
    <2>4. CASE s.capture = "Released"
      BY <2>1, <2>4 DEF PlainInput, Outcome, Ignores, Stays
    <2> QED
      BY <2>2, <2>3, <2>4, <1>1 DEF Phases
  <1>8. CASE t.kind \in {"focus_lost", "release_key", "inhibitor_inactive",
                         "retry", "submit_failed"} /\ ~s.closing
    <2>1. r = IF s.capture = "Released" THEN Outcome(s, << >>) ELSE Control(s, t)
      BY <1>8 DEF Reduce
    <2>2. CASE s.capture = "Released"
      BY <2>1, <2>2, <1>3
    <2>3. CASE s.capture # "Released" /\ t.kind = "retry"
      <3>1. r = IF s.capture = "Engaging" THEN Outcome(s, << Act("TryEngage") >>)
                ELSE Outcome(s, << >>)
        BY <2>1, <2>3 DEF Control
      <3>2. CASE s.capture = "Engaging"
        BY <3>1, <3>2 DEF Outcome, Tries, Stays
      <3> QED
        BY <3>1, <3>2, <1>3, <2>3
    <2>4. CASE s.capture # "Released" /\ t.kind = "focus_lost"
      BY <2>1, <2>4, <1>2 DEF Control, Reasons
    <2>5. CASE s.capture # "Released" /\ t.kind \in {"inhibitor_inactive", "release_key"}
      BY <2>1, <2>5, <1>2 DEF Control, Reasons
    <2>6. CASE s.capture # "Released" /\ t.kind = "submit_failed"
      <3>1. t.error \in Errors
        BY <2>6 DEF Triggers, SubmitFailed, Is, Motion, Edges
      <3>2. ReasonFor(t.error) \in Reasons
        BY <3>1 DEF Errors, ReasonFor, Reasons
      <3> QED
        BY <2>1, <2>6, <3>2, <1>2 DEF Control
    <2> QED
      BY <2>2, <2>3, <2>4, <2>5, <2>6, <1>8
  <1>9. \/ t \in Edges \/ t = Motion \/ t.kind = "close"
        \/ t.kind \in {"focus_lost", "release_key", "inhibitor_inactive",
                       "retry", "submit_failed"}
    BY DEF Triggers, Is, SubmitFailed
  <1> QED
    BY <1>1, <1>4, <1>5, <1>6, <1>7, <1>8, <1>9

-----------------------------------------------------------------------------
(* Performing one action                                                   *)

\* What a callback keeps of a world where it changes one field.
SameViewer(w, u) ==
    /\ u.v.session = w.v.session /\ u.v.outstanding = w.v.outstanding
    /\ u.v.armed = w.v.armed /\ u.v.grab = w.v.grab

LEMMA NoPasteType == NoPaste \in Pastes /\ NoPaste.state = "idle" /\ NoPaste.held = {}
  <1>1. << >> \in Seq(Edges)
    OBVIOUS
  <1> QED
    BY <1>1 DEF NoPaste, Pastes

\* The updates of a callback, one field of the world each.
WithSession(w, session) == [w EXCEPT !.v.session = session]
WithOutstanding(w, outstanding) == [w EXCEPT !.v.outstanding = outstanding]
WithArmed(w, armed) == [w EXCEPT !.v.armed = armed]
WithGrab(w, grab) == [w EXCEPT !.v.grab = grab]
WithEnding(w, ended) == [w EXCEPT !.v.ended = ended]
WithMode(w, relative) == [w EXCEPT !.v.relative = relative]
WithPath(w, p) == [v |-> w.v, j |-> w.j, p |-> p]
WithJob(w, j) == [v |-> w.v, j |-> j, p |-> w.p]

LEMMA SessionSet ==
    ASSUME NEW w \in Worlds, NEW session \in Sessions
    PROVE LET u == WithSession(w, session)
          IN /\ u \in Worlds /\ u.j = w.j /\ u.p = w.p
             /\ u.v.session = session /\ u.v.outstanding = w.v.outstanding
             /\ u.v.armed = w.v.armed /\ u.v.grab = w.v.grab
  BY DEF WithSession, Worlds, Viewers

LEMMA OutstandingSet ==
    ASSUME NEW w \in Worlds, NEW outstanding \in SUBSET Items
    PROVE LET u == WithOutstanding(w, outstanding)
          IN /\ u \in Worlds /\ u.j = w.j /\ u.p = w.p
             /\ u.v.session = w.v.session /\ u.v.outstanding = outstanding
             /\ u.v.armed = w.v.armed /\ u.v.grab = w.v.grab
  BY DEF WithOutstanding, Worlds, Viewers

LEMMA ArmedSet ==
    ASSUME NEW w \in Worlds
    PROVE /\ WithArmed(w, TRUE) \in Worlds /\ WithArmed(w, TRUE).j = w.j
          /\ WithArmed(w, TRUE).p = w.p
          /\ WithArmed(w, TRUE).v.session = w.v.session
          /\ WithArmed(w, TRUE).v.outstanding = w.v.outstanding
          /\ WithArmed(w, FALSE) \in Worlds /\ WithArmed(w, FALSE).j = w.j
          /\ WithArmed(w, FALSE).p = w.p
          /\ WithArmed(w, FALSE).v.session = w.v.session
          /\ WithArmed(w, FALSE).v.outstanding = w.v.outstanding
          /\ ~WithArmed(w, FALSE).v.armed
  BY DEF WithArmed, Worlds, Viewers

LEMMA GrabSet ==
    ASSUME NEW w \in Worlds
    PROVE \A grab \in BOOLEAN :
                /\ WithGrab(w, grab) \in Worlds
                /\ WithGrab(w, grab).j = w.j /\ WithGrab(w, grab).p = w.p
                /\ WithGrab(w, grab).v.session = w.v.session
                /\ WithGrab(w, grab).v.outstanding = w.v.outstanding
  BY DEF WithGrab, Worlds, Viewers

LEMMA GrabCleared ==
    ASSUME NEW w \in Worlds
    PROVE /\ WithGrab(w, FALSE) \in Worlds
          /\ WithGrab(w, FALSE).j = w.j /\ WithGrab(w, FALSE).p = w.p
          /\ WithGrab(w, FALSE).v.session = w.v.session
          /\ WithGrab(w, FALSE).v.outstanding = w.v.outstanding
          /\ ~w.v.armed => ~WithGrab(w, FALSE).v.armed
          /\ ~WithGrab(w, FALSE).v.grab
  BY DEF WithGrab, Worlds, Viewers

LEMMA EndingSet ==
    ASSUME NEW w \in Worlds, NEW ended \in Endings
    PROVE LET u == WithEnding(w, ended)
          IN /\ u \in Worlds /\ u.j = w.j /\ u.p = w.p /\ SameViewer(w, u)
  BY DEF WithEnding, Worlds, Viewers, SameViewer

LEMMA ModeSet ==
    ASSUME NEW w \in Worlds, NEW relative \in BOOLEAN
    PROVE LET u == WithMode(w, relative)
          IN /\ u \in Worlds /\ u.j = w.j /\ u.p = w.p /\ SameViewer(w, u)
  BY DEF WithMode, Worlds, Viewers, SameViewer

LEMMA PathSet ==
    ASSUME NEW w \in Worlds, NEW p \in Paths
    PROVE LET u == WithPath(w, p)
          IN u \in Worlds /\ u.v = w.v /\ u.j = w.j /\ u.p = p
  BY DEF WithPath, Worlds

LEMMA JobSet ==
    ASSUME NEW w \in Worlds, NEW j \in Pastes
    PROVE LET u == WithJob(w, j)
          IN u \in Worlds /\ u.v = w.v /\ u.j = j /\ u.p = w.p
  BY DEF WithJob, Worlds

LEMMA RaisedPath ==
    ASSUME NEW p \in Paths
    PROVE Raised(p) \in Paths /\ Raised(p).down = {} /\ ~Raised(p).engaged
  BY DEF Paths, Raised

\* An ended paste leaves no job and touches nothing the target sees.
LEMMA FinishedLeavesNoPaste ==
    ASSUME NEW w \in Worlds, NEW as \in Endings
    PROVE LET c == Finished(w, as)
          IN c \in Worlds /\ c.j = NoPaste /\ c.p = w.p /\ SameViewer(w, c)
  <1> DEFINE c == Finished(w, as)
             x == WithEnding(w, as)
  <1>1. x \in Worlds /\ x.p = w.p /\ SameViewer(w, x)
    BY EndingSet
  <1>2. x.v = [w.v EXCEPT !.ended = as]
    BY DEF WithEnding, Worlds
  <1>3. c = WithJob(x, NoPaste)
    BY <1>1, <1>2 DEF Finished, WithJob
  <1> HIDE DEF x
  <1> QED
    BY <1>1, <1>3, NoPasteType, JobSet DEF SameViewer

LEMMA CancelLeavesNoPaste ==
    ASSUME NEW w \in Worlds, NEW reason \in Reasons
    PROVE LET c == CancelPaste(w, reason)
          IN c \in Worlds /\ c.j = NoPaste /\ c.p = w.p /\ SameViewer(w, c)
  <1>1. w.v.ended \in Endings /\ w.j.state \in {"idle", "preparing", "running"}
    BY DEF Worlds, Viewers, Pastes
  <1>2. PICK e \in Endings : CancelPaste(w, reason) = Finished(w, e)
    BY <1>1 DEF CancelPaste, Endings, EndsAs
  <1> QED
    BY <1>2, FinishedLeavesNoPaste

\* The three actions of leave_capture, alone or before Exit, in feed and in
\* the feeds it nests (App::perform).
LEMMA ReleaseAllPerformed ==
    ASSUME NEW w \in Worlds, NEW reason \in Reasons
    PROVE LET u == PerformRelease(w, ReleaseAll(reason))
          IN /\ u \in Worlds /\ u.j = NoPaste /\ u.v.session = w.v.session
             /\ u.v.outstanding = {} /\ u.p.down = {} /\ ~u.p.engaged
  <1> DEFINE c == CancelPaste(w, reason)
             x == WithOutstanding(c, {})
             u == PerformRelease(w, ReleaseAll(reason))
  <1>1. u = [v |-> [c.v EXCEPT !.outstanding = {}], j |-> c.j, p |-> Raised(c.p)]
    BY DEF PerformRelease, ReleaseAll
  <1>2. c \in Worlds /\ c.j = NoPaste /\ c.p = w.p /\ SameViewer(w, c)
    BY CancelLeavesNoPaste
  <1> HIDE DEF c, u
  <1>3. x \in Worlds /\ x.j = c.j /\ x.p = c.p /\ x.v.outstanding = {} /\
        x.v.session = c.v.session
    BY <1>2, OutstandingSet
  <1>0. x.v = [c.v EXCEPT !.outstanding = {}]
    BY <1>2 DEF WithOutstanding, Worlds
  <1>4. u = WithPath(x, Raised(x.p))
    BY <1>0, <1>1, <1>3 DEF WithPath
  <1> HIDE DEF x
  <1>5. x.p \in Paths
    BY <1>3 DEF Worlds
  <1>6. u \in Worlds /\ u.v = x.v /\ u.j = x.j /\ u.p = Raised(x.p)
    BY <1>3, <1>4, <1>5, RaisedPath, PathSet
  <1>7. u.p.down = {} /\ ~u.p.engaged
    BY <1>5, <1>6, RaisedPath
  <1>8. u.v.session = w.v.session
    BY <1>2, <1>3, <1>6 DEF SameViewer
  <1>9. u \in Worlds /\ u.j = NoPaste /\ u.v.session = w.v.session /\
        u.v.outstanding = {} /\ u.p.down = {} /\ ~u.p.engaged
    BY <1>2, <1>3, <1>6, <1>7, <1>8
  <1> QED
    BY <1>9 DEF u

LEMMA ControlsPerformed ==
    ASSUME NEW w \in Worlds
    PROVE /\ PerformRelease(w, Act("DisarmInhibitor")) = WithArmed(w, FALSE)
          /\ PerformRelease(w, Act("ReleasePointer")) = WithGrab(w, FALSE)
          /\ PerformRelease(w, Act("Exit")) = w
  BY DEF PerformRelease, Act, WithArmed, WithGrab

-----------------------------------------------------------------------------
(* Performing the actions of a trigger                                     *)

LEMMA Single ==
    ASSUME NEW a, NEW x, a = << x >>
    PROVE DOMAIN a = 1..1 /\ a[1] = x
  OBVIOUS

LEMMA Triple ==
    ASSUME NEW a, NEW x, NEW y, NEW z, a = << x, y, z >>
    PROVE DOMAIN a = 1..3 /\ a[1] = x /\ a[2] = y /\ a[3] = z
  OBVIOUS

LEMMA PerformedInOrder ==
    ASSUME NEW w, NEW a
    PROVE /\ DOMAIN a = {} => PerformInOrder(w, a) = w
          /\ DOMAIN a = 1..1 => PerformInOrder(w, a) = Perform(w, a[1])
          /\ DOMAIN a = 1..3 => PerformInOrder(w, a)
                = Perform(Perform(Perform(w, a[1]), a[2]), a[3])
          /\ DOMAIN a = 1..4 => PerformInOrder(w, a)
                = Perform(Perform(Perform(Perform(w, a[1]), a[2]), a[3]), a[4])
  <1>1. \A x, n : PerformNth(x, a, n) = IF n \in DOMAIN a THEN Perform(x, a[n]) ELSE x
    BY DEF PerformNth
  <1> QED
    BY <1>1 DEF PerformInOrder

LEMMA ReleasedInOrder ==
    ASSUME NEW w, NEW a, DOMAIN a = 1..3
    PROVE ReleaseInOrder(w, a)
            = PerformRelease(PerformRelease(PerformRelease(w, a[1]), a[2]), a[3])
  BY DEF ReleaseInOrder, ReleaseNth

\* A session that is over: nothing held, no paste, the host has its controls.
Over(w) ==
    /\ w \in Worlds /\ w.j = NoPaste /\ w.v.outstanding = {}
    /\ ~w.v.armed /\ ~w.v.grab /\ w.p.down = {} /\ ~w.p.engaged

LEMMA OverIsSound ==
    ASSUME NEW w, Over(w), Ends(w.v)
    PROVE Sound(w) /\ w.v.session.capture # "Captured"
  BY NoPasteType DEF Over, Ends, Sound, JobOk

\* Whatever the world, leave_capture ends what the session held.
LEMMA LeavePerformed ==
    ASSUME NEW w \in Worlds, NEW reason \in Reasons
    PROVE LET u == PerformRelease(PerformRelease(PerformRelease(w,
                       ReleaseAll(reason)), Act("DisarmInhibitor")),
                       Act("ReleasePointer"))
          IN /\ Over(u) /\ u.v.session = w.v.session
             /\ ReleaseInOrder(w, LeaveCapture(reason)) = u
             /\ PerformInOrder(w, LeaveCapture(reason)) = u
             /\ PerformInOrder(w, Append(LeaveCapture(reason), Act("Exit"))) = u
  <1> DEFINE w1 == PerformRelease(w, ReleaseAll(reason))
             w2 == PerformRelease(w1, Act("DisarmInhibitor"))
             u == PerformRelease(w2, Act("ReleasePointer"))
  <1>1. /\ w1 \in Worlds /\ w1.j = NoPaste /\ w1.v.session = w.v.session
        /\ w1.v.outstanding = {} /\ w1.p.down = {} /\ ~w1.p.engaged
    BY ReleaseAllPerformed
  <1>2. \A x : /\ Perform(x, ReleaseAll(reason)) = PerformRelease(x, ReleaseAll(reason))
               /\ Perform(x, Act("DisarmInhibitor")) = PerformRelease(x, Act("DisarmInhibitor"))
               /\ Perform(x, Act("ReleasePointer")) = PerformRelease(x, Act("ReleasePointer"))
               /\ Perform(x, Act("Exit")) = PerformRelease(x, Act("Exit"))
    BY DEF Perform, ReleaseAll, Act
  <1> DEFINE a == LeaveCapture(reason)
             b == Append(a, Act("Exit"))
  <1>11. /\ DOMAIN a = 1..3 /\ a[1] = ReleaseAll(reason)
         /\ a[2] = Act("DisarmInhibitor") /\ a[3] = Act("ReleasePointer")
    BY DEF LeaveCapture
  <1>12. /\ DOMAIN b = 1..4 /\ b[1] = a[1] /\ b[2] = a[2] /\ b[3] = a[3]
         /\ b[4] = Act("Exit")
    <2> DEFINE S == {a[1], a[2], a[3], Act("Exit")}
               exit == Act("Exit")
    <2>1. a \in Seq(S) /\ Len(a) + 1 = 4 /\ exit \in S
      BY DEF LeaveCapture
    <2> HIDE DEF a, S, exit
    <2>2. /\ Append(a, exit) \in Seq(S) /\ Len(Append(a, exit)) = Len(a) + 1
          /\ \A i \in 1..Len(a) : Append(a, exit)[i] = a[i]
          /\ Append(a, exit)[Len(a) + 1] = exit
      BY <2>1, AppendProperties
    <2>3. DOMAIN Append(a, exit) = 1..(Len(a) + 1)
      BY <2>2, LenProperties
    <2>4. 1 \in 1..Len(a) /\ 2 \in 1..Len(a) /\ 3 \in 1..Len(a)
      BY <2>1, LenProperties
    <2> QED
      BY <2>1, <2>2, <2>3, <2>4 DEF exit
  <1> HIDE DEF a, b
  <1>3. ReleaseInOrder(w, a) = u
    BY <1>11, ReleasedInOrder
  <1>4. PerformInOrder(w, a) = u
    BY <1>11, <1>2, PerformedInOrder
  <1>5. PerformInOrder(w, b) = PerformRelease(u, Act("Exit"))
    BY <1>11, <1>12, <1>2, PerformedInOrder
  <1> HIDE DEF w1
  <1>6. w2 \in Worlds /\ w2.j = w1.j /\ w2.p = w1.p /\ ~w2.v.armed /\
        w2.v.session = w1.v.session /\ w2.v.outstanding = w1.v.outstanding
    BY <1>1, ControlsPerformed, ArmedSet
  <1> HIDE DEF w2
  <1>7. u \in Worlds /\ u.j = w2.j /\ u.p = w2.p /\ ~u.v.grab /\
        ~u.v.armed /\
        u.v.session = w2.v.session /\ u.v.outstanding = w2.v.outstanding
    BY ZenonT(30), <1>6, ControlsPerformed, GrabCleared
  <1> HIDE DEF u
  <1>8. PerformRelease(u, Act("Exit")) = u
    BY <1>7, ControlsPerformed
  <1>9. Over(u) /\ u.v.session = w.v.session
    BY <1>1, <1>6, <1>7 DEF Over
  <1>10. /\ Over(u) /\ u.v.session = w.v.session
         /\ ReleaseInOrder(w, a) = u
         /\ PerformInOrder(w, a) = u
         /\ PerformInOrder(w, b) = u
    BY <1>3, <1>4, <1>5, <1>8, <1>9
  <1> QED
    BY <1>10 DEF u, w2, w1, a, b

\* A refused submission ends a captured session (state.rs, reason_for).
LEMMA FailurePerformed ==
    ASSUME NEW w \in Worlds, NEW error \in Errors,
           w.v.session.capture = "Captured", ~w.v.session.closing
    PROVE LET u == FeedControl(w, SubmitFailed(error))
          IN Sound(u) /\ u.v.session.capture # "Captured"
  <1> DEFINE s == w.v.session
             r == Reduce(s, SubmitFailed(error))
             u == FeedControl(w, SubmitFailed(error))
  <1>1. s \in Sessions
    BY DEF Worlds, Viewers
  <1>2. r = Release(s, ReasonFor(error))
    BY DEF Reduce, SubmitFailed, Control
  <1>3. ReasonFor(error) \in Reasons
    BY DEF Errors, ReasonFor, Reasons
  <1>4. /\ r.actions = LeaveCapture(ReasonFor(error))
        /\ r.session = [s EXCEPT !.capture = "Released", !.consumed = {}]
    BY <1>2 DEF Release, Outcome
  <1>5. Ends(r)
    BY <1>1, <1>4 DEF Ends, Sessions, Phases
  <1>6. u = ReleaseInOrder(WithSession(w, r.session), LeaveCapture(ReasonFor(error)))
    BY <1>4 DEF FeedControl, WithSession
  <1> HIDE DEF r, u
  <1>7. WithSession(w, r.session) \in Worlds /\
        WithSession(w, r.session).v.session = r.session
    BY <1>5, SessionSet DEF Ends
  <1>8. Over(u) /\ u.v.session = r.session
    BY <1>3, <1>6, <1>7, LeavePerformed
  <1>9. Sound(u) /\ u.v.session.capture # "Captured"
    BY <1>5, <1>8, OverIsSound DEF Ends
  <1> QED
    BY <1>9 DEF u

\* The session may forget consumed presses, or remember more when nothing is
\* held.
LEMMA SessionKeepsSound ==
    ASSUME NEW w, Sound(w), NEW session \in Sessions,
           session.capture = w.v.session.capture,
           session.closing = w.v.session.closing,
           session.consumed \cap w.v.outstanding = {}
    PROVE Sound(WithSession(w, session))
  <1> DEFINE u == WithSession(w, session)
  <1>1. w \in Worlds
    BY DEF Sound
  <1>2. /\ u \in Worlds /\ u.j = w.j /\ u.p = w.p
        /\ u.v.session = session /\ u.v.outstanding = w.v.outstanding
        /\ u.v.armed = w.v.armed /\ u.v.grab = w.v.grab
    BY <1>1, SessionSet
  <1> HIDE DEF u
  <1>3. Sound(u)
    BY <1>2 DEF Sound
  <1> QED
    BY <1>3 DEF u

\* engage is granted once every release is acknowledged, and finds nothing
\* held (App::perform, Producer::engage).
LEMMA EngagePerformed ==
    ASSUME NEW w, Sound(w), w.v.session.capture = "Engaging"
    PROVE LET u == Perform(w, Act("TryEngage"))
          IN Sound(u) /\ u.v.outstanding = {} /\ u.j = NoPaste
  <1> DEFINE s == w.v.session
             u == Perform(w, Act("TryEngage"))
  <1>1. /\ w \in Worlds /\ s \in Sessions /\ w.p \in Paths /\ ~s.closing
        /\ w.v.outstanding = {} /\ w.j = NoPaste /\ w.p.down = {}
        /\ s.capture = "Engaging"
    BY DEF Sound, Worlds, Viewers
  <1>2. u = TryEngage(w)
    BY DEF Perform, Act
  <1>3. \A x : ReleaseInOrder(x, << >>) = x
    BY DEF ReleaseInOrder, ReleaseNth
  <1>4. CASE ~w.p.acked
    <2>1. Reduce(s, Is("engage_deferred")) = Outcome(s, << >>)
      BY <1>1 DEF Reduce, Is, Control
    <2>2. u = WithSession(w, s)
      BY <1>2, <1>3, <1>4, <2>1
      DEF TryEngage, FeedControl, WithSession, Outcome
    <2>3. Sound(WithSession(w, s))
      BY <1>1, SessionKeepsSound
    <2>4. WithSession(w, s).v.outstanding = {} /\ WithSession(w, s).j = NoPaste
      BY <1>1, SessionSet
    <2> HIDE DEF u
    <2>5. Sound(u) /\ u.v.outstanding = {} /\ u.j = NoPaste
      BY <2>2, <2>3, <2>4
    <2> QED
      BY <2>5 DEF u
  <1>5. CASE w.p.acked
    <2> DEFINE p == Engaged(w.p)
               x == WithPath(w, p)
               session == [s EXCEPT !.capture = "Captured"]
    <2>1. p \in Paths /\ p.down = {}
      BY <1>1 DEF Paths, Engaged
    <2>2. session \in Sessions /\ session.capture = "Captured" /\ ~session.closing
      BY <1>1 DEF Sessions, Phases
    <2>3. x = [w EXCEPT !.p = Engaged(@)]
      BY <1>1 DEF WithPath, Worlds
    <2>4. x.v.session = s
      BY DEF WithPath
    <2>5. Reduce(s, Is("engage_succeeded")) = Outcome(session, << >>)
      BY <1>1 DEF Reduce, Is, Control
    <2> HIDE DEF x, session
    <2>11. u = FeedControl(x, Is("engage_succeeded"))
      BY <1>2, <1>5, <2>3 DEF TryEngage
    <2>6. u = WithSession(x, session)
      BY <2>11, <1>3, <2>4, <2>5 DEF FeedControl, WithSession, Outcome
    <2> HIDE DEF p, u
    <2>7. x \in Worlds /\ x.v = w.v /\ x.j = w.j /\ x.p = p
      BY <1>1, <2>1, PathSet DEF x
    <2>8. /\ u \in Worlds /\ u.j = x.j /\ u.p = x.p
          /\ u.v.session = session /\ u.v.outstanding = x.v.outstanding
          /\ u.v.armed = x.v.armed /\ u.v.grab = x.v.grab
      BY <2>2, <2>6, <2>7, SessionSet
    <2>9. u.v.outstanding = {} /\ u.j = NoPaste /\ u.p.down = {}
      BY <1>1, <2>1, <2>7, <2>8
    <2>10. Sound(u) /\ u.v.outstanding = {} /\ u.j = NoPaste
      BY <2>2, <2>8, <2>9, NoPasteType DEF Sound, JobOk
    <2> QED
      BY <2>10 DEF u
  <1> QED
    BY <1>4, <1>5

\* What a forwarded event makes of what the target is owed.
After(outstanding, event) ==
    IF event.kind = "edge" THEN Transition(outstanding, event) ELSE outstanding

\* A submission is accepted, and outstanding follows it, or it ends the
\* session (Producer::submit under App::perform).
LEMMA ForwardPerformed ==
    ASSUME NEW w, Sound(w), w.v.session.capture = "Captured",
           NEW event \in Edges \cup {Motion},
           event.kind = "edge" /\ event.down => event.item \notin w.v.session.consumed
    PROVE LET u == Perform(w, Forward(event))
          IN /\ Sound(u)
             /\ u.v.session.capture = "Captured" =>
                   u.j = w.j /\ u.v.outstanding = After(w.v.outstanding, event)
  <1> DEFINE u == Perform(w, Forward(event))
             owed == After(w.v.outstanding, event)
             noted == WithOutstanding(w, owed)
             raised == WithPath(noted, Raised(noted.p))
             goal == /\ Sound(u)
                     /\ u.v.session.capture = "Captured" =>
                           u.j = w.j /\ u.v.outstanding = owed
  <1> SUFFICES goal
    OBVIOUS
  <1>1. /\ w \in Worlds /\ w.v \in Viewers /\ w.p \in Paths
        /\ w.v.session \in Sessions /\ ~w.v.session.closing
        /\ w.v.outstanding \in SUBSET Items
        /\ w.p.down = IF w.p.engaged THEN w.v.outstanding ELSE {}
    BY DEF Sound, Worlds, Viewers
  <1>2. /\ event = Motion => event.kind # "edge"
        /\ event # Motion => event \in Edges /\ event.kind = "edge" /\ event.item \in Items
    BY DEF Motion, Edges
  <1>3. owed \in SUBSET Items
    BY <1>1, <1>2 DEF After, Transition
  <1>4. owed \cap w.v.session.consumed = {}
    BY <1>2 DEF After, Transition, Sound
  <1>5. u = PerformForward(w, event)
    BY DEF Perform, Forward
  <1>6. noted = IF event = Motion THEN w
                ELSE [w EXCEPT !.v.outstanding = Transition(@, event)]
    <2>1. CASE event = Motion
      <3>1. owed = w.v.outstanding
        BY <2>1, <1>2 DEF After
      <3>2. WithOutstanding(w, w.v.outstanding) = w
        BY <1>1 DEF WithOutstanding, Worlds, Viewers
      <3> QED
        BY <3>1, <3>2, <2>1
    <2>2. CASE event # Motion
      BY <2>2, <1>2 DEF After, WithOutstanding
    <2> QED
      BY <2>1, <2>2
  <1> HIDE DEF owed, u
  <1>7. /\ noted \in Worlds /\ noted.j = w.j /\ noted.p = w.p
        /\ noted.v.session = w.v.session /\ noted.v.outstanding = owed
        /\ noted.v.armed = w.v.armed /\ noted.v.grab = w.v.grab
    BY <1>1, <1>3, OutstandingSet
  <1> HIDE DEF noted
  <1>8. ASSUME NEW error \in Errors, u = FeedControl(noted, SubmitFailed(error))
        PROVE goal
    BY <1>1, <1>7, <1>8, FailurePerformed
  <1>9. CASE ~w.p.engaged
    <2>1. u = FeedControl(noted, SubmitFailed("Disengaged"))
      BY <1>5, <1>6, <1>9 DEF PerformForward, Accepts
    <2> QED
      BY <2>1, <1>8 DEF Errors
  <1>10. CASE w.p.engaged /\ ~Accepts(w.p)
    <2>1. u = FeedControl(noted, SubmitFailed("LinkDown"))
      BY <1>5, <1>6, <1>10 DEF PerformForward
    <2> QED
      BY <2>1, <1>8 DEF Errors
  <1>11. CASE Accepts(w.p) /\ w.p.full /\ event # Motion
    <2>1. w.p.engaged
      BY <1>11 DEF Accepts
    <2>2. [noted EXCEPT !.p = Raised(@)] = raised
      BY <1>7 DEF WithPath, Worlds
    <2>3. u = FeedControl(raised, SubmitFailed("Overflow"))
      BY <1>5, <1>6, <1>11, <2>1, <2>2 DEF PerformForward
    <2>4. raised \in Worlds /\ raised.v = noted.v
      BY <1>1, <1>7, RaisedPath, PathSet
    <2>5. raised.v.session.capture = "Captured" /\ ~raised.v.session.closing
      BY <1>1, <1>7, <2>4
    <2>6. "Overflow" \in Errors
      BY DEF Errors
    <2> HIDE DEF raised
    <2>7. Sound(u) /\ u.v.session.capture # "Captured"
      BY <2>3, <2>4, <2>5, <2>6, FailurePerformed
    <2> QED
      BY <2>7
  <1>12. CASE Accepts(w.p) /\ ~(w.p.full /\ event # Motion)
    <2> DEFINE p == Submitted(w.p, event)
    <2>1. w.p.engaged
      BY <1>12 DEF Accepts
    <2>2. [noted EXCEPT !.p = Submitted(@, event)] = WithPath(noted, p)
      BY <1>7 DEF WithPath, Worlds
    <2>3. u = WithPath(noted, p)
      BY <1>5, <1>6, <1>12, <2>1, <2>2 DEF PerformForward
    <2>4. p \in Paths /\ p.engaged /\ p.down = owed
      <3>1. CASE event = Motion
        BY <3>1, <1>1, <1>2, <2>1 DEF Submitted, owed, After
      <3>2. CASE event # Motion
        BY <3>2, <1>1, <1>2, <1>3, <2>1 DEF Submitted, owed, After, Paths
      <3> QED
        BY <3>1, <3>2
    <2> HIDE DEF p
    <2>5. u \in Worlds /\ u.v = noted.v /\ u.j = noted.j /\ u.p = p
      BY <1>7, <2>3, <2>4, PathSet
    <2>6. Sound(u)
      BY <1>1, <1>4, <1>7, <2>4, <2>5 DEF Sound
    <2> QED
      BY <2>5, <2>6, <1>7
  <1> QED
    BY <1>9, <1>10, <1>11, <1>12 DEF Accepts

-----------------------------------------------------------------------------
(* One trigger                                                             *)

\* What a trigger leaves: a sound world; a session that stays captured keeps
\* its paste and is owed what the event says, any other holds nothing.
Outcomes(w, u, t) ==
    /\ Sound(u)
    /\ IF w.v.session.capture = "Captured" /\ u.v.session.capture = "Captured"
       THEN u.j = w.j /\ u.v.outstanding = After(w.v.outstanding, t)
       ELSE u.j = NoPaste /\ u.v.outstanding = {}

LEMMA FeedKeepsSound ==
    ASSUME NEW w, Sound(w), NEW t \in Triggers
    PROVE Outcomes(w, Feed(w, t), t)
  <1> DEFINE s == w.v.session
             r == Reduce(s, t)
             x == WithSession(w, r.session)
             a == r.actions
             u == Feed(w, t)
  <1> SUFFICES Outcomes(w, u, t)
    OBVIOUS
  <1>1. /\ w \in Worlds /\ s \in Sessions
        /\ s.closing => s.capture = "Released"
        /\ s.capture # "Captured" => w.v.outstanding = {} /\ w.j = NoPaste
        /\ s.consumed \cap w.v.outstanding = {}
        /\ s.capture \in Phases
    BY DEF Sound, Worlds, Viewers, Sessions
  <1>2. u = PerformInOrder(x, a)
    BY DEF Feed, WithSession
  <1>3. \/ Ignores(s, t, r) \/ Leaves(r) \/ Exits(s, r)
        \/ Forwards(s, t, r) \/ Tries(s, r) \/ Begins(s, r)
    BY <1>1, Reduced
  <1> HIDE DEF r, u, a
  <1>4. r.session \in Sessions =>
           /\ x \in Worlds /\ x.j = w.j /\ x.p = w.p
           /\ x.v.session = r.session /\ x.v.outstanding = w.v.outstanding
           /\ x.v.armed = w.v.armed /\ x.v.grab = w.v.grab
    BY <1>1, SessionSet
  <1>5. ASSUME r.session \in Sessions, r.session.capture = s.capture,
               r.session.closing = s.closing,
               r.session.consumed \cap w.v.outstanding = {}
        PROVE Sound(x)
    BY <1>5, SessionKeepsSound
  <1> HIDE DEF x
  <1>6. CASE Ignores(s, t, r)
    <2>1. u = x
      <3>1. DOMAIN a = {}
        BY <1>6 DEF Ignores, a
      <3> QED
        BY <3>1, <1>2, PerformedInOrder
    <2>2. Sound(x)
      BY <1>1, <1>5, <1>6 DEF Ignores, Stays
    <2>3. s.capture = "Captured" => After(w.v.outstanding, t) = w.v.outstanding
      <3> SUFFICES ASSUME s.capture = "Captured", t.kind = "edge"
                   PROVE Transition(w.v.outstanding, t) = w.v.outstanding
        BY DEF After
      <3>1. ~t.down /\ t.item \notin w.v.outstanding
        BY <1>1, <1>6 DEF Ignores
      <3> QED
        BY <3>1 DEF Transition
    <2>4. x.j = w.j /\ x.v.outstanding = w.v.outstanding /\
          x.v.session.capture = s.capture
      BY <1>4, <1>6 DEF Ignores, Stays
    <2> QED
      BY <2>1, <2>2, <2>3, <2>4, <1>1 DEF Outcomes
  <1>7. ASSUME Over(u), u.v.session = r.session, Ends(r)
        PROVE Outcomes(w, u, t)
    BY <1>7, OverIsSound DEF Outcomes, Over, Ends
  <1>8. CASE Leaves(r)
    <2>1. PICK reason \in Reasons : r.actions = LeaveCapture(reason)
      BY <1>8 DEF Leaves
    <2>2. Ends(r) /\ x \in Worlds /\ x.v.session = r.session
      BY <1>4, <1>8 DEF Leaves, Ends
    <2>3. Over(u) /\ u.v.session = x.v.session
      BY <1>2, <2>1, <2>2, LeavePerformed DEF a
    <2> QED
      BY <2>2, <2>3, <1>7
  <1>9. CASE Exits(s, r)
    <2>1. CASE Ends(r) /\ r.actions = Append(LeaveCapture("Shutdown"), Act("Exit"))
      <3>1. x \in Worlds /\ x.v.session = r.session /\ "Shutdown" \in Reasons
        BY <1>4, <2>1 DEF Ends, Reasons
      <3>2. Over(u) /\ u.v.session = x.v.session
        BY <1>2, <2>1, <3>1, LeavePerformed DEF a
      <3> QED
        BY <2>1, <3>1, <3>2, <1>7
    <2>2. CASE s.closing /\ r.session = s /\ r.actions = << Act("Exit") >>
      <3>1. u = Perform(x, Act("Exit"))
        <4>1. DOMAIN a = 1..1 /\ a[1] = Act("Exit")
          BY <2>2, Single DEF a
        <4> QED
          BY <4>1, <1>2, PerformedInOrder
      <3>2. Perform(x, Act("Exit")) = x
        BY DEF Perform, PerformRelease, Act
      <3>3. Sound(x)
        BY <2>2, <1>1, <1>5
      <3>4. x.j = NoPaste /\ x.v.outstanding = {} /\ s.capture # "Captured"
        BY <2>2, <1>1, <1>4
      <3> QED
        BY <3>1, <3>2, <3>3, <3>4 DEF Outcomes
    <2> QED
      BY <2>1, <2>2, <1>9 DEF Exits
  <1>10. CASE Forwards(s, t, r)
    <2>1. u = Perform(x, Forward(t))
      <3>1. DOMAIN a = 1..1 /\ a[1] = Forward(t)
        BY <1>10, Single DEF Forwards, a
      <3> QED
        BY <3>1, <1>2, PerformedInOrder
    <2>2. Sound(x)
      BY <1>1, <1>5, <1>10 DEF Forwards, Stays
    <2>3. /\ x.v.session.capture = "Captured" /\ t \in Edges \cup {Motion}
          /\ t.kind = "edge" /\ t.down => t.item \notin x.v.session.consumed
          /\ x.j = w.j /\ x.v.outstanding = w.v.outstanding
      BY <1>4, <1>10 DEF Forwards, Stays
    <2>4. /\ Sound(u)
          /\ u.v.session.capture = "Captured" =>
                u.j = x.j /\ u.v.outstanding = After(x.v.outstanding, t)
      BY <2>1, <2>2, <2>3, ForwardPerformed
    <2>5. u.v.session.capture # "Captured" => u.j = NoPaste /\ u.v.outstanding = {}
      BY <2>4 DEF Sound
    <2> QED
      BY <2>3, <2>4, <2>5, <1>10 DEF Outcomes, Forwards
  <1>11. CASE Tries(s, r)
    <2>1. u = Perform(x, Act("TryEngage"))
      <3>1. DOMAIN a = 1..1 /\ a[1] = Act("TryEngage")
        BY <1>11, Single DEF Tries, a
      <3> QED
        BY <3>1, <1>2, PerformedInOrder
    <2>2. Sound(x) /\ x.v.session.capture = "Engaging"
      BY <1>1, <1>4, <1>5, <1>11 DEF Tries, Stays
    <2>3. Sound(u) /\ u.v.outstanding = {} /\ u.j = NoPaste
      BY <2>1, <2>2, EngagePerformed
    <2> QED
      BY <2>3, <1>11 DEF Outcomes, Tries
  <1>12. CASE Begins(s, r)
    <2> DEFINE x1 == WithArmed(x, TRUE)
               x2 == GrabPointer(x1)
    <2>1. u = Perform(Perform(Perform(x, Act("ArmInhibitor")), Act("GrabPointer")),
                      Act("TryEngage"))
      <3>1. /\ DOMAIN a = 1..3 /\ a[1] = Act("ArmInhibitor")
            /\ a[2] = Act("GrabPointer") /\ a[3] = Act("TryEngage")
        BY <1>12, Triple DEF Begins, BeginCapture, a
      <3> QED
        BY <3>1, <1>2, PerformedInOrder
    <2>2. Perform(x, Act("ArmInhibitor")) = x1
      BY DEF Perform, Act, WithArmed
    <2>3. \A y : Perform(y, Act("GrabPointer")) = GrabPointer(y)
      BY DEF Perform, Act
    <2>4. x \in Worlds /\ x.v.session = r.session /\ x.j = NoPaste /\
          x.v.outstanding = {} /\ x.p = w.p
      BY <1>1, <1>4, <1>12 DEF Begins
    <2>5. x1 \in Worlds /\ x1.v.session = r.session /\ x1.j = NoPaste /\
          x1.v.outstanding = {} /\ x1.p = w.p
      BY <2>4, ArmedSet
    <2> HIDE DEF x1
    <2>6. PICK grab \in BOOLEAN : x2 = WithGrab(x1, grab)
      BY <2>5 DEF GrabPointer, WithGrab, Worlds, Viewers
    <2>7. x2 \in Worlds /\ x2.v.session = r.session /\ x2.j = NoPaste /\
          x2.v.outstanding = {} /\ x2.p = w.p
      BY <2>5, <2>6, GrabSet
    <2>8. w.p.down = {}
      BY <1>1, <1>12 DEF Sound, Begins
    <2> HIDE DEF x2
    <2>9. Sound(x2) /\ x2.v.session.capture = "Engaging"
      BY <2>7, <2>8, <1>12, NoPasteType DEF Sound, Begins, JobOk
    <2>10. u = Perform(x2, Act("TryEngage"))
      BY <2>1, <2>2, <2>3 DEF x2
    <2>11. Sound(u) /\ u.v.outstanding = {} /\ u.j = NoPaste
      BY <2>9, <2>10, EngagePerformed
    <2> QED
      BY <2>11, <1>12 DEF Outcomes, Begins
  <1> QED
    BY <1>3, <1>6, <1>8, <1>9, <1>10, <1>11, <1>12

-----------------------------------------------------------------------------
(* The state between two callbacks                                         *)

Here == [v |-> viewer, j |-> paste, p |-> path]

Readers == [state: {"idle", "reading", "sent"}, mail: Mails \cup {NoMail}]

\* What the target holds beside the paste's own keys is released by a step of
\* the prelude still to come.
Owed(w) ==
    w.j.state = "running" =>
        \A x \in w.v.outstanding \ w.j.held :
            \E k \in (w.j.sent + 1)..w.j.prelude : w.j.steps[k] = Edge(x, FALSE)

\* What the target holds is held by the user or by the paste.
Answered(w, down) == w.v.outstanding \subseteq down \cup w.j.held

\* The target holds what the paste does.
Apart(w) == w.j.state = "running" => w.j.held \subseteq w.v.outstanding

Inv ==
    /\ Sound(Here) /\ Owed(Here) /\ Answered(Here, pressed)
    /\ pressed \in SUBSET Items /\ reader \in Readers

Exact == Apart(Here)

\* A callback that leaves a settled world leaves a settled state.
Settled(w, down) == Sound(w) /\ Owed(w) /\ Answered(w, down)

LEMMA Settles ==
    ASSUME NEW u, Settled(u, pressed'), Becomes(u),
           pressed' \in SUBSET Items, reader' \in Readers
    PROVE Inv' /\ (Apart(u) => Exact')
  <1> DEFINE p == path'
  <1>1. u \in Worlds /\ u.p \in Paths
    BY DEF Settled, Sound, Worlds
  <1>2. /\ viewer' = u.v /\ paste' = u.j
        /\ p = [u.p EXCEPT !.full = FALSE,
                           !.asked = @ /\ u.j.state = "preparing",
                           !.answer = IF u.j.state = "preparing" THEN @ ELSE "none"]
    BY DEF Becomes
  <1>3. p \in Paths
    BY <1>1, <1>2 DEF Paths
  <1>4. p.down = u.p.down
    BY <1>1, <1>2 DEF Paths
  <1>5. p.engaged = u.p.engaged
    BY <1>1, <1>2 DEF Paths
  <1> DEFINE x == [v |-> u.v, j |-> u.j, p |-> p]
  <1>6. Here' = x
    BY <1>2 DEF Here
  <1> HIDE DEF p
  <1>7. x \in Worlds /\ x.v = u.v /\ x.j = u.j /\ x.p = p
    BY <1>1, <1>3 DEF Worlds
  <1> HIDE DEF x
  <1>8. p.down = IF p.engaged THEN u.v.outstanding ELSE {}
    BY <1>4, <1>5 DEF Settled, Sound
  <1>9. Sound(x)
    BY <1>7, <1>8 DEF Settled, Sound
  <1>10. Owed(x) /\ Answered(x, pressed') /\ (Apart(u) => Apart(x))
    BY <1>7 DEF Settled, Owed, Answered, Apart
  <1>11. Inv' = (/\ Sound(Here') /\ Owed(Here') /\ Answered(Here', pressed')
                 /\ pressed' \in SUBSET Items /\ reader' \in Readers)
    BY DEF Inv, Sound, Owed, Answered
  <1>12. Exact' = Apart(Here')
    BY DEF Exact, Apart
  <1> QED
    BY <1>6, <1>9, <1>10, <1>11, <1>12

\* A callback starts from the state, its last outcome forgotten.
LEMMA StartsSound ==
    ASSUME Inv
    PROVE /\ Sound(World) /\ World.j = paste /\ World.v.session = viewer.session
          /\ World.v.outstanding = viewer.outstanding
          /\ \A full \in BOOLEAN :
                /\ Sound(WithQueue(full)) /\ WithQueue(full).j = paste
                /\ WithQueue(full).v.session = viewer.session
                /\ WithQueue(full).v.outstanding = viewer.outstanding
  <1>1. /\ Sound(Here) /\ Here \in Worlds /\ viewer \in Viewers
        /\ path \in Paths /\ paste \in Pastes
        /\ Here.v = viewer /\ Here.j = paste /\ Here.p = path
    BY DEF Inv, Sound, Worlds, Here
  <1>2. World = WithEnding(Here, "none")
    BY DEF World, WithEnding, Here
  <1>3. World \in Worlds /\ World.j = paste /\ World.p = path /\ SameViewer(Here, World)
    BY <1>1, <1>2, EndingSet DEF Endings
  <1>4. World.v.session = viewer.session /\ World.v.outstanding = viewer.outstanding
    BY <1>1, <1>3 DEF SameViewer
  <1>5. Sound(World)
    BY <1>1, <1>3 DEF Sound, SameViewer
  <1>6. ASSUME NEW full \in BOOLEAN
        PROVE /\ Sound(WithQueue(full)) /\ WithQueue(full).j = paste
              /\ WithQueue(full).v.session = viewer.session
              /\ WithQueue(full).v.outstanding = viewer.outstanding
    <2> DEFINE p == [path EXCEPT !.full = full]
               u == WithPath(World, p)
    <2>1. p \in Paths /\ p.down = path.down
      BY <1>1 DEF Paths
    <2>2. p.engaged = path.engaged
      BY <1>1 DEF Paths
    <2>3. WithQueue(full) = u
      BY <1>3 DEF WithQueue, WithPath, Worlds
    <2> HIDE DEF p
    <2>4. u \in Worlds /\ u.v = World.v /\ u.j = World.j /\ u.p = p
      BY <1>3, <2>1, PathSet
    <2> HIDE DEF u
    <2>5. p.down = IF p.engaged THEN World.v.outstanding ELSE {}
      BY <1>3, <1>5, <2>1, <2>2 DEF Sound
    <2>6. Sound(u)
      BY <1>5, <2>4, <2>5 DEF Sound
    <2> QED
      BY <1>3, <1>4, <2>3, <2>4, <2>6
  <1> QED
    BY <1>3, <1>4, <1>5, <1>6

\* A trigger that adds nothing the paste does not hold to what is owed keeps a
\* paste's debts, whatever else it does.
LEMMA TriggerSettles ==
    ASSUME Inv, NEW w, Sound(w), w.j = paste, w.v.outstanding = viewer.outstanding,
           NEW t \in Triggers, NEW down \in SUBSET Items,
           After(viewer.outstanding, t) \subseteq down \cup paste.held,
           paste.state = "running" =>
              After(viewer.outstanding, t) \ paste.held \subseteq
                 viewer.outstanding \ paste.held
    PROVE /\ Settled(Feed(w, t), down)
          /\ Exact /\ (paste.state = "running" =>
                         paste.held \subseteq After(viewer.outstanding, t))
                => Apart(Feed(w, t))
  <1> DEFINE u == Feed(w, t)
  <1>1. Outcomes(w, u, t)
    BY FeedKeepsSound
  <1>2. Owed(Here) /\ Here.j = paste /\ Here.v = viewer
    BY DEF Inv, Here
  <1> HIDE DEF u
  <1>3. CASE u.j = paste /\ u.v.outstanding = After(viewer.outstanding, t)
    <2>1. Sound(u)
      BY <1>1 DEF Outcomes
    <2>2. Owed(u)
      BY <1>2, <1>3 DEF Owed
    <2>3. Answered(u, down)
      BY <1>3 DEF Answered
    <2>4. (paste.state = "running" =>
             paste.held \subseteq After(viewer.outstanding, t)) => Apart(u)
      BY <1>3 DEF Apart
    <2> QED
      BY <2>1, <2>2, <2>3, <2>4 DEF Settled, u
  <1>4. CASE u.j = NoPaste /\ u.v.outstanding = {}
    <2>1. Sound(u)
      BY <1>1 DEF Outcomes
    <2>2. Owed(u) /\ Answered(u, down) /\ Apart(u)
      BY <1>4, NoPasteType DEF Owed, Answered, Apart
    <2> QED
      BY <2>1, <2>2 DEF Settled, u
  <1> QED
    BY <1>1, <1>3, <1>4 DEF Outcomes

-----------------------------------------------------------------------------
(* The steps of the loop                                                   *)

LEMMA InitiallySound == Init => Inv /\ Exact
  <1> SUFFICES ASSUME Init PROVE Inv /\ Exact
    OBVIOUS
  <1>1. /\ viewer \in [session: {FreshSession}, outstanding: {{}}, armed: {FALSE},
                       grab: {FALSE}, relative: BOOLEAN, ended: {"none"}]
        /\ paste = NoPaste
        /\ path = [engaged |-> TRUE, acked |-> TRUE, link |-> "up", down |-> {},
                   asked |-> FALSE, answer |-> "none", full |-> FALSE]
        /\ reader = [state |-> "idle", mail |-> NoMail] /\ pressed = {}
    BY DEF Init
  <1>2. FreshSession \in Sessions /\ FreshSession.capture = "Released" /\
        FreshSession.consumed = {} /\ ~FreshSession.closing
    BY DEF FreshSession, Sessions, Phases
  <1>3. viewer \in Viewers /\ path \in Paths /\ paste \in Pastes
    BY <1>1, <1>2, NoPasteType DEF Viewers, Endings, Paths
  <1>4. Here \in Worlds /\ Here.v = viewer /\ Here.j = paste /\ Here.p = path
    BY <1>3 DEF Here, Worlds
  <1>5. viewer.session = FreshSession /\ viewer.outstanding = {} /\
        ~viewer.armed /\ ~viewer.grab
    BY <1>1
  <1>6. Sound(Here)
    BY <1>1, <1>2, <1>4, <1>5, NoPasteType DEF Sound, JobOk
  <1>7. Owed(Here) /\ Answered(Here, pressed) /\ Apart(Here)
    BY <1>1, <1>4, <1>5, NoPasteType DEF Owed, Answered, Apart
  <1>8. reader \in Readers
    BY <1>1 DEF Readers
  <1> QED
    BY <1>1, <1>6, <1>7, <1>8 DEF Inv, Exact

\* A reader whose paste has left its preparation answers nobody.
LEMMA ReaderAfterType ==
    ASSUME Inv, NEW w
    PROVE ReaderAfter(w) \in Readers
  BY DEF Inv, ReaderAfter, Readers

\* What the state says of itself before a callback.
LEMMA StateSound ==
    ASSUME Inv
    PROVE /\ viewer \in Viewers /\ paste \in Pastes /\ path \in Paths
          /\ viewer.session \in Sessions /\ viewer.outstanding \in SUBSET Items
          /\ JobOk(paste) /\ paste.held \in SUBSET Items
          /\ viewer.session.capture # "Captured" =>
                viewer.outstanding = {} /\ paste = NoPaste
          /\ viewer.session.capture = "Released" => ~viewer.armed /\ ~viewer.grab
          /\ path.down = IF path.engaged THEN viewer.outstanding ELSE {}
          /\ pressed \in SUBSET Items /\ reader \in Readers
          /\ viewer.outstanding \subseteq pressed \cup paste.held
          /\ paste.state = "running" =>
               \A x \in viewer.outstanding \ paste.held :
                  \E k \in (paste.sent + 1)..paste.prelude :
                     paste.steps[k] = Edge(x, FALSE)
          /\ Exact = (paste.state = "running" => paste.held \subseteq viewer.outstanding)
  <1>1. Here.v = viewer /\ Here.j = paste /\ Here.p = path
    BY DEF Here
  <1>2. Exact = (paste.state = "running" => paste.held \subseteq viewer.outstanding)
    BY <1>1 DEF Exact, Apart
  <1> QED
    BY <1>1, <1>2 DEF Inv, Sound, Owed, Answered, Worlds, Viewers, Pastes

\* A trigger that is no edge is owed nothing new.
LEMMA ControlStep ==
    ASSUME Inv, NEW t \in Triggers, t.kind # "edge",
           Callback(Feed(World, t)), UNCHANGED pressed
    PROVE Inv' /\ (Exact => Exact')
  <1> DEFINE u == Feed(World, t)
  <1>1. Sound(World) /\ World.j = paste /\ World.v.outstanding = viewer.outstanding
    BY StartsSound
  <1>2. After(viewer.outstanding, t) = viewer.outstanding
    BY DEF After
  <1>3. pressed \in SUBSET Items /\ viewer.outstanding \subseteq pressed \cup paste.held
    BY StateSound
  <1>4. Settled(u, pressed) /\ (Exact => Apart(u))
    BY <1>1, <1>2, <1>3, TriggerSettles, StateSound
  <1>5. Becomes(u) /\ reader' \in Readers
    BY ReaderAfterType DEF Callback
  <1> HIDE DEF u
  <1>6. Settled(u, pressed') /\ pressed' \in SUBSET Items
    BY <1>3, <1>4
  <1> QED
    BY <1>4, <1>5, <1>6, Settles

\* What a callback that feeds no trigger may do to the world.
LEMMA QuietStep ==
    ASSUME Inv, NEW u, Sound(u), u.v.outstanding = viewer.outstanding, u.j = paste,
           Becomes(u), pressed' \in SUBSET Items, reader' \in Readers,
           viewer.outstanding \subseteq pressed' \cup paste.held
    PROVE Inv' /\ (Exact => Exact')
  <1>1. Owed(u) /\ Answered(u, pressed')
    BY StateSound DEF Owed, Answered
  <1>2. Exact => Apart(u)
    BY StateSound DEF Apart
  <1> QED
    BY <1>1, <1>2, Settles DEF Settled

\* window_event for a key or button: only what the target is owed, or what no
\* panel and no paste is in the way of, reaches it.
LEMMA UserEdgeStep ==
    ASSUME Inv, NEW event \in Edges, NEW full \in BOOLEAN, UserEdge(event, full)
    PROVE Inv' /\ (Exact => Exact')
  <1> DEFINE w == WithQueue(full)
             u == Feed(w, event)
             out == viewer.outstanding
  <1>1. /\ event.kind = "edge" /\ event.item \in Items /\ event.down \in BOOLEAN
        /\ event \in Triggers
    BY DEF Edges, Triggers
  <1>2. PICK sink \in Sinks(event) :
           Callback(IF sink = "Target" THEN Feed(WithQueue(full), event) ELSE World)
    BY DEF UserEdge
  <1>3. /\ pressed' = Transition(pressed, event)
        /\ event.down <=> event.item \notin pressed
    BY DEF UserEdge
  <1>4. pressed' \in SUBSET Items /\ reader' \in Readers
    BY <1>1, <1>2, <1>3, StateSound, ReaderAfterType DEF Transition, Callback
  <1>5. PICK over \in BOOLEAN, popover \in BOOLEAN :
           sink = IF event.item = Left
                  THEN RoutePointer(RouteInputs(over, popover), event)
                  ELSE RouteKey(RouteInputs(over, popover), event)
    BY <1>2 DEF Sinks
  <1> DEFINE i == RouteInputs(over, popover)
  <1>6. /\ i.outstanding = out /\ i.pasteHeld = paste.held
        /\ i.pasting = (paste.state # "idle")
    BY DEF RouteInputs
  <1>7. Left \notin Keys /\ paste.held \subseteq Keys
    BY ItemsAssumption, StateSound, NoPasteType
    DEF JobOk, RunningWell, Pastes, TypedKeys
  <1>8. CASE sink = "Target"
    <2>1. event.down => paste.state = "idle"
      BY <1>5, <1>6, <1>8 DEF RoutePointer, RouteKey
    <2>2. ~event.down => event.item \notin paste.held \/ event.item \notin out
                         \/ paste.state = "idle"
      BY <1>5, <1>6, <1>7, <1>8 DEF RoutePointer, RouteKey
    <2>3. paste.state = "idle" => paste.held = {}
      BY StateSound, NoPasteType DEF JobOk
    <2>4. After(out, event) = Transition(out, event)
      BY <1>1 DEF After
    <2>5. Transition(out, event) \subseteq pressed' \cup paste.held
      BY <1>3, StateSound DEF Transition
    <2>6. paste.state = "running" =>
             Transition(out, event) \ paste.held \subseteq out \ paste.held
      BY <2>1 DEF Transition
    <2>7. Exact /\ paste.state = "running" => paste.held \subseteq Transition(out, event)
      BY <2>1, <2>2, StateSound DEF Transition
    <2>8. Sound(w) /\ w.j = paste /\ w.v.outstanding = out
      BY StartsSound
    <2> HIDE DEF w, out
    <2>9. Settled(u, pressed') /\ (Exact => Apart(u))
      BY <1>1, <1>4, <2>4, <2>5, <2>6, <2>7, <2>8, TriggerSettles DEF out
    <2>10. Becomes(u)
      BY <1>2, <1>8 DEF Callback, w
    <2> HIDE DEF u
    <2> QED
      BY <1>4, <2>9, <2>10, Settles
  <1>9. CASE sink # "Target"
    <2>1. ~event.down => event.item \notin out \/ event.item \in paste.held
      BY <1>5, <1>6, <1>9 DEF RoutePointer, RouteKey
    <2>2. out \subseteq pressed' \cup paste.held
      BY <1>3, <2>1, StateSound DEF Transition
    <2>3. Sound(World) /\ World.j = paste /\ World.v.outstanding = out
      BY StartsSound
    <2>4. Becomes(World)
      BY <1>2, <1>9 DEF Callback
    <2> QED
      BY <1>4, <2>2, <2>3, <2>4, QuietStep
  <1> QED
    BY <1>8, <1>9

\* Motion, the release key, a broken inhibitor, a close and a tick.
LEMMA ControlActions ==
    ASSUME Inv, Move \/ LetOut \/ CloseRequested \/ Tick \/ PasteChordAgain
    PROVE Inv' /\ (Exact => Exact')
  <1>1. /\ Motion \in Triggers /\ Motion.kind # "edge"
        /\ Is("release_key") \in Triggers /\ Is("inhibitor_inactive") \in Triggers
        /\ Is("close") \in Triggers /\ Is("retry") \in Triggers
        /\ \A kind : Is(kind).kind = kind
    BY DEF Triggers, Motion, Is
  <1>2. ASSUME NEW engaged, NEW linkDown
        PROVE /\ EndedByPathTrigger(engaged, linkDown) \in Triggers
              /\ EndedByPathTrigger(engaged, linkDown).kind # "edge"
    <2>1. PICK error \in Errors : EndedByPathTrigger(engaged, linkDown) = SubmitFailed(error)
      BY DEF EndedByPathTrigger, Errors
    <2> QED
      BY <2>1 DEF Triggers, SubmitFailed
  <1>3. CASE Move
    BY <1>1, <1>3, ControlStep DEF Move
  <1>4. CASE LetOut
    BY <1>1, <1>4, ControlStep DEF LetOut
  <1>5. CASE CloseRequested
    BY <1>1, <1>5, ControlStep DEF CloseRequested
  <1>6. CASE Tick
    <2>1. PICK t \in Triggers : t.kind # "edge" /\ Callback(Feed(World, t))
      BY <1>1, <1>2, <1>6 DEF Tick
    <2> QED
      BY <2>1, <1>6, ControlStep DEF Tick
  <1>7. CASE PasteChordAgain
    BY <1>1, <1>7, ControlStep DEF PasteChordAgain
  <1> QED
    BY <1>3, <1>4, <1>5, <1>6, <1>7

\* A window that loses the focus leaves its capture (state.rs, reduce).
LEMMA FocusLossEnds ==
    ASSUME NEW w, Sound(w)
    PROVE LET u == Feed(w, Is("focus_lost"))
          IN Sound(u) /\ u.j = NoPaste /\ u.v.outstanding = {}
  <1> DEFINE s == w.v.session
             t == Is("focus_lost")
             r == Reduce(s, t)
             x == WithSession(w, r.session)
             u == Feed(w, t)
  <1>1. /\ w \in Worlds /\ s \in Sessions
        /\ s.closing => s.capture = "Released"
    BY DEF Sound, Worlds, Viewers
  <1>2. t \in Triggers
    BY DEF Triggers
  <1>3. Outcomes(w, u, t)
    BY <1>2, FeedKeepsSound
  <1>4. CASE s.capture = "Captured"
    <2>1. r = Release(s, "FocusLost")
      BY <1>1, <1>4 DEF Reduce, Is, Control
    <2>2. /\ r.actions = LeaveCapture("FocusLost")
          /\ r.session = [s EXCEPT !.capture = "Released", !.consumed = {}]
      BY <2>1 DEF Release, Outcome
    <2>3. r.session \in Sessions /\ r.session.capture = "Released"
      BY <1>1, <2>2 DEF Sessions, Phases
    <2>4. u = PerformInOrder(x, LeaveCapture("FocusLost"))
      BY <2>2 DEF Feed, WithSession
    <2>5. x \in Worlds /\ x.v.session = r.session
      BY <1>1, <2>3, SessionSet
    <2>6. "FocusLost" \in Reasons
      BY DEF Reasons
    <2> HIDE DEF u, x
    <2>7. u.v.session = x.v.session
      BY <2>4, <2>5, <2>6, LeavePerformed
    <2>8. u.v.session.capture # "Captured"
      BY <2>3, <2>5, <2>7
    <2> QED
      BY <1>3, <2>8 DEF Outcomes, u
  <1>5. CASE s.capture # "Captured"
    BY <1>3, <1>5 DEF Outcomes
  <1> QED
    BY <1>4, <1>5

\* A world that owes nothing settles whatever the user holds.
LEMMA NothingOwedStep ==
    ASSUME NEW u, Sound(u), u.j = NoPaste, u.v.outstanding = {}, Becomes(u),
           pressed' \in SUBSET Items, reader' \in Readers
    PROVE Inv' /\ Exact'
  <1>1. Owed(u) /\ Answered(u, pressed') /\ Apart(u)
    BY NoPasteType DEF Owed, Answered, Apart
  <1> QED
    BY <1>1, Settles DEF Settled

LEMMA FocusLostStep ==
    ASSUME Inv, FocusLost
    PROVE Inv' /\ Exact'
  <1> DEFINE u == Feed(World, Is("focus_lost"))
  <1>1. Sound(u) /\ u.j = NoPaste /\ u.v.outstanding = {}
    BY StartsSound, FocusLossEnds
  <1>2. Becomes(u) /\ reader' \in Readers /\ pressed' \in SUBSET Items
    BY ReaderAfterType, StateSound DEF FocusLost, Callback
  <1> HIDE DEF u
  <1> QED
    BY <1>1, <1>2, NothingOwedStep

\* MouseMode moves the grab of a captured session only.
LEMMA SetMouseModeStep ==
    ASSUME Inv, SetMouseMode
    PROVE Inv' /\ (Exact => Exact')
  <1> DEFINE w == WithMode(World, ~World.v.relative)
             u == MoveGrab(w)
  <1>1. /\ Sound(World) /\ World \in Worlds /\ World.j = paste
        /\ World.v.outstanding = viewer.outstanding /\ World.v.relative \in BOOLEAN
    BY StartsSound DEF Sound, Worlds, Viewers
  <1>2. w = [World EXCEPT !.v.relative = ~@]
    BY <1>1 DEF WithMode, Worlds, Viewers
  <1>3. w \in Worlds /\ w.j = World.j /\ w.p = World.p /\ SameViewer(World, w)
    BY <1>1, ModeSet
  <1>4. Becomes(u) /\ reader' \in Readers /\ pressed' = pressed
    BY <1>2, ReaderAfterType DEF SetMouseMode, Callback
  <1> HIDE DEF w
  <1>5. Sound(w) /\ w.v.outstanding = viewer.outstanding /\ w.j = paste
    BY <1>1, <1>3 DEF Sound, SameViewer
  <1>6. \/ u = w
        \/ w.v.session.capture = "Captured" /\ \E grab \in BOOLEAN : u = WithGrab(w, grab)
    <2>1. w.v.grab \in BOOLEAN /\ w.v.relative \in BOOLEAN /\ CanLock \in BOOLEAN
      BY <1>3, CanLockAssumption DEF Worlds, Viewers
    <2>2. GrabPointer(w) = WithGrab(w, w.v.grab \/ (w.v.relative /\ CanLock))
      BY <1>3 DEF GrabPointer, WithGrab, Worlds, Viewers
    <2>3. [w EXCEPT !.v.grab = FALSE] = WithGrab(w, FALSE)
      BY DEF WithGrab
    <2>4. (w.v.grab \/ (w.v.relative /\ CanLock)) \in BOOLEAN /\ FALSE \in BOOLEAN
      OBVIOUS
    <2>5. u = w \/ (w.v.session.capture = "Captured" /\
                     (u = GrabPointer(w) \/ u = [w EXCEPT !.v.grab = FALSE]))
      BY DEF MoveGrab
    <2> HIDE DEF u
    <2> QED
      BY <2>2, <2>3, <2>4, <2>5
  <1> HIDE DEF u
  <1>7. Sound(u) /\ u.v.outstanding = viewer.outstanding /\ u.j = paste
    <2>1. CASE w.v.session.capture = "Captured" /\ \E grab \in BOOLEAN : u = WithGrab(w, grab)
      <3>1. u \in Worlds /\ u.j = w.j /\ u.p = w.p /\ u.v.session = w.v.session /\
            u.v.outstanding = w.v.outstanding
        BY <2>1, <1>3, GrabSet
      <3> QED
        BY <3>1, <2>1, <1>5 DEF Sound
    <2> QED
      BY <2>1, <1>5, <1>6
  <1>8. pressed' \in SUBSET Items /\ viewer.outstanding \subseteq pressed' \cup paste.held
    BY <1>4, StateSound
  <1> QED
    BY <1>4, <1>7, <1>8, QuietStep

\* The path by itself: it raises releases, serves refreshes and comes back.
LEMMA PathStep ==
    ASSUME Inv, UNCHANGED <<viewer, paste, pressed>>, path' \in Paths,
           path'.down = IF path'.engaged THEN viewer.outstanding ELSE {},
           reader' \in Readers
    PROVE Inv' /\ (Exact => Exact')
  <1> DEFINE p == path'
             x == WithPath(Here, p)
  <1>1. /\ Sound(Here) /\ Owed(Here) /\ Answered(Here, pressed) /\ Here \in Worlds
        /\ Here.v = viewer /\ pressed \in SUBSET Items
    BY DEF Inv, Sound, Here
  <1>2. Here' = x
    BY DEF Here, WithPath
  <1> HIDE DEF p
  <1>3. x \in Worlds /\ x.v = Here.v /\ x.j = Here.j /\ x.p = p
    BY <1>1, PathSet DEF p
  <1>4. p.down = IF p.engaged THEN Here.v.outstanding ELSE {}
    BY <1>1 DEF p
  <1> HIDE DEF x
  <1>5. Sound(x)
    BY <1>1, <1>3, <1>4 DEF Sound
  <1>6. Owed(x) /\ Answered(x, pressed) /\ (Apart(Here) => Apart(x))
    BY <1>1, <1>3 DEF Owed, Answered, Apart
  <1>7. Inv' = (/\ Sound(Here') /\ Owed(Here') /\ Answered(Here', pressed')
                /\ pressed' \in SUBSET Items /\ reader' \in Readers)
    BY DEF Inv, Sound, Owed, Answered
  <1>8. Exact' = Apart(Here')
    BY DEF Exact, Apart
  <1> QED
    BY <1>1, <1>2, <1>5, <1>6, <1>7, <1>8 DEF Exact

LEMMA OwnActions ==
    ASSUME Inv, \/ ReaderAnswers \/ ReaderEnds \/ Acknowledge \/ LoseLink
                \/ RaiseLinkDown \/ Commission \/ ServeRefresh
                \/ UNCHANGED vars
    PROVE Inv' /\ (Exact => Exact')
  <1>1. /\ path \in Paths /\ reader \in Readers
        /\ path.down = IF path.engaged THEN viewer.outstanding ELSE {}
    BY StateSound
  <1> DEFINE Same(p) == p.down = path.down /\ p.engaged = path.engaged
             Clear(p) == p.down = {} /\ ~p.engaged
  <1>2. path' \in Paths /\ (Same(path') \/ Clear(path'))
    <2>1. CASE path' = path
      BY <1>1, <2>1
    <2>2. CASE Acknowledge
      <3>1. path' = [path EXCEPT !.acked = TRUE]
        BY <2>2 DEF Acknowledge
      <3> QED
        BY <1>1, <3>1 DEF Paths
    <2>3. CASE LoseLink
      <3>1. path' = [path EXCEPT !.link = "marked"]
        BY <2>3 DEF LoseLink
      <3> QED
        BY <1>1, <3>1 DEF Paths
    <2> DEFINE p == Raised(path)
    <2>4. p \in Paths /\ p.down = {} /\ ~p.engaged
      BY <1>1, RaisedPath
    <2>5. \A reading \in {"fresh", "stale"} : \A q \in Paths :
             /\ Published(q, reading) \in Paths
             /\ Published(q, reading).down = q.down
             /\ Published(q, reading).engaged = q.engaged
      BY DEF Published, Paths
    <2> HIDE DEF p
    <2>6. CASE RaiseLinkDown
      <3>1. path' = [p EXCEPT !.link = "down"]
        BY <2>6 DEF RaiseLinkDown, p
      <3>2. path' \in Paths /\ path'.down = p.down
        BY <2>4, <3>1 DEF Paths
      <3>3. path'.engaged = p.engaged
        BY <2>4, <3>1 DEF Paths
      <3> QED
        BY <2>4, <3>2, <3>3
    <2>7. CASE Commission
      <3> DEFINE q == [p EXCEPT !.link = "replaced", !.acked = TRUE]
      <3>1. path' = Published(q, "fresh")
        BY <2>7 DEF Commission, p
      <3>2. q \in Paths /\ q.down = p.down
        BY <2>4 DEF Paths
      <3>3. q.engaged = p.engaged
        BY <2>4 DEF Paths
      <3> HIDE DEF q
      <3> QED
        BY <2>4, <2>5, <3>1, <3>2, <3>3
    <2>8. CASE ServeRefresh
      <3> DEFINE q == [path EXCEPT !.asked = FALSE]
      <3>1. PICK reading \in {"fresh", "stale"} : path' = Published(q, reading)
        BY <2>8 DEF ServeRefresh
      <3>2. q \in Paths /\ q.down = path.down
        BY <1>1 DEF Paths
      <3>3. q.engaged = path.engaged
        BY <1>1 DEF Paths
      <3> HIDE DEF q
      <3> QED
        BY <2>5, <3>1, <3>2, <3>3
    <2> QED
      BY <2>1, <2>2, <2>3, <2>6, <2>7, <2>8 DEF ReaderAnswers, ReaderEnds, vars
  <1>3. reader' \in Readers
    <2>1. CASE reader' = reader
      BY <1>1, <2>1
    <2>2. CASE ReaderAnswers
      BY <2>2 DEF ReaderAnswers, Readers
    <2>3. CASE ReaderEnds
      BY <1>1, <2>3 DEF ReaderEnds, Readers
    <2> QED
      BY <2>1, <2>2, <2>3
      DEF Acknowledge, LoseLink, RaiseLinkDown, Commission, ServeRefresh, vars
  <1>4. UNCHANGED <<viewer, paste, pressed>>
    BY DEF ReaderAnswers, ReaderEnds, Acknowledge, LoseLink, RaiseLinkDown,
           Commission, ServeRefresh, vars
  <1>5. path'.down = IF path'.engaged THEN viewer.outstanding ELSE {}
    BY <1>1, <1>2
  <1> QED
    BY <1>2, <1>3, <1>4, <1>5, PathStep

-----------------------------------------------------------------------------
(* A menu shortcut                                                         *)

\* The items a sequence of transitions still has to lift after its first n.
Later(e, n) == {x \in Items : \E k \in (n + 1)..Len(e) : e[k] = Edge(x, FALSE)}

\* n transitions of a shortcut into a callback that started from w: what the
\* target holds was held or is lifted later, and what the shortcut does not
\* touch is held still, unless the session is over.
Through(w, u, e, n) ==
    /\ Sound(u)
    /\ \/ /\ u.j = w.j
          /\ u.v.outstanding \subseteq w.v.outstanding \cup Later(e, n)
          /\ \A x \in w.v.outstanding :
                (\A i \in DOMAIN e : e[i].item # x) => x \in u.v.outstanding
       \/ u.j = NoPaste /\ u.v.outstanding \subseteq Later(e, n)

LEMMA ThroughStep ==
    ASSUME NEW e \in Seq(KeyEdges), Balanced(e), NEW n \in Nat,
           NEW w, NEW u, Through(w, u, e, n)
    PROVE Through(w, FeedNth(u, e, n + 1), e, n + 1)
  <1> DEFINE m == n + 1
             z == FeedNth(u, e, m)
  <1> SUFFICES Through(w, z, e, m)
    OBVIOUS
  <1>0. Len(e) \in Nat /\ DOMAIN e = 1..Len(e)
    OBVIOUS
  <1>1. CASE m \notin DOMAIN e
    <2>1. z = u
      BY <1>1 DEF FeedNth
    <2>3. \A k \in (n + 1)..Len(e) : FALSE
      BY <1>0, <1>1
    <2>2. Later(e, n) \subseteq Later(e, m)
      BY <2>3 DEF Later
    <2> HIDE DEF z, m
    <2> QED
      BY <2>1, <2>2 DEF Through
  <1>2. CASE m \in DOMAIN e
    <2> DEFINE t == e[m]
    <2>1. z = Feed(u, t)
      BY <1>2 DEF FeedNth
    <2>2. /\ t \in Triggers /\ t.kind = "edge" /\ t.item \in Items
          /\ t.down \in BOOLEAN
      <3>1. t \in KeyEdges
        BY <1>2
      <3> HIDE DEF t
      <3> QED
        BY <3>1 DEF KeyEdges, Edges, Triggers, Items
    <2>3. Outcomes(u, z, t)
      BY <2>1, <2>2, FeedKeepsSound DEF Through
    <2>4. t.down => t.item \in Later(e, m)
      BY <1>2, <2>2 DEF Balanced, Later
    <2>5. \A x \in Later(e, n) : x \in Later(e, m) \/ (~t.down /\ x = t.item)
      <3> SUFFICES ASSUME NEW x \in Items, NEW k \in (n + 1)..Len(e), e[k] = Edge(x, FALSE)
                   PROVE x \in Later(e, m) \/ (~t.down /\ x = t.item)
        BY DEF Later
      <3>1. CASE k = m
        BY <3>1 DEF Edge
      <3>2. CASE k # m
        <4>1. k \in (m + 1)..Len(e)
          BY <1>0, <3>2
        <4> QED
          BY <4>1 DEF Later
      <3> QED
        BY <3>1, <3>2
    <2>6. \A i \in DOMAIN e : i = m => e[i].item = t.item
      OBVIOUS
    <2> HIDE DEF z, t
    <2>7. CASE u.v.session.capture = "Captured" /\ z.v.session.capture = "Captured"
      <3>1. z.j = u.j /\ z.v.outstanding = Transition(u.v.outstanding, t)
        BY <2>2, <2>3, <2>7 DEF Outcomes, After
      <3>2. \A x \in z.v.outstanding :
               x \in Later(e, m) \/ (x \in u.v.outstanding /\ (~t.down => x # t.item))
        BY <2>4, <3>1 DEF Transition
      <3>3. \A x \in z.v.outstanding :
               x \in Later(e, m) \/ (x \in u.v.outstanding /\ x \notin Later(e, n))
        BY <2>5, <3>2
      <3>4. \A x \in u.v.outstanding : x \in z.v.outstanding \/ x = t.item
        BY <3>1 DEF Transition
      <3>5. \A x \in u.v.outstanding :
               (\A i \in DOMAIN e : e[i].item # x) => x \in z.v.outstanding
        BY <1>2, <2>6, <3>4
      <3> HIDE DEF m
      <3> QED
        BY <2>3, <3>1, <3>3, <3>5 DEF Through, Outcomes
    <2>8. CASE ~(u.v.session.capture = "Captured" /\ z.v.session.capture = "Captured")
      BY <2>3, <2>8 DEF Outcomes, Through
    <2> QED
      BY <2>7, <2>8
  <1> QED
    BY <1>1, <1>2

\* A shortcut leaves nothing of its own behind (App::send_shortcut).
LEMMA ShortcutThrough ==
    ASSUME NEW w, Sound(w), NEW e \in Shortcuts
    PROVE LET u == FeedInOrder(w, e)
          IN /\ Sound(u)
             /\ \/ u.j = NoPaste /\ u.v.outstanding = {}
                \/ /\ u.j = w.j /\ u.v.outstanding \subseteq w.v.outstanding
                   /\ \A x \in w.v.outstanding :
                        (\A i \in DOMAIN e : e[i].item # x) => x \in u.v.outstanding
  <1> DEFINE u1 == FeedNth(w, e, 1)
             u2 == FeedNth(u1, e, 2)
             u3 == FeedNth(u2, e, 3)
             u4 == FeedNth(u3, e, 4)
             u5 == FeedNth(u4, e, 5)
             u6 == FeedNth(u5, e, 6)
  <1>1. e \in Seq(KeyEdges) /\ Len(e) <= 6 /\ Balanced(e) /\ Len(e) \in Nat
    BY ShortcutsAssumption
  <1>2. FeedInOrder(w, e) = u6
    BY DEF FeedInOrder
  <1>3. Through(w, w, e, 0)
    BY DEF Through
  <1> HIDE DEF u1, u2, u3, u4, u5, u6
  <1>4. Through(w, u1, e, 1)
    <2>1. Through(w, FeedNth(w, e, 0 + 1), e, 0 + 1)
      BY <1>1, <1>3, ThroughStep
    <2> QED
      BY <2>1 DEF u1
  <1>5. Through(w, u2, e, 2)
    <2>1. Through(w, FeedNth(u1, e, 1 + 1), e, 1 + 1)
      BY <1>1, <1>4, ThroughStep
    <2> QED
      BY <2>1 DEF u2
  <1>6. Through(w, u3, e, 3)
    <2>1. Through(w, FeedNth(u2, e, 2 + 1), e, 2 + 1)
      BY <1>1, <1>5, ThroughStep
    <2> QED
      BY <2>1 DEF u3
  <1>7. Through(w, u4, e, 4)
    <2>1. Through(w, FeedNth(u3, e, 3 + 1), e, 3 + 1)
      BY <1>1, <1>6, ThroughStep
    <2> QED
      BY <2>1 DEF u4
  <1>8. Through(w, u5, e, 5)
    <2>1. Through(w, FeedNth(u4, e, 4 + 1), e, 4 + 1)
      BY <1>1, <1>7, ThroughStep
    <2> QED
      BY <2>1 DEF u5
  <1>9. Through(w, u6, e, 6)
    <2>1. Through(w, FeedNth(u5, e, 5 + 1), e, 5 + 1)
      BY <1>1, <1>8, ThroughStep
    <2> QED
      BY <2>1 DEF u6
  <1>10. Later(e, 6) = {}
    <2>1. \A k \in (6 + 1)..Len(e) : FALSE
      BY <1>1
    <2> QED
      BY <2>1 DEF Later
  <1> QED
    BY <1>2, <1>9, <1>10 DEF Through

\* No key of a text is a key of the menu's shortcuts (shortcut.rs, Builtin):
\* so it is for every text without a tab.
ShortcutsApart ==
    \A e \in Shortcuts : \A i \in DOMAIN e : e[i].item \notin TypedKeys

LEMMA SendShortcutStep ==
    ASSUME Inv, NEW full \in BOOLEAN, SendShortcut(full)
    PROVE Inv' /\ (Exact /\ ShortcutsApart => Exact')
  <1> DEFINE w == WithQueue(full)
  <1>1. PICK e \in Shortcuts : Callback(FeedInOrder(w, e))
    BY DEF SendShortcut
  <1> DEFINE u == FeedInOrder(w, e)
  <1>2. Sound(w) /\ w.j = paste /\ w.v.outstanding = viewer.outstanding
    BY StartsSound
  <1> HIDE DEF w
  <1>3. /\ Sound(u)
        /\ \/ u.j = NoPaste /\ u.v.outstanding = {}
           \/ /\ u.j = w.j /\ u.v.outstanding \subseteq w.v.outstanding
              /\ \A x \in w.v.outstanding :
                   (\A i \in DOMAIN e : e[i].item # x) => x \in u.v.outstanding
    BY <1>2, ShortcutThrough
  <1>4. Becomes(u) /\ reader' \in Readers /\ pressed' = pressed /\ pressed' \in SUBSET Items
    BY <1>1, ReaderAfterType, StateSound DEF SendShortcut, Callback
  <1> HIDE DEF u
  <1>5. CASE u.j = NoPaste /\ u.v.outstanding = {}
    BY <1>3, <1>4, <1>5, NothingOwedStep
  <1>6. CASE /\ u.j = w.j /\ u.v.outstanding \subseteq w.v.outstanding
             /\ \A x \in w.v.outstanding :
                  (\A i \in DOMAIN e : e[i].item # x) => x \in u.v.outstanding
    <2>1. Owed(u) /\ Answered(u, pressed')
      BY <1>2, <1>4, <1>6, StateSound DEF Owed, Answered
    <2>2. ShortcutsApart /\ Exact => Apart(u)
      <3> SUFFICES ASSUME ShortcutsApart, Exact, paste.state = "running",
                          NEW x \in paste.held
                   PROVE x \in u.v.outstanding
        BY <1>2, <1>6 DEF Apart
      <3>1. x \in TypedKeys /\ x \in viewer.outstanding
        BY StateSound DEF JobOk, RunningWell
      <3>2. \A i \in DOMAIN e : e[i].item # x
        BY <3>1 DEF ShortcutsApart
      <3> QED
        BY <1>2, <1>6, <3>1, <3>2
    <2> QED
      BY <1>3, <1>4, <2>1, <2>2, Settles DEF Settled
  <1> QED
    BY <1>3, <1>5, <1>6

-----------------------------------------------------------------------------
(* A paste                                                                 *)

\* An ended paste leaves what the target holds to the user.
LEMMA FinishedKeepsSound ==
    ASSUME NEW w, Sound(w), NEW as \in Endings
    PROVE LET u == Finished(w, as)
          IN Sound(u) /\ u.j = NoPaste /\ u.v.outstanding = w.v.outstanding
  <1> DEFINE u == Finished(w, as)
  <1>1. u \in Worlds /\ u.j = NoPaste /\ u.p = w.p /\ SameViewer(w, u)
    BY FinishedLeavesNoPaste DEF Sound
  <1> HIDE DEF u
  <1>2. Sound(u) /\ u.v.outstanding = w.v.outstanding
    BY <1>1, NoPasteType DEF Sound, JobOk, SameViewer
  <1> QED
    BY <1>1, <1>2 DEF u

\* While a paste has put nothing down, what is held is the user's.
LEMMA UnpressedStep ==
    ASSUME Inv, NEW u, Sound(u), u.v.outstanding = viewer.outstanding,
           paste.held = {}, u.j.held = {}, Owed(u),
           Becomes(u), UNCHANGED pressed, reader' \in Readers
    PROVE Inv' /\ Exact'
  <1>1. Answered(u, pressed') /\ pressed' \in SUBSET Items /\ Apart(u)
    BY StateSound DEF Answered, Apart
  <1> QED
    BY <1>1, Settles DEF Settled

LEMMA StartPasteStep ==
    ASSUME Inv, StartPaste
    PROVE Inv' /\ Exact'
  <1> DEFINE starts == viewer.session.capture = "Captured" /\ reader.state = "idle"
             j == [paste EXCEPT !.state = "preparing"]
             p == [path EXCEPT !.asked = TRUE]
             x == WithJob(World, j)
             u == WithPath(x, p)
  <1>1. /\ paste.state = "idle" /\ pressed' = pressed
        /\ Becomes(IF starts THEN [v |-> World.v, j |-> j, p |-> p]
                   ELSE Refused(World))
        /\ reader' = IF starts THEN [state |-> "reading", mail |-> NoMail] ELSE reader
    BY DEF StartPaste
  <1>2. reader' \in Readers
    BY <1>1, StateSound DEF Readers
  <1>3. /\ Sound(World) /\ World \in Worlds /\ World.j = paste /\ World.p = path
        /\ World.v.outstanding = viewer.outstanding
        /\ World.v.session = viewer.session
    BY StartsSound DEF Sound, World
  <1>4. paste = NoPaste /\ paste.held = {} /\ paste \in Pastes /\ path \in Paths
    BY <1>1, StateSound, NoPasteType DEF JobOk
  <1>5. CASE ~starts
    <2> DEFINE z == Refused(World)
    <2>1. Sound(z) /\ z.j = NoPaste /\ z.v.outstanding = viewer.outstanding
      BY <1>3, FinishedKeepsSound DEF Refused, Endings
    <2>2. Becomes(z)
      BY <1>1, <1>5
    <2> HIDE DEF z
    <2>3. Owed(z)
      BY <2>1, NoPasteType DEF Owed
    <2> QED
      BY <1>1, <1>2, <1>4, <2>1, <2>2, <2>3, UnpressedStep, NoPasteType
  <1>6. CASE starts
    <2>1. j \in Pastes /\ j.state = "preparing" /\ j.held = {}
      BY <1>4 DEF Pastes
    <2>2. p \in Paths /\ p.down = path.down
      BY <1>4 DEF Paths
    <2>3. p.engaged = path.engaged
      BY <1>4 DEF Paths
    <2>4. [v |-> World.v, j |-> j, p |-> p] = u
      BY DEF WithJob, WithPath
    <2>5. Becomes(u)
      BY <1>1, <1>6, <2>4
    <2> HIDE DEF j, p
    <2>6. x \in Worlds /\ x.v = World.v /\ x.j = j /\ x.p = World.p
      BY <1>3, <2>1, JobSet
    <2> HIDE DEF x
    <2>7. u \in Worlds /\ u.v = x.v /\ u.j = j /\ u.p = p
      BY <2>2, <2>6, PathSet
    <2> HIDE DEF u
    <2>8. Sound(u)
      BY <1>3, <1>6, <2>1, <2>2, <2>3, <2>6, <2>7 DEF Sound, JobOk
    <2>9. Owed(u)
      BY <2>1, <2>7 DEF Owed
    <2> QED
      BY <1>1, <1>2, <1>3, <1>4, <2>1, <2>5, <2>6, <2>7, <2>8, <2>9, UnpressedStep
  <1> QED
    BY <1>5, <1>6

\* A set lists as a sequence of all its members.
LEMMA Listed ==
    ASSUME NEW S, IsFiniteSet(S)
    PROVE /\ SetToSeq(S) \in Seq(S)
          /\ \A x \in S : \E i \in 1..Len(SetToSeq(S)) : SetToSeq(S)[i] = x
  <1> DEFINE n == Cardinality(S)
             f == SetToSeq(S)
  <1>1. n \in Nat /\ ExistsBijection(1..n, S)
    BY FS_CardinalityType
  <1>2. PICK g \in [1..n -> S] : IsInjective(g)
    BY <1>1 DEF ExistsBijection, Bijection, Injection
  <1>3. f \in [1..n -> S] /\ IsInjective(f)
    BY <1>2 DEF SetToSeq
  <1> HIDE DEF f
  <1>4. f \in Injection(1..n, S)
    BY <1>3 DEF Injection
  <1>5. IsFiniteSet(1..n) /\ Cardinality(1..n) = n
    BY <1>1, FS_Interval
  <1>6. f \in Surjection(1..n, S)
    BY <1>4, <1>5, FS_Injection
  <1>7. f \in Seq(S) /\ Len(f) = n
    BY <1>1, <1>3
  <1>8. \A x \in S : \E i \in 1..n : f[i] = x
    BY <1>6 DEF Surjection
  <1> QED
    BY <1>7, <1>8 DEF f

\* The releases of some items, as a sequence.
LEMMA UpsOf ==
    ASSUME NEW S \in SUBSET Items
    PROVE LET q == SetToSeq({UpOf(k) : k \in S})
          IN /\ q \in Seq(Edges)
             /\ \A i \in 1..Len(q) : ~q[i].down
             /\ \A x \in S : \E i \in 1..Len(q) : q[i] = Edge(x, FALSE)
  <1> DEFINE T == {UpOf(k) : k \in S}
             f == [k \in S |-> UpOf(k)]
             q == SetToSeq(T)
  <1>1. IsFiniteSet(Items)
    BY ItemsAssumption, FS_AddElement, FS_Union, FS_Singleton DEF Items, Keys
  <1>2. IsFiniteSet(S)
    BY <1>1, FS_Subset
  <1>3. f \in Surjection(S, T)
    BY DEF Surjection
  <1>4. IsFiniteSet(T)
    <2> HIDE DEF f, T
    <2> QED
      BY <1>2, <1>3, FS_Surjection
  <1>5. \A y \in T : y \in Edges /\ ~y.down
    <2>1. \A k \in Items : UpOf(k) \in Edges /\ ~UpOf(k).down
      BY DEF UpOf, Edge, Edges
    <2> QED
      BY <2>1
  <1>6. \A x \in S : Edge(x, FALSE) \in T
    BY DEF UpOf
  <1> HIDE DEF T
  <1>7. q \in Seq(T) /\ \A x \in T : \E i \in 1..Len(q) : q[i] = x
    BY <1>4, Listed
  <1>8. q \in Seq(Edges)
    BY <1>5, <1>7, SeqMonotonic
  <1>9. \A i \in 1..Len(q) : q[i] \in T
    BY <1>7, ElementOfSeq
  <1>10. \A i \in 1..Len(q) : ~q[i].down
    BY <1>5, <1>9
  <1>11. \A x \in S : \E i \in 1..Len(q) : q[i] = Edge(x, FALSE)
    BY <1>6, <1>7
  <1> QED
    BY <1>8, <1>10, <1>11 DEF T

\* A paste's prelude releases all the target holds, and nothing else
\* (PasteJob::new).
LEMMA PreludeLifts ==
    ASSUME NEW out \in SUBSET Items
    PROVE LET q == Prelude(out)
          IN /\ q \in Seq(Edges)
             /\ \A i \in 1..Len(q) : ~q[i].down
             /\ \A x \in out : \E i \in 1..Len(q) : q[i] = Edge(x, FALSE)
  <1> DEFINE A == out \ {Left}
             B == out \cap {Left}
             a == SetToSeq({UpOf(k) : k \in A})
             b == SetToSeq({UpOf(k) : k \in B})
             q == Prelude(out)
  <1>1. q = a \o b
    BY DEF Prelude
  <1>2. /\ a \in Seq(Edges) /\ \A i \in 1..Len(a) : ~a[i].down
        /\ \A x \in A : \E i \in 1..Len(a) : a[i] = Edge(x, FALSE)
    BY UpsOf
  <1>3. /\ b \in Seq(Edges) /\ \A i \in 1..Len(b) : ~b[i].down
        /\ \A x \in B : \E i \in 1..Len(b) : b[i] = Edge(x, FALSE)
    BY UpsOf
  <1> HIDE DEF a, b, q
  <1>4. /\ q \in Seq(Edges) /\ Len(q) = Len(a) + Len(b)
        /\ \A i \in 1..(Len(a) + Len(b)) :
              q[i] = IF i <= Len(a) THEN a[i] ELSE b[i - Len(a)]
        /\ Len(a) \in Nat /\ Len(b) \in Nat
    BY <1>1, <1>2, <1>3, ConcatProperties
  <1>5. \A i \in 1..Len(q) : ~q[i].down
    <2> SUFFICES ASSUME NEW i \in 1..Len(q) PROVE ~q[i].down
      OBVIOUS
    <2>1. CASE i <= Len(a)
      BY <1>2, <1>4, <2>1
    <2>2. CASE i > Len(a)
      <3>1. i - Len(a) \in 1..Len(b) /\ q[i] = b[i - Len(a)]
        BY <1>4, <2>2
      <3> QED
        BY <3>1, <1>3
    <2> QED
      BY <1>4, <2>1, <2>2
  <1>6. ASSUME NEW x \in out PROVE \E i \in 1..Len(q) : q[i] = Edge(x, FALSE)
    <2>1. CASE x \in A
      <3>1. PICK i \in 1..Len(a) : a[i] = Edge(x, FALSE)
        BY <1>2, <2>1
      <3>2. i \in 1..(Len(a) + Len(b)) /\ i <= Len(a)
        BY <1>4
      <3>3. i \in 1..Len(q) /\ q[i] = a[i]
        BY <1>4, <3>2
      <3> QED
        BY <3>1, <3>3
    <2>2. CASE x \in B
      <3>1. PICK i \in 1..Len(b) : b[i] = Edge(x, FALSE)
        BY <1>3, <2>2
      <3> DEFINE k == Len(a) + i
      <3>2. k \in 1..Len(q) /\ k - Len(a) = i /\ ~(k <= Len(a))
        BY <1>4, <3>1
      <3> HIDE DEF k
      <3>3. q[k] = b[i]
        BY <1>4, <3>2
      <3> QED
        BY <3>1, <3>2, <3>3
    <2> QED
      BY <2>1, <2>2
  <1> QED
    BY <1>4, <1>5, <1>6 DEF q

\* A new job has everything to type before it, and lifts first all the target
\* holds (PasteJob::new).
LEMMA NewJobRunsWell ==
    ASSUME NEW out \in SUBSET Items, NEW body \in Bodies, body # << >>
    PROVE LET j == NewJob(out, body)
          IN /\ j \in Pastes /\ RunningWell(j) /\ j.state = "running"
             /\ j.held = {} /\ j.sent = 0
             /\ \A x \in out : \E k \in 1..j.prelude : j.steps[k] = Edge(x, FALSE)
  <1> DEFINE q == Prelude(out)
             e == q \o body
             j == NewJob(out, body)
  <1>1. /\ q \in Seq(Edges) /\ \A i \in 1..Len(q) : ~q[i].down
        /\ \A x \in out : \E i \in 1..Len(q) : q[i] = Edge(x, FALSE)
    BY PreludeLifts
  <1>2. body \in Seq(KeyEdges) /\ Balanced(body)
    BY BodiesAssumption
  <1>3. body \in Seq(Edges)
    <2>1. KeyEdges \subseteq Edges
      BY DEF KeyEdges, Edges, Items
    <2> QED
      BY <1>2, <2>1, SeqMonotonic
  <1>4. /\ j.state = "running" /\ j.steps = e /\ j.prelude = Len(q)
        /\ j.text = NoMail /\ j.sent = 0 /\ j.held = {}
        /\ j = [state |-> "running", text |-> NoMail, steps |-> e, sent |-> 0,
                prelude |-> Len(q), held |-> {}]
    <2>1. j = [NoPaste EXCEPT !.state = "running", !.steps = e, !.prelude = Len(q)]
      BY DEF NewJob
    <2> HIDE DEF q, e, j
    <2>2. j = [state |-> "running", text |-> NoMail, steps |-> e, sent |-> 0,
               prelude |-> Len(q), held |-> {}]
      BY <2>1 DEF NoPaste
    <2> QED
      BY <2>2
  <1> HIDE DEF q, j
  <1>5. /\ e \in Seq(Edges) /\ Len(e) = Len(q) + Len(body)
        /\ \A i \in 1..(Len(q) + Len(body)) :
              e[i] = IF i <= Len(q) THEN q[i] ELSE body[i - Len(q)]
        /\ Len(q) \in Nat /\ Len(body) \in Nat /\ Len(body) > 0
    BY <1>1, <1>3, ConcatProperties
  <1> HIDE DEF e
  <1>6. \A i \in 1..Len(e) : i <= Len(q) => e[i] = q[i] /\ i \in 1..Len(q)
    BY <1>5
  <1>7. \A i \in 1..Len(e) : i > Len(q) =>
           e[i] = body[i - Len(q)] /\ i - Len(q) \in 1..Len(body)
    BY <1>5
  <1>8. ASSUME NEW i \in 1..Len(e)
        PROVE IF i <= Len(q) THEN ~e[i].down ELSE e[i].item \in TypedKeys
    <2>1. CASE i <= Len(q)
      BY <1>1, <1>6, <2>1
    <2>2. CASE ~(i <= Len(q))
      <3>1. e[i] = body[i - Len(q)] /\ i - Len(q) \in 1..Len(body)
        BY <1>5, <1>7, <2>2
      <3>2. body[i - Len(q)] \in KeyEdges /\ i - Len(q) \in DOMAIN body
        BY <1>2, <3>1
      <3> QED
        BY <2>2, <3>1, <3>2 DEF TypedKeys, KeyEdges
    <2> QED
      BY <2>1, <2>2
  <1>9. Balanced(e)
    <2> SUFFICES ASSUME NEW i \in 1..Len(e), e[i].down
                 PROVE \E k \in (i + 1)..Len(e) : e[k] = Edge(e[i].item, FALSE)
      <3>1. DOMAIN e = 1..Len(e)
        BY <1>5
      <3> QED
        BY <3>1 DEF Balanced
    <2>1. ~(i <= Len(q))
      BY <1>8
    <2> DEFINE m == i - Len(q)
    <2>2. e[i] = body[m] /\ m \in 1..Len(body)
      BY <1>5, <1>7, <2>1
    <2> HIDE DEF m
    <2>6. m \in DOMAIN body /\ body[m].down
      BY <1>2, <2>2
    <2>3. PICK k \in (m + 1)..Len(body) : body[k] = Edge(body[m].item, FALSE)
      BY <1>2, <2>6 DEF Balanced
    <2> DEFINE n == k + Len(q)
    <2>4. n \in (i + 1)..Len(e) /\ n \in 1..Len(e) /\ n > Len(q) /\ n - Len(q) = k
      BY <1>5, <2>1, <2>2, <2>3 DEF m
    <2> HIDE DEF n
    <2>5. e[n] = body[k]
      BY <1>7, <2>4
    <2> QED
      BY <2>2, <2>3, <2>4, <2>5
  <1>10. \A x \in out : \E k \in 1..Len(q) : e[k] = Edge(x, FALSE)
    <2> SUFFICES ASSUME NEW x \in out PROVE \E k \in 1..Len(q) : e[k] = Edge(x, FALSE)
      OBVIOUS
    <2>1. PICK k \in 1..Len(q) : q[k] = Edge(x, FALSE)
      BY <1>1
    <2>2. k \in 1..Len(e) /\ k <= Len(q)
      BY <1>5
    <2> QED
      BY <1>6, <2>1, <2>2
  <1>11. j \in Pastes
    BY <1>4, <1>5 DEF Pastes
  <1>12. RunningWell(j)
    BY <1>4, <1>5, <1>8, <1>9 DEF RunningWell
  <1> QED
    BY <1>4, <1>10, <1>11, <1>12 DEF j

LEMMA AdvancePreparingStep ==
    ASSUME Inv, NEW late \in BOOLEAN, AdvancePreparing(late)
    PROVE Inv' /\ Exact'
  <1> DEFINE text == IF paste.text = NoMail THEN reader.mail ELSE paste.text
             rest == IF text = NoMail THEN reader ELSE [state |-> "idle", mail |-> NoMail]
             z == Refused(World)
  <1>1. /\ paste.state = "preparing" /\ paste.held = {} /\ pressed' = pressed
        /\ viewer.session.capture = "Captured" /\ paste \in Pastes
        /\ viewer.outstanding \in SUBSET Items
    BY StateSound, NoPasteType DEF AdvancePreparing, JobOk
  <1>2. text \in Mails \cup {NoMail}
    BY StateSound DEF Pastes, Readers
  <1>3. /\ Sound(World) /\ World \in Worlds /\ World.j = paste
        /\ World.v.outstanding = viewer.outstanding
        /\ World.v.session = viewer.session
    BY StartsSound DEF Sound
  <1>4. /\ Sound(z) /\ z.j = NoPaste /\ z.v.outstanding = viewer.outstanding
        /\ Owed(z) /\ z.j.held = {}
    BY <1>3, FinishedKeepsSound, NoPasteType DEF Refused, Endings, Owed
  <1>5. reader' \in Readers
    <2>1. reader \in Readers
      BY StateSound
    <2>2. reader' = rest \/ reader' = [reader EXCEPT !.mail = NoMail]
      BY <1>1 DEF AdvancePreparing
    <2> QED
      BY <2>1, <2>2 DEF Readers
  <1>6. \/ Becomes(z)
        \/ text.is = "text" /\ \E lock \in LockReadings(path) :
              Becomes(CompileAndStart(World, text, lock))
        \/ Becomes([World EXCEPT !.j.text = text])
    BY DEF AdvancePreparing
  <1>7. CASE Becomes(z)
    <2> HIDE DEF z
    <2> QED
      BY <1>1, <1>4, <1>5, <1>7, UnpressedStep
  <1>8. CASE text.is = "text" /\ \E lock \in LockReadings(path) :
              Becomes(CompileAndStart(World, text, lock))
    <2>1. text.body \in Bodies
      BY <1>2, <1>8 DEF Mails, ReadError, NoMail
    <2> DEFINE b == text.body
               j == NewJob(viewer.outstanding, b)
               u == WithJob(World, j)
    <2>2. Becomes(z) \/ (b # << >> /\ Becomes([World EXCEPT !.j = j]))
      BY <1>3, <1>8 DEF CompileAndStart
    <2>3. [World EXCEPT !.j = j] = u
      BY <1>3 DEF WithJob, Worlds
    <2>4. CASE b # << >> /\ Becomes(u)
      <3> HIDE DEF b
      <3>1. /\ j \in Pastes /\ RunningWell(j) /\ j.state = "running"
            /\ j.held = {} /\ j.sent = 0
            /\ \A x \in viewer.outstanding :
                  \E k \in 1..j.prelude : j.steps[k] = Edge(x, FALSE)
        BY <1>1, <2>1, <2>4, NewJobRunsWell DEF b
      <3> HIDE DEF j
      <3>2. u \in Worlds /\ u.v = World.v /\ u.j = j /\ u.p = World.p
        BY <1>3, <3>1, JobSet
      <3> HIDE DEF u
      <3>3. Sound(u)
        BY <1>1, <1>3, <3>1, <3>2 DEF Sound, JobOk
      <3>4. Owed(u)
        <4>1. u.j.sent + 1 = 1 /\ u.v.outstanding = viewer.outstanding
          BY <1>3, <3>1, <3>2
        <4> QED
          BY <3>1, <3>2, <4>1 DEF Owed
      <3> QED
        BY <1>1, <1>3, <1>5, <2>4, <3>1, <3>2, <3>3, <3>4, UnpressedStep
    <2> QED
      BY <1>7, <2>2, <2>3, <2>4
  <1>9. CASE Becomes([World EXCEPT !.j.text = text])
    <2> HIDE DEF text
    <2> DEFINE j == [paste EXCEPT !.text = text]
               u == WithJob(World, j)
    <2>1. j \in Pastes /\ j.state = "preparing" /\ j.held = {}
      BY <1>1, <1>2 DEF Pastes
    <2>2. [World EXCEPT !.j.text = text] = u
      BY <1>3 DEF WithJob, Worlds
    <2> HIDE DEF j
    <2>3. u \in Worlds /\ u.v = World.v /\ u.j = j /\ u.p = World.p
      BY <1>3, <2>1, JobSet
    <2>4. Becomes(u)
      BY <1>9, <2>2
    <2> HIDE DEF u
    <2>5. Sound(u)
      BY <1>1, <1>3, <2>1, <2>3 DEF Sound, JobOk
    <2>6. Owed(u)
      BY <2>1, <2>3 DEF Owed
    <2> QED
      BY <1>1, <1>3, <1>5, <2>1, <2>3, <2>4, <2>5, <2>6, UnpressedStep
  <1> QED
    BY <1>6, <1>7, <1>8, <1>9

\* A sent step is counted: what it presses has its release to come, what it
\* releases has come up (PasteJob::delivered).
LEMMA CountedRunsWell ==
    ASSUME NEW j \in Pastes, RunningWell(j), j.sent + 1 # Len(j.steps)
    PROVE LET c == Counted(j)
          IN /\ c \in Pastes /\ RunningWell(c) /\ c.state = j.state
             /\ c.sent = j.sent + 1 /\ c.prelude = j.prelude /\ c.steps = j.steps
             /\ c.held = Transition(j.held, j.steps[j.sent + 1])
  <1> DEFINE n == j.sent + 1
             e == j.steps
             t == e[n]
             h == Transition(j.held, t)
             c == Counted(j)
  <1>1. /\ e \in Seq(Edges) /\ j.sent \in Nat /\ j.prelude \in Nat /\ Len(e) \in Nat
        /\ j.sent < Len(e) /\ j.prelude < Len(e) /\ j.held \in SUBSET Items
        /\ Balanced(e) /\ j.held \subseteq TypedKeys
        /\ \A i \in DOMAIN e :
              IF i <= j.prelude THEN ~e[i].down ELSE e[i].item \in TypedKeys
        /\ \A x \in j.held : \E k \in n..Len(e) : e[k] = Edge(x, FALSE)
    <2>1. /\ e \in Seq(Edges) /\ j.sent \in Nat /\ j.prelude \in Nat
          /\ j.held \in SUBSET Items
      BY DEF Pastes
    <2>2. Len(e) \in Nat
      BY <2>1
    <2> QED
      BY <2>1, <2>2 DEF RunningWell
  <1>2. n \in DOMAIN e /\ n < Len(e) /\ n \in Nat
    BY <1>1
  <1>3. t \in Edges
    BY <1>1, <1>2
  <1>4. t.item \in Items /\ (t.down => t.item \in TypedKeys)
    BY <1>1, <1>2, <1>3 DEF Edges
  <1> HIDE DEF t
  <1>5. h \in SUBSET Items /\ h \subseteq TypedKeys
    BY <1>1, <1>4 DEF Transition
  <1>6. /\ c = [j EXCEPT !.sent = n, !.held = h]
    BY DEF Counted, t
  <1>7. \A x \in h : \E k \in (n + 1)..Len(e) : e[k] = Edge(x, FALSE)
    <2> SUFFICES ASSUME NEW x \in h
                 PROVE \E k \in (n + 1)..Len(e) : e[k] = Edge(x, FALSE)
      OBVIOUS
    <2>1. CASE t.down /\ x = t.item
      BY <1>2, <2>1 DEF Balanced, t, RunningWell
    <2>2. CASE x \in j.held /\ (~t.down => x # t.item)
      <3>1. PICK k \in n..Len(e) : e[k] = Edge(x, FALSE)
        BY <1>1, <2>2
      <3>2. k # n
        <4>1. e[k].item = x /\ ~e[k].down
          BY <3>1 DEF Edge
        <4>2. CASE k = n
          BY <4>1, <4>2, <2>2 DEF t
        <4> QED
          BY <4>2
      <3>3. k \in (n + 1)..Len(e)
        BY <1>1, <1>2, <3>1, <3>2
      <3> QED
        BY <3>1, <3>3
    <2> QED
      BY <2>1, <2>2 DEF Transition
  <1> HIDE DEF h, c, n
  <1>8. /\ c \in Pastes /\ c.state = j.state /\ c.sent = n
        /\ c.prelude = j.prelude /\ c.steps = e /\ c.held = h
    BY <1>2, <1>5, <1>6 DEF Pastes
  <1>9. RunningWell(c)
    BY <1>1, <1>2, <1>5, <1>7, <1>8 DEF RunningWell
  <1> QED
    BY <1>8, <1>9 DEF c, h, n, t

LEMMA AdvanceRunningStep ==
    ASSUME Inv, NEW full \in BOOLEAN, AdvanceRunning(full)
    PROVE Inv' /\ (Exact => Exact')
  <1> DEFINE w == WithQueue(full)
             out == viewer.outstanding
             n == paste.sent + 1
             t == paste.steps[n]
             f == Feed(w, t)
             u == Delivered(f)
  <1>1. /\ paste.state = "running" /\ pressed' = pressed /\ pressed \in SUBSET Items
        /\ paste \in Pastes /\ RunningWell(paste) /\ out \subseteq pressed \cup paste.held
        /\ \A x \in out \ paste.held :
              \E k \in n..paste.prelude : paste.steps[k] = Edge(x, FALSE)
        /\ Exact = (paste.held \subseteq out)
    BY StateSound DEF AdvanceRunning, JobOk
  <1>2. viewer.session.capture = "Captured"
    BY <1>1, StateSound, NoPasteType
  <1>3. Becomes(u) /\ reader' \in Readers
    BY <1>2, ReaderAfterType DEF AdvanceRunning, Callback
  <1>4. /\ paste.sent \in Nat /\ paste.prelude \in Nat /\ paste.steps \in Seq(Edges)
        /\ paste.sent < Len(paste.steps) /\ Len(paste.steps) \in Nat
        /\ Balanced(paste.steps)
        /\ \A x \in paste.held :
              \E k \in n..Len(paste.steps) : paste.steps[k] = Edge(x, FALSE)
    <2>1. /\ paste.sent \in Nat /\ paste.prelude \in Nat
          /\ paste.steps \in Seq(Edges)
      BY <1>1 DEF Pastes
    <2>2. Len(paste.steps) \in Nat
      BY <2>1
    <2> QED
      BY <1>1, <2>1, <2>2 DEF RunningWell
  <1>5. n \in DOMAIN paste.steps
    BY <1>4
  <1>6. t \in Edges
    BY <1>4, <1>5
  <1>7. t \in Triggers /\ t.kind = "edge" /\ t.down \in BOOLEAN
    BY <1>6 DEF Triggers, Edges
  <1>8. Sound(w) /\ w.j = paste /\ w.v.outstanding = out
    BY StartsSound
  <1> HIDE DEF w, u, t
  <1>9. Outcomes(w, f, t)
    BY <1>7, <1>8, FeedKeepsSound
  <1>10. t.down => \E k \in (n + 1)..Len(paste.steps) :
                      paste.steps[k] = Edge(t.item, FALSE)
    BY <1>4, <1>5 DEF Balanced, t
  <1>11. \A x : t = Edge(x, FALSE) => x = t.item /\ ~t.down
    BY DEF Edge
  <1> HIDE DEF out, f
  <1>12. CASE f.j = NoPaste /\ f.v.outstanding = {}
    <2>1. u = f
      BY <1>12, NoPasteType DEF u, Delivered
    <2> QED
      BY <1>1, <1>3, <1>9, <1>12, <2>1, NothingOwedStep DEF Outcomes
  <1>13. CASE f.j = paste /\ f.v.outstanding = Transition(out, t)
    <2>1. Sound(f) /\ f.j.state = "running" /\ f \in Worlds
      BY <1>1, <1>9, <1>13 DEF Outcomes, Sound
    <2>2. CASE n = Len(paste.steps)
      <3>1. u = Finished(f, "Done")
        BY <1>13, <2>1, <2>2 DEF u, Delivered
      <3>2. Sound(u) /\ u.j = NoPaste /\ u.v.outstanding = f.v.outstanding
        BY <2>1, <3>1, FinishedKeepsSound DEF Endings
      <3>3. ~t.down
        <4>1. \A k \in (n + 1)..Len(paste.steps) : FALSE
          BY <1>4, <2>2
        <4> QED
          BY <1>10, <4>1
      <3>4. \A x \in paste.held : x = t.item
        <4> SUFFICES ASSUME NEW x \in paste.held PROVE x = t.item
          OBVIOUS
        <4>1. PICK k \in n..Len(paste.steps) : paste.steps[k] = Edge(x, FALSE)
          BY <1>4
        <4>2. k = n
          BY <1>4, <2>2
        <4> QED
          BY <1>11, <4>1, <4>2 DEF t
      <3>5. u.v.outstanding \subseteq pressed
        BY <1>1, <1>13, <3>2, <3>3, <3>4 DEF Transition, out
      <3>6. Owed(u) /\ Answered(u, pressed') /\ Apart(u)
        BY <1>1, <3>2, <3>5, NoPasteType DEF Owed, Answered, Apart
      <3> QED
        BY <1>1, <1>3, <3>2, <3>6, Settles DEF Settled
    <2>3. CASE n # Len(paste.steps)
      <3> DEFINE c == Counted(paste)
                 h == Transition(paste.held, t)
      <3>1. /\ c \in Pastes /\ RunningWell(c) /\ c.state = "running"
            /\ c.sent = n /\ c.prelude = paste.prelude /\ c.steps = paste.steps
            /\ c.held = h
        BY <1>1, <2>3, CountedRunsWell DEF t
      <3> HIDE DEF c
      <3>2. u = WithJob(f, c)
        <4>1. u = [f EXCEPT !.j = Counted(@)]
          BY <1>13, <2>1, <2>3 DEF u, Delivered
        <4> QED
          BY <1>13, <2>1, <4>1 DEF WithJob, Worlds, c
      <3>3. u \in Worlds /\ u.v = f.v /\ u.j = c /\ u.p = f.p
        BY <2>1, <3>1, <3>2, JobSet
      <3>4. Sound(u)
        BY <1>1, <1>13, <2>1, <3>1, <3>3, NoPasteType DEF Sound, JobOk
      <3>5. Owed(u)
        <4> SUFFICES ASSUME NEW x \in Transition(out, t), x \notin h
                     PROVE \E k \in (n + 1)..paste.prelude :
                              paste.steps[k] = Edge(x, FALSE)
          BY <1>13, <3>1, <3>3 DEF Owed
        <4>1. x \in out /\ x \notin paste.held /\ (~t.down => x # t.item)
          BY DEF Transition
        <4>2. PICK k \in n..paste.prelude : paste.steps[k] = Edge(x, FALSE)
          BY <1>1, <4>1 DEF out
        <4>3. k # n
          BY <1>11, <4>1, <4>2 DEF t
        <4>4. k \in (n + 1)..paste.prelude
          BY <1>4, <4>2, <4>3
        <4> QED
          BY <4>2, <4>4
      <3>6. Answered(u, pressed')
        BY <1>1, <1>13, <3>1, <3>3 DEF Answered, Transition, out
      <3>7. Exact => Apart(u)
        BY <1>1, <1>13, <3>1, <3>3 DEF Apart, Transition, out
      <3> QED
        BY <1>1, <1>3, <3>4, <3>5, <3>6, <3>7, Settles DEF Settled
    <2> QED
      BY <2>2, <2>3
  <1> QED
    BY <1>7, <1>8, <1>9, <1>12, <1>13 DEF Outcomes, After

-----------------------------------------------------------------------------
(* The loop                                                                *)

LEMMA StepKeepsInv ==
    ASSUME Inv, [Next]_vars
    PROVE Inv' /\ (Exact /\ ShortcutsApart => Exact')
  <1>1. ASSUME NEW event \in Edges, NEW full \in BOOLEAN, UserEdge(event, full)
        PROVE Inv' /\ (Exact => Exact')
    BY <1>1, UserEdgeStep
  <1>2. CASE Move \/ LetOut \/ CloseRequested \/ Tick \/ PasteChordAgain
    BY <1>2, ControlActions
  <1>3. CASE FocusLost
    BY <1>3, FocusLostStep
  <1>4. CASE SetMouseMode
    BY <1>4, SetMouseModeStep
  <1>5. ASSUME NEW full \in BOOLEAN, SendShortcut(full)
        PROVE Inv' /\ (Exact /\ ShortcutsApart => Exact')
    BY <1>5, SendShortcutStep
  <1>6. CASE StartPaste
    BY <1>6, StartPasteStep
  <1>7. ASSUME NEW late \in BOOLEAN, AdvancePreparing(late) PROVE Inv' /\ Exact'
    BY <1>7, AdvancePreparingStep
  <1>8. ASSUME NEW full \in BOOLEAN, AdvanceRunning(full) PROVE Inv' /\ (Exact => Exact')
    BY <1>8, AdvanceRunningStep
  <1>9. CASE \/ ReaderAnswers \/ ReaderEnds \/ Acknowledge \/ LoseLink
             \/ RaiseLinkDown \/ Commission \/ ServeRefresh \/ UNCHANGED vars
    BY <1>9, OwnActions
  <1> QED
    BY <1>1, <1>2, <1>3, <1>4, <1>5, <1>6, <1>7, <1>8, <1>9 DEF Next

\* The loop, its paste and the path stay consistent, whatever is pressed,
\* pasted, refused or lost, in whatever order.
THEOREM SessionSound == Spec => []Inv
  <1>1. Init => Inv
    BY InitiallySound
  <1>2. Inv /\ [Next]_vars => Inv'
    BY StepKeepsInv
  <1> QED
    BY <1>1, <1>2, PTL DEF Spec

\* NothingStuck: what the target holds down, the user still holds or the
\* running paste put there (route_key, route_pointer, App::perform).
THEOREM NothingIsStuck == Spec => []NothingStuck
  <1>1. Inv => NothingStuck
    <2> SUFFICES ASSUME Inv PROVE NothingStuck
      OBVIOUS
    <2> QED
      BY StateSound DEF NothingStuck
  <1> QED
    BY <1>1, SessionSound, PTL

\* HostControlsReturned: a released session has given back the shortcuts and
\* the pointer, owes the target nothing and has no paste (state.rs,
\* leave_capture).
THEOREM ReleasedReturnsControls == Spec => []HostControlsReturned
  <1>1. Inv => HostControlsReturned
    <2> SUFFICES ASSUME Inv PROVE HostControlsReturned
      OBVIOUS
    <2> QED
      BY StateSound, NoPasteType DEF HostControlsReturned
  <1> QED
    BY <1>1, SessionSound, PTL

\* Whatever the menu sends meanwhile, past its prelude a paste shares the
\* target with nobody: all that is down is its own (PasteJob::new,
\* route_key).
PasteAddsAll ==
    paste.state = "running" /\ paste.sent >= paste.prelude
        => path.down \subseteq paste.held

THEOREM NobodyTypesAlong == Spec => []PasteAddsAll
  <1>1. Inv => PasteAddsAll
    <2> SUFFICES ASSUME Inv, paste.state = "running", paste.sent >= paste.prelude
                 PROVE path.down \subseteq paste.held
      BY DEF PasteAddsAll
    <2>1. paste.sent \in Nat /\ paste.prelude \in Nat
      BY StateSound DEF Pastes
    <2>2. \A k \in (paste.sent + 1)..paste.prelude : FALSE
      BY <2>1
    <2> QED
      BY <2>2, StateSound
  <1> QED
    BY <1>1, SessionSound, PTL

\* PasteTypesAlone: what is down past the prelude is exactly the paste's own,
\* where no shortcut of the menu shares a key with the text.  Of the keys of
\* Win+Tab and Ctrl+Alt+Del a text types Tab alone, for a tab character; there
\* only NobodyTypesAlong holds.
THEOREM PasteTypesItsOwn ==
    ASSUME ShortcutsApart
    PROVE Spec => []PasteTypesAlone
  <1>1. Init => Inv /\ Exact
    BY InitiallySound
  <1>2. Inv /\ Exact /\ [Next]_vars => Inv' /\ Exact'
    BY StepKeepsInv
  <1>3. Inv /\ Exact => PasteTypesAlone
    <2> SUFFICES ASSUME Inv, Exact, paste.state = "running",
                        paste.sent >= paste.prelude, path.engaged
                 PROVE path.down = paste.held
      BY DEF PasteTypesAlone
    <2>1. paste.sent \in Nat /\ paste.prelude \in Nat
      BY StateSound DEF Pastes
    <2>2. \A k \in (paste.sent + 1)..paste.prelude : FALSE
      BY <2>1
    <2> QED
      BY <2>2, StateSound
  <1> QED
    BY <1>1, <1>2, <1>3, PTL DEF Spec
=============================================================================
