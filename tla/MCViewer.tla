------------------------------ MODULE MCViewer ------------------------------
(***************************************************************************)
(* The viewer's event loop (ViewerSession) and the sound whose conditions  *)
(* its title shows (AudioPath), which share no state.  One behaviour runs  *)
(* one of the two.                                                         *)
(***************************************************************************)
EXTENDS ViewerSession, AudioPath

VARIABLE part

\* A clipboard that types Enter or what the layout cannot type, and a menu
\* shortcut on the plain key.
Tap(key) == << Edge(key, TRUE), Edge(key, FALSE) >>
SmallBodies == {<< >>, Tap(Enter)}
SmallShortcuts == {Tap(key) : key \in Plain}

MCInit ==
    /\ part \in {"viewer", "audio"}
    /\ Init /\ AudioInit
    /\ part = "audio" => viewer.relative

\* A step of one part is taken where that part runs and leaves the other.
OfViewer(step) == part = "viewer" /\ step /\ UNCHANGED <<part, audioVars>>
OfAudio(step) == part = "audio" /\ step /\ UNCHANGED <<part, vars>>

MCNext == OfViewer(Next) \/ OfAudio(AudioNext)

\* The fairness of the two modules.
MCSpec ==
    /\ MCInit /\ [][MCNext]_<<part, vars, audioVars>>
    /\ []<>(part = "audio" \/ ~TickDue) \/ []<><<part = "viewer" /\ Tick>>_vars
    /\ WF_vars(part = "viewer" /\ Acknowledge)
    /\ WF_audioVars(part = "audio" /\ CaptureWorker) /\ WF_audioVars(part = "audio" /\ PlaybackWorker)
=============================================================================
