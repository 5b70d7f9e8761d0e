----------------------------- MODULE MCThreads -----------------------------
(***************************************************************************)
(* What must come to an end or come round again, in five parts of which    *)
(* one behaviour runs one: the writer thread (InputPath), the device       *)
(* information it is asked for (InfoRefresh), the capture pipeline         *)
(* (CapturePipeline), the render thread and the loop that feeds it         *)
(* (Presentation), and the main thread of the viewer from start to exit    *)
(* (ViewerLifetime), where the others appear only as alive or gone.        *)
(***************************************************************************)
EXTENDS CapturePipeline

CONSTANTS
    Usages, Modifiers, Buttons, Slots,
    Positions, NoPosition, Relative, MaxDelta, MaxBarriers,
    Producers, Events, UserReasons, Reconnect, RunMax, StepMax, MaxEpoch,
    MaxPastes, MaxToggles, MaxOutages,
    None, Sizes, MaxBuilds, MaxSkips,
    MaxCaptures

VARIABLES
    part,
    queue, pendingReason, requested, acked, cancel, engaged, shuttingDown,
    linkDown, lastRelease, overflowing, handle,
    pc, entry, release, held, mode, link, opening, linkFaults, wire, late,
    asked, info, writer, target, paste, session, owed,
    window, loop, shared, chromes, video, render, screen,
    main, parts, display, app, inhibit, dispatch, drawer, told, trespass

Path == INSTANCE InputPath WITH faults <- linkFaults
Info == INSTANCE InfoRefresh
Picture == INSTANCE Presentation
Life == INSTANCE ViewerLifetime WITH renderer <- drawer

pathVars ==
    <<queue, pendingReason, requested, acked, cancel, engaged, shuttingDown,
      linkDown, lastRelease, overflowing, handle,
      pc, entry, release, held, mode, link, opening, linkFaults, wire, late>>
infoVars == <<asked, info, writer, target, paste, session, owed>>
pictureVars == <<window, loop, shared, chromes, video, render, screen>>
lifeVars == <<main, parts, display, app, inhibit, dispatch, drawer, told, trespass>>
allVars == <<part, vars, pathVars, infoVars, pictureVars, lifeVars>>

PressesAndReleases == [kind: {"key"}, key: Usages, down: BOOLEAN]

MCInit ==
    /\ part \in {"writer", "info", "pipeline", "picture", "life"}
    /\ Path!Init /\ Info!Init /\ Init
    /\ Picture!PresentationInit /\ Life!LifetimeInit
    /\ part # "picture" => window.size = CHOOSE size \in Sizes : TRUE
    /\ part # "pipeline" => recover

\* A step of one part is taken where that part runs and leaves the others.
In(name, step) == part = name /\ step
Of(name, step, others) == In(name, step) /\ UNCHANGED <<part, others>>
OfWriter(step) == Of("writer", step, <<infoVars, vars, pictureVars, lifeVars>>)
OfInfo(step) == Of("info", step, <<pathVars, vars, pictureVars, lifeVars>>)
OfPipeline(step) == Of("pipeline", step, <<pathVars, infoVars, pictureVars, lifeVars>>)
OfPicture(step) == Of("picture", step, <<pathVars, infoVars, vars, lifeVars>>)
OfLife(step) == Of("life", step, <<pathVars, infoVars, vars, pictureVars>>)

MCNext ==
    \/ OfWriter(Path!Next) \/ OfInfo(Info!Next) \/ OfPipeline(Next)
    \/ OfPicture(Picture!PresentationNext) \/ OfLife(Life!LifetimeNext)

\* The fairness of the five modules.
MCSpec ==
    /\ MCInit /\ [][MCNext]_allVars
    /\ WF_pathVars(In("writer", Path!WriterNext))
    /\ \A p \in Producers : WF_pathVars(In("writer", Path!TriggerOverflow(p)))
    /\ WF_pathVars(In("writer", Path!Join))
    /\ WF_infoVars(In("info", Info!WriterSteps))
    /\ WF_vars(In("pipeline", CaptureSteps))
    /\ WF_vars(In("pipeline", DecodeSteps))
    /\ WF_vars(In("pipeline", HandleSteps /\ hpc # "live"))
    /\ WF_pictureVars(In("picture", Picture!RenderSteps))
    /\ WF_pictureVars(In("picture", Picture!LoopSteps))
    /\ WF_lifeVars(In("life", Life!MainSteps))
    /\ WF_lifeVars(In("life", Life!DispatchSteps))
    /\ WF_lifeVars(In("life", Life!WriterEnds))

-----------------------------------------------------------------------------
\* A pipeline's handle is honest, its stop returns and its lost device comes
\* back: StatusHonest, StopCompletes and DeviceComesBack (CapturePipeline).

\* A shutdown ends, a cancellation is served and an outage ends (InputPath).
ShutdownCompletes == part = "writer" => Path!ShutdownCompletes
CancelServed == part = "writer" => Path!CancelServed
LinkRestored == part = "writer" => Path!LinkRestored

\* A request for device information gets an answer of its own (InfoRefresh).
RequestsAnswered == part = "info" => Info!RequestsAnswered

\* What is on the screen is what the event loop built last (Presentation).
ChromeShown == part = "picture" => Picture!ChromeShown

\* The viewer ends in order, and does end (ViewerLifetime).
OrderlyEnd == part = "life" => Life!OrderlyEnd
=============================================================================
