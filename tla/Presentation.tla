---------------------------- MODULE Presentation ----------------------------
(***************************************************************************)
(* What reaches the screen: the event loop builds the chrome and posts     *)
(* sizes (src/src/viewer/app.rs), the render thread coalesces what it is   *)
(* sent and presents it (viewer/render.rs, viewer/chrome/frame.rs), and    *)
(* the compositor hides and shows the surface, holding back a present      *)
(* meanwhile.                                                              *)
(*                                                                         *)
(* Every chrome frame carries one update of the font atlas, and draws with *)
(* those of all the frames before it.                                      *)
(***************************************************************************)
EXTENDS Integers, Sequences, SequencesExt

CONSTANTS
    None,
    Sizes,      \* sizes the window takes
    MaxBuilds,  \* bound: chrome frames built
    MaxFrames,  \* bound: video frames decoded
    MaxSkips    \* bound: surface frames that could not be acquired

VARIABLES
    window,   \* the surface: its size, and whether the compositor shows it
    loop,     \* the event loop: chrome_dirty, and the last chrome built
    shared,   \* RenderShared: resize, occluded, stop, fatal
    chromes,  \* the chrome channel
    video,    \* the output slot, and the frames decoded
    render,   \* Passes, the surface's size, the atlas, and where the pass is
    screen    \* what was presented last

presentationVars == <<window, loop, shared, chromes, video, render, screen>>

PresentationInit ==
    /\ window \in [size: Sizes, visible: {TRUE}]
    /\ loop = [dirty |-> TRUE, built |-> 0]
    /\ shared = [resize |-> None, occluded |-> FALSE, stop |-> FALSE, fatal |-> FALSE]
    /\ chromes = <<>>
    /\ video = [waiting |-> FALSE, decoded |-> 0]
    /\ render = [at |-> "head", pending |-> TRUE, chrome |-> None,
                 surface |-> window.size, atlas |-> {}, skips |-> 0]
    /\ screen = [shows |-> 0, lacks |-> {}]

-----------------------------------------------------------------------------
(* The event loop, which has ended when it stops the render thread         *)

\* Resized: the size is posted first, the chrome rebuilt for it later.
Resized ==
    /\ ~shared.stop
    /\ loop.built < MaxBuilds
    /\ \E size \in Sizes \ {window.size} :
          /\ window' = [window EXCEPT !.size = size]
          /\ shared' = [shared EXCEPT !.resize = size]
    /\ loop' = [loop EXCEPT !.dirty = TRUE]
    /\ UNCHANGED <<chromes, video, render, screen>>

\* Input, a tick, or egui's own repaint deadline.
Stir ==
    /\ ~shared.stop
    /\ loop.built < MaxBuilds
    /\ ~loop.dirty
    /\ loop' = [loop EXCEPT !.dirty = TRUE]
    /\ UNCHANGED <<window, shared, chromes, video, render, screen>>

\* build_chrome: a frame laid out for the window as it is now, with or without
\* anything to draw.  A send to a thread that has gone is no error.
BuildChrome ==
    /\ ~shared.stop
    /\ loop.dirty
    /\ loop' = [dirty |-> FALSE, built |-> loop.built + 1]
    /\ \E empty \in BOOLEAN :
          chromes' = IF render.at = "gone" THEN chromes
                     ELSE Append(chromes, [id |-> loop.built + 1, size |-> window.size,
                                           empty |-> empty, textures |-> {loop.built + 1}])
    /\ UNCHANGED <<window, shared, video, render, screen>>

\* The compositor hides or shows the surface...
Visibility ==
    /\ window' = [window EXCEPT !.visible = ~@]
    /\ UNCHANGED <<loop, shared, chromes, video, render, screen>>

\* ...and the event loop hears of it.
Occluded ==
    /\ ~shared.stop
    /\ shared.occluded = window.visible
    /\ shared' = [shared EXCEPT !.occluded = ~window.visible]
    /\ UNCHANGED <<window, loop, chromes, video, render, screen>>

\* teardown, at the end of the event loop.
StopRender ==
    /\ ~shared.stop
    /\ shared' = [shared EXCEPT !.stop = TRUE]
    /\ UNCHANGED <<window, loop, chromes, video, render, screen>>

\* The pipeline's output slot is filled, over an older frame if need be.
Decoded ==
    /\ video.decoded < MaxFrames
    /\ video' = [waiting |-> TRUE, decoded |-> video.decoded + 1]
    /\ UNCHANGED <<window, loop, shared, chromes, render, screen>>

-----------------------------------------------------------------------------
(* The render thread: one pass, between two looks at the stop flag         *)

\* wait_take has a timeout; a frame taken is uploaded and asks for a draw.
TakeFrame ==
    /\ render.at = "head"
    /\ IF shared.stop
       THEN render' = [render EXCEPT !.at = "gone"] /\ UNCHANGED video
       ELSE /\ render' = [render EXCEPT !.at = "drain", !.pending = @ \/ video.waiting]
            /\ video' = [video EXCEPT !.waiting = FALSE]
    /\ UNCHANGED <<window, loop, shared, chromes, screen>>

\* absorb: deltas accumulate, pictures replace.
Absorbed(chrome, newer) == [newer EXCEPT !.textures = chrome.textures \cup @]

\* drain, and the fold of what it found into the frame retained.
DrainChrome ==
    /\ render.at = "drain"
    /\ render' =
         IF chromes = <<>> THEN [render EXCEPT !.at = "resize"]
         ELSE LET first == IF render.chrome = None THEN Head(chromes)
                           ELSE Absorbed(render.chrome, Head(chromes))
              IN [render EXCEPT !.at = "resize", !.pending = TRUE,
                                !.chrome = FoldLeft(Absorbed, first, Tail(chromes))]
    /\ chromes' = <<>>
    /\ UNCHANGED <<window, loop, shared, video, screen>>

\* The size posted last is taken; nothing is drawn while hidden or unasked.
Reconfigure ==
    /\ render.at = "resize"
    /\ render' = [render EXCEPT !.at = "gate",
                    !.surface = IF shared.resize = None THEN @ ELSE shared.resize,
                    !.pending = @ \/ shared.resize # None]
    /\ shared' = [shared EXCEPT !.resize = None]
    /\ UNCHANGED <<window, loop, chromes, video, screen>>

Gate ==
    /\ render.at = "gate"
    /\ render' = [render EXCEPT !.at =
                    IF shared.occluded \/ ~render.pending THEN "head" ELSE "draw"]
    /\ UNCHANGED <<window, loop, shared, chromes, video, screen>>

\* Mutation of AfterSkip: a frame that was skipped counts as drawn.
SkipForgets(r) == [r EXCEPT !.at = "head", !.pending = FALSE, !.skips = @ + 1]

\* Timeout, Outdated and Lost leave the draw pending.
AfterSkip(r) == [r EXCEPT !.at = "head", !.skips = @ + 1]

Skipped ==
    /\ render.at = "draw"
    /\ render.skips < MaxSkips
    /\ render' = AfterSkip(render)
    /\ UNCHANGED <<window, loop, shared, chromes, video, screen>>

\* Out of memory, another acquire error or a panic ends the thread, which says so.
DrawFatal ==
    /\ render.at = "draw"
    /\ render' = [render EXCEPT !.at = "gone"]
    /\ shared' = [shared EXCEPT !.fatal = TRUE]
    /\ UNCHANGED <<window, loop, chromes, video, screen>>

Fits == render.chrome # None /\ render.chrome.size = render.surface
Painted == Fits /\ ~render.chrome.empty

\* The frame's updates are applied by the draw that paints it, and only then.
Draw ==
    /\ render.at = "draw"
    /\ render' = IF Painted
                 THEN [render EXCEPT !.at = "present", !.chrome.textures = {},
                                     !.atlas = @ \cup render.chrome.textures]
                 ELSE [render EXCEPT !.at = "present"]
    /\ UNCHANGED <<window, loop, shared, chromes, video, screen>>

\* present may block for as long as the compositor hides the surface.
Present ==
    /\ render.at = "present"
    /\ window.visible
    /\ render' = [render EXCEPT !.at = "head", !.pending = FALSE]
    /\ screen' = [shows |-> IF Fits THEN render.chrome.id ELSE 0,
                  lacks |-> IF Painted THEN (1..render.chrome.id) \ render.atlas ELSE {}]
    /\ UNCHANGED <<window, loop, shared, chromes, video>>

-----------------------------------------------------------------------------
RenderSteps ==
    TakeFrame \/ DrainChrome \/ Reconfigure \/ Gate \/ Skipped \/ DrawFatal \/ Draw \/ Present
LoopSteps == BuildChrome \/ Occluded

PresentationNext ==
    RenderSteps \/ LoopSteps \/ Resized \/ Stir \/ Visibility \/ StopRender \/ Decoded

-----------------------------------------------------------------------------
(* Properties                                                              *)

Shown ==
    ~loop.dirty /\ screen.shows = loop.built /\ screen.lacks = {}

\* While the compositor shows the window, what the event loop built last gets
\* on the screen, at the window's size and with every atlas update it draws
\* with - whatever was posted while the surface was hidden, mid-resize or could
\* not be acquired, and without a video frame to prompt a draw - unless the
\* thread ended, which is told.
ChromeShown ==
    <>[]window.visible => []<>(Shown \/ shared.stop \/ shared.fatal)
=============================================================================
