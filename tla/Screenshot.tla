------------------------------ MODULE Screenshot ------------------------------
(***************************************************************************)
(* nanokvm shot (src/src/cli/shot.rs): the request is checked before the   *)
(* device is opened, frames are judged until one is kept or the attempt    *)
(* ends, the device is released, and what was kept is written through a    *)
(* temporary file.                                                         *)
(*                                                                         *)
(* A frame is what the policy tells apart: good, at another size than the  *)
(* negotiated one, or one of the kinds that are never kept.                *)
(***************************************************************************)
EXTENDS Integers

CONSTANTS
    Skip, RestartAfter, GiveUpAfter,
    MaxCalls        \* bound: calls of next_frame

VARIABLES
    order,   \* the request: format, any_size; whether the source knows its size
    shot,    \* where the attempt is, pick_frame's counters, and what came of it
    node,    \* the video device: open or not, and what its calls returned
    clock,   \* the deadline passed; a signal arrived
    file     \* the file asked for, and the temporary beside it

screenshotVars == <<order, shot, node, clock, file>>

Unkept == {"truncated", "unreadable", "oversized"}
Pictures == {"good", "other size"} \cup Unkept
PassingErrors == {"BadFrame", "Io", "Starved"}
FinalErrors == {"Disconnected", "Config"}

ScreenshotInit ==
    /\ order \in [format: {"jpeg", "png", "stdout"}, anySize: BOOLEAN, known: BOOLEAN]
    /\ shot = [at |-> "start", skipped |-> 0, discarded |-> 0, mismatched |-> 0,
               consecutive |-> 0, restarted |-> FALSE, kept |-> "none", error |-> "none"]
    /\ node = [open |-> FALSE, frames |-> 0, refusals |-> 0, calls |-> 0,
               last |-> "none", restarts |-> 0]
    /\ clock = [late |-> FALSE, interrupted |-> FALSE]
    /\ file = [target |-> "old", temporary |-> "absent"]

Failed(s, error) == [s EXCEPT !.at = "failed", !.error = error]

-----------------------------------------------------------------------------
(* run, up to the device                                                   *)

\* parse and wait_limit refuse a path or a timeout; the device may not open.
OpenNode ==
    /\ shot.at = "start"
    /\ \/ shot' = Failed(shot, "Request") /\ UNCHANGED node
       \/ shot' = Failed(shot, "Open") /\ UNCHANGED node
       \/ shot' = [shot EXCEPT !.at = "head"] /\ node' = [node EXCEPT !.open = TRUE]
    /\ UNCHANGED <<order, clock, file>>

\* Signals and the deadline come at any time.
Interrupt ==
    /\ ~clock.interrupted
    /\ clock' = [clock EXCEPT !.interrupted = TRUE]
    /\ UNCHANGED <<order, shot, node, file>>

DeadlinePasses ==
    /\ ~clock.late
    /\ clock' = [clock EXCEPT !.late = TRUE]
    /\ UNCHANGED <<order, shot, node, file>>

-----------------------------------------------------------------------------
(* pick_frame                                                              *)

Dropped(s) == [s EXCEPT !.at = "deadline", !.skipped = @ + 1]
Ended(s, error) == [s EXCEPT !.at = "picked", !.error = error]

\* consecutive is not reset by a frame that is dropped between two mismatches.
Mismatch(s) ==
    LET counted == [s EXCEPT !.mismatched = @ + 1, !.consecutive = @ + 1]
    IN IF counted.mismatched >= GiveUpAfter THEN Ended(counted, "WrongSize")
       ELSE IF ~s.restarted /\ counted.consecutive >= RestartAfter
            THEN [counted EXCEPT !.at = "restart", !.restarted = TRUE, !.consecutive = 0]
            ELSE [counted EXCEPT !.at = "deadline"]

Judged(s, frame) ==
    IF s.skipped < Skip \/ frame \in Unkept THEN Dropped(s)
    ELSE IF frame = "other size" /\ order.known /\ ~order.anySize THEN Mismatch(s)
    ELSE [s EXCEPT !.at = "picked", !.kept = frame]

\* Mutation of Refused: a frame the source refused is one of the skipped.
RefusedAsSkipped(s, error) ==
    [s EXCEPT !.at = "deadline", !.skipped = IF error = "BadFrame" THEN @ + 1 ELSE @]

Refused(s, error) ==
    [s EXCEPT !.at = "deadline", !.discarded = IF error = "BadFrame" THEN @ + 1 ELSE @]

PickNext ==
    /\ shot.at = "head"
    /\ ~clock.interrupted
    /\ node.calls < MaxCalls
    /\ \E answer \in Pictures \cup PassingErrors \cup FinalErrors :
          /\ node' = [node EXCEPT !.calls = @ + 1, !.last = answer,
                         !.frames = IF answer \in Pictures THEN @ + 1 ELSE @,
                         !.refusals = IF answer = "BadFrame" THEN @ + 1 ELSE @]
          /\ shot' = CASE answer \in Pictures -> Judged(shot, answer)
                       [] answer \in PassingErrors -> Refused(shot, answer)
                       [] answer \in FinalErrors -> Ended(shot, answer)
    /\ UNCHANGED <<order, clock, file>>

\* A restart that fails without losing the device changes nothing else.
Restart ==
    /\ shot.at = "restart"
    /\ \/ shot' = [shot EXCEPT !.at = "deadline"]
       \/ shot' = Ended(shot, "Disconnected")
    /\ node' = [node EXCEPT !.restarts = @ + 1]
    /\ UNCHANGED <<order, clock, file>>

\* The deadline is looked at after the frame in hand was judged.
CheckDeadline ==
    /\ shot.at = "deadline"
    /\ shot' = IF clock.late THEN Ended(shot, "Timeout") ELSE [shot EXCEPT !.at = "head"]
    /\ UNCHANGED <<order, node, clock, file>>

SeeInterrupt ==
    /\ shot.at = "head"
    /\ clock.interrupted
    /\ shot' = Ended(shot, "Interrupted")
    /\ UNCHANGED <<order, node, clock, file>>

-----------------------------------------------------------------------------
(* run, past the device: write_atomically                                  *)

ReleaseNode ==
    /\ shot.at = "picked"
    /\ node' = [node EXCEPT !.open = FALSE]
    /\ shot' = [shot EXCEPT !.at = IF shot.error # "none" THEN "failed"
                                   ELSE [jpeg |-> "create", png |-> "encode",
                                         stdout |-> "print"][order.format]]
    /\ UNCHANGED <<order, clock, file>>

\* A PNG is made before any file is touched, and stdout has no file at all.
Convert ==
    /\ shot.at \in {"encode", "print"}
    /\ \/ shot' = Failed(shot, "Write")
       \/ shot' = [shot EXCEPT !.at = IF @ = "encode" THEN "create" ELSE "written"]
    /\ UNCHANGED <<order, node, clock, file>>

\* Each of the four calls may fail; dropping Temporary then unlinks the file.
SaveFails ==
    /\ shot.at \in {"create", "fill", "sync", "rename"}
    /\ shot' = Failed(shot, "Write")
    /\ file' = [file EXCEPT !.temporary = "absent"]
    /\ UNCHANGED <<order, node, clock>>

WriteStep(from, to, after) ==
    /\ shot.at = from
    /\ shot' = [shot EXCEPT !.at = to]
    /\ file' = after
    /\ UNCHANGED <<order, node, clock>>

Create == WriteStep("create", "fill", [file EXCEPT !.temporary = "partial"])
FillTemporary == WriteStep("fill", "sync", [file EXCEPT !.temporary = "unsynced"])
Sync == WriteStep("sync", "rename", [file EXCEPT !.temporary = "whole"])
Rename == WriteStep("rename", "written", [target |-> file.temporary, temporary |-> "absent"])

ScreenshotNext ==
    \/ OpenNode \/ Interrupt \/ DeadlinePasses
    \/ PickNext \/ Restart \/ CheckDeadline \/ SeeInterrupt
    \/ ReleaseNode \/ Convert \/ SaveFails \/ Create \/ FillTemporary \/ Sync \/ Rename

ScreenshotSpec == ScreenshotInit /\ [][ScreenshotNext]_screenshotVars

-----------------------------------------------------------------------------
(* Properties                                                              *)

Ends == {"written", "failed"}

\* A shot is a frame the device sent after the ones it was told to skip, whole
\* and at the size asked for unless any size would do; the counters its line
\* reports account for every other frame and every refusal; the stream was
\* restarted at most once; the device is let go before anything is written;
\* and whoever looks finds the old file or the whole new one, with no temporary
\* left behind, a new one exactly when the command succeeds.
ShotHonest ==
    /\ shot.kept # "none" =>
          /\ node.last = shot.kept
          /\ node.frames > Skip
          /\ shot.kept = "good" \/ order.anySize \/ ~order.known
    /\ node.frames =
          shot.skipped + shot.mismatched + (IF shot.kept = "none" THEN 0 ELSE 1)
    /\ shot.discarded = node.refusals
    /\ node.restarts <= 1
    /\ file.temporary # "absent" \/ shot.at \in Ends => ~node.open
    /\ file.target \in {"old", "whole"}
    /\ shot.at \in Ends =>
          /\ file.temporary = "absent"
          /\ file.target = "whole" <=> (shot.at = "written" /\ order.format # "stdout")
=============================================================================
