--------------------------- MODULE ReleaseBarrier ---------------------------
(***************************************************************************)
(* What the input path promises its users, with no queue, link or writer:  *)
(* a release that is asked for closes the session, the session opens again *)
(* only once every release asked for is acknowledged, and between the      *)
(* acknowledgement and the next opening nothing is delivered.              *)
(***************************************************************************)
EXTENDS Naturals

VARIABLES
    asked,      \* releases asked for
    done,       \* the last release acknowledged
    open,       \* input is admitted
    closed,     \* for good
    delivered   \* what the target was last told, per device

vars == <<asked, done, open, closed, delivered>>

Pending == done < asked

\* Ask for a release; the last one closes the barrier for good.
Ask ==
    /\ asked' = asked + 1
    /\ open' = FALSE
    /\ closed' \in {closed, TRUE}
    /\ UNCHANGED <<done, delivered>>

\* Acknowledge some of the releases asked for, the latest ones or not.
Finish ==
    /\ Pending
    /\ done' \in done + 1 .. asked
    /\ UNCHANGED <<asked, open, closed, delivered>>

Open ==
    /\ ~Pending /\ ~closed
    /\ open' = TRUE
    /\ UNCHANGED <<asked, done, closed, delivered>>

\* Something reaches the target: input while open, the rest of an input or
\* the release itself while one is pending.
Deliver ==
    /\ open \/ Pending
    /\ delivered' # delivered
    /\ UNCHANGED <<asked, done, open, closed>>

Next == Ask \/ Finish \/ Open \/ Deliver

Init ==
    /\ asked = 0 /\ done = 0
    /\ open = TRUE /\ closed = FALSE

Spec == Init /\ [][Next]_vars

=============================================================================
