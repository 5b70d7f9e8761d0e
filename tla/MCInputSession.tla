--------------------------- MODULE MCInputSession ---------------------------
(***************************************************************************)
(* InputPath over a source that reopens, and over one fixed link (Fixed).  *)
(* A behaviour of MCSpec runs one of the two, on the same variables, so    *)
(* that every property speaks of both.                                     *)
(***************************************************************************)
EXTENDS MCInputPath, TLC

CONSTANTS
    FixedKeys,       \* the keys pressed over the fixed link, the others being
                     \* pressed over the source that reopens
    FixedProducers, FixedEpoch, FixedFaults

VARIABLE part

\* Keys, buttons and relative motion.
ReopeningEvents ==
    KeyEventsOf(Keys \ FixedKeys) \cup ButtonEventsOf \cup DeltaEvents({"rel"})

\* Keys, buttons and the absolute pointer.
FixedEvents == KeyEventsOf(FixedKeys) \cup ButtonEventsOf \cup PositionEvents

Fixed == INSTANCE InputPath WITH
    Reconnect <- FALSE, Events <- FixedEvents, Producers <- FixedProducers,
    MaxEpoch <- FixedEpoch, MaxFaults <- FixedFaults

\* Keys and producers are told apart by nothing but their identity, and no
\* liveness is checked here.
Symmetry == Permutations(FixedKeys) \cup Permutations(Producers)

MCInit ==
    \/ part = "reopening" /\ Init
    \/ part = "fixed" /\ Fixed!Init

MCNext ==
    /\ \/ part = "reopening" /\ Next
       \/ part = "fixed" /\ Fixed!Next
    /\ UNCHANGED part

MCSpec == MCInit /\ [][MCNext]_<<part, vars>>
=============================================================================
