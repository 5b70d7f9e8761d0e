----------------------------- MODULE HeldState -----------------------------
(***************************************************************************)
(* The physical held set the input writer keeps (src/src/input/held.rs):   *)
(* which keys and mouse buttons are down, and which of the keys occupy one *)
(* of the report's slots.  Press order inside a report is abstracted away: *)
(* a keyboard report is the set of its keys and the set of its modifiers.  *)
(***************************************************************************)
EXTENDS Naturals, FiniteSets

CONSTANTS
    Usages,     \* non-modifier keys
    Modifiers,  \* modifier keys, each one bit of the report's first byte
    Buttons,    \* mouse buttons, each one bit of the button mask
    Slots       \* keys one report carries (6)

ASSUME KeyAssumption ==
    /\ Usages \cap Modifiers = {}
    /\ IsFiniteSet(Usages)

ASSUME SlotsAssumption == Slots \in Nat \ {0}

Keys == Usages \cup Modifiers

Held == [reported: SUBSET Usages, suppressed: SUBSET Usages,
         mods: SUBSET Modifiers, buttons: SUBSET Buttons]

NothingHeld == [reported |-> {}, suppressed |-> {}, mods |-> {}, buttons |-> {}]

KeyboardReports == [keys: SUBSET Usages, mods: SUBSET Modifiers]

KeyboardReleaseAll == [keys |-> {}, mods |-> {}]

\* Only Reported keys are projected into a report.
KeyboardReport(h) == [keys |-> h.reported, mods |-> h.mods]

Admitted(h, key) == key \in h.reported \cup h.suppressed

HasFreeSlot(h) == Cardinality(h.reported) < Slots

\* Mutation of Released: a suppressed key takes the slot that was freed.
ReleasedPromoting(h, key) ==
    [h EXCEPT !.reported = (@ \ {key}) \cup (h.suppressed \ {key}),
              !.suppressed = {}]

\* A release frees the key's slot and promotes nobody.
Released(h, key) == [h EXCEPT !.reported = @ \ {key}, !.suppressed = @ \ {key}]

\* A press keeps the status it is admitted with.
ApplyKey(h, key, down) ==
    CASE key \in Modifiers ->
           [h EXCEPT !.mods = IF down THEN @ \cup {key} ELSE @ \ {key}]
      [] key \notin Modifiers /\ ~down ->
           Released(h, key)
      [] OTHER ->
           IF Admitted(h, key) THEN h
           ELSE IF HasFreeSlot(h) THEN [h EXCEPT !.reported = @ \cup {key}]
           ELSE [h EXCEPT !.suppressed = @ \cup {key}]

\* The transition changes what a report shows: apply_key returned Some.
KeyReportDue(h, key, down) ==
    \/ key \in Modifiers /\ (key \in h.mods) # down
    \/ key \in Usages /\ down /\ ~Admitted(h, key) /\ HasFreeSlot(h)
    \/ key \in Usages /\ ~down /\ key \in h.reported

ApplyButtons(h, mask, down) ==
    [h EXCEPT !.buttons = IF down THEN @ \cup mask ELSE @ \ mask]

\* Mutation of ButtonReportDue: a release is not reported.
ButtonPressDue(h, mask, down) == down /\ ApplyButtons(h, mask, down) # h

\* apply_button returned Some: the mask changed something.
ButtonReportDue(h, mask, down) == ApplyButtons(h, mask, down) # h

=============================================================================
