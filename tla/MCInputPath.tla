---------------------------- MODULE MCInputPath ----------------------------
(***************************************************************************)
(* Instances of InputPath for model checking.                              *)
(***************************************************************************)
EXTENDS InputPath

KeyEventsOf(keys) == [kind: {"key"}, key: keys, down: BOOLEAN]

ButtonEventsOf == [kind: {"button"}, mask: {{b} : b \in Buttons}, down: BOOLEAN]

PositionEvents == [kind: {"abs"}, position: Positions]

DeltaEvents(kinds) == [kind: kinds, delta: {1}]

\* Buttons and the absolute pointer.
PointerEvents == ButtonEventsOf \cup PositionEvents

KeyOnlyEvents == KeyEventsOf(Keys)

=============================================================================
