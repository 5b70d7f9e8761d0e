---------------------------- MODULE KeyDelivery ----------------------------
(***************************************************************************)
(* The commands key, type and macro: the compilation of a script of        *)
(* keyboard reports (src/src/script) and its delivery (src/src/cli/keys.rs)*)
(* to a target whose CapsLock is seen once, by GET_INFO.                   *)
(***************************************************************************)
EXTENDS Naturals, Sequences, SequencesExt

CONSTANTS
    OnBoard,    \* the layout: the key and the Shift that type a character
    Letters,    \* the characters CapsLock affects
    Orders,     \* what the user may ask: key, type and macro with their arguments
    MaxLinkFaults   \* bound: faults of the link

\* us_key_for_char: no two characters are typed alike, and both cases of a
\* letter are on one key.
IsLayout(board, letters) ==
    /\ letters \subseteq DOMAIN board
    /\ \A c \in DOMAIN board :
          /\ board[c] \in [key: STRING \ {"none", "capslock"}, shift: BOOLEAN]
          /\ \A d \in DOMAIN board : board[c] = board[d] => c = d
          /\ c \in letters => \E d \in letters :
                board[d] = [key |-> board[c].key, shift |-> ~board[c].shift]

ASSUME LayoutAssumption == IsLayout(OnBoard, Letters)

\* The arguments: a text, the chords, the lines of a macro.
ASSUME OrdersAssumption ==
    \A order \in Orders :
        CASE order.command = "type" -> order.arg \in Seq(STRING)
          [] order.command = "key" -> order.arg \in Seq(Seq(STRING))
          [] OTHER -> /\ order.command = "macro"
                      /\ order.arg \in Seq([word: STRING, arg: Seq(STRING)])

VARIABLES
    delivery,   \* the command
    target      \* the computer at the other end

deliveryVars == <<delivery, target>>

-----------------------------------------------------------------------------
(* The names                                                               *)

Named == [plus |-> [key |-> "equal", shift |-> TRUE],
          capslock |-> [key |-> "capslock", shift |-> FALSE]]
Modifiers == {"ctrl", "shift"}

\* resolve_key: a single character is the layout's; a longer token is a name.
Resolvable == DOMAIN OnBoard \cup DOMAIN Named
Resolve(token) == IF token \in DOMAIN OnBoard THEN OnBoard[token] ELSE Named[token]

-----------------------------------------------------------------------------
(* Compilation                                                             *)

Released == [mods |-> {}, key |-> "none"]
Send(report) == [kind |-> "send", report |-> report]
Wait == [kind |-> "wait", report |-> Released]

Tap(key, mods) == << Send([mods |-> mods, key |-> key]), Send(Released) >>

ShiftIf(shift) == IF shift THEN {"shift"} ELSE {}

\* parse_chord_with: the last token may be a modifier, the others have to be.
ChordResolves(chord) ==
    /\ chord # <<>>
    /\ ToSet(Front(chord)) \subseteq Modifiers
    /\ Last(chord) \in Modifiers \cup Resolvable

PushChord(chord) ==
    LET held == ToSet(Front(chord))
        last == Last(chord)
    IN IF last \in Modifiers THEN Tap("none", held \cup {last})
       ELSE Tap(Resolve(last).key, held \cup ShiftIf(Resolve(last).shift))

\* Mutation of ShiftFor: compensation inverts Shift on every character.
ShiftForAll(c, shift, compensate) == compensate # shift

\* CapsLock affects the letters only.
ShiftFor(c, shift, compensate) ==
    IF compensate /\ c \in Letters THEN ~shift ELSE shift

TextResolves(text) == text # <<>> /\ ToSet(text) \subseteq DOMAIN OnBoard

TypeText(text, compensate) ==
    FlattenSeq([i \in 1..Len(text) |->
        Tap(OnBoard[text[i]].key,
            ShiftIf(ShiftFor(text[i], OnBoard[text[i]].shift, compensate)))])

\* A layout directive comes before the first step and before another one.
LayoutInPlace(lines, i) == \A j \in 1..(i - 1) : lines[j].word = "comment"

LineCompiles(lines, i) ==
    LET line == lines[i]
    IN CASE line.word = "key" -> ChordResolves(line.arg)
         [] line.word = "type" -> TextResolves(line.arg)
         [] line.word = "layout" -> LayoutInPlace(lines, i) /\ line.arg = <<"us">>
         [] OTHER -> line.word \in {"wait", "comment"}

LineSteps(line, compensate) ==
    CASE line.word = "key" -> PushChord(line.arg)
      [] line.word = "type" -> TypeText(line.arg, compensate)
      [] line.word = "wait" -> << Wait >>
      [] OTHER -> <<>>

MacroSteps(lines, compensate) ==
    FlattenSeq([i \in 1..Len(lines) |-> LineSteps(lines[i], compensate)])

\* Every input error is found before anything is opened.
Compiles(order) ==
    CASE order.command = "key" ->
            order.arg # <<>> /\ \A i \in 1..Len(order.arg) : ChordResolves(order.arg[i])
      [] order.command = "type" -> TextResolves(order.arg)
      [] OTHER ->
            /\ \A i \in 1..Len(order.arg) : LineCompiles(order.arg, i)
            /\ MacroSteps(order.arg, FALSE) # <<>>

Script(order, compensate) ==
    CASE order.command = "key" ->
            FlattenSeq([i \in 1..Len(order.arg) |-> PushChord(order.arg[i])])
      [] order.command = "type" -> TypeText(order.arg, compensate)
      [] OTHER -> MacroSteps(order.arg, compensate)

AffectedByCapsLock(order) == Script(order, TRUE) # Script(order, FALSE)

-----------------------------------------------------------------------------
(* The target                                                              *)

\* CapsLock inverts Shift on the keys of the letters.
Glyphs(report, caps) ==
    {c \in DOMAIN OnBoard :
        /\ OnBoard[c].key = report.key
        /\ OnBoard[c].shift = (("shift" \in report.mods) # (caps /\ c \in Letters))}

Types(report, caps) ==
    IF Glyphs(report, caps) # {} /\ "ctrl" \notin report.mods
    THEN << CHOOSE c \in Glyphs(report, caps) : TRUE >>
    ELSE <<>>

\* A report is the state of the whole keyboard.
Applied(t, report) ==
    [t EXCEPT !.held = report,
              !.text = @ \o Types(report, t.caps),
              !.caps = IF report.key = "capslock" THEN ~@ ELSE @]

-----------------------------------------------------------------------------
(* Delivery                                                                *)

Policies == {"Refuse", "Ignore", "Compensate"}

DeliveryInit ==
    /\ delivery \in [pc: {"compile"}, order: Orders, policy: Policies, dry: BOOLEAN,
                     script: {<<>>}, at: {1}, sent: {0}, faults: {0},
                     interrupted: {FALSE}, link: {"none"}, seenCaps: {FALSE},
                     ending: {"none"}, release: {"none"}]
    /\ delivery.order.command = "key" => delivery.policy = "Ignore"
    /\ target \in [connected: BOOLEAN, caps: BOOLEAN, held: {Released},
                   text: {<<>>}]

Exit(ending) == [delivery EXCEPT !.pc = "exited", !.ending = ending]

\* Nothing is opened, a dry run's node included, before the compile succeeds.
Compile ==
    /\ delivery.pc = "compile"
    /\ delivery' = IF ~Compiles(delivery.order) THEN Exit("refused")
                   ELSE IF delivery.dry THEN Exit("printed")
                   ELSE [delivery EXCEPT !.pc = "open"]
    /\ UNCHANGED target

\* A signal sets a flag from here on.
Signal ==
    /\ delivery.pc \in {"open", "info", "run", "unwind"}
    /\ ~delivery.interrupted
    /\ delivery' = [delivery EXCEPT !.interrupted = TRUE]
    /\ UNCHANGED target

\* The port opens and takes the preamble, or it does not.
OpenPort ==
    /\ delivery.pc = "open"
    /\ \/ delivery' = [delivery EXCEPT !.pc = "info", !.link = "up"]
       \/ delivery' = Exit("refused")
    /\ UNCHANGED target

\* choose_encoding
Refuses(order, policy, caps) ==
    caps /\ AffectedByCapsLock(order) /\ policy = "Refuse"
Compensates(order, policy, caps) ==
    caps /\ AffectedByCapsLock(order) /\ policy = "Compensate"

\* GET_INFO answers, or it does not; the gates come before the guard.
QueryLocks ==
    /\ delivery.pc = "info"
    /\ \/ delivery' = Exit("refused")
       \/ delivery' =
            IF ~target.connected \/ Refuses(delivery.order, delivery.policy, target.caps)
            THEN Exit("refused")
            ELSE [delivery EXCEPT !.pc = "run", !.seenCaps = target.caps,
                    !.script = Script(delivery.order,
                        Compensates(delivery.order, delivery.policy, target.caps))]
    /\ UNCHANGED target

\* Any way out of run drops the guard.
Unwind(d, ending) == [d EXCEPT !.pc = "unwind", !.ending = ending]

\* The loop's head, a wait or the pause between two reports sees the signal.
StopsHere == delivery.pc = "run" /\ delivery.interrupted /\ delivery.at <= Len(delivery.script)

RunInterrupted ==
    /\ StopsHere
    /\ delivery' = Unwind(delivery, "incomplete")
    /\ UNCHANGED target

Here == delivery.script[delivery.at]

RunWait ==
    /\ delivery.pc = "run" /\ ~StopsHere
    /\ delivery.at <= Len(delivery.script)
    /\ Here.kind = "wait"
    /\ delivery' = [delivery EXCEPT !.at = @ + 1]
    /\ UNCHANGED target

RunSend ==
    /\ delivery.pc = "run" /\ ~StopsHere
    /\ delivery.at <= Len(delivery.script)
    /\ Here.kind = "send"
    /\ delivery' = [delivery EXCEPT !.at = @ + 1, !.sent = @ + 1]
    /\ target' = Applied(target, Here.report)

\* transact failed: a rejection or a lost report, a report that was applied
\* and not acknowledged, or a link that goes down.
Faulty(d, ending) ==
    {[Unwind(d, ending) EXCEPT !.faults = @ + 1, !.link = state] : state \in {"up", "down"}}

RunSendFails ==
    /\ delivery.pc = "run" /\ ~StopsHere
    /\ delivery.at <= Len(delivery.script)
    /\ Here.kind = "send"
    /\ delivery.faults < MaxLinkFaults
    /\ delivery' \in Faulty(delivery, "incomplete")
    /\ target' \in {target, Applied(target, Here.report)}

RunEnds ==
    /\ delivery.pc = "run"
    /\ delivery.at > Len(delivery.script)
    /\ delivery' = Unwind(delivery, "delivered")
    /\ UNCHANGED target

\* Mutation of GuardDropped: the guard does not look at the answer.
DroppedBlindly(d, said) == [d EXCEPT !.pc = "exited", !.release = "sent"]

GuardDropped(d, said) == [d EXCEPT !.pc = "exited", !.release = said]

\* Released::drop: a release-all, and a note when it was not acknowledged.
ReleaseAll ==
    /\ delivery.pc = "unwind"
    /\ \/ /\ delivery.link = "up"
          /\ delivery' = GuardDropped(delivery, "sent")
          /\ target' = Applied(target, Released)
       \/ /\ delivery.faults < MaxLinkFaults \/ delivery.link = "down"
          /\ delivery' = GuardDropped(delivery, "UNSENT")
          /\ \/ UNCHANGED target
             \/ delivery.link = "up" /\ target' = Applied(target, Released)

DeliveryNext ==
    \/ Compile \/ Signal \/ OpenPort \/ QueryLocks
    \/ RunInterrupted \/ RunWait \/ RunSend \/ RunSendFails \/ RunEnds \/ ReleaseAll

DeliverySpec == DeliveryInit /\ [][DeliveryNext]_deliveryVars

-----------------------------------------------------------------------------
(* Properties                                                              *)

\* However the command ends - done, interrupted, rejected, or with a report
\* that may or may not have arrived - the target is left holding nothing, or
\* the user was told that the release-all was not sent (Released::drop).
ReleasedOrReported ==
    delivery.pc = "exited" => target.held = Released \/ delivery.release = "UNSENT"

Asked(order) ==
    CASE order.command = "type" -> order.arg
      [] order.command = "macro" ->
            FlattenSeq([i \in 1..Len(order.arg) |->
                IF order.arg[i].word = "type" THEN order.arg[i].arg ELSE <<>>])
      [] OTHER -> <<>>

KeysAsked(order) ==
    \/ order.command = "key"
    \/ order.command = "macro" /\ \E i \in 1..Len(order.arg) : order.arg[i].word = "key"

\* Text arrives as it was written or not at all.  Whatever CapsLock was when
\* GET_INFO answered, unless the user chose to ignore it, what the target has is
\* at every moment a beginning of the text, the whole of it when the command
\* says delivered, and nothing when it refused.  (Nobody presses CapsLock
\* meanwhile: a macro's own key lines are excepted for that.)
TypedAsWritten ==
    /\ ~KeysAsked(delivery.order) /\ ~(delivery.policy = "Ignore" /\ delivery.seenCaps) =>
          /\ IsPrefix(target.text, Asked(delivery.order))
          /\ delivery.ending = "delivered" => target.text = Asked(delivery.order)
    /\ delivery.ending \in {"refused", "printed"} => target.text = <<>>

=============================================================================
