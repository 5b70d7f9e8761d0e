------------------------------ MODULE MCSafety ------------------------------
(***************************************************************************)
(* What must never happen, in eight parts that share no state in the       *)
(* program: the matching of replies (SerialLink), the parser their bytes   *)
(* come through (FrameParser), the keyboard commands (KeyDelivery), the    *)
(* selection of the nodes (Discovery), the shot (Screenshot), the capture  *)
(* pipeline (CapturePipeline), the V4L2 source below it (CaptureStream)    *)
(* and the sound (AudioPath).  One behaviour runs one part; the others     *)
(* keep an initial state.                                                  *)
(***************************************************************************)
EXTENDS SerialLink, FrameParser, Screenshot, KeyDelivery, Discovery,
        CapturePipeline, CaptureStream, AudioPath

VARIABLE part

commandVars == <<deliveryVars, discoveryVars, screenshotVars>>
captureVars == <<vars, streamVars, audioVars>>

-----------------------------------------------------------------------------
\* A letter, and a digit with its shifted sign.  A key is named for what it
\* types without Shift.
SmallLetters == {"a", "A"}
SmallBoard == [a |-> [key |-> "a", shift |-> FALSE], A |-> [key |-> "a", shift |-> TRUE],
               one |-> [key |-> "one", shift |-> FALSE],
               bang |-> [key |-> "one", shift |-> TRUE]]

Line(word, arg) == [word |-> word, arg |-> arg]

Texts == {<<>>, <<"a">>, <<"A", "one">>, <<"bang", "a">>, <<"a", "accent">>}
Chords == {<<"ctrl", "a">>, <<"A">>, <<"capslock">>, <<"shift">>, <<"a", "ctrl">>, <<"plus">>}
Lines == {Line("type", <<"A", "one">>), Line("type", <<"accent">>),
          Line("key", <<"ctrl", "a">>), Line("wait", <<>>), Line("layout", <<"us">>),
          Line("layout", <<"fr">>), Line("comment", <<>>), Line("tpye", <<>>)}

SmallOrders ==
    [command: {"type"}, arg: Texts]
    \cup [command: {"key"}, arg: SeqOf(Chords, 2)]
    \cup [command: {"macro"}, arg: SeqOf(Lines, 2)]

-----------------------------------------------------------------------------
\* Two dongles behind one hub of the type they have inside, and a webcam and a
\* modem beside them.  The first dongle is on the high-speed bus only; the video
\* half of the second one is on the other side of the hub's peer port.
SmallVideo == [one |-> <<1, 5, 1, 1>>, two |-> <<2, 5, 2>>, foreign |-> <<1, 5, 3>>]
SmallSerial == [one |-> <<1, 5, 1, 2>>, two |-> <<1, 5, 2, 2>>, foreign |-> <<1, 5, 4>>]
SmallPeer == (<<2, 5, 2>> :> <<1, 5, 2>>)
SmallHubs == {<<1, 5>>, <<1, 5, 1>>, <<1, 5, 2>>}

\* The numbers of the foreign devices could not be read.
SmallDevnum ==
    [usb \in Range(SmallVideo) \cup Range(SmallSerial) |->
        IF usb \in {SmallVideo.foreign, SmallSerial.foreign} THEN 0
        ELSE usb[Len(usb) - 1] * 10 + Last(usb)]

-----------------------------------------------------------------------------
NoStream == stream = [i \in 1..StreamLength |-> 0] /\ parser = AfterBoundary(0)
NoDelivery ==
    /\ DeliveryInit
    /\ delivery.order = [command |-> "type", arg |-> <<>>] /\ delivery.policy = "Ignore"
    /\ ~delivery.dry /\ ~target.connected /\ ~target.caps
NoShot == ScreenshotInit /\ order = [format |-> "jpeg", anySize |-> FALSE, known |-> TRUE]

MCInit ==
    /\ LinkInit /\ DiscoveryInit /\ Init /\ StreamInit /\ AudioInit
    /\ \/ part \in {"link", "nodes", "device", "sound"} /\ NoStream /\ NoDelivery /\ NoShot
       \/ part = "parser" /\ NoDelivery /\ NoShot /\ ParserInit
       \/ part = "keys" /\ NoStream /\ NoShot /\ DeliveryInit
       \/ part = "shot" /\ NoStream /\ NoDelivery /\ ScreenshotInit
       \/ part = "pipeline" /\ NoStream /\ NoDelivery /\ NoShot
    /\ part # "pipeline" => recover

\* A step of one part is taken where that part runs and leaves the others.
Of(name, step, others) == part = name /\ step /\ UNCHANGED <<part, others>>
OfCommand(name, step, others) ==
    Of(name, step, <<linkVars, parserVars, captureVars, others>>)
OfCapture(name, step, others) ==
    Of(name, step, <<linkVars, parserVars, commandVars, others>>)

MCNext ==
    \/ Of("link", LinkNext, <<parserVars, commandVars, captureVars>>)
    \/ Of("parser", ParserNext, <<linkVars, commandVars, captureVars>>)
    \/ OfCommand("keys", DeliveryNext, <<discoveryVars, screenshotVars>>)
    \/ OfCommand("nodes", DiscoveryNext, <<deliveryVars, screenshotVars>>)
    \/ OfCommand("shot", ScreenshotNext, <<deliveryVars, discoveryVars>>)
    \/ OfCapture("pipeline", Next, <<streamVars, audioVars>>)
    \/ OfCapture("device", StreamNext, <<vars, audioVars>>)
    \/ OfCapture("sound", AudioNext, <<vars, streamVars>>)

MCSpec ==
    MCInit /\ [][MCNext]_<<part, linkVars, parserVars, commandVars, captureVars>>
=============================================================================
