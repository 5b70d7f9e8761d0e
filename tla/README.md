# Verification of NanoKVM-USB-rs

TLA+ models of the client's concurrent core, checked with TLC on small
instances, and theorems about them proved with TLAPS for every instance.
Paths below are relative to the repository; `input/writer.rs` stands for
`src/input/writer.rs`.

The program drives a USB KVM dongle: it sends keyboard and mouse reports to a
CH9329 bridge over a serial port, shows MJPEG video from a V4L2 node and plays
its audio. The three paths share no state; the viewer is a producer of the
first, a reader of the second and shows the conditions of the third. What can
go wrong inside each is a matter of threads, of a device that disappears in the
middle of a step, and of a target machine on which a forgotten key stays
pressed.

## Inventory

| Component | State | Operations | Talks to | What makes it correct |
|---|---|---|---|---|
| Held set (`input/held.rs`, `proto/report.rs`) | keys with a reported/suppressed status, modifiers, buttons | apply a key or button, project a report, clear | the writer | six slots, first come first kept; a suppressed key never appears later |
| Input queue (`input/queue.rs`) | entries with their epoch, barrier count, reason slot | push motion or transition, pop, drain up to an epoch, note a reason | producers and writer, under one mutex | bounded; order kept; coalescing never crosses a barrier or an epoch |
| Input path (`input/mod.rs`, `shared.rs`, `writer.rs`) | epochs requested and acknowledged, cancellation and shutdown flags, link health, the writer's entry, mode and held set | submit, request release, engage, shutdown; deliver, release all, reconnect, commission | viewer (producers), serial link, helper thread for opens | nothing stays pressed, nothing is replayed, every release is acknowledged, recapture is deliberate |
| Serial transactions (`serial/link.rs`, `reader.rs`) | request in flight, matched reply, late-reply slot, quiet window, link-down reason | transact, settle, route, reader loop, shutdown | writer or CLI on one side, reader thread and bridge on the other | an acknowledgement belongs to the request that gets it; one lost reply costs one more timeout |
| Frame codec (`proto/frame.rs`) | byte buffer, accounting of discarded bytes | push, next event, expire, reset | reader thread | finds every frame behind any garbage, however the reads cut it; reports each byte once |
| Capture pipeline (`capture/pipeline.rs`, `handoff.rs`) | source, watchdog budgets, counters, two one-slot handoffs, stop flag | open, reconnect, step, restart, watch the format, decode, request a format, stop | V4L2 source, helper thread, renderer, viewer | video survives every outage, frames go forward, restarts are bounded, stop returns |
| V4L2 source (`capture/v4l2.rs`) | stream, broken flag, the index the crate queues next | open and prime, poll, dequeue, rebuild, restart | pipeline, driver | never dequeues where the driver cannot answer |
| Audio path (`audio/mod.rs`, `ring.rs`) | period ring, drift streaks, published counters, opening marks, conditions, stop | push, pop, prefill, publish, open and reopen, back off, supervise, close | ALSA, viewer title | no period lost or made up, honest conditions, stop ends the workers |
| Discovery (`discovery/`) | selector, the nodes there are | enumerate, pair, probe, resolve at each reopen, find the card | link, capture and audio openers | what is opened belongs to one dongle, or nothing is |
| Viewer session, paste, routing (`viewer/state.rs`, `viewer/chrome/paste.rs`, `route.rs`, `app.rs`) | capture state, consumed edges, outstanding presses, paste job, clipboard reader | reduce a trigger, perform its actions, route a key or pointer event, prepare and type a paste, menu shortcuts | input path, compositor | a release reaches whoever got the press; the host gets its keys and pointer back |
| Presentation (`viewer/render.rs`, `chrome/frame.rs`, `app.rs`) | chrome channel, posted size, occlusion, atlas, pass of the render thread | build, post, coalesce, draw, present | event loop, pipeline output, compositor | what was built last is shown, with every atlas update |
| Viewer lifetime (`main.rs`, `viewer/app.rs`, `wayland.rs`) | parts running, display, inhibitor and its dispatch thread, exit flags | start, run, interrupt, close, exit, tear down | all of the above | orderly end, nobody on a closed display |
| Commands (`cli/keys.rs`, `script/`) | compiled steps, lock state, release guard | compile, query, compensate, send, interrupt, release | serial link | text arrives as written or not at all; nothing is left held in silence |
| Shot (`cli/shot.rs`) | pick counters, kept frame, output file | validate, pick, restart, encode, write through a temporary | V4L2 source, file system | the right frame, whole file or old file |

How the input path's parts interact: producers and the writer share one mutex
(queue, reason slot, flags written under it). A cancellation bumps an epoch,
arms a flag and disengages; the writer latches the epoch, drains, releases,
records and acknowledges. `engage` is refused until the acknowledgement. The
writer owns the link; when it fails the writer raises its own cancellation,
then reopens through a source on a helper thread and commissions the
replacement, which is again a release sequence. The viewer's event loop is a
producer: it reduces a trigger to actions and performs them in one callback.

Hard behaviour, in the order of its importance here: cancellations crossing a
release that is running; a link that fails between two reports of a release;
shutdown in every one of those states; opens that never return; replies
without sequence numbers; a press and its release that go to different owners
because a panel, a paste or a lost focus came between; a device that comes back
in the wrong format; handoffs that drop and recycle frames; conditions reported
about work that has already finished; a teardown while another thread is inside
a call of the display. `PROJECT.json` lists each hazard at its line.

## Modules

A module models one component; its variables are listed with the code they
stand for in its `VARIABLES`. `MC` modules instantiate or host them for TLC.
`MCSafety`, `MCThreads` and `MCViewer` host several components that share no
state, and `MCInputSession` two instances of one: an initial choice of `part`
runs one of them, and the others keep their initial state, so that the run's
states are the sum and not the product of the parts.

### Input

- `HeldState` — `input/held.rs`. Pure operators on the held set. A report is
  the set of its keys: the order of the slots is abstracted.
- `InputQueue` — `input/queue.rs` and the reason slot. Pure operators; the two
  relative axes, which are added and clamped alike, are one.
- `InputPath` — producers, handle, writer, link and helper thread. One action
  per critical section of the queue mutex; the writer's own steps are cut at
  each report handed to the link, each locked section and each re-read of the
  cancellation flag. `pc` names where the writer is: `loop`/`exit`/`idle`/
  `waiting` its main loop, `write` an entry in progress, `failed` between
  noticing a dead link and raising the cancellation, `kb`/`abs`/`rel` the
  reports of a release, `record`/`markup`/`ack` its bookkeeping, `backoff`/
  `attempt`/`opening`/`begin`/`resync`/`info` reconnecting and commissioning.
  `link` is the health of the transport, `opening` the state of the helper.
  `wire` (the report last handed over per HID device) and `late` (reports
  handed over since the cancellation was armed) are history variables.
- `ReleaseBarrier` — the abstract promise: a release closes the session, it
  opens again only when every release is acknowledged, and between the two
  nothing is delivered. `InputPath` refines it (`ImplementsBarrier`) with
  `requested`, `acked`, `engaged`, `shuttingDown` and `wire`.
- `MCInputPath` — the event sets of the instances. `MCInputSession` runs two of
  them on the same variables, a source that reopens and a fixed link (`Fixed`),
  so that each property speaks of both.
- `InfoRefresh` — the device information a paste waits for: the request flag
  and the generation of `shared.rs`, the writer that serves it between its waits,
  refreshes and reconnects, and the paste that compiles under the reading it
  then finds. The writer's check and its sleep are two steps, as the request and
  its notification are: the first pair holds the queue's lock, the second takes
  another. What `InputPath` models of the writer is left out; cancellations only
  delay a refresh. The session appears as captured, released, or `cut` between
  its end in the path and the tick that sees it. The states
  CapsLock has been in since a paste asked, and the debt of a refresh (`owed`),
  are history variables.

A report that times out, or that the device rejects, counts as handed over, as
it does in `write_frame`: the bridge may have acted on it. The helper's open
chooses success, failure or the helper's death, or never returns. The branch
of `next_entry` that discards a stale entry is modelled and, as `NoReplay`
shows, never taken.

### Serial and commands

- `SerialLink` — `SerialLink::transact` on the caller's thread, the reader
  thread's `route`, and the bridge as the sequence of frames it still owes.
  Time is abstract: a deadline may pass whenever the waiter waits; the quiet
  window may end at any moment. The bridge answers in order and once; replies
  may be lost, held past their deadline, or preceded by pushed lock states.
  `overlapped` is a history variable: a reply was lost or late while an
  earlier such fault was still unsettled. An error reply is a reply; the
  failed write's `mark_down` and the clearing of the request are one step.
- `FrameParser` — `Parser` of `proto/frame.rs` over a stream cut into reads in
  any way, with expiry of a partial frame and reset between any two. The
  buffer is an interval of positions in the stream (`head`, `pushed`). Bytes
  are taken at a smaller scale: values below `Modulus`, a two-byte header, a
  length, the payload and the sum; address and command bytes, which the parser
  only carries, are left out. `scan`'s loop is as many turns as the buffer has
  bytes: a turn takes one at least or is the last, and a further turn changes
  nothing. The reference definition `FramesFrom` is a reader of the whole
  stretch. `StreamAssumption` asks for a modulus above one and bytes below it.
- `KeyDelivery` — the commands `key`, `type` and `macro`: the compilation of
  chords, text and macro lines, the query of the lock state, the policy and
  its compensation, the delivery step by step through faults of the link and
  interrupts, and the guard's release. The target holds what it was sent and
  types by its own CapsLock. The layout is a parameter of which `IsLayout` is
  assumed: no two characters are typed alike, both cases of a letter are on one
  key, and none is typed by CapsLock. The run's board has two cases of a letter,
  a digit and its shifted sign; a named key, CapsLock and two modifiers serve
  the chords; a character off the layout stands for all that do not resolve.
- `Discovery` — `discovery/mod.rs` and `reopen.rs`: pairing by topology, the
  explicit choices, the probes that give no answer, the card of a video node.
  A device is its USB path; nodes come and go one by one. The topology is a
  parameter of which `TopologyAssumption` says what the evidence rules rely on:
  a device number names one device of its bus, a peer port and a hub around
  both halves join the halves of one dongle, and each dongle has one of them.
  (A foreign device that is a camera and a serial port at once is therefore
  excluded; the code would pair it.) The run's two dongles and two foreign
  devices share hubs of the type a dongle contains.
- `Screenshot` — `cli/shot.rs` from the checked request to the renamed file:
  `pick_frame` with its counters and single restart, the deadline, signals,
  the loss of the device and each of the four writes failing.
- `MCSafety` — hosts `SerialLink`, `FrameParser`, `KeyDelivery`, `Discovery`
  and `Screenshot`, and of the devices `CapturePipeline`, `CaptureStream` and
  `AudioPath`, for what must never happen.

### Devices

- `CapturePipeline` — the capture thread (`cpc`), the decode thread (`dpc`),
  the renderer, the handle (`hpc`) and the two handoffs. `recover` tells
  `start_with_opener` from `start`; both are initial states. A frame is its
  number, and whether it has the negotiated size. `StopSeen` is read where the
  code reads it. A grace or stall interval may have passed whenever the clock
  is read; delays have no length. Errors that a rebuild of the stream survives
  are passes without a frame. `runRestarts` and `runReopens` are history
  variables counting what one unbroken run of mismatched frames has cost.
- `CaptureStream` — the V4L2 source below it: opening and priming, `poll`, the
  dequeue with its broken mark, the rebuild and the restart, over a driver that
  fills buffers, fails its queue and unplugs, and over the `v4l` crate's stream,
  which queues the buffer it handed out last before it dequeues the next. The
  crate and the driver are external: modelled from how `v4l2.rs` uses them.
- `AudioRing`, `AudioPath` — the ring with its drift policy as operators, and
  the two workers over it: opens, failures and backoffs of either side, the
  prefill with its check, its sleep and its wake-ups, the counters published
  outside the ring's lock, the conditions, the supervision of opens, and the
  stop with its flag, the close and the notification as steps of their own.
  Periods have no content; the prefill is a natural number (`PrefillAssumption`).

### Viewer

- `ViewerReducer` — `viewer/state.rs` and `route.rs`: pure operators that take
  a trigger to a session and a sequence of actions, and an event to its owner.
- `ViewerSession` — `viewer/app.rs` and `chrome/paste.rs` over them. One
  callback of the event loop is one action: `Feed` performs the reducer's
  actions in order, with the triggers they ask for. The input path appears as
  what `InputPath` promises a producer: a raised release disengages at once
  and lifts everything; a capture is granted when it was acknowledged. The
  clipboard reader is a thread of its own. A text is what it compiles to.
- `MCViewer` — hosts `ViewerSession`, and `AudioPath` for the end of its workers.
- `Presentation` — the event loop's posts (`resize`, `occluded`, chrome frames
  with one atlas update each), the render thread's pass with its coalescing,
  and the compositor that hides and shows the surface and holds back a present.
- `ViewerLifetime` — the main thread from start to exit, the dispatch thread
  of the shortcut inhibitor, the render thread and the writer as alive or gone.
- `MCThreads` — hosts `InputPath`, `InfoRefresh`, `CapturePipeline`,
  `Presentation` and `ViewerLifetime`, for what must end or come round again.

The definitions whose comment begins with *Mutation of* are the mutated forms
`PROJECT.json` names under `mutants`: each is a plausible bug that the paired
property finds. No specification uses them.

## Runs

| Run | Question | Bounds |
|---|---|---|
| `input_session` (`MCInputSession`) | Over a source that reopens and over a fixed link: is the queue bounded, is no release lost and none overtaken by an engagement, does a release clear what it says, is nothing replayed, do reports show what is held, is a suppressed key never promoted, is shutdown honest, must recapture be asked for? Is `ReleaseBarrier` refined? | reopening: two producers (an overflow trigger of one crosses the other), three epochs (one running, one raised during it, one after), two failures, one key, a button, relative motion of two reports; fixed: two keys over a one-slot report (the smallest that suppresses), a button, one absolute position, one producer, two epochs, one failure |
| `parts_safety` (`MCSafety`) | Is an acknowledgement the request's own, and is the price of a lost reply bounded? Are all frames found however the reads cut the stream? Is nothing left held in silence, and text typed as written? Does selection never guess? Is a shot what was asked for? Are video frames accounted for, in order, and the watchdog's cost bounded? Is the V4L2 stream intact? Are sound periods accounted and counters monotone? | five requests of two commands, three faults (one more than can interact through one slot), one push; every stream of seven bytes over four values (a candidate inside a candidate fits); orders of up to two chords or lines, two link faults; two dongles, two foreign devices, two probes that fail in one attempt; a shot that skips one frame, restarts after two mismatches and gives up after four, in six calls; four frames (a drop at each handoff and a recycled buffer; two restart budgets of one and the reopen), one loss, one stall; three buffers (one out, one queued, one filled); a ring of two periods, three pushes, two pops, one failure, a prefill of one |
| `threads_end` (`MCThreads`) | Does the writer's shutdown end, is every cancellation served, do outages end? Does each request for device information get an answer of its own? Is the capture handle honest, does the pipeline's stop return, does a lost device come back? Does what the loop built last reach the screen? Does the viewer end in order? | one producer, two epochs, two failures, opens may hang; three pastes (one refused, its refresh in flight, one that asks then, one after an outage), two changes of CapsLock, one loss of the link; one video frame, two losses, one stall, one request among two formats; two chrome frames (one replaces the other undrawn), one frame that cannot be acquired, two window sizes; two captures |
| `viewer_session` (`MCViewer`) | Is no key left down without an owner, does a paste type alone, does the host get its controls back, does the session follow the path? Do the audio workers end? | one plain key beside Enter and the left button, a paste of two steps or one that cannot be typed, one shortcut, one loss of the link; a ring of two periods, one push, one pop, one failure, a prefill of one (an end does not depend on how many periods went before) |
| `input_open_hangs` | Is a cancellation served while an open hangs? Refuted, see Findings | as the writer's part of `threads_end` |
| `input_stuck_button` | Does a release clear both mice across a reconnect? Refuted | a button and a position |
| `serial_two_late` | Two replies late at once. Refuted | four requests, two faults |
| `frame_garbage` | Is every discarded byte reported once? Refuted | seven bytes over three values |
| `capture_format_request` | Is a newer request served after one the driver refuses? Refuted | two formats, two requests |
| `audio_overdue` | Does a side that works show no condition? Refuted | a ring of two periods, no failures |
| `audio_close` | Does close wake whoever waits for the prefill? Refuted | as above |
| `info_stale_answer` | Is what a paste compiles under a state CapsLock had since it asked? Refuted | two pastes, one change of CapsLock |

No format is requested in the pipeline of `parts_safety`; the theorems of
`CaptureProofs` hold for any number of requests.

`input_session` checks no liveness and declares the two keys of the fixed link
symmetric, and the two producers of the other: the model tells neither apart.

Deadlock is not checked in any of them: every thread may end, every command
ends, and every caller may stop calling. Counters are bounded in guards of the
environment and the users only (the constants named `Max...`); the programs'
own triggers are not. In `ViewerSession` the link is lost once in a behaviour:
what the viewer keeps across a loss is a session that ends and a paste that is
cancelled, and neither remembers a loss before. Hosting several parts in one
run bounds nothing, since one behaviour runs one part.

### Fairness

`MCThreads` and `MCViewer` state the fairness of the modules they host, each for
the steps of its own part.

- `InputPath`: weak fairness of the writer as a whole, since the thread is
  scheduled and each call on the link is bounded by a timeout; of a producer
  that owes the overflow trigger, which it raises on its next instruction; and
  of a join that may return.
- `CapturePipeline`: weak fairness of the capture and the decode thread, whose
  calls are bounded by the source's timeout and the backoff's cap, and of a
  stop once begun. Nothing bounds an open on a helper thread, so none has
  fairness: properties that need opens to return say so (`OpensReturn`), and
  `ShutdownCompletes` and `StopCompletes` do not need it.
- `InfoRefresh`: weak fairness of the writer's steps: its waits, transactions and
  backoffs have deadlines. Here an open is assumed to return; while one does not,
  a request waits for it and the paste ends by its own deadline. The viewer and
  the target have none.
- `AudioPath` (in `MCViewer`): weak fairness of each worker away from its device. A call into
  ALSA has none; `WorkersEnd` assumes of each side that its calls return.
- `ViewerSession`: the writer acknowledges a release (what `CancelServed` shows
  of it), and the event loop's tick comes again while it is due, because the
  loop arms its wake-up for the next deadline. `TickDue` is written out instead
  of `ENABLED Tick`. The user and the compositor have none.
- `Presentation`: the render thread's pass and the event loop's posts. A hidden
  surface may hold back a present for as long as it is hidden.
- `ViewerLifetime`: the main and dispatch threads and the writer's end. A
  present may never return: the render thread has none, and `OrderlyEnd` does
  not need it because the main thread detaches it.

## Proofs

Everything here holds for every value of the constants, from the named
assumptions on them only.

*Input* (`InputPathTheorems`): type correctness; `NoLostRelease`,
`EngagedMeansReleased`, `NoReplay`, `PromptRelease`, `ReleaseClearsKeys`,
`ReleaseClears`, `QueueBounded`, `WireMatchesHeld`, `NoPromotion` and
`ShutdownHonest` as invariants; `ShutdownReasonKept` and
`RecaptureAfterReconnect` as action properties; and the refinement of
`ReleaseBarrier`. The safety properties are not inductive. `IInv` adds to them

- `EpochInv`: the epoch a sequence latched lies between the acknowledged and
  the requested one, and while it is below the requested one the flag stays
  armed — otherwise a newer request could be lost when the older is
  acknowledged;
- `QueueInv`: from the drain to the acknowledgement, and all through an
  outage, the queue is empty, because nothing can be submitted while
  disengaged — the reason nothing is replayed;
- `LateInv`: a report handed over after a trigger puts the writer back at the
  top of its loop with the flag armed;
- `ReleaseInv`: which devices a sequence has released at each of its steps,
  and that a record of `Submitted` implies all of them;
- `ShutdownInv`: until it is acknowledged the shutdown's reason is in the slot
  or in the running sequence that covers it.

Three results need more than `IInv`. `QueueBounded` needs that runs of motion
are apart (`RunsApart`): a new run starts only behind a barrier, since within
an open session every entry is of its epoch. `WireMatchesHeld` and
`NoPromotion` follow the writer's place (`MatchInv`): which key the entry in
progress has applied and not yet reported. `ReleaseClears` is proved for a
session on one link whose pointer moves absolutely (`FixedAbsolute`, the fixed
link of `input_session`); finding 1 is what happens otherwise.

`InputQueueProofs` has the lemmas about the queue's operators (pushing,
popping and draining preserve the type, the exact barrier count and the epoch
of the entries); `InputPathProofs` shows that each action preserves each part
of `IInv`; `InputPathTheorems` composes them.

*Serial* (`SerialLinkProofs`): `NoStaleAck` and `LossCostsOneMore`, for any
number of requests, faults and pushes. The invariant follows the late-reply
slot through the frames the bridge still owes. `Waiting` ties the request in
flight to the caller's place, `Owing` says that a request is owed one frame at
most and of its own command, and `Expected` that without overlapping faults at
most one frame owed is stale, that the slot names its command, and that it
comes before the current request's own; `OwnOnly` is then what `NoStaleAck`
needs. For the second theorem `Need` is the number of timeouts the faults so
far can still cause, and `Budgeted` that those had and those to come stay
within two for each fault.

*Frames* (the same module): `FramesRecovered`, for every stream, every modulus
and every cut into reads. It is not inductive: what a reader finds of a longer
stretch is not what it found of the shorter one, since a frame that was still
arriving may now verify. `Parsing` therefore speaks of every later end
(`Found`): whatever else arrives, a reader of the stretch finds the frames
found so far and then what it finds from the head on. `Charged` adds that the
bytes suppressed lie inside something reported and that those given up outside
were counted, and `Quiet` that between reads nothing is left to do. One lemma
per branch of `scan`'s turn (`AlignKeeps`, `AcceptKeeps`, `RejectKeeps`) keeps
`Parsing`; `ScanKeeps` adds that after as many turns as bytes the parser is
`Quiet`. The reader is a recursive function; that it exists (`ReaderExists`)
and is what its definition says (`FramesUnfold`) rests on `NatInduct`, as
below.

*Discovery* (the same module): `NeverGuesses`, for any finite number of dongles
and foreign devices and any topology of which `TopologyAssumption` holds. Since
a node that comes or goes makes the last selection void, the argument is about
one attempt. `EvidenceJoins` derives from the assumption that the three rules
of evidence join the halves of a dongle and nothing else; `PairsAre` says which
candidates survive the probes, and `WholePaired` and `OnlyWhole` what that
leaves of a whole dongle.

*Capture* (`CaptureProofs`): `FramesAccounted`, `FramesMoveForward`,
`WatchdogBounded` and `StatusHonest`, for any number of formats, frames, faults
and requests. `FrameInv` adds that frame numbers are in
order from the renderer back to the capture thread (`Ordered`) and none is
newer than the last captured (`Known`), through displaced and recycled buffers.
`WatchInv` adds that the cost of a run is what the watchdog's record says of it
(`RunCost`), and that during its own reopen there is no source, so that no
frame and no stall can move the record (`Escalation`). `StatusHonest` is
inductive as it stands. In the same module: `StreamIntact` for any number of
buffers, from the assumption that it is a natural number.

*Audio* (`AudioPathProofs`): `PeriodsAccounted`, `ConditionsHonest` and
`CountersMoveForward`, for a ring of any size and any patience of its policy.
`Paid` strengthens the bound on corrections by the streaks in progress: each
correction has cost `Hold` calls, and those of the current streak are counted
once and belong to the next. `ConditionsHonest` is proved only: it allows an
overdue open's message to remain, which is finding 6.

*Commands* (`CommandProofs`): `ReleasedOrReported` and `TypedAsWritten`, for
every layout and all orders, from `LayoutAssumption` and `OrdersAssumption`
(which only says what kind of argument each command has). The first is close to
inductive: `GuardHolds` adds that nothing is held before anything is sent. For
the second the invariant `TextInv` says that while a script is sent the target
has what the steps behind it type (`Sending`), up to a step that may have
arrived without its acknowledgement. What a script types is `Typed`, the
concatenation of what its steps type on a target whose CapsLock stays as it was
seen. Three lemmas carry the argument: `PressTypes`, that the Shift the compiler
chooses for a known CapsLock types exactly the character; `ScriptTyped`, that a
script without key lines therefore types what was asked; and `EncodingChosen`,
that the policy leads to the script for the CapsLock the target has, wherever
the user did not choose to ignore it. They rest on induction over sequences,
which `NatInduct` and `SeqInduct` derive from the well-foundedness of `<`
(`WFMin`): they take the set of those the claim holds of in place of a
predicate. `FlattenAppend`, what one more sequence adds to `FlattenSeq`, is
proved that way from its definition.

*Shot* (the same module): `ShotHonest` for every policy, from the assumption
that the number of frames to skip is a natural number. The invariant says at
each place of the attempt what the counters account for (`Counted`), whether
the restart is spent (`RestartedOnce`), that the device is open exactly while
frames are judged, and what the two files hold (`Staged`).

*Viewer* (`ViewerSessionProofs`): `NothingStuck`, `HostControlsReturned` and
`PasteTypesAlone`, for any finite set of keys, any texts and any shortcuts,
from what the code gives the loop: a text compiles to transitions of keys, a
shortcut to at most six, and each press among them is followed by its release
(`Balanced`). A callback is a fold of the reducer's actions over a world of
viewer, paste and path, in which any submission may fail and feed the failure
back; so the proof is about the world first. `Reduced` says what a trigger can
ask for: nothing, a forwarded event, an end, or a step towards capture. One
lemma per action then shows what performing it leaves, and `FeedKeepsSound`
that a whole callback preserves `Sound`: only a captured session holds or
pastes, a consumed press is not on the target, what is down on the target is
what is outstanding while the path is engaged, and every key a paste holds
comes up in a step it has not sent. The invariant has two more parts.
`Owed`: what is outstanding beside a running paste is released by a step of
its prelude that is still to come, which is why past the prelude a paste
shares the target with nobody (`NobodyTypesAlong`, without a hypothesis).
`Answered`: what is outstanding is held by the user or by the paste.
`PasteTypesAlone` says more, that what the target holds is exactly what the
paste holds, and assumes `ShortcutsApart`: no menu shortcut shares a key with
a text. Of the program's shortcuts Win+Tab does, with a text that contains a
tab; see Observations.

Only model-checked: every liveness property, those of `Presentation` and
`ViewerLifetime` included, since TLAPS does not reason about `ENABLED` and
fairness here, and the safety of `InfoRefresh`. Every other safety property that
a passing run checks has its theorem.

## Findings

1. *A button can stay down on the absolute mouse* (`input_stuck_button`).
   `emit_release_all` (`input/writer.rs:323`) releases the absolute mouse only
   if the current mode is absolute. A release recorded as unsent during an
   outage resets the mode, so the commissioning release of the new link skips
   the device on which the button is down, and is recorded as submitted.
   `docs/protocol.md:87` requires both mice to be released.
2. *Cancellations are not served while an open runs* (`input_open_hangs`).
   `open_bounded` polls the shutdown flag only (`input/writer.rs:410`), while
   its comment and `docs/architecture.md:79` promise cancellation too.
3. *Two late replies* (`serial_two_late`). The late-reply slot holds one
   command; the comment in `serial/reader.rs:119` has the older reply count as
   a push. In the run, request 1 (info) and request 2 (keys) are both late, so
   that the slot names keys; the reply to request 1 then does not match the
   slot and completes request 3 (info) directly (`serial/reader.rs:231`). With
   three requests of one command it takes a step more: the first late reply
   settles the second's slot, and the second's own late reply completes the
   third. `NoStaleAck` shows that one unsettled fault at a time is handled.
4. *A refused format cannot be taken back* (`capture_format_request`). Openers
   accept every format and the driver may refuse it at open; `reconnect` then
   retries without looking at a newer request (`capture/pipeline.rs:696`).
5. *Bytes counted twice as garbage* (`frame_garbage`). `scan` overwrites the
   number of bytes already reported at every rejected candidate
   (`proto/frame.rs:291`). When one inside another is rejected too and ends
   before it, the rest of the outer one is counted again, which the comment at
   `proto/frame.rs:161` excludes. Only the diagnostics are affected:
   `FramesRecovered` holds.
6. *A condition nothing clears* (`audio_overdue`). `supervise_opening` reads the
   overdue opens under one lock and reports them under another
   (`audio/mod.rs:287-314`). An open that returns in between, and whose side
   moves its first period, has recovered before there is a condition to clear;
   the side then works under a message that its open has not returned.
   `ConditionsHonest`, a theorem, shows what is left: no failure of its own, at
   most this.
7. *Close does not always wake the prefill* (`audio_close`). `close` takes no
   lock (`audio/mod.rs:551`), so its flag and its notification may fall between
   `prime`'s check and its sleep. The worker then sleeps until a push or its
   deadline of four ring depths, 320 ms by default, and `stop`, which waits
   250 ms, detaches it and logs a device call. `WorkersEnd` shows that it ends.
8. *An old answer passes for a new one* (`info_stale_answer`). A refused paste
   leaves its refresh in flight; when the next paste asks before the answer is
   published, the answer moves the generation past the new baseline
   (`viewer/app.rs:931`), and the text is compiled under a reading from before
   the paste. `RequestsAnswered` shows that the refresh of its own does come, too
   late to be read.

## Observations

Met while modelling; no run shows them.

- Input: `request_info_refresh` does not take the queue's lock
  (`input/shared.rs:166`), under which `next_entry` checks the flag so that "an
  idle writer cannot lose the wake-up" (`input/writer.rs:212`). Flag and
  notification may fall between the check and the sleep, in `backoff_wait` too;
  the request then waits for `LINK_HEALTH_POLL` (100 ms) or the backoff.
  `InfoRefresh` has this behaviour; `RequestsAnswered` shows that the request is
  answered all the same.
- Viewer: a shortcut from the menu may fall between the steps of a paste
  (`viewer/app.rs:745`); `PasteTypesAlone` holds where they share no key. Changing the mouse mode while a capture is engaging does not
  move the grab (`viewer/app.rs:704`).
- Wayland: an `Inactive` notice still queued for a destroyed inhibitor can
  release the next capture. After a failed event loop the teardown releases
  the pointer through the window, although `viewer/app.rs:131-133` says that it
  must not touch Wayland then. A start that fails after the link came up drops
  the writer without joining it.
- Shot: `consecutive` is not reset by a dropped frame between two mismatches
  (`cli/shot.rs:282`).
- Scripts: a macro's own `key capslock` inverts the letters of a later `type`;
  `TypedAsWritten` excepts macros with key lines.
- Discovery: with two dongles half dropped, video may stay on the one while the
  serial side reopens on the other; each selection for itself is right.
- Settings: a failed write leaves the temporary file its doc says is removed.

## Not modelled

- Input path: the counters. The device-information refresh is in `InfoRefresh`
  only: `InputPath` leaves it out, and `ViewerSession` takes it for an answer
  that may come.
- Serial link: `resync`, the counters, opening a port, which is thin I/O whose
  failures are the failed opens of `InputPath`.
- Capture: thread spawn failures, the `Stalled` state derived from the clock,
  byte statistics, the negotiation and enumeration of formats; decoders and
  JPEG headers, which are pure functions whose outcome the pipeline chooses.
- Audio: samples, the negotiation of ALSA parameters, tone detection.
- Discovery: reading sysfs and the wording of diagnostics; the renumbering of
  device nodes, since a device is its path. That a path is reused between
  resolution and open is outside the model.
- Viewer: widgets, geometry, the title, the settings file, pacing and progress
  of a paste, latency figures, the GPU.
- Commands: `devices`, printing, the dry run, the parser's wording of errors;
  the key map and USB strings, which are tables.

## Plan

Done: the modules and theorems above. What a continuation would take first:
the safety of `InfoRefresh` as a theorem; a refinement of
`ViewerSession`'s `path` by `InputPath`, which would turn the promise it
assumes of a producer into a checked one; an abstract one-to-one request and
acknowledgement channel that `SerialLink` implements while faults do not
overlap.
