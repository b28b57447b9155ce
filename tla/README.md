# chromecast-sink: TLA+ models, checks and proofs

chromecast-sink makes a Chromecast look like a sound card: a virtual sink
(PipeWire, or a WASAPI loopback) writes PCM into a lock-free ring, a capture
loop encodes it as Opus, and a Cast Streaming sender puts it on UDP, while a TLS
control channel launches, negotiates, keeps alive and unloads the mirroring app
on the receiver.

This directory holds the models of that program, the configurations that
model-check them with TLC, and proofs checked by TLAPS. `PROJECT.json` gives,
for each definition, the source lines it stands for; for each run and theorem,
what it shows; for each hazard of the code, the properties that watch it.

## 1. Inventory

| Part | Source | State | Operations | Talks to |
|---|---|---|---|---|
| Audio ring | `audio_ring.rs` | slots, `reserved`, `write`, `closed` (atomics); `read` (consumer's own) | `write_s16le`, `read_frames`, `skip_frames`, `available_frames`, `close`, `is_closed` | written on the audio server's thread, read by the capture loop |
| Capture loop | `capture.rs` | the last backlog, `Option<Outage>` | `run` | ring, encoder, RTP sender, the stop flag |
| Cast channel | `cast_channel.rs` | input buffer, `last_ping`, `last_rx`, stop flag, two queues | `connect`, `send`, `drop`, the dispatcher thread | TLS socket, pipeline, mirroring |
| Cast RTP sender | `cast_rtp.rs` | `frame_id`, history of sent packets, stop flags | `send_frame`, `start`, `stop`, NACK thread, report thread | UDP socket, capture loop |
| Mirroring control | `mirroring.rs` | `MirroringSession` | `launch_mirroring`, `send_offer`, its `Drop` | channel (both queues) |
| Pipeline | `pipeline.rs` | ownership of all of the above, the stop flag | `run`, `run_with_host`, `pick_device`, `run_with_device`, session monitor, signal handler | everything |
| Virtual sink | `virtual_sink.rs`, `virtual_sink_windows.rs` | `signalled`, `shutdown`/`quit`, readiness channel | `new`, `drop`, callbacks or pump loop | ring (producer, closer) |
| Discovery | `discovery.rs` | devices by name, time of the last new one | `discover` | mDNS daemon, pipeline |
| Opus encoder, CLI, examples | `opus_enc.rs`, `main.rs`, `examples/` | none that outlives a call | | |

What is hard in each, and what makes it correct:

* **Ring.** The producer never waits: it overwrites. A reader detects that it was
  overtaken by looking at `reserved` after the copy, which is only right under a
  weak memory model if both fences are there and pair up. Indices wrap. Correct
  means: a read that is not refused is whole and in order; a refused read really
  was overtaken; a reader that sees `closed` sees the tail.
* **Capture loop.** Acts on a backlog read earlier, while the producer goes on.
  Correct means: the latency bound is kept without emptying the ring, a normal
  quantum never costs a read, overruns and blips of the network are survived,
  a lasting outage is not, and every end (stop, closed, outage) is reached.
* **Channel.** Of several addresses some do not answer; TLS or the greeting may
  fail. Then one thread does all I/O with time-outs; bytes arrive in any cut.
  Correct means: nothing is left of a failed `connect`, messages are forwarded
  once and in order, queued messages are written before the thread ends or the
  connection was lost, a silent peer is dropped and a live one is not.
* **RTP sender.** Three threads share a history under a lock that is not held
  between sending and recording; feedback carries low bytes of wrapping IDs, late,
  duplicated and reordered. Correct means: no gap and no repetition of IDs, a
  resend is the frame the receiver lost and not sooner than it may be, `stop`
  returns.
* **Virtual sink.** The server answers by callbacks or not at all; the caller's
  wait, the callbacks, the loop's end and the drop race. Correct means: `new` and
  `drop` return and leave nothing behind, every failure closes the ring, our own
  shutdown is not taken for a failure, and COM objects never outlive the last
  apartment.
* **Discovery.** Devices resolve in any order and more than once, the daemon may
  die with devices still queued, and some events skip part of the loop. Correct
  means: what is reported is what resolved, at its newest address; a search for
  a name is not cut short by the quiet period; every search ends.
* **Control and pipeline.** Every step of the start can fail, the receiver can
  hang up or vanish at any moment, it speaks of sessions that are not ours, one
  left by a crashed run among them, and the end runs through four joins. Correct
  means: the app is unloaded, and no other, the blame is right, the program returns.

## 2. Modules

| Module | Models | Notes |
|---|---|---|
| `LossyRing` | what the ring promises | abstract: publish, take, skip, close are single steps |
| `AudioRing` | `audio_ring.rs` | every atomic access a step, under a view model of memory |
| `AudioRing_proofs` | | all its safety properties and the refinement |
| `CaptureLoop` | `capture.rs` | uses `LossyRing` for the ring, adding the reservation |
| `CaptureLoop_proofs` | | outage, drain and headroom, for every geometry `run` asserts |
| `MessageChannel` | what the Cast channel promises | abstract: two queues of messages, a connection that may be lost |
| `CastChannel` | `cast_channel.rs` | connect, dispatcher, caller, receiver and clock; implements `MessageChannel` |
| `CastChannel_proofs` | | forwarding, heartbeat, and the safety of `MessageChannel` |
| `FrameIds` | ID arithmetic of `cast_rtp.rs` | operators only |
| `FrameIds_proofs` | | the expansion of low bytes is exact |
| `RtcpFeedback` | `parse_nacked_frames` | against a loop-free reading of the compound |
| `CastRtp` | the three threads of `cast_rtp.rs` | a feedback is one packet here |
| `MCRtcpFeedback` | | the loss fields of the small instance |
| `CastRtp_proofs` | | IDs, feedback, spacing and content of resends, the stop; the parser, and that `CastRtp` reads what it parses |
| `VirtualSink` | `virtual_sink.rs`, `virtual_sink_windows.rs` | the platform is chosen in `Init` |
| `VirtualSink_proofs` | | all its safety properties |
| `Discovery` | `discovery.rs`, choice of a device in `pipeline.rs` | main thread, mDNS daemon, clock |
| `Discovery_proofs` | | all its safety properties |
| `Session` | `pipeline.rs`, `mirroring.rs` | built on the actions of `MessageChannel`; capture is one step |
| `Session_proofs` | | unloading and blame |

### How state and actions correspond to the code

**AudioRing.** `log` is the list of all atomic stores in execution order, each
with its location, its value and the prefix of the log (`rel`) that a reader who
acquires it comes to know. A relaxed load may return any store of its location
from the newest the thread knows of on (`Readable`); per-location coherence is
kept in `last`. `FenceView` is what a release fence lets later relaxed stores
carry, `AcquireFence` joins what relaxed loads have gathered. The consumer's
loads are therefore as stale as Rust's model lets them be along one total order
of stores, which is exact here because every location but `closed` has a single
writer. `Reserve`, `StoreSample`, `PublishBatch` are the producer's
`write_s16le`, sample by sample; `ReadFrames`, `CopySample`, `CheckReserved` are
`read_frames`. `RingConsumer` is `!Sync`, so `read` is the consumer's own.

**CaptureLoop.** `pc` follows the loop body: stop check, closed check, backlog,
then drain, sleep, or read, encode and send. The ring's `written`, `taken`,
`delivered`, `closed` are those of `LossyRing`, whose actions are conjuncts
here; `inflight` is the batch reserved and not yet published, which is what can
refuse a read. `outage` is the `Option<Outage>` reduced to its start. `overlaps`
and `failed` are history variables.

**MessageChannel.** `Send` puts a message into `outbound`, `Deliver` moves it to
`delivered`; `PeerSend` and `Forward` are the way back. `Break` is a failure of
the connection, which may take the message in flight with it and may or may not
be the end. `End` is only possible with an empty queue or a lost connection.
`Progress` says what is promised in time, as leads-to formulas rather than
fairness of its actions: how `CastChannel` comes to an end is its own affair.

**CastChannel.** `dpc` is at one of the three parts of `connect` (addresses, TLS,
greeting), then follows one round of `dispatcher`. A message is two
cells, length and body, and `ReadChunk` takes any number of the cells that have
arrived: all cuts that `take_frame` can tell apart. A write that fails leaves
nothing, the length, or everything on the wire (`WriteFails`), and the guards
that follow are the code's: an outbound error sets `stop`, errors of PING and
PONG change nothing. The refinement mapping (`Channel`) takes `ending` to be the
caller's drop, the stop flag, a closed connection or a left loop; `lost` to be a
failed read or write, a closed connection or a loop left for another reason than
the stop flag; `delivered` to be the whole messages on the wire without
heartbeats; `inbound` to be the application's messages in the wire and in the
buffer.

**CastRtp.** `send_frame` is three steps, because the NACK thread can run
between `send_to`, the record and the increment. `serve_nacks` is split at the
receive and at the lock; while it holds the lock (`Locked`) the sender cannot
record. Payloads are numbers of calls, so two packets with one ID would show.
`wire` and `resent` are history variables.

**RtcpFeedback.** One action per branch of the loop over packets in
`parse_nacked_frames`, and one per loss field in the loop inside it; a packet is
what the parser can tell of it, not its bytes. `checkpoint` is the
`Option<u32>`, `nacked` the list it returns. `Meant` is the loop-free reading the
properties compare it with. The names of the specification begin with `Parser`, so
that `CastRtp_proofs` can reason about it and about `CastRtp` at once.

**VirtualSink.** `pc` is the caller in `new` and `drop`, `tpc` the sink's thread.
On PipeWire the thread takes its three fallible steps and then runs callbacks:
`StreamStarts`, `StreamErrs` and `StreamDisconnects` are the arms of
`state_changed`, `HandleQuit` the quit source. The callbacks run on one thread, so
only the swap of `signalled` with its send, and the close after it, are told
apart. On Windows everything that can be refused is asked for before the thread
exists; `objects` says on which side COM objects are held, `callerMta` and
`threadMta` who is in the apartment. A refusal lets go of the objects and leaves the
apartment in one step, as there is no other thread yet. `FindEndpoint` is the search of `new` for the loopback
device; the pump's round is `CheckQuit`, `KeepAlive`, `ReadPacket`, `NoPacket` and
its sleep, and its calls may fail (`PumpFails`). Packets arrive while the pump
sleeps: a round of copying is short against the time a packet takes. What both threads write into the ring is the
producer of `AudioRing`. `broken` remembers that something outside has failed.

**Discovery.** `pc` follows the loop of `discover`: deadline, receive, look at the
daemon, quiet period. A friendly name is a word and a spelling, so that
`eq_ignore_ascii_case` is equality of words. `devices` is the map, with `Replace`
as its `insert`; `until` is when the current `recv_timeout` gives up. `heard`,
`heardNew` and `left` are history variables. `ResolveHost` is the other way to a
device, `--host`.

**Session.** `pc` is the statement `run_with_device` is at; each fallible step
either goes on or starts the unwinding, which drops the locals in Rust's order:
the RTP sender, then the `MirroringSession`, whose `farewell` of a STOP and two
CLOSEs is queued one by one, then the sink, then the channel. Queueing,
delivery, loss and end of messages are the actions of `MessageChannel`; a
message is its type and whether it is about what is ours. The receiver takes
delivered messages in order (`TakeMessage`), and sends status, CLOSE and other
messages that concern someone else, or a session that an earlier run left. The
capture loop is one step that ends for the reasons `CaptureLoop` ends for.

## 3. Runs

`tlc -workers 2 -config <cfg> <module>`, the module being that of the table above
or, for `rtcp_feedback`, `MCRtcpFeedback`; all finish in about a minute
and a half or less.

| Run | Question | Bounds, and why they are enough |
|---|---|---|
| `ring` | whole, refused or in order, under weak memory | capacity 2, stereo, indices modulo 4, batches of 0 to 3 frames, 5 frames written: batches over capacity, two laps, index wrap-around and overtaking in mid-copy all occur |
| `capture` | latency, overruns, outage, end | 5 ms units: frame 2, target 2, threshold 6, capacity the asserted minimum; batches 1 and 4 give backlogs over the threshold and double overlaps; outage 2 of 3 ticks |
| `channel_framing` | connect, cutting, forwarding, flush, end: `MessageChannel` is implemented, its safety (`ImplementsChannel`) and its progress (`ChannelMoves`) | two addresses, two messages of each side, one failing read or write, no passing of time: every cut of two messages, an error at every point, a drop at every point |
| `channel_liveness` | silent and live peers | interval 3, time-out 6, answers within 2 ticks, 14 ticks: two heartbeats, two lost answers |
| `rtcp_feedback` | the parser | compounds of up to 3 packets with none, one or two loss fields, last IDs sent 3 and 21 in a word of 32 with bytes of 8: checkpoints before ID 0 and after it, newer, older and repeated ones in every order, a loss at the far end of the byte's range |
| `rtp` | IDs, resends, spacing, stop | history 2, window 3, bytes of 6, words of 12, 7 calls, one failure, 2 lost packets, 2 resends, interval 1 and a tick: feedback older than the window, a byte that wraps and a slot used more than twice occur |
| `sink` | both sinks, start to end | both platforms, two packets: a round with a packet, one without, and a failure in a later round |
| `discovery` | a search for a name, a listing, a host | two words in two spellings, two addresses, quiet period 3, time-out 5, poll 1, clock to 6: names equal but for case, a device that moves, a quiet period before and one after the last new device |
| `session` | the whole run | one run of the program, one message of the receiver that concerns no one |

`CHECK_DEADLOCK FALSE` is set where the program may really stop: the
channel, the search, the sinks, the RTP threads and the pipeline end, and the ring and
the parser run out of input. The loop of `CaptureLoop`
marks its end with `Returned`.

Three more runs state what a comment of the code says and are expected to be
violated. They are the project's findings:

* `channel_partial_write`: "Any write error kills the dispatcher because a
  partial write corrupts the length-prefix framing for everything after it"
  (`cast_channel.rs:258`). After a failed outbound write the same round may still
  write a PING, and the flush still writes the queue; errors of PONG and PING
  kill nothing.
* `channel_lost_pong`: "Two HEARTBEAT_INTERVALs to tolerate a single dropped PONG"
  (`cast_channel.rs:72`). At exactly two intervals the next PING leaves in the
  round that gives up. `channel_liveness` shows that a peer is not given up
  as long as every gap in what it sends stays under the time-out.
* `session_early_return`: "Early returns between LAUNCH and shutdown still unload
  it" (`mirroring.rs:64`). Not those inside `launch_mirroring`, where the session
  object does not exist yet.

### Fairness

Weak fairness of each thread of the program, and of nothing else: threads are
scheduled by the operating system, and every wait in them is bounded: socket
reads and writes have time-outs, `recv_timeout` is used for replies and reports,
the sleep of the capture loop is short. The joins are the exception, and their
return is what the liveness properties are about. Nothing is assumed of the
receiver, the network, the audio server or the user. In `CastChannel` a tick is
taken only when the dispatcher has run a round since the last one, since a tick
stands for far more than its read time-out (that is a bound on its speed, which
the heartbeat invariants need), and when no answer is overdue. In `VirtualSink`
fairness of the two threads includes that calls into PipeWire and COM return; that
a callback comes, or that a call fails, is left to the server. In `Discovery` the clock is fair too, since the deadline is what ends a search.
`Session` assumes of its channel what `MessageChannel` promises, as weak fairness
of the channel's moves; `channel_framing` checks that `CastChannel` keeps that
promise.

## 4. Proofs

`tlapm <module>_proofs.tla`; each takes from a few seconds to about three
minutes. The theorems hold for every value of the constants that the named
assumptions admit: capacities, words, intervals, time-outs, and the bounds of the
runs, which here are any natural numbers. Two need more, and say so in an
`ASSUME`: `AnswerKeepsAlive` and `ResendsFaithful`.

| Module | Theorems, and the properties they state |
|---|---|
| `AudioRing_proofs` | `TypeCorrect` (`TypeOK`), `NeverTorn` (`NoTornRead`), `NeverAhead` (`ReadNeverPassesWrite`), `TailVisible` (`CloseSeesTail`), `RefusalJustified` (`RefusedOnlyWhenLapped`), `Refinement` (`ImplementsLossyRing`) |
| `CaptureLoop_proofs` | `TypeCorrect` (`TypeOK`), `OutageFatalExactly` (`OutageIsFatal`), `DrainLeavesTarget` (`DrainKeepsTarget`), `HeadroomSuffices` (`OneBatchNeverLaps`) |
| `CastChannel_proofs` | `TypeCorrect` (`TypeOK`), `ForwardsInOrder` (`ForwardedInOrder`), `SilenceIsNoticed` (`SilentPeerDetected`), `AnswerKeepsAlive` (`LivePeerKept`), `Refinement` (`ImplementsChannel`), `AcceptedArrives` |
| `FrameIds_proofs` | `ExpandLeRecovers`, `NackRecovered` |
| `CastRtp_proofs` | `TypeCorrect` (`TypeOK`), `IdsContiguous` (`WireContiguous`), `FreshFeedbackUnderstood` (`NacksUnderstood`), `ResendsApart` (`ResendsSpaced`), `ResendsFaithful` (`ResendsWhatWasSent`), `StopIsFinal`; `ParserFaithful` (`ReturnsWhatIsMeant`), `FeedbackReadAsParsed` |
| `Discovery_proofs` | `TypeCorrect` (`TypeOK`), `ReportsTheTruth` (`ReportsWhatResolved`), `NotCutShort` (`WaitsLongEnough`) |
| `VirtualSink_proofs` | `TypeCorrect` (`TypeOK`), `NothingLeft` (`NoOrphan`), `AnswerBeforeEnd` (`CallerAnswered`), `AlarmsAreReal` (`NoFalseAlarm`), `ObjectsInApartment` (`ComObjectsCovered`) |
| `Session_proofs` | `TypeCorrect` (`TypeOK`), `AppUnloaded` (`SessionUnloaded`), `BlameIsDue` (`BlameIsReal`), `JoinsAreTold` |

The shape is the same in all: an inductive invariant `Inv`, a conjunction of
named parts; `InitInv`; a lemma for each action or group of actions; `Invariance`,
`Spec => []Inv`; and the theorems, which follow from `Inv`, or from it and one step.

**The ring.** `NoTornRead` is not inductive. The invariant `Inv` says, of every
store in the log, what it releases:

1. *Shape and order* (`StoresShaped`, `StoresOrdered`, `StoresBounded`): in one
   location values never go down and never pass the producer.
2. *Slots release reservations* (`StoresReserved`): a store of frame `f` carries
   a store of `reserved` above `f`. This is the release fence's doing.
3. *Publication* (`PublishedStored`): a store of `write` carries the samples of
   every frame it publishes.
4. *The consumer* (`IndexKnown`, `ConsumerAt`, `CopiedFromStores`): it knows a
   `write` that covers the request, so each load returned the wanted frame or a
   later one of the same slot, whose view the acquire fence will join.

If a sample was overwritten, what was loaded is a whole number of laps ahead
(lemma `SameLap`), so by 2 the reservation known after the acquire fence is more
than a capacity ahead of the read index, and the lap check refuses
(`NotLappedMeansWhole`). Index arithmetic modulo the word is exact since the
distance stays under the word (`IndexTyped`, `SlotSame`). In `Refinement` every
step of the ring maps to a step of `LossyRing` or to a stutter: publishing at the
store of `write`, taking at the lap check. `TailVisible` needs one fact more
(`TailInv`): who has seen the ring closed has all the closer saw.
`RefusalJustified` goes the other way round (`LappedIsReal`): a reservation can
only be read as a lap if one was made.

**The capture loop.** What the backlog read earlier still says of the ring
(`SnapshotHolds`) is that it has only grown since: not at all if no batch was
under way, and by less than a quantum if there was one. With the assertion of
`run` the headroom then covers one batch, and a drain, which takes the excess of
the old backlog, leaves the target: exactly the target if no batch was under way,
and never less. `OutageOldest` says that the outage began
with the first failure of those since the last success.

**The channel.** `Stream` is what is buffered and what is on the wire, as one
sequence, so that cutting it into reads changes nothing. `StreamInv` says of it
that lengths and bodies alternate, that a numbered message in it is the one sent
under that number, that it is in the order of sending, that what was forwarded
comes before it, and that nothing is in neither. `CutInv` says that no whole
message stays in the buffer outside the loop that cuts them off.

For the heartbeat (`RoundInv`, `AnswerInv`) a tick comes after a whole round of the
loop, so what the round found not to be due was not due at that tick; as long
as no PONG is lost, the PONG of the first PING after the last byte received is due
or here. That gives `SilentPeerDetected` for all intervals, and `LivePeerKept`
under `HeartbeatInterval + MaxRtt < LivenessTimeout`. The bound is tight: at
equality TLC finds a peer given up that answered every PING in time.

`Refinement` needs `EndInv`, which says that the thread ends for a reason and
leaves no message behind without one. Each of the steps maps to a step of
`MessageChannel` or to a stutter. The mapping drops heartbeats and partial
writes from the wire with `FlattenSeq`, a fold, so the proof rests on what that
computes for every sequence (`FlattenTyped`, `FlattenAppend`, `FlattenCons`).
The library's induction rule takes an operator and is out of the provers' reach;
`Induction` states it over a set of numbers, from the well-foundedness of the
naturals, and that is enough here.

`AcceptedArrives` is what the refinement comes to for the caller: when the thread
has ended and the connection was never lost, the peer has got the greeting and then
every message `send` accepted, and nothing else. Its invariant, `DeliveryInv`, says
that what was delivered and what still waits are together just that. `send`
appends to both sides of this equation; every other step, read through `StepMaps` as a step
of `MessageChannel`, leaves both sides alone, moves a message across, or loses the
connection. The pipeline relies on it when it queues STOP and CLOSE and drops the channel.

**Frame IDs.** `ExpandLeRecovers` and `NackRecovered`: a checkpoint and a lost
frame are recovered from their low bytes, across wrap-around, if they are within
a byte's range. A receiver without a frame acknowledges number -1, so this is
over the integers. `OlderCompares` says when one checkpoint is older than another,
`WindowHasByte` that a range of a byte holds each low byte once, and `NackedIdReads`
what `NackedId` returns of any checkpoint and byte.

**The RTP sender.** Frames are numbered as they leave; `IdOf` is the ID of a
number. Between `send_to` and the increment the wire is one frame ahead of
`frame_id` and of the history: `WireInv` and `HistoryInv` say so with `Tried` and
`Recorded`. `FeedbackInv` and `TodoInv` carry what the NACK thread has read, with
`NackRecovered` for each entry; `SpacingInv` is what the slots remember of resends.
`WindowInv`, that a held packet is one of the last slots' worth of frames, needs
`MaxFrames <= Word`: `frame_id` has not wrapped around (see section 5).
`StopInv` orders the flags, the joins and the ends of the two threads.
`FreshFeedbackUnderstood` has two halves: the list filled at the lock is all that was
reported lost, by `ExpandedRight` for each entry; and a frame is struck off it untried
only if the history has it nowhere, or has sent it too recently, since what is held
of a frame is held in its own slot (`ResendableIsDue`).

**The parser.** `Place` is the ID of a packet's checkpoint before it is reduced to a
word, so that newer and older are an order of numbers (`OlderCompares`), also across
wrap-around. `ParserInv` compares what the parser keeps with the packets it has
looked at: either none of them is a feedback of ours and it keeps nothing, or there
is a newest, the last one if several are equal, `checkpoint` is its, and `Kept` is
the set of losses of its fields read so far; and none of the packets is at fault.
At the end this is `Meant`. If a fault comes, the parser keeps nothing, which is
also `Meant`, whatever the rest of the compound holds.

`FeedbackReadAsParsed` joins the two models. `CastRtp` expands a feedback in one step
(`Nacked`); this is what `RtcpFeedback` means by the compound of that one packet.
So the theorems about resends speak of what the parser returns.

**Discovery.** `MapInv`: the map of the code has one device a name, and is what
was heard, last address included. `MatchInv`: the first device that matches ends
the search. `LeftInv`: the reason the loop was left for stays true, as the clock
has stopped.

**The sinks.** `ThreadInv` places thread and caller against each other, on each
platform; `ReadyInv` counts the words on the readiness channel; `BrokenInv` says
that the thread ends because something broke or because it has to; `ComInv` ties
COM objects to the apartment of the thread that is in it.

**The session.** `SessionInv`, `ResourcesInv` and `MonitorInv` say what exists at
each statement of `run_with_device`, `ChannelInv` that without a loss the channel
ends by our own hand and empty. `LaunchInv` says that the app is launched at
most once and before its status is on its way, without which the STOP could
come before the app it stops; `UnloadInv` then follows the STOP from the farewell
to the receiver. `BlameInv` follows a CLOSE the other way. `JoinsAreTold` needs one fact
more, that dropping the channel raises its stop flag before the join.

**Only model-checked.**

* Liveness, since the prover has no rule for fairness here: `ChannelMoves`,
  `OverrunRecovers`, `EndReturns`, `StopReturns`, `Returns`, `BreakReachesRing`,
  `NewAndDropReturn`. Of two of them a part is safety, and proved: `StopIsFinal`
  and `JoinsAreTold` say that no join of `stop` or of the end of `run_with_device`
  waits for a thread that has not been told to end.
* In `RtcpFeedback`, the order of the list, and how often a frame is in it: `Meant`
  is a set. In `CastRtp` order and repetition only decide which resend comes first.

That `Session` runs on `CastChannel` as it does on `MessageChannel` is not a theorem
of its own: it rests on the refinement of `CastChannel`, whose safety is proved
and whose progress is checked.

## 5. Not modelled

* Conversions without state: Opus, AES-CTR, the layout of RTP and RTCP packets,
  the protobuf codec of the channel (a message is decoded, garbled or
  oversized), the conversion of WASAPI's samples to 16 bits.
* The contents of messages beyond what decides a step: JSON, the reasons an
  answer is rejected, key generation, the numbers of a sender report, the TXT
  records of a device.
* What happens inside TLS, COM, PipeWire, mDNS and the resolver: their calls
  succeed or fail.
* `list_capture_devices`, the command line, telemetry and printing, which change
  nothing the rest depends on, and the examples.
* Ctrl-C before its handler is installed (`pipeline.rs:136`): the process ends
  without unwinding, and the receiver sees a lost connection, which `Session`
  has at every step.
* `CastRtp` starts with both threads. `start` leaves the NACK thread out when the
  destination is not an IP address, which the pipeline never passes.

A slot of the RTP history is `frame_id % 120`, and 2^32 is not a multiple of 120.
Across the wrap-around of `frame_id` a slot can therefore be overwritten up to 16
frames late and keep a packet that has left the receiver's window of 128
(`cast_rtp.rs:24`). That takes over a year of one stream. It is outside the bounds
of `rtp`, whose 7 calls stay below its word of 12, and it is the hypothesis of
`ResendsFaithful`; every other theorem about `CastRtp` holds across wrap-around.

## 6. Plan

Done: the ring, the capture loop, the channel, the RTP sender, the virtual sinks,
the search for a device, and the session built on the abstract channel; both
refinements; and proofs of every safety property. What would come next:

1. A compound of several packets in `CastRtp`, in place of a single feedback:
   `ParserFaithful` says already what it would come to.
2. The liveness of `CastChannel` as that of `MessageChannel`, for all constants, when
   the prover can reason about fairness.
