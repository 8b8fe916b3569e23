# A TLA+ model of doubletake

doubletake mirrors a Linux desktop to AirPlay receivers. This directory holds
TLA+ modules translated from its Go source, the TLC configurations that check
them on small instances, and proofs that TLAPS checks for instances of any
size. `tlc -config X.cfg M` checks a run of `PROJECT.json`, `tlapm M_proofs.tla`
a module of proofs.

## Inventory

| component | source | state | operations | what is hard | what makes it correct | model |
|---|---|---|---|---|---|---|
| stream registry and connection goroutines | `internal/daemon/daemon.go` | `streams`, `pendingTarget`, `broadcast`/`capture`/`captureCancel`, one `activeStream` per stream | connect, submit PIN, disconnect one or all, status; each step of `connectAndStream`; start, share and end of the capture | every goroutine unlocks the mutex around network exchanges, user prompts and the capture start; what it read before may be gone after | a PIN goes to the stream that waits; a removed stream ends and leaves nothing open; one capture while there are streams and none otherwise | `Daemon` |
| capture fan-out | `capture_broadcast.go` | sinks with a pipe each, end of the broadcast | AddSink, RemoveSink, Run, Close | a pipe write waits for its reader, one after the other; sinks come and go meanwhile | each sink reads a gapless part of the capture and then its end | `BroadcastCapture` |
| screen capture and portal | `capture.go` | GStreamer process and its pipe, portal session, PipeWire descriptor | start with three requests to the portal, Read, Stop, the goroutine that waits | the user may take for ever; every step may fail with part of it open; Stop is called from two places | nothing is left of a start that failed or a capture that was stopped; a reader learns of the end | `Capture` |
| control channel | `client.go`, `digest.go` | connection, CSeq, cipher counters, digest challenge | requests, digest retry, encrypted frames | time-outs leave answers on the wire; counters on both ends | an answer belongs to its request; frames decrypt in order | `ControlChannel` |
| mirror session, media clock | `mirror.go`, `latency.go` | sockets, timing, event and data connections, workers, nonce, time of the last frame | set-up in two protocols, frames, heartbeats, feedback, Close | each step may fail with part of the resources open; Close comes while workers are in requests; two loops write on one connection; the clock is set back | all or nothing is open; the order the receiver wants; a data connection it can follow | `MirrorSession` |
| video framing | `mirror.go` | parser buffer, pending access unit, codec data | StreamFrames, parser, codec frame, video frame | a stream joins in the middle; parameter sets come late | every access unit once and whole, after a codec frame | `VideoFraming` |
| audio stream | `audio.go` | sequence, RTP time, nonce, retransmission ring; two goroutines; a capture process | packets, copies, announcements, the gate of the first frame | counters wrap; copies of old packets after new ones; packets get lost; stale audio in the pipe | what is announced is what is sent; losses are made good; no audio from before the video | `AudioStream` |
| event channel | `event_channel.go` | connection, two cipher counters, what is left of a frame | read, request, acknowledge; a goroutine that closes | frames end anywhere in requests; a read without deadline | each request acknowledged once, in order; both goroutines end | `EventChannel` |
| pairing, FairPlay, command line | `pairing.go`, `fairplay.go`, `cmd/doubletake/main.go` | keys and identity of a client, the receiver's memory of it | transient, PIN, verify, raw; FairPlay; fallbacks and reconnects | lost answers, what a receiver keeps of a failed exchange, credentials it has forgotten | both ends have the channel encrypted or neither; a run nothing goes wrong in streams | `Pairing` |
| credential store | `credentials.go`, `credentials_keyring.go` | map in memory, file or keyring | save, lookup, restore token, load | a crash while writing; a failed write | what is stored works and is not lost by saving something else | `Pairing` |
| mute requests | `daemon.go` `handleSetMute`, `mirror.go` `SetAudioMuted` | `audioMuted` of each stream, the receiver's volume | mute, unmute, of one or all | the receiver is told outside the mutex, the outcome recorded after | what status reports is what the receiver does | none |
| background discovery | `daemon.go` `backgroundDiscover`, `discovery.go` | device list, time each device was last seen | scan, merge, expire, list | the scan runs without the mutex | a device is listed while it was seen within the time to live | none |

The daemon's goroutines share one mutex, `Daemon.mu`. A request from
`doubletake-ctl` or the widget is one handler under the mutex. `connect` makes
an `activeStream` and starts `connectAndStream`, which talks to the receiver
(control channel, pairing, mirror session) without the mutex and takes it to
look whether its stream is still in the map and to publish what it has opened.
Video comes from one capture process; a goroutine (`BroadcastCapture.Run`)
copies it to a pipe for each stream. The end of that goroutine stops all streams.
A mirror session runs video, heartbeats, feedback, audio and the event channel
each in a goroutine of its own, on five sockets besides the control connection.
The command line does for one receiver what the daemon does for many.

## Modules

| module | what it is |
|---|---|
| `StreamLifecycle` | what a client of the daemon's socket can rely on: the states of each target's stream, the one that may be sent a PIN, whether the screen is captured |
| `Daemon`, `MCDaemon` | the registry, the PIN hand-off, the shared capture, and each goroutine's steps |
| `Daemon_proofs` | type correctness, the inductive invariant, the safety properties that follow, and that `Daemon` implements `StreamLifecycle` |
| `Capture`, `MCCapture` | the start of the screen capture through the portal, its process and its end |
| `Capture_proofs` | nothing is left of a capture, for any number of callers of Stop |
| `BroadcastCapture`, `MCBroadcastCapture` | the fan-out of one capture to the streams |
| `VideoFraming`, `MCVideoFraming` | what `StreamFrames` and the parser below it make of a capture that they may join late |
| `VideoPath_proofs` | the inductive invariants of these two, of the framing and of the fan-out, and their safety properties |
| `ControlChannel`, `MCControlChannel` | the requests and answers of one control connection |
| `ControlChannel_proofs` | its inductive invariant: own answers, counters, passwords, challenges |
| `MirrorSession`, `MCMirrorSession` | a session from the first socket to the last, with its workers and its data connection |
| `MirrorSession_proofs` | the inductive invariant of a session and its safety properties |
| `EventChannel`, `MCEventChannel` | the receiver's requests and their acknowledgements |
| `EventChannel_proofs` | its inductive invariant: nothing skipped, acknowledged in order, no end without a reason |
| `AudioStream`, `MCAudioStream` | audio from the wait for video to the end |
| `AudioStream_proofs` | its inductive invariant, the times of copies and announcements, losses made good |
| `Pairing`, `MCPairing` | runs of the program against a receiver: pairing, FairPlay, saved credentials |
| `Pairing_proofs` | its inductive invariant: credentials that work, none forgotten, ends that agree |

`Daemon` has the fan-out as two states, of the sink and of the goroutine that
runs it; `BroadcastCapture` has it piece by piece, and `Capture` the process
below it. `VideoFraming` starts where a sink of `BroadcastCapture` delivers:
somewhere in a picture, and without a gap from there, which is what `Gapless`
and `InStep` give it. `MirrorSession` has the control connection, the event
channel and the audio stream as outcomes of requests and as sockets;
`ControlChannel`, `EventChannel` and `AudioStream` have what goes on in them.

### Daemon

An element of `Entries` is an `activeStream` with its `connectAndStream`
goroutine; an element of `Captures` is a `BroadcastCapture` with the process
below it and the goroutine above it. Both sets bound what exists at one time:
a finished goroutine whose entry left the map is reused, so behaviours have any
number of connects. `pc` says which lock region or exchange a goroutine is
about to do. One action is one region under `Daemon.mu` together with the
unshared work before it, so the interleavings are those the mutex allows.

| code | model |
|---|---|
| `d.streams`, `d.pendingTarget`, `d.broadcast` (set and cleared with `capture`, `captureCancel`) | `streams`, `pendingTarget`, `broadcast` |
| `activeStream.state`, its context, `pinCh` | `state`, `cancelled`, `pinCh` (number of PINs in it) |
| local `client` and `session` | `conn`, open or not |
| the sink and the broadcast it is in | `sink` (open or not), `feed` |
| capture process, goroutine running the broadcast | `proc`, `run` |
| `handleConnect` with and without a waiting stream | `SubmitPIN`, `HandleConnect` |
| `handleDisconnect`, `stopAllLocked`, `removeStreamLocked`, `maybeStopBroadcastLocked` | `HandleDisconnect`, `DisconnectAll`, `StopAllLocked`, `RemoveStreamLocked`, `MaybeStopBroadcastLocked` |
| `connectClient`, pair-verify, transient pairing, PIN pairing, reconnect | `DialOK`, `InfoOK`, `PairOK`, `Reconnect`, `AfterInfo` |
| `waitForPIN` and the arms of its select | `WaitForPIN`, `TakePIN`, `CancelPINWait` |
| every error return | `GiveUp` |
| `getOrStartBroadcastLocked` (called, despite its name, without the lock) | `ReadBroadcast`, `AddSink`, `StartCapture`, `PublishBroadcast`, `DiscardCapture`, `LateAddSink` |
| the rest of `connectAndStream` | `SetupOK`, `SetupStale`, `StreamEnds`, `Cleanup` |
| the capture's goroutine | `RunEnds`, `StopAllAfterRun` |

`GiveUp` is what the error returns have in common, each of which closes what the
goroutine has opened: that a single one of them forgets to do so would not show.
The one that differs, of a stream removed during `SetupMirror` (`daemon.go:745`), is
`SetupStale`. `ReadBroadcast` is the lock region at 806 with the exchange before it,
`FairPlaySetup` (710), whose success needs an open connection; the goroutine
touches nothing shared between the two.

A network exchange ends well or in an error, at the model's choice, but not
well on a closed connection. Kinds of receivers appear only as the choices of
`AfterInfo`. A nil dereference ends the process (`panicked`, after which nothing
happens).

**Fairness** (`FairSpec` of `Daemon`). A goroutine at a network exchange goes on or gives
up: exchanges have deadlines. The start of the capture is excluded, since the
portal waits for its user without a limit and without the stream's context; a
PIN may never come, but a cancelled wait ends. A stream ends when something it
uses was closed or its context is cancelled. A stopped capture process ends its
broadcast, and the goroutine then stops the streams.

### BroadcastCapture

The capture is a sequence of numbered pieces; a read of it gives `Run` a chunk.
`base`, `len`, `off` locate the chunk and how much of it the sink `cur` has
taken; `todo` is what is left of the snapshot of `bc.sinks` (`sinks`). `got` is
the set of pieces a stream has read. A pipe is the set of its halves that were
closed (`pipe`): a write lasts until the reader has taken all of it or a half is
closed, and what a read then gives depends on which half (`PipeReadError`, from
the documented behaviour of `io.Pipe`). `AddSink`, `Close`, `Pump`,
`SourceEnds`, `NextSink`, `WriteDone`, `WriteFails` (`RemoveSink`), `CloseOne`
are the code's operations; `StartReading`, `Read`, `ReadFails`, `Leave` are what
a stream does with its sink. The order in which a snapshot is served is open,
which admits more behaviours than the code has. `FanInit`, `FanNext` and the like
are so named because `VideoPath_proofs` extends `VideoFraming` as well.

Fairness: `Run` does not stop between reads of the capture; a stream reads on or
stops (every send of `StreamFrames` has a deadline), its set-up ends (deadlines
again), and who stops closes the sink (each return path of `connectAndStream`,
`NothingLeftOpen`). The capture itself is not assumed to deliver anything.

### VideoFraming

The first three variables are the capture: access units of one or more slices,
parameter sets before each IDR picture (`config-interval=-1`), SEI and delimiter
optional. `Init` cuts the first access unit anywhere, as joining does. `annexB`
and `misread` are the parser: it gives a NAL unit once it has found the start
code of the next (`Parsed`, `Push`), so that `nals[1]` is in its buffer. Before the
first start code (`FindStartCode`) it takes what it has for length-prefixed
units: it drops its buffer, perhaps with half of the next start code
(`DropBuffer`), or makes units of the bytes of a slice (`Misreads`). The rest are
the locals of `StreamFrames`; each NAL type of its switch is an action that
includes the flush the code calls. A slice has its picture, its place and its
parameter sets, so that the properties can tell pictures apart while the code
sees only `part = 1` (first macroblock zero) and `idr`; NAL units of the other
types have the fields of their picture, of which the code sees the type and, of
a parameter set, `set`. Payloads, headers and
time stamps are left out.

`Frames` begins with the first codec frame of real parameter sets, since made-up
ones may open the gate before; where none were made up, that is the first frame
of all (`StartsDecodable`). A capture
that was not joined late begins with a start code; that it may be misread too
only adds behaviours.

### ControlChannel

A caller is a goroutine that calls `httpRequest`, `rawRequest` or `rtspRequest`:
`Call`, `Lock` (`c.mu`), `Send`, `ReadHeader` and `ReadBody` for each unit of the
answer, `ReadEnds` (the digest retry or the return), and `SendFails`,
`ReadFails`, `Expire` for the errors. A write that fails has its CSeq and its frames
counted (`Written`), as they are numbered before it; it fails on a connection that
is closed, where nothing follows it. `Frames` and `Bodies` give the lengths of
requests and answers in frames. `Paired` is what the pairing code does with a
result: encryption after the last answer of pair-verify (kind `verify`), none
after the two requests of raw pair-verify, and a closed connection after a
failure; every other failure leaves the connection in use, as the daemon, the
set-up and the feedback loop do. An answer with a 401 but no challenge counts as
any other error. The receiver (`Answer`, `Ignore`, `Disconnect`) is external:
answers are well formed, and arrive in order, late or not at all. The feedback
loop's requests may begin as soon as pairing is over, earlier than the code
starts them. The frame counters are not reduced modulo 2^64.

After a deadline within an encrypted frame, or a frame that does not open, the
rest cannot be told into frames again (`torn`), and every later read fails.

Fairness: a goroutine in a request goes on, if only because its read deadline
passes. The write has no deadline (`client.go:346`, 380, 438): that `Send` goes on
supposes that TCP takes a request of a few kilobytes, which it does until the
receiver has left as much unread as the socket buffers hold. Go's mutex is starvation free, so a waiting caller that finds it free
again and again gets it (strong fairness of `Lock`). Nothing is asked of the
receiver.

### Capture

| code | model |
|---|---|
| steps of `requestScreencast` and of `waitForResponse`, with the number of the request | `pc`, `req` |
| the D-Bus connection, the channel its signals are delivered to, the signal in it | `bus`, `watching`, `response` |
| the portal, with a request that it has not answered | `asked` |
| `cmd`, `waitCh` and the pipe of its output | `proc`, `stdout` |
| `ConnectSessionBus` and `GetProperty`, `Call`, `AddMatch` | `Connect`, `Call`, `Watch` |
| the `select` of the wait, the deferred `RemoveMatch`, `OpenPipeWireRemote` | `Receive` or `AwaitCancelled`, `GiveUp`, `OpenRemote` |
| `cmd.Start`, the end of the process, its context, `cmd.Wait` | `Spawn`, `SpawnFails`, `Exits`, `Kill`, `Wait` |
| `Read`, `Stop` | `Read`, `ReadData`, `ReadEnds`; `StopChecks`, `StopCloses`, `StopWaits` |

`Stop` looks at `sc.stopped` without a lock, so its callers (a deferred call and
the daemon's, or a signal handler) are processes. Fairness: the goroutines run
and a killed process dies. Neither the user nor the portal need ever answer, and
a call on the bus (`CallReturns`), which has neither a context nor a time-out, may
never return. So `Ends` promises of a cancelled start without a condition only that
it leaves the wait for the user, where the context is looked at; the end of the
whole start, and with it the `RemoveMatch` behind that wait, is stated for calls
that return. `Ends` asks nothing of the reader for the end of Stop, and of a
reader that is blocked when Stop comes that it gets an end.

### MirrorSession

| code | model |
|---|---|
| `c.encrypted`: PTP and a control SETUP, or a legacy receiver | `modern` |
| the phase of `setupMirrorSession`, the port ranges tried, the last response | `step` (ordered by `After`), `tries`, `told` |
| the three UDP sockets, the event and the data connection | `sock` |
| `sessionCtx`; whether there is an `audioStream` | `live`, `audio` |
| `firstFrameSent`, `lastFrameTimestamp`, `chachaNonce` | the same, `lastTimestamp`, `nonce` |
| `StreamFrames`, `dataHeartbeatLoop`, `feedbackLoop`, `Close` | `video`, `beat`, `feed`, `closing` |
| the receiver: parts of its session; what it reads on the data connection | `rx`, `link` |
| each phase, with its error returns and the deferred clean-up | the disjuncts of `SetupStep`, with `Fail` |
| `frameTimeNow`, `sendCodecFrame`, `sendFrame`, `sendHeartbeat` | `BeginFrame` with `FrameTime`, `SendCodecFrame`, `SendFrame`, `Beat` |
| the feedback request and `mediaClock.reanchor` | `Feedback`, `FeedbackAnswered` |
| `Close`: cancel, wait for workers, TEARDOWN, sockets | `Close`, `AwaitWorkers`, `Teardown`, `Release` |

A request fails with or without effect at the receiver. A write on the data
connection goes out whole, in part or not at all; `link` keeps what a receiver
can tell: its first packet, the packet that was cut short, what came behind it,
the frames before it and the time of the last.

Fairness: requests, dials and writes have deadlines, so set-up and `CloseStep`
go on; a worker looks at its context when it wakes up. `feedbackLoop` meets its
cancelled context only between two requests and `select` picks at random among
what is ready, hence strong fairness of its end. Nobody has to call Close.

### EventChannel

The receiver (`Request`, `Garble`, `Frame`, `Acknowledged`, `HangUp`) is external. It
cuts its plaintext into frames wherever it likes, each sealed with a key and a
counter. `Read` is `eventChannel.Read`, with `readBuf` for what is left of a
frame there and in the `bufio.Reader`; `ReadLine`, `ReadHeaders`, `SkipBody` and
`Respond` are `readEventRequest` and the acknowledgement of `serveEventChannel`,
`Return` its ends, `Watch` the goroutine beside it. Fairness: both goroutines run, and the
network delivers as long as the receiver stays. A receiver that says nothing
ends nothing: the server is then in a read without deadline, and `GoroutinesEnd`
needs the context.

A request is its request line, its headers and the units of its body, so that a
frame may end within the header, behind the line, as well as within the body. The
headers and each unit of body know how much of the body follows. The server reads
that only from the headers (Content-Length); of the body it is there for
`NothingSkipped`, which follows the plaintext from where the server stands
(`Parsed`) through what it has read, the frames on their way and what is not
framed yet up to the last request made (`Written`).

### AudioStream

| code | model |
|---|---|
| `AudioCapture`: its process; the frames captured and not read, TRUE for those from before there was video | `capture`, `pipe` |
| the pipe with its blocked writer, then the leaky queue before that | the first `PipeMax` and the last `QueueMax` elements of `pipe` |
| locals of `StreamAudio` | `pc`, `frameSeq`, `nextRtp`, `ring`, `index`, `burstDone`, `stale` |
| `AudioStream.rtpTime`, `chachaNonce` | `rtpTime`, `nonce` |
| the wait for `firstFrameSent`, one read of `DrainStale` | `Start`, `DrainStale` |
| the look at the context, the blocking read and its two ends | `BeginRead`, `ReadFrame`, `ReadFails`; `EndStream` |
| the copy of an old frame, the new one, a packet that cannot be written | `Resend`, `Send`, `SendFails` |
| the goroutine of the sync packets, the listener on the control port | `sync`, `announced`, `listener` |
| the network and the receiver | `losses`, `losing`, `got` |

A frame captured while the pipe is full waits in the queue, which drops its
oldest; what waits there is written, stale, as soon as the drain makes room.
`StreamAudio` looks at its context in the wait for video and between two frames. A
read is blocked until there is a frame or the capture's pipe is closed, and a
cancelled context does not end it: only the exit of the capture or its Stop does.

The network drops one run of at most `MaxLoss` packets. `RtpMod` stands for
2^32 and `Depth`, `Spf` for 8 and 352: `RangeAssumption` says what the comparison
of RTP times needs, that a copy is less than half the range old. Two things are
idealised. The drain ends when nothing comes for 2 ms (`audio.go:209`); in the model it
ends when nothing is left, which takes for granted that the writer fills the room that
a read has made within that time. And a frame has a number, of which the packet
carries 16 bits (`audio.go:782`): no code here compares these.

Fairness: the goroutines run. A stream whose context is cancelled is also closed
(`NothingLeftOpen` and `RemovedStreamsEnd` of `Daemon`) and its capture stopped:
`connectAndStream` defers `AudioCapture.Stop` (`daemon.go:773`) and does not wait for
`StreamAudio` before it, and the process is bound to the context. Nothing makes the
process write a frame or exit. `AudioEnds` rests on that Stop, and its mutant
lets it wait for `StreamAudio`.

### Pairing

A behaviour is up to `MaxRuns` runs of the program against one receiver, of one
of five kinds (`AllKinds`). `pc` is the exchange under way, `way` how the program
tries to pair; `cl` and `rc` are the two ends of the connection, `paired` what the
receiver remembers, `mem` and `file` the entry of the credential store.
`Grants` says which exchange a receiver grants, `Acts` what it then does,
`AfterError` where each failure leads; `LookupFails` is a keyring that cannot be
read, which the code takes for no credentials (`credentials.go:78`) and pairs anew. `AnswerLost` is the case that matters most:
the receiver has acted and the sender does not know. `BackendSave`, `Persist` and
`PersistFails` are the two backends, where the file is truncated (`Torn`) before it
is written; `Killed` may come between. SRP, Ed25519 and HKDF are ideal: a key is
told by where it comes from. Fairness: requests have deadlines, and the user
answers prompts; nothing is asked of the receiver.

## Runs

| run | instance | question |
|---|---|---|
| `daemon` | 2 targets, 2 goroutines, 2 captures at a time | `IInv` (types, PIN, cancellation, captures), `NeedsPINIsAnswerable`, `NoOrphanCapture`, `NothingLeftOpen`, `RemovesOnlyItself`; `ImplementsLifecycle` |
| `daemon_live` | 1 target, 2 goroutines, 1 capture, `FairSpec` | removed streams end, connections go on, no stream outlives its capture |
| `daemon_leak` | as `daemon` | a documented promise that the code breaks, see below |
| `fanout` | 2 sinks, chunks of up to 2 of 4 pieces, `FanFairSpec` | the inductive invariant; gapless, in step; writes end, readers learn of the end |
| `capture` | 2 callers of Stop, `FairSpec` | nothing left of a start that failed or a capture that was stopped; a cancelled start leaves its wait, and ends if calls on the bus return; Stop returns |
| `video` | 4 pictures, up to 2 slices, 2 versions of the parameter sets, 3 made-up NAL units, `FairSpec` | whole, ordered, complete and decodable frames; every picture is shown from the first whole keyframe on |
| `control` | 2 callers, 4 requests or, with a password, 6, `FairSpec` | own answers, counters at both ends, the right password, challenges, every call returns |
| `control_stale` | the same, `Spec` | after a time-out a request returns another's answer, see below |
| `session` | 2 port ranges, 2 frames, 2 ticks of the clock, `FairSpec` | no socket lost, order of requests, TEARDOWN last, a data connection that can be followed, frame times, Close returns |
| `events` | 2 requests with up to 2 units of body, frames of up to 4 units, `FairSpec` | nothing skipped, requests acknowledged once and in order, counters at both ends, no end without a reason; both goroutines end |
| `audio` | ring of 3, RTP times modulo 32, runs of 3 lost packets, a pipe of 1 and a queue of 2, 8 frames, `FairSpec` | one time for all copies of a frame, no stale audio, losses made good, the announced time, the end |
| `pairing` | all 5 kinds of receiver, 3 faults, 3 runs, `FairSpec` | stored credentials work and are not lost, both ends agree on encryption and key, a run without faults streams |

Bounds of `daemon`: two goroutines are what races need (two starts of a
capture, a stream and its successor, two devices that want a PIN), and two
captures let an old one end while a new one runs. Since entries and captures are
reused, histories are not bounded. Targets, entries and captures are
interchangeable, so the safety runs use symmetry; the liveness run does not.

Bounds of `fanout`: one sink is served while the other waits, was removed or has
just come; four pieces are two full chunks or four short ones, so that each sink
can miss a chunk between two that it gets. `capture`: two callers may both find
`stopped` unset, a third would do what one of them does; nothing else is bounded.

Bounds of `video`: a picture of which only the end was seen, a keyframe, a
picture that refers to it, and one more that ends it; two slices are a first and
a last; three made-up units are two parameter sets and a slice, which open the
gate. The fourth picture is there to push the third out of the parser, so
`PicturesShown` is about the second.

Bounds of `control`: a pairing request and then one of each caller at once, each
sent twice if the receiver is protected; two nonces are one that expires and the
next; a body of one piece can be left behind.

Bounds of `session`: two ranges are one that is given up and one that is taken;
two frames are one with the codec frame before it and one without, between which
the clock can be set back from 2 to 0; heartbeats and feedback are not bounded.
`events`: a request is two to four units, so that a frame of four holds a whole one,
or the end of one and the line or the headers of the next, or ends at any place in
one; what more requests and longer bodies add is left to the proof of `IInv`.
`audio`: a pipe of one frame and a queue of two, the size in the code, hold a frame
back and drop another; eight frames go round the ring twice and, from one of the
epochs, over the end of the RTP times; a run of `Depth` lost packets is the longest
that copies can make good. `pairing`: a run in which something goes wrong, one that
meets what it has left behind, and one more; three faults are a lost answer in each
of two attempts and a failed write.

`CHECK_DEADLOCK FALSE` stands in each configuration because each of these
really stops: the process ends (`panicked`), a capture or session is over, the
bounded input has been used up.

The definitions marked "Faulty" in the modules are not part of them: each changes
the definition below it the way a plausible mistake in the code would, and
`PROJECT.json` names the property that finds the mistake.

### Where the code and its promises differ

Shown by a run:

* `daemon_leak`: the broadcast is "nil when no streams active" (`daemon.go:119`).
  A stream removed while its capture starts publishes the capture afterwards,
  and the failure path of `SetupMirror` does not stop it.
* `control_stale`: "returns the response body" (`client.go:295`). No CSeq is
  compared; a request that timed out leaves its answer to the next, and so on
  for as long as the connection lasts. `OwnAnswerInTime` shows that nothing else
  brings answers out of step.

Read, in the models where these have the state, and not put to a run:

* Daemon. "At most one device waits for a PIN at a time" (`daemon.go:123`), but a
  cancelled wait clears `pendingTarget` by name (634), also when a newer stream
  to that target owns it. "Use the existing one" (852) reads `d.broadcast` again
  after an unlock and a wait; it may be nil by then (`panicked`). The end of a
  capture (868) stops all streams, those of the next capture too, where the
  repository's README (242) says of a disconnect that it stops only that receiver.
* Mute. Two requests for one stream may reach the receiver in one order and be
  recorded in the other.
* Fan-out. The reader of a closed sink gets `ErrClosedPipe` and not the EOF of
  the comments (`capture_broadcast.go:173`, `177`); `Run` drains the capture when
  all sinks are gone, where its comment says that it returns (72); a sink added
  after `Run`'s last snapshot is closed by the goroutine above it and not by `Run`,
  which `StreamsEndWithCapture` covers.
* Capture. The calls on the bus (`capture.go:761`, 805, 827, 913, `AddMatch` at 972,
  `GetProperty` at 1010, the deferred `RemoveMatch` at 975) do not have the context of
  `StartCapture`: a portal that is there and silent holds a start up that was
  cancelled long ago, and with it the connection goroutine of the daemon.
  A Response that the portal emits before the signal channel is
  registered (`capture.go:968`) is lost, and the start waits until its context is
  cancelled. `cmd.Wait` closes the pipe of the output, so that what the process
  wrote last may not be read. A second Stop that finds `stopped` set returns before
  the first is done; two that find it unset both run.
* Video. Until the first start code the parser takes payload for length-prefixed
  units (`mirror.go:1025`). What it makes of them can open the gate of a stream that
  joined late, whose codec frame is then no parameter set at all; the next
  keyframe with parameter sets ends this. The last NAL unit of a capture stays in
  the parser. A keyframe that the gate drops leaves `pendingKeyframe` set, which
  the properties tolerate.
* Control. An HTTP retry after an expired nonce carries two Authorization headers
  (`client.go:311`), where `rtspRequest` replaces the first, so
  `RightPasswordAccepted` is stated for RTSP requests; the encrypted reader does not
  check Content-Length.
* Session. A set-up that fails sends no TEARDOWN for what the receiver has
  already set up. A heartbeat that times out within its header ends the
  heartbeats only, and the next frame is written behind the fragment
  (`mirror.go:1561`): `CutEndsWriter` is what holds, not that nothing follows.
  `firstFrameSent` is closed by the codec frame, before the frame. The event port
  of the video SETUP's response is never used, as the event channel is
  connected before or given up.
* Audio. When `StreamAudio` fails, its announcements go on until the stream ends.
* Credentials. `os.WriteFile` truncates before it writes (`credentials.go:176`): a
  crash between leaves a file that every later start ends on (`LoadFails`), and
  with it the pairings of all receivers are gone. `NothingForgotten` and
  `Recovers` exclude that state and say so.

## Proofs

### Daemon

Everything here holds for any sets `Targets`, `Entries` and `Captures`; the only
assumption is that the null values are not elements of them. The invariant
`IInv` has five parts, each about one subject: the types; `EntryInv`, where a
goroutine stands when its entry has a state, a PIN or resources, and that it is
cancelled exactly when out of the map; `MapInv`, that the map and the entries'
targets agree and that `pendingTarget` names a stream that waits; `FeedInv`, that
a reference to a capture is to one nobody else knows, or, for streams in the
map, to the daemon's; `CaptureInv`, that the daemon's capture is live and that
every other running process is about to be published or stopped. None of the
safety properties is inductive alone: that a PIN never blocks needs that only a
waiting entry has one; that no capture is left over needs that a loser's
capture is known to it alone.

`Daemon_proofs` shows `Init => IInv` and, one leaf or small proof for each
action, `IInv /\ [Next]_vars => IInv'`, with lemmas for the helpers that several
actions call (`StopAllRegistry`, `StopAllCapture`, `RemoveStreamRegistry`). The
properties the runs check follow by expanding definitions. `Refinement`
maps each action to an action of `StreamLifecycle` or to a stutter; the lemma
`RemoveDrops` is the only place where the end of the capture has to agree with
the end of the last stream.

### MirrorSession

For any number of port ranges, frames and clock values. `IInv` adds to its
properties two parts that make it inductive: `Reached`, what each phase of the
set-up leaves behind in the sockets and at the receiver, and `Workers`, where the
loops are when a packet was cut, when there is a codec frame and when Close is
under way. `NothingLost` alone is not inductive: that Close knows every open
socket rests on what the phases have closed before. Two of the conjuncts came
from the proof: that a range is only asked for while there are ranges left, and
that nothing is behind a cut before there is one. The proof goes through the
parts (`Flags`, the response, `States`, then `Reached` and `Workers`), each with a
case for every action; lemmas say once what a request (`SetupRequests`) and a
write (`Wrote`) do. `NothingLost`, `TeardownLast` and `CutEndsWriter` follow;
`TimesIncrease`, an action property, follows from `link.time < lastTimestamp` while a
frame is being sent.

### Capture

For any number of callers of Stop. `Held` says what exists at each step of the
start, of the process and of a Stop; with it `NothingLeft` and `SessionKept` are
inductive.

### VideoFraming

For any parameter sets, any number of slices of a picture and any length of the
capture, wherever a stream joins it and whatever the parser makes of what it
joined in. All that is assumed is that the stand-ins for no parameter set and for
a made-up one are not among the parameter sets, and that the bounds are numbers.

`WholeUnits` and `NoUnitMissing` are about frames that have gone out; that the
next will be whole too depends on what has been collected, on what the parser
gives next and on what the encoder writes. The parts of `IInv` follow the NAL
units along this way:

* `Capture`: those still to come are a chain, each the one after the one before
  (`Follows`), up to the last slice of an access unit;
* `Synchronised`: from the first real parameter set on, `StreamFrames` is in step
  with the NAL unit that comes next (`Abreast`): it has collected all slices of the
  same access unit before it, or all of the access unit before, or, where
  the unit before has been sent (`Cleared`), nothing; a keyframe is pending
  exactly when what was collected is one, and its parameter sets are the latest;
* `Gated`: before that nothing real was sent, so that a P slice is dropped until
  there has been a keyframe; and a gate that is open has sent something;
* `Joined`, `UpToDate`: each video frame is the access unit after the one before, of
  which at most a codec frame separates it, and the last is the one before what
  is collected.

`HeadAndSlices` and `AccessUnitChained` show that what the encoder writes is such a chain, and
the lemmas behind them that it stays one when its head is taken or the next access
unit is appended. What a flush sends is treated once: `SoundSent` for one that
passes the gate in step, `CodecSent` for a send that breaks off behind the codec
frame, `Flushes` for all. Then there is one lemma for each type of NAL unit, in
step (`...InStep`) and before. `OneBehind` is no part of `IInv` but follows from it
(`Lag`), as `NoUnitMissing` does (`NoneBetween`).

### BroadcastCapture

For any set of sinks, any chunk size and length of the capture. `FanInv` says that
the pieces an open sink has got reach without a gap up to a mark (`Reached`),
which is the last piece handed out for those that were served, the end of the
last chunk for those that wait, and inside the chunk for the one that reads. A
gapless set alone is not inductive: the next piece must be known to join on.
`NoGaps`, `Lockstep` and `Once` follow.

### ControlChannel

For any set of callers, any number of requests and of the receiver's nonces, and
any lengths of requests and answers; that a request has a positive number of
frames and an answer an end is all that is assumed of `Frames` and `Bodies`. Next
to what the run asks (`CountersAgree`, `ChallengedOncePerNonce`,
`RightPasswordAccepted`, `OwnAnswerInTime`) the invariant says

* `Phases`: which requests are made in which phase, and that only a session is
  encrypted;
* `Framing`: in each direction plain units come before sealed ones, and those are
  numbered without a gap from the reader's counter to the writer's; the counters
  of an end that is not encrypted are 0, so that pair-verify has none to carry over;
* `Alone`: as long as no deadline has passed, nothing is on its way but the request
  of the mutex's holder or what is left of its answer;
* `Digests`: a first request carries the cached challenge and its retry the
  receiver's nonce, and each nonce makes for one challenge until that is cached.

`OwnAnswerInTime` alone says nothing of the answer that has not come yet;
`CountersAgree` nothing of the frames between the ends. `OwnAnswers`,
`CountersAlwaysAgree`, `RightPasswordIsAccepted` and `ChallengedOnce` follow.

### EventChannel

For any number of requests, any length of bodies and of frames. `IInv` has, besides
the types and where the server stands (`Phases`), that every frame on its way
will open (`Numbered`), that requests are acknowledged in the order they were made
(`AcknowledgedInOrder`), `NothingSkipped` as a chain from unit to unit, and
`EndsWithReason`. They need each other: that the CSeq of the next request is the one
to acknowledge next follows from the chain; that the server does not end on a
frame that fails to open, from the counters; that it ends on nonsense only if
the receiver has written some, from the chain again, since nothing follows it.
The lemmas `JoinedFirst`, `JoinedConcat` and `JoinedCut` say what becomes of such a chain
when a unit is taken from it, when something is appended and when it is cut into
a frame and the rest. `FramesOpen`, `InOrder`, `Gapless` and `NoEarlyEnd` name the
parts.

### AudioStream

For any depth of the ring, samples in a frame, epochs, sizes of pipe and queue and
number of frames, under `RangeAssumption`. `Timeline` has the RTP time of a frame in closed form, reckoned
back from the next (`RtpOf`); `Ring` which frame each slot holds; `Drained` that no
audio from before the video is left once frames are read; `Covered` that a frame
which is missing was lost by the one run of losses, and that this is over before
the frame's copy is sent. The lemmas on `%` carry times over a step of the clock
and over the end of their range. `ClockFollowsFrames` and `CopiesAlwaysAgree`
hold without a condition; `AllRecovered` assumes that a run of losses is no longer
than the ring, `MaxLoss <= Depth`: copies make good no more than that, and the run
has the largest such number.

### Pairing

For any number of runs and faults, and any of the kinds of receiver. The safety
properties are not inductive: what is saved was taken in with a PIN because of
what happened on the connection before, and nothing is lost by a save because
the entry in memory has all that was ever stored. `Held` says this for each step,
and which exchange, secret and stream key a connection in use has behind it.
`ChannelsAgree`, `NothingIsForgotten` and `CredentialsAreTakenIn` follow.

### What is not proved

Of the theorems, `TypeCorrect`, `PINSendSafe`, `Cancellation`, `Once`, `NothingIsLeft`,
`CountersAlwaysAgree`, `ChallengedOnce`, `FramesOpen`, `InOrder`, `Gapless`, `NoEarlyEnd`,
`CopiesAlwaysAgree` and `CredentialsAreTakenIn` state parts of the invariants by name;
the others state properties of the runs.

Model-checked only:

* the liveness properties, since TLAPS does no fairness reasoning here;
* the runs that show a violation.

## Not modelled

* Mute requests: what two of them promise together is what the code does not
  keep (see above), and a single one is a request of `ControlChannel`.
* Background discovery: browsing is I/O; what remains is a map under a mutex with
  one writer.
* The daemon's socket and its shutdown: one request and reply for each connection;
  what requests do is in `Daemon`.
* The cipher tables of FairPlay, the bit layout of ALAC, headers and property
  lists: fixed-size transformations without a state machine; a model would repeat
  the code. The same goes for SRP, Ed25519 and HKDF, taken as ideal.
* The GStreamer command lines and the choice of an encoder, the command line's
  flags, the replay tool, the Plasma widget.

## Plan

In this order.

1. For `ControlChannel`, an abstract request/answer specification that it
   implements as long as no request times out, and `MirrorSession` on top of it.
2. `Mute`: concurrent mute and unmute of several streams against the receivers'
   volume, with failures and streams that come and go.
3. Pure algorithms against reference definitions: the start code search on any
   cut of its input, TLV8, compact time stamps.

