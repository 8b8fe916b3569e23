------------------------------- MODULE Daemon -------------------------------
(***************************************************************************)
(* The stream registry of the control daemon, internal/daemon/daemon.go:   *)
(* the map of active streams, the PIN hand-off, the shared screen capture, *)
(* and the goroutines that work on them.                                   *)
(*                                                                         *)
(* An element of Entries is one activeStream together with the             *)
(* connectAndStream goroutine that owns it; an element of Captures is one  *)
(* BroadcastCapture together with the ScreenCapture below it and the       *)
(* goroutine that runs it.  Both are recycled once nothing refers to them, *)
(* so the two sets bound what exists at one time and not what ever exists. *)
(*                                                                         *)
(* One action is one region under Daemon.mu, with the work on unshared     *)
(* state before it, or one step outside the mutex.  A network exchange     *)
(* ends well or ends in an error, at the model's choice; it cannot end     *)
(* well on a connection that has been closed.                              *)
(***************************************************************************)

EXTENDS Naturals

CONSTANTS Targets, Entries, Captures, NoTarget, NoEntry, NoCapture

ASSUME NullAssumption == /\ NoTarget \notin Targets
                         /\ NoEntry \notin Entries
                         /\ NoCapture \notin Captures

VARIABLES
  \* Daemon: streams, pendingTarget, and broadcast, which is set and cleared
  \* together with capture and captureCancel.
  streams, pendingTarget, broadcast,
  \* activeStream: deviceIP, state, whether its context is cancelled, and how
  \* many PINs were sent to pinCh and not taken.
  target, state, cancelled, pinCh,
  \* Locals of connectAndStream: where it stands, which attempt at pairing
  \* it is on, whether its control connection is open (with its mirroring
  \* session, once there is one), and its sink: the broadcast it is
  \* registered with and whether it is open.
  pc, attempt, conn, feed, sink,
  \* Captures: the capture process has not been stopped; where its goroutine is.
  proc, run

daemonVars  == <<streams, pendingTarget, broadcast>>
entryVars   == <<target, state, cancelled, pinCh>>
localVars   == <<pc, attempt, conn, feed, sink>>
captureVars == <<proc, run>>
vars == <<daemonVars, entryVars, localVars, captureVars>>

State == {"connecting", "pin_required", "streaming"}
Attempt == {"with_pin", "fresh", "verify_failed", "transient_failed"}
Label == {"dial", "info", "verify", "transient", "askPIN", "pinWait", "pairPIN",
          "fairplay", "addSink", "startCapture", "publish",
          "discard", "lateAddSink", "setup", "streaming", "cleanup", "giveUp",
          "done", "panicked"}

\* A panic in any goroutine ends the process.
Alive == \A e \in Entries : pc[e] # "panicked"

\* d.streams[target] == entry
Current(e) == \E t \in Targets : t = target[e] /\ streams[t] = e

NoStreams(s) == \A t \in Targets : s[t] = NoEntry

\* Nothing refers to the entry or to the capture any more.
FreeEntry(e) == pc[e] = "done" /\ \A t \in Targets : streams[t] # e
FreeCapture(c) == /\ ~proc[c]
                  /\ run[c] = "idle"
                  /\ \A e \in Entries : feed[e] # c

Init ==
  /\ streams = [t \in Targets |-> NoEntry]
  /\ pendingTarget = NoTarget
  /\ broadcast = NoCapture
  /\ target = [e \in Entries |-> NoTarget]
  /\ state = [e \in Entries |-> "connecting"]
  /\ cancelled = [e \in Entries |-> TRUE]
  /\ pinCh = [e \in Entries |-> 0]
  /\ pc = [e \in Entries |-> "done"]
  /\ attempt = [e \in Entries |-> "fresh"]
  /\ conn = [e \in Entries |-> FALSE]
  /\ feed = [e \in Entries |-> NoCapture]
  /\ sink = [e \in Entries |-> FALSE]
  /\ proc = [c \in Captures |-> FALSE]
  /\ run = [c \in Captures |-> "idle"]

-----------------------------------------------------------------------------
\* The shared helpers, called with Daemon.mu held.

\* Faulty: the broadcast stays published.
StopCaptureOnly ==
  /\ broadcast' = broadcast
  /\ proc' = [c \in Captures |-> proc[c] /\ c # broadcast]

\* d.capture.Stop(), d.captureCancel() and clearing the three fields.
StopCapture ==
  /\ broadcast' = NoCapture
  /\ proc' = [c \in Captures |-> proc[c] /\ c # broadcast]

\* s is the map of streams as the caller leaves it.
MaybeStopBroadcastLocked(s) ==
  IF NoStreams(s) THEN StopCapture ELSE UNCHANGED <<broadcast, proc>>

\* Faulty: a removed stream keeps the turn to get a PIN.
RemoveStreamKeepsTurn(t) ==
  LET s == [streams EXCEPT ![t] = NoEntry]
  IN  /\ streams' = s
      /\ pendingTarget' = pendingTarget
      /\ cancelled' = [e \in Entries |-> cancelled[e] \/ streams[t] = e]
      /\ MaybeStopBroadcastLocked(s)

\* Faulty: the goroutine is not told.
RemoveStreamNoCancel(t) ==
  LET s == [streams EXCEPT ![t] = NoEntry]
  IN  /\ streams' = s
      /\ pendingTarget' = IF pendingTarget = t THEN NoTarget ELSE pendingTarget
      /\ cancelled' = cancelled
      /\ MaybeStopBroadcastLocked(s)

RemoveStreamLocked(t) ==
  LET s == [streams EXCEPT ![t] = NoEntry]
  IN  /\ streams' = s
      /\ pendingTarget' = IF pendingTarget = t THEN NoTarget ELSE pendingTarget
      /\ cancelled' = [e \in Entries |-> cancelled[e] \/ streams[t] = e]
      /\ MaybeStopBroadcastLocked(s)

\* An entry's client is published as soon as it is connected, its session and
\* its sink only when it starts streaming: this is what another goroutine can
\* close of it.
CloseEntries(S) ==
  /\ conn' = [e \in Entries |-> conn[e] /\ e \notin S]
  /\ sink' = [e \in Entries |-> sink[e] /\ ~(e \in S /\ state[e] = "streaming")]

StopAllLocked ==
  LET all == {e \in Entries : \E t \in Targets : streams[t] = e}
  IN  /\ pendingTarget' = NoTarget
      /\ cancelled' = [e \in Entries |-> cancelled[e] \/ e \in all]
      /\ CloseEntries(all)
      /\ streams' = [t \in Targets |-> NoEntry]
      /\ StopCapture

\* What status, and every other reply, gives as the daemon's state.
OverallState ==
  LET states == {state[e] : e \in {x \in Entries : \E t \in Targets : streams[t] = x}}
  IN  IF pendingTarget # NoTarget THEN "pin_required"
      ELSE IF "streaming" \in states THEN "streaming"
      ELSE IF "connecting" \in states THEN "connecting"
      ELSE "idle"

-----------------------------------------------------------------------------
\* Requests on the control socket.

\* handleConnect, a new stream to t: named by the request, or picked because no
\* stream to it exists.  A request with a PIN gets here only when no device
\* waits for one.
HandleConnect(t, withPIN) ==
  /\ Alive
  /\ streams[t] = NoEntry
  /\ withPIN => pendingTarget = NoTarget
  /\ \E e \in Entries :
       /\ FreeEntry(e)
       /\ streams' = [streams EXCEPT ![t] = e]
       /\ target' = [target EXCEPT ![e] = t]
       /\ cancelled' = [cancelled EXCEPT ![e] = FALSE]
       /\ pc' = [pc EXCEPT ![e] = "dial"]
       /\ attempt' = [attempt EXCEPT ![e] = IF withPIN THEN "with_pin" ELSE "fresh"]
  /\ UNCHANGED <<pendingTarget, broadcast, state, pinCh, conn, feed, sink, captureVars>>

\* handleConnect with a PIN while a device waits for one.  The branch for a
\* waiting entry that has gone is left out: NeedsPINIsAnswerable shows that it
\* is never taken.
SubmitPIN(t) ==
  /\ Alive
  /\ pendingTarget = t
  /\ \E e \in Entries :
       /\ streams[t] = e /\ state[e] = "pin_required"
       /\ pinCh' = [pinCh EXCEPT ![e] = @ + 1]
       /\ state' = [state EXCEPT ![e] = "connecting"]
  /\ pendingTarget' = NoTarget
  /\ UNCHANGED <<streams, broadcast, target, cancelled, localVars, captureVars>>

\* handleDisconnect of one target.
HandleDisconnect(t) ==
  /\ Alive
  /\ streams[t] # NoEntry
  /\ CloseEntries({streams[t]})
  /\ RemoveStreamLocked(t)
  /\ UNCHANGED <<target, state, pinCh, pc, attempt, feed, run>>

\* handleDisconnect without a target, and the part of Shutdown before the
\* process exits.
DisconnectAll ==
  /\ Alive
  /\ StopAllLocked
  /\ UNCHANGED <<target, state, pinCh, pc, attempt, feed, run>>

-----------------------------------------------------------------------------
\* connectAndStream.

At(e, labels) == pc[e] \in labels /\ Alive

Goto(e, l) == pc' = [pc EXCEPT ![e] = l]

\* The goroutine returns: its locals are gone, and with its stream out of the
\* map the entry is garbage.
Return(e) == /\ Goto(e, "done")
             /\ attempt' = [attempt EXCEPT ![e] = "fresh"]
             /\ feed' = [feed EXCEPT ![e] = NoCapture]
             /\ target' = [target EXCEPT ![e] = NoTarget]
             /\ state' = [state EXCEPT ![e] = "connecting"]
             /\ pinCh' = [pinCh EXCEPT ![e] = 0]

\* Faulty: the sink is forgotten.
CloseConnOnly(e) == conn' = [conn EXCEPT ![e] = FALSE] /\ sink' = sink

CloseOwn(e) == /\ conn' = [conn EXCEPT ![e] = FALSE]
               /\ sink' = [sink EXCEPT ![e] = FALSE]

\* Faulty: whatever the map holds for the target is removed.
RemoveWhoever(e) ==
  IF streams[target[e]] # NoEntry
  THEN RemoveStreamLocked(target[e])
  ELSE UNCHANGED <<streams, pendingTarget, cancelled, broadcast, proc>>

\* The closure removeStream: only the entry that is still in the map.
RemoveStream(e) ==
  IF Current(e)
  THEN RemoveStreamLocked(target[e])
  ELSE UNCHANGED <<streams, pendingTarget, cancelled, broadcast, proc>>

\* connectClient up to the publication of the client.
DialOK(e) ==
  /\ At(e, {"dial"})
  /\ Current(e)
  /\ conn' = [conn EXCEPT ![e] = TRUE]
  /\ Goto(e, "info")
  /\ UNCHANGED <<daemonVars, entryVars, attempt, feed, sink, captureVars>>

\* Where pairing goes once the receiver's info is there.  A fresh attempt
\* depends on the saved credentials; what follows a failed pair-verify, on
\* whether the receiver asks for a PIN; a failed transient pairing leads to
\* the PIN in any case.
AfterInfo(a) ==
  [with_pin         |-> {"pairPIN"},
   fresh            |-> {"verify", "askPIN", "transient"},
   verify_failed    |-> {"askPIN", "transient"},
   transient_failed |-> {"askPIN"}][a]

\* The rest of connectClient, and the choice of the way to pair.
InfoOK(e) ==
  /\ At(e, {"info"})
  /\ Current(e) /\ conn[e]
  /\ \E l \in AfterInfo(attempt[e]) : Goto(e, l)
  /\ UNCHANGED <<daemonVars, entryVars, attempt, conn, feed, sink, captureVars>>

\* PairVerify, transient Pair, Pair with a PIN.
PairOK(e) ==
  /\ At(e, {"verify", "transient", "pairPIN"})
  /\ conn[e]
  /\ Goto(e, "fairplay")
  /\ UNCHANGED <<daemonVars, entryVars, attempt, conn, feed, sink, captureVars>>

\* Faulty: the way that failed is tried again.
ReconnectAlike(e) ==
  /\ At(e, {"verify", "transient"})
  /\ conn' = [conn EXCEPT ![e] = FALSE]
  /\ Goto(e, "dial")
  /\ UNCHANGED <<daemonVars, entryVars, attempt, feed, sink, captureVars>>

\* PairVerify or transient pairing failed: reconnect and try the next way.
Reconnect(e) ==
  /\ At(e, {"verify", "transient"})
  /\ conn' = [conn EXCEPT ![e] = FALSE]
  /\ attempt' = [attempt EXCEPT ![e] = IF pc[e] = "verify" THEN "verify_failed"
                                                            ELSE "transient_failed"]
  /\ Goto(e, "dial")
  /\ UNCHANGED <<daemonVars, entryVars, feed, sink, captureVars>>

\* Faulty: the turn is taken from a device that waits.
WaitForPINAnyway(e) ==
  /\ At(e, {"askPIN"})
  /\ IF Current(e)
     THEN /\ state' = [state EXCEPT ![e] = "pin_required"]
          /\ pendingTarget' = target[e]
          /\ Goto(e, "pinWait")
     ELSE /\ Goto(e, "giveUp")
          /\ UNCHANGED <<state, pendingTarget>>
  /\ UNCHANGED <<streams, broadcast, target, cancelled, pinCh,
                 attempt, conn, feed, sink, captureVars>>

\* waitForPIN, up to the unlock before the PIN is shown on the receiver.
WaitForPIN(e) ==
  /\ At(e, {"askPIN"})
  /\ IF Current(e) /\ pendingTarget \in {NoTarget, target[e]}
     THEN /\ state' = [state EXCEPT ![e] = "pin_required"]
          /\ pendingTarget' = target[e]
          /\ Goto(e, "pinWait")
     ELSE /\ Goto(e, "giveUp")
          /\ UNCHANGED <<state, pendingTarget>>
  /\ UNCHANGED <<streams, broadcast, target, cancelled, pinCh,
                 attempt, conn, feed, sink, captureVars>>

\* The two arms of waitForPIN's select.
TakePIN(e) ==
  /\ At(e, {"pinWait"})
  /\ pinCh[e] > 0
  /\ pinCh' = [pinCh EXCEPT ![e] = @ - 1]
  /\ Goto(e, "pairPIN")
  /\ UNCHANGED <<daemonVars, target, state, cancelled, attempt, conn, feed, sink,
                 captureVars>>

CancelPINWait(e) ==
  /\ At(e, {"pinWait"})
  /\ cancelled[e]
  /\ pendingTarget' = IF pendingTarget = target[e] THEN NoTarget ELSE pendingTarget
  /\ Goto(e, "giveUp")
  /\ UNCHANGED <<streams, broadcast, entryVars, attempt, conn, feed, sink, captureVars>>

\* Every error return: close what is open, removeStream, return.
GiveUp(e) ==
  /\ At(e, {"dial", "info", "pairPIN", "fairplay", "startCapture", "setup", "giveUp"})
  /\ CloseOwn(e)
  /\ RemoveStream(e)
  /\ Return(e)
  /\ UNCHANGED run

-----------------------------------------------------------------------------
\* getOrStartBroadcastLocked, which is called without the lock.

\* FairPlaySetup went well, or the receiver lacks it; then the broadcast pointer
\* is read under the lock ...
ReadBroadcast(e) ==
  /\ At(e, {"fairplay"})
  /\ conn[e]
  /\ feed' = [feed EXCEPT ![e] = broadcast]
  /\ Goto(e, IF broadcast = NoCapture THEN "startCapture" ELSE "addSink")
  /\ UNCHANGED <<daemonVars, entryVars, attempt, conn, sink, captureVars>>

\* ... and used after the unlock.
AddSink(e) ==
  /\ At(e, {"addSink"})
  /\ sink' = [sink EXCEPT ![e] = TRUE]
  /\ Goto(e, "setup")
  /\ UNCHANGED <<daemonVars, entryVars, attempt, conn, feed, captureVars>>

\* The capture process is started and wrapped; its broadcast gets a first sink.
StartCapture(e) ==
  /\ At(e, {"startCapture"})
  /\ \E c \in Captures :
       /\ FreeCapture(c)
       /\ proc' = [proc EXCEPT ![c] = TRUE]
       /\ feed' = [feed EXCEPT ![e] = c]
  /\ sink' = [sink EXCEPT ![e] = TRUE]
  /\ Goto(e, "publish")
  /\ UNCHANGED <<daemonVars, entryVars, attempt, conn, run>>

\* Under the lock again: publish the broadcast and run it, or lose the race.
PublishBroadcast(e) ==
  /\ At(e, {"publish"})
  /\ IF broadcast = NoCapture
     THEN /\ broadcast' = feed[e]
          /\ run' = [run EXCEPT ![feed[e]] = "pumping"]
          /\ Goto(e, "setup")
     ELSE /\ Goto(e, "discard")
          /\ UNCHANGED <<broadcast, run>>
  /\ UNCHANGED <<streams, pendingTarget, entryVars, attempt, conn, feed, sink, proc>>

\* Faulty: the loser forgets the capture that it started.
DiscardWithoutStop(e) ==
  /\ At(e, {"discard"})
  /\ sink' = [sink EXCEPT ![e] = FALSE]
  /\ feed' = [feed EXCEPT ![e] = NoCapture]
  /\ Goto(e, "lateAddSink")
  /\ UNCHANGED <<daemonVars, entryVars, attempt, conn, captureVars>>

\* The loser stops its own capture after the unlock, which can take seconds ...
DiscardCapture(e) ==
  /\ At(e, {"discard"})
  /\ proc' = [proc EXCEPT ![feed[e]] = FALSE]
  /\ sink' = [sink EXCEPT ![e] = FALSE]
  /\ feed' = [feed EXCEPT ![e] = NoCapture]
  /\ Goto(e, "lateAddSink")
  /\ UNCHANGED <<daemonVars, entryVars, attempt, conn, run>>

\* ... and reads d.broadcast again, without the lock.  AddSink on a nil
\* broadcast panics.
LateAddSink(e) ==
  /\ At(e, {"lateAddSink"})
  /\ IF broadcast = NoCapture
     THEN /\ Goto(e, "panicked")
          /\ UNCHANGED <<feed, sink>>
     ELSE /\ feed' = [feed EXCEPT ![e] = broadcast]
          /\ sink' = [sink EXCEPT ![e] = TRUE]
          /\ Goto(e, "setup")
  /\ UNCHANGED <<daemonVars, entryVars, attempt, conn, captureVars>>

-----------------------------------------------------------------------------
\* The stream itself.

\* SetupMirror succeeded and the entry is still in the map: the session and the
\* sink are published.
SetupOK(e) ==
  /\ At(e, {"setup"})
  /\ Current(e) /\ conn[e]
  /\ state' = [state EXCEPT ![e] = "streaming"]
  /\ Goto(e, "streaming")
  /\ UNCHANGED <<daemonVars, target, cancelled, pinCh, attempt, conn, feed, sink,
                 captureVars>>

\* SetupMirror succeeded, but the stream was removed meanwhile.  Its client may
\* have been closed between the two.
SetupStale(e) ==
  /\ At(e, {"setup"})
  /\ ~Current(e)
  /\ CloseOwn(e)
  /\ MaybeStopBroadcastLocked(streams)
  /\ Return(e)
  /\ UNCHANGED <<streams, pendingTarget, cancelled, run>>

\* StreamFrames returned, for an error or because something it uses was closed.
StreamEnds(e) ==
  /\ At(e, {"streaming"})
  /\ CloseOwn(e)
  /\ Goto(e, "cleanup")
  /\ UNCHANGED <<daemonVars, entryVars, attempt, feed, captureVars>>

Cleanup(e) ==
  /\ At(e, {"cleanup"})
  /\ RemoveStream(e)
  /\ Return(e)
  /\ UNCHANGED <<conn, sink, run>>

-----------------------------------------------------------------------------
\* The goroutine of a broadcast.

\* Run returns: the source ended or was stopped.  Its sinks are closed; one that
\* is registered later is not.
RunEnds(c) ==
  /\ Alive
  /\ run[c] = "pumping"
  /\ run' = [run EXCEPT ![c] = "ended"]
  /\ sink' = [e \in Entries |-> sink[e] /\ feed[e] # c]
  /\ UNCHANGED <<daemonVars, entryVars, pc, attempt, conn, feed, proc>>

\* Faulty: nobody is told that the capture ended.
NoStopAfterRun(c) ==
  /\ Alive
  /\ run[c] = "ended"
  /\ run' = [run EXCEPT ![c] = "idle"]
  /\ UNCHANGED <<daemonVars, entryVars, localVars, proc>>

\* "When the capture ends, stop all active streams", whichever capture feeds them.
StopAllAfterRun(c) ==
  /\ Alive
  /\ run[c] = "ended"
  /\ StopAllLocked
  /\ run' = [run EXCEPT ![c] = "idle"]
  /\ UNCHANGED <<target, state, pinCh, pc, attempt, feed>>

-----------------------------------------------------------------------------
Request == \E t \in Targets : \/ \E withPIN \in BOOLEAN : HandleConnect(t, withPIN)
                              \/ SubmitPIN(t)
                              \/ HandleDisconnect(t)

\* A step of connectAndStream that the goroutine takes by itself, in bounded
\* time: network exchanges have deadlines.
Step(e) ==
  \/ DialOK(e) \/ InfoOK(e) \/ PairOK(e) \/ Reconnect(e)
  \/ WaitForPIN(e) \/ TakePIN(e) \/ CancelPINWait(e)
  \/ ReadBroadcast(e) \/ AddSink(e) \/ PublishBroadcast(e) \/ DiscardCapture(e)
  \/ LateAddSink(e) \/ SetupOK(e) \/ SetupStale(e) \/ Cleanup(e)

Next ==
  \/ Request
  \/ DisconnectAll
  \/ \E e \in Entries : Step(e) \/ GiveUp(e) \/ StartCapture(e) \/ StreamEnds(e)
  \/ \E c \in Captures : RunEnds(c) \/ StopAllAfterRun(c)

Spec == Init /\ [][Next]_vars

\* What the code's scheduling gives.  A goroutine that is at an exchange with
\* the receiver goes on or gives up; starting the capture is not in it, because
\* the desktop portal waits for its user without a limit, and neither is the
\* wait for a PIN.  A stream goes on until what it reads or writes is closed.
\* A stopped capture process ends its broadcast.
Interrupted(e) == ~sink[e] \/ ~conn[e] \/ cancelled[e]

FairSpec ==
  /\ Spec
  /\ \A e \in Entries :
       /\ WF_vars(Step(e) \/ (pc[e] # "startCapture" /\ GiveUp(e)))
       /\ WF_vars(Interrupted(e) /\ StreamEnds(e))
  /\ \A c \in Captures :
       /\ WF_vars(~proc[c] /\ RunEnds(c))
       /\ WF_vars(StopAllAfterRun(c))

-----------------------------------------------------------------------------
TypeOK ==
  /\ streams \in [Targets -> Entries \cup {NoEntry}]
  /\ pendingTarget \in Targets \cup {NoTarget}
  /\ broadcast \in Captures \cup {NoCapture}
  /\ target \in [Entries -> Targets \cup {NoTarget}]
  /\ state \in [Entries -> State]
  /\ cancelled \in [Entries -> BOOLEAN]
  /\ pinCh \in [Entries -> Nat]
  /\ pc \in [Entries -> Label]
  /\ attempt \in [Entries -> Attempt]
  /\ conn \in [Entries -> BOOLEAN]
  /\ feed \in [Entries -> Captures \cup {NoCapture}]
  /\ sink \in [Entries -> BOOLEAN]
  /\ proc \in [Captures -> BOOLEAN]
  /\ run \in [Captures -> {"idle", "pumping", "ended"}]

\* A reply that says a PIN is needed is true: the goroutine of the named target
\* is in waitForPIN, and a PIN sent now goes to it.  No interleaving of
\* disconnects, captures that end and other streams leaves pendingTarget
\* behind (handleConnect's "no longer available" branch is dead code).
NeedsPINIsAnswerable ==
  OverallState = "pin_required" =>
    \E e \in Entries : /\ streams[pendingTarget] = e
                       /\ state[e] = "pin_required"
                       /\ pc[e] = "pinWait"
                       /\ pinCh[e] = 0

\* "pinCh is buffered and each pending session can be claimed only once": a
\* second PIN in the channel would block handleConnect with Daemon.mu held, and
\* with it the whole daemon.
PINSendNeverBlocks == \A e \in Entries : pinCh[e] <= 1

\* A goroutine is told to stop exactly when its stream leaves the map: no stream
\* is cancelled behind its back, and none is removed and left running.
CancelledIffRemoved == \A e \in Entries : cancelled[e] <=> ~Current(e)

\* A stream of the map is never attached to an older broadcast than the daemon's,
\* although the pointer is read under the lock and used after the unlock.
FedByBroadcast ==
  \A e \in Entries : Current(e) /\ pc[e] \in {"addSink", "setup", "streaming", "cleanup"}
                       => feed[e] # NoCapture /\ feed[e] = broadcast

\* The daemon's broadcast is one whose process was not stopped and whose
\* goroutine still has the end of the capture to report.
BroadcastLive == broadcast # NoCapture => proc[broadcast] /\ run[broadcast] # "idle"

\* Every capture process that runs is the daemon's, or a goroutine is about to
\* publish or discard it: the double-checked start leaves none behind.
NoOrphanCapture ==
  \A c \in Captures : proc[c] => \/ c = broadcast
                                 \/ \E e \in Entries : /\ feed[e] = c
                                                       /\ pc[e] \in {"publish", "discard"}

\* On every return path, connectAndStream has closed its connection (and with it
\* its session) and its sink.
NothingLeftOpen == \A e \in Entries : pc[e] = "done" => ~conn[e] /\ ~sink[e]

\* What a stream in the map streams from is open as long as the capture runs:
\* the capture of another stream, or an older goroutine of the same target,
\* never closes it.
StreamingHasSink ==
  \A e \in Entries : /\ Current(e) /\ pc[e] = "streaming"
                     /\ run[feed[e]] = "pumping"
                     => sink[e] /\ conn[e]

\* connectAndStream removes no stream but its own: an older goroutine that ends
\* late leaves the newer stream to the same target alone.
RemovesOnlyItself ==
  [][\A e \in Entries : pc[e] # "done" /\ pc'[e] # pc[e] =>
       \A t \in Targets : streams[t] # e => streams'[t] = streams[t]]_vars

\* To a client, all this is the life cycle of StreamLifecycle: no state is
\* skipped, only a stream without a rival waits for a PIN, nothing streams
\* without a capture, and the capture goes with the last stream.
StatusOf(t) == IF streams[t] = NoEntry THEN "idle" ELSE state[streams[t]]

Lifecycle == INSTANCE StreamLifecycle
               WITH status  <- [t \in Targets |-> StatusOf(t)],
                    waiting <- pendingTarget,
                    casting <- broadcast # NoCapture

ImplementsLifecycle == Lifecycle!Spec

-----------------------------------------------------------------------------
\* The inductive invariant behind the safety properties, by subject.

\* A goroutine and its entry: where each state, PIN and resource can be found.
EntryInv(e) ==
  /\ IF pc[e] = "done"
     THEN target[e] = NoTarget /\ state[e] = "connecting" /\ pinCh[e] = 0
     ELSE target[e] \in Targets
  /\ pc[e] \in {"cleanup", "done"} => ~conn[e] /\ ~sink[e]
  /\ state[e] = "pin_required" => pinCh[e] = 0 /\ pc[e] \in {"pinWait", "giveUp"}
  /\ state[e] = "pin_required" /\ Current(e) => pc[e] = "pinWait"
  /\ state[e] = "streaming" => pc[e] \in {"streaming", "cleanup"}
  /\ pinCh[e] # 0 => pinCh[e] = 1 /\ pc[e] \in {"pinWait", "giveUp"}
  /\ cancelled[e] <=> ~Current(e)

\* The map, and the target that may be sent a PIN.
MapInv ==
  /\ \A t \in Targets : streams[t] # NoEntry => target[streams[t]] = t
  /\ pendingTarget # NoTarget => /\ streams[pendingTarget] # NoEntry
                                /\ state[streams[pendingTarget]] = "pin_required"

\* A goroutine's reference to a capture: its own one, which nobody else knows,
\* or the daemon's, as long as its stream is in the map.
Own(e) == pc[e] \in {"publish", "discard"}
FeedInv(e) ==
  /\ feed[e] # NoCapture <=> Own(e) \/ pc[e] \in {"addSink", "setup", "streaming", "cleanup"}
  /\ Own(e) => /\ proc[feed[e]] /\ run[feed[e]] = "idle" /\ sink[e]
               /\ \A f \in Entries \ {e} : feed[f] # feed[e]
  /\ feed[e] # NoCapture /\ ~Own(e) /\ Current(e) => feed[e] = broadcast
  /\ Current(e) /\ pc[e] \in {"setup", "streaming"} /\ run[feed[e]] = "pumping" => sink[e]
  /\ Current(e) => conn[e] \/ pc[e] \in {"dial", "cleanup", "giveUp"}

CaptureInv ==
  /\ BroadcastLive
  /\ NoOrphanCapture

IInv == /\ TypeOK
        /\ \A e \in Entries : EntryInv(e)
        /\ MapInv
        /\ \A e \in Entries : FeedInv(e)
        /\ CaptureInv

-----------------------------------------------------------------------------
\* A goroutine whose stream was removed ends, unless it hangs at the start of
\* the capture, which waits for the desktop's user and not for the context.
RemovedStreamsEnd ==
  \A e \in Entries : ~Current(e) ~> (pc[e] \in {"done", "startCapture"} \/ ~Alive)

\* A connection does not stay between two states for ever: it streams, ends, or
\* waits for its user.
ConnectGoesOn ==
  \A e \in Entries : TRUE ~> (\/ pc[e] \in {"pinWait", "startCapture", "streaming", "done"}
                              \/ ~Alive)

\* A stream does not outlive the capture it is attached to, even when its sink
\* was registered after the capture's goroutine closed the sinks it knew of.
StreamsEndWithCapture ==
  \A e \in Entries, c \in Captures :
    pc[e] = "streaming" /\ feed[e] = c /\ run[c] = "ended"
      ~> (pc[e] # "streaming" \/ ~Alive)

-----------------------------------------------------------------------------
\* What a comment says, and the code does not do.

\* "shared video fan-out; nil when no streams active", at the latest when no
\* goroutine is left to clear it.
NoBroadcastWithoutStreams ==
  NoStreams(streams) /\ (\A e \in Entries : pc[e] = "done") => broadcast = NoCapture

=============================================================================
