--------------------------- MODULE MirrorSession ---------------------------
(***************************************************************************)
(* One mirroring session, internal/airplay/mirror.go: setupMirrorSession   *)
(* with the sockets it opens and the requests it makes, then the three     *)
(* goroutines that work on the session (StreamFrames, the heartbeats and   *)
(* the feedback requests, the last two started with startWorker) and       *)
(* Close, which any of its users may call while they run.                  *)
(*                                                                         *)
(* A request over the control connection ends well or with an error (see   *)
(* ControlChannel); after an error the receiver may have carried it out.   *)
(* The event channel is here only as its connection (see EventChannel),    *)
(* the audio stream only as its two sockets (see AudioStream), a frame     *)
(* only as its kind, its time and its nonce (see VideoFraming).            *)
(***************************************************************************)
EXTENDS Naturals

CONSTANTS MaxTries,    \* the ranges of UDP ports that are tried: 20 if any will do
          MaxFrames,   \* bounds the video frames, for TLC
          ClockMax     \* bounds the receiver's clock, for TLC

ASSUME BoundAssumption ==
  MaxTries \in Nat \ {0} /\ MaxFrames \in Nat \ {0} /\ ClockMax \in Nat

UDP     == {"timing", "rtcp", "rtp"}
Sockets == UDP \cup {"event", "data"}
Packets == {"codec", "frame", "beat"}

VARIABLES
  \* c.encrypted: whether the receiver is a modern one, with PTP timing and a
  \* control SETUP, or a legacy one.
  modern,
  \* Where setupMirrorSession stands; the port ranges tried; whether the
  \* receiver probed the NTP port; what the last response gave; the sockets;
  \* whether sessionCtx is live; whether the session got an audioStream.
  step, tries, probed, told, sock, live, audio,
  \* The receiver's session: which of its parts exist, or that it was torn down.
  rx,
  \* MirrorSession: firstFrameSent is closed; lastFrameTimestamp; chachaNonce.
  firstFrameSent, lastTimestamp, nonce,
  \* StreamFrames, dataHeartbeatLoop and feedbackLoop; Close.
  video, beat, feed, closing,
  \* The clock that frames are stamped with, and the data connection as the
  \* receiver reads it: its first packet, the packet that was cut short, what
  \* was written behind that, the frames before it and the time of the last.
  clock, link

setupVars  == <<modern, step, tries, probed, told, audio>>
frameVars  == <<firstFrameSent, lastTimestamp, nonce, video>>
workerVars == <<frameVars, beat, feed, clock, link>>
vars == <<setupVars, sock, live, rx, workerVars, closing>>

Steps == {"start", "ports", "control", "clock", "event", "record", "audio", "video", "dial",
          "volume", "cipher", "audioStream", "workers", "up", "failed"}
Answer == [skipRecord : BOOLEAN, eventPort : BOOLEAN, audioPort : BOOLEAN, dataPort : BOOLEAN]
Nothing == [skipRecord |-> FALSE, eventPort |-> FALSE, audioPort |-> FALSE, dataPort |-> FALSE]

Open == {s \in Sockets : sock[s] = "open"}

\* The sockets a MirrorSession refers to, and Close goes through.
Owned == {"event", "data"} \cup (IF modern THEN {} ELSE {"timing"})
                           \cup (IF audio THEN {"rtcp", "rtp"} ELSE {})

CloseAll(S) == [s \in Sockets |-> IF s \in S /\ sock[s] = "open" THEN "closed" ELSE sock[s]]

Init ==
  /\ modern \in BOOLEAN
  /\ step = "start" /\ tries = 0 /\ probed = FALSE /\ told = Nothing /\ audio = FALSE
  /\ sock = [s \in Sockets |-> "none"] /\ live = TRUE
  /\ rx = {}
  /\ firstFrameSent = FALSE /\ lastTimestamp = 0 /\ nonce = 0
  /\ video = "none" /\ beat = "none" /\ feed = "none" /\ closing = "no"
  /\ clock = 0
  /\ link = [first |-> "none", cut |-> "none", behind |-> {}, frames |-> 0, time |-> 0]

-----------------------------------------------------------------------------
(* setupMirrorSession                                                      *)

\* The order of the phases.  A modern receiver is prepared, and recorded, before
\* it has a stream; a legacy one is recorded once it has both.  Either may say,
\* with skipRecord, that SETUP has started the session already.
After(s) ==
  CASE s = "control" -> "clock"
    [] s = "clock" -> "event"
    [] s = "event" -> IF ~modern THEN "video" ELSE IF told.skipRecord THEN "audio" ELSE "record"
    [] s = "record" -> IF modern THEN "audio" ELSE "volume"
    [] s = "audio" -> IF modern THEN "video" ELSE "event"
    [] s = "video" -> "dial"
    [] s = "dial" -> IF modern \/ told.skipRecord THEN "volume" ELSE "record"
    [] s = "volume" -> "cipher"
    [] s = "cipher" -> "audioStream"

Goto(s) == step' = s /\ UNCHANGED <<modern, tries, probed>>

\* The deferred function, on every error once there are sockets.
Fail ==
  /\ Goto("failed")
  /\ sock' = CloseAll(Sockets) /\ live' = FALSE
  /\ told' = Nothing /\ UNCHANGED audio

\* Before there are sockets: a PTP session needs a local address, and either kind
\* a key of the FairPlay handshake or one that can be derived.
Prepare ==
  /\ step = "start"
  /\ Goto("ports") \/ Goto("failed")
  /\ UNCHANGED <<told, audio, sock, live, rx, workerVars, closing>>

\* allocateConsecutiveUDPPortsInRange: a range is taken whole or closed again,
\* up to the first port that another process holds.
AllocatePorts ==
  /\ step = "ports"
  /\ \/ /\ sock' = [s \in Sockets |-> IF s \in UDP THEN "open" ELSE sock[s]]
        /\ step' = IF modern THEN "control" ELSE "audio"
        /\ UNCHANGED <<tries, live>>
     \/ \E bound \in {{}, {"timing"}, {"timing", "rtcp"}} :
          /\ sock' = [s \in Sockets |-> IF s \in bound THEN "closed" ELSE sock[s]]
          /\ tries' = tries + 1
          /\ step' = IF tries' < MaxTries THEN "ports" ELSE "failed"
          /\ UNCHANGED live
  /\ UNCHANGED <<modern, probed, told, audio, rx, workerVars, closing>>

\* External: a legacy receiver probes the timing port before it answers its
\* first SETUP; ntpTimingResponder replies for as long as it runs.
NTPProbe ==
  /\ ~modern /\ step = "audio" /\ sock["timing"] = "open"
  /\ probed' = TRUE
  /\ UNCHANGED <<modern, step, tries, told, audio, sock, live, rx, workerVars, closing>>

\* requestSetup: the receiver takes the request or not; the response is read,
\* or the caller gets an error.
RequestSetup(part, next, responses) ==
  /\ rx' \in {rx, rx \cup {part}}
  /\ \/ /\ part \in rx'
        /\ \E r \in responses :
             /\ told' = r
             /\ Goto(next)
             /\ UNCHANGED <<audio, sock, live>>
     \/ Fail
  /\ UNCHANGED <<workerVars, closing>>

\* What the responses to the control and the audio SETUP may give; the latter
\* says more to a legacy sender, for whom it is the first.
ControlResponses == {r \in Answer : ~r.audioPort /\ ~r.dataPort}
AudioResponses   == {r \in Answer : ~r.dataPort /\ (modern => ~r.skipRecord /\ ~r.eventPort)}

ControlSetup ==
  /\ step = "control"
  /\ RequestSetup("prepared", After(step), ControlResponses)

\* configureFromSetup: the response to the control SETUP anchors the media clock,
\* unless it names no clock or its headers give no time.
ConfigureClock ==
  /\ step = "clock"
  /\ \/ /\ clock' \in 0..ClockMax
        /\ Goto(After(step))
        /\ UNCHANGED <<told, audio, sock, live>>
     \/ Fail /\ UNCHANGED clock
  /\ UNCHANGED <<rx, frameVars, beat, feed, link, closing>>

AudioSetup ==
  /\ step = "audio" /\ (modern \/ probed)
  /\ RequestSetup("audio", After(step), AudioResponses)

\* A legacy receiver that was not probed does not answer in time.
AudioSetupTimesOut ==
  /\ step = "audio" /\ ~modern /\ ~probed
  /\ Fail
  /\ UNCHANGED <<rx, workerVars, closing>>

\* Its fallback for the event channel is never reached: ConnectEvent has
\* refused a response without an eventPort.
VideoSetup ==
  /\ step = "video"
  /\ RequestSetup("video", After(step), {[told EXCEPT !.dataPort = d] : d \in BOOLEAN})

ConnectEvent ==
  /\ step = "event"
  /\ \/ /\ told.eventPort
        /\ sock' = [sock EXCEPT !["event"] = "open"]
        /\ Goto(After(step))
        /\ told' = [told EXCEPT !.eventPort = FALSE]
        /\ UNCHANGED <<audio, live>>
     \/ Fail
  /\ UNCHANGED <<rx, workerVars, closing>>

DialData ==
  /\ step = "dial"
  /\ \/ /\ told.dataPort
        /\ sock' = [sock EXCEPT !["data"] = "open"]
        /\ Goto(After(step))
        /\ told' = [told EXCEPT !.dataPort = FALSE, !.skipRecord = FALSE]
        /\ UNCHANGED <<audio, live>>
     \/ Fail
  /\ UNCHANGED <<rx, workerVars, closing>>

Record ==
  /\ step = "record"
  /\ rx' \in {rx, rx \cup {"recorded"}}
  /\ \/ "recorded" \in rx' /\ Goto(After(step)) /\ UNCHANGED <<told, audio, sock, live>>
     \/ Fail
  /\ UNCHANGED <<workerVars, closing>>

\* SET_PARAMETER may fail without harm.  The socket that reserved the timing
\* port of a PTP session is not needed further.
SetVolume ==
  /\ step = "volume"
  /\ sock' = CloseAll(IF modern THEN {"timing"} ELSE {})
  /\ Goto(After(step))
  /\ UNCHANGED <<told, audio, live, rx, workerVars, closing>>

MakeCipher ==
  /\ step = "cipher"
  /\ \/ Goto(After(step)) /\ UNCHANGED <<told, audio, sock, live>>
     \/ Fail
  /\ UNCHANGED <<rx, workerVars, closing>>

\* Faulty: the sockets are only closed when the audio stream could not be made.
AttachAudioLeaky ==
  /\ step = "audioStream"
  /\ \/ told.audioPort /\ audio' = TRUE /\ UNCHANGED sock
     \/ audio' = FALSE /\ sock' = IF told.audioPort THEN CloseAll({"rtcp", "rtp"}) ELSE sock
  /\ Goto("workers") /\ told' = Nothing
  /\ UNCHANGED <<live, rx, workerVars, closing>>

\* Without an audio port, or when setupAudioStream fails, the session goes on
\* without audio.
AttachAudio ==
  /\ step = "audioStream"
  /\ \/ told.audioPort /\ audio' = TRUE /\ UNCHANGED sock
     \/ audio' = FALSE /\ sock' = CloseAll({"rtcp", "rtp"})
  /\ Goto("workers") /\ told' = Nothing
  /\ UNCHANGED <<live, rx, workerVars, closing>>

\* From here the caller has the session, and calls StreamFrames.
StartWorkers ==
  /\ step = "workers"
  /\ Goto("up")
  /\ beat' = "waiting" /\ feed' = "calling" /\ video' = "reading"
  /\ UNCHANGED <<told, audio, sock, live, rx, firstFrameSent, lastTimestamp, nonce,
                 clock, link, closing>>

\* The context of the caller, of which sessionCtx is a child, is cancelled.
CancelContext ==
  /\ live /\ step \notin {"start", "ports", "failed"}
  /\ live' = FALSE
  /\ UNCHANGED <<setupVars, sock, rx, workerVars, closing>>

\* serveEventChannel, and ntpTimingResponder, close their connection when the
\* context is cancelled; the first also when the receiver breaks the protocol.
ServersEnd ==
  \/ /\ "event" \in Open
     /\ sock' = CloseAll({"event"})
     /\ UNCHANGED <<setupVars, live, rx, workerVars, closing>>
  \/ /\ ~live /\ ~modern /\ "timing" \in Open
     /\ sock' = CloseAll({"timing"})
     /\ UNCHANGED <<setupVars, live, rx, workerVars, closing>>

SetupStep ==
  \/ Prepare \/ AllocatePorts \/ ControlSetup \/ ConfigureClock \/ AudioSetup
  \/ AudioSetupTimesOut \/ VideoSetup \/ ConnectEvent \/ DialData \/ Record \/ SetVolume \/ MakeCipher \/ AttachAudio
  \/ StartWorkers

-----------------------------------------------------------------------------
(* The data connection                                                     *)

\* A write under dataMu: all of the packet goes out, or the deadline passes (or
\* the connection breaks) when a part of it did, or nothing.
Write(packet, sent) ==
  IF sent = "nothing" THEN link
  ELSE [link EXCEPT
          !.first = IF @ = "none" THEN packet ELSE @,
          !.cut = IF @ = "none" /\ sent = "part" THEN packet ELSE @,
          !.behind = IF link.cut = "none" THEN @ ELSE @ \cup {packet},
          !.frames = IF link.cut = "none" /\ sent = "all" /\ packet = "frame" THEN @ + 1 ELSE @,
          !.time = IF link.cut = "none" /\ sent = "all" /\ packet = "frame"
                   THEN lastTimestamp ELSE @]

Outcomes == IF "data" \in Open THEN {"all", "part", "nothing"} ELSE {"nothing"}

\* Faulty: the clock is read as it is.
FrameTimeUnchecked == clock

\* frameTimeNow with monotonicFrameTime
FrameTime == IF clock > lastTimestamp THEN clock ELSE lastTimestamp + 1

\* flushVCL begins: nothing is sent before the first key frame.
BeginFrame ==
  /\ video = "reading" /\ nonce < MaxFrames
  /\ lastTimestamp' = FrameTime
  /\ video' \in IF firstFrameSent THEN {"codec", "frame"} ELSE {"codec"}
  /\ UNCHANGED <<setupVars, sock, live, rx, firstFrameSent, nonce, beat, feed, clock, link, closing>>

\* Faulty: the channel is closed whether or not the codec frame was sent.
SendCodecFrameUnchecked ==
  /\ video = "codec"
  /\ \E sent \in Outcomes :
       /\ link' = Write("codec", sent)
       /\ firstFrameSent' = TRUE
       /\ video' = IF sent = "all" THEN "frame" ELSE "ended"
  /\ UNCHANGED <<setupVars, sock, live, rx, lastTimestamp, nonce, beat, feed, clock, closing>>

\* sendCodecFrame; close(firstFrameSent)
SendCodecFrame ==
  /\ video = "codec"
  /\ \E sent \in Outcomes :
       /\ link' = Write("codec", sent)
       /\ firstFrameSent' = (firstFrameSent \/ sent = "all")
       /\ video' = IF sent = "all" THEN "frame" ELSE "ended"
  /\ UNCHANGED <<setupVars, sock, live, rx, lastTimestamp, nonce, beat, feed, clock, closing>>

\* sendFrame: the nonce, or the place in the legacy cipher's stream, is used up
\* whether or not the frame goes out.
SendFrame ==
  /\ video = "frame"
  /\ nonce' = nonce + 1
  /\ \E sent \in Outcomes :
       /\ link' = Write("frame", sent)
       /\ video' = IF sent = "all" THEN "reading" ELSE "ended"
  /\ UNCHANGED <<setupVars, sock, live, rx, firstFrameSent, lastTimestamp, beat, feed, clock, closing>>

\* StreamFrames returns: its context is cancelled, or the capture ends.
EndFrames ==
  /\ video = "reading"
  /\ video' = "ended"
  /\ UNCHANGED <<setupVars, sock, live, rx, firstFrameSent, lastTimestamp, nonce,
                 beat, feed, clock, link, closing>>

\* Faulty: the loop waits for the first frame only.
BeginBeatsDeaf ==
  /\ beat = "waiting" /\ firstFrameSent
  /\ beat' = "ticking"
  /\ UNCHANGED <<setupVars, sock, live, rx, frameVars, feed, clock, link, closing>>

\* dataHeartbeatLoop waits for the codec frame, or for the end.
BeginBeats ==
  /\ beat = "waiting"
  /\ \/ firstFrameSent /\ beat' = "ticking"
     \/ ~live /\ beat' = "stopped"
  /\ UNCHANGED <<setupVars, sock, live, rx, frameVars, feed, clock, link, closing>>

\* Faulty: a heartbeat that failed is followed by the next.
BeatPersistent ==
  /\ beat = "ticking"
  /\ \/ ~live /\ beat' = "stopped" /\ UNCHANGED link
     \/ \E sent \in Outcomes : link' = Write("beat", sent) /\ UNCHANGED beat
  /\ UNCHANGED <<setupVars, sock, live, rx, frameVars, feed, clock, closing>>

\* A tick: select may take it although the context is cancelled as well.
Beat ==
  /\ beat = "ticking"
  /\ \/ ~live /\ beat' = "stopped" /\ UNCHANGED link
     \/ \E sent \in Outcomes :
          /\ link' = Write("beat", sent)
          /\ beat' = IF sent = "all" THEN "ticking" ELSE "stopped"
  /\ UNCHANGED <<setupVars, sock, live, rx, frameVars, feed, clock, closing>>

-----------------------------------------------------------------------------
(* The clock, feedback and the end                                         *)

\* mediaClock.reanchor moves the clock of a PTP session to what the receiver says,
\* if that can be read.
Reanchored == IF modern THEN 0..ClockMax ELSE {clock}

\* The answer to POST /feedback, or an error.
FeedbackAnswered ==
  /\ feed = "calling"
  /\ feed' = "ticking"
  /\ clock' \in Reanchored
  /\ UNCHANGED <<setupVars, sock, live, rx, frameVars, beat, link, closing>>

Feedback ==
  /\ feed = "ticking"
  /\ \/ ~live /\ feed' = "stopped"
     \/ feed' = "calling"
  /\ UNCHANGED <<setupVars, sock, live, rx, frameVars, beat, clock, link, closing>>

Tick ==
  /\ step = "up" /\ video # "ended" /\ clock < ClockMax
  /\ clock' = clock + 1
  /\ UNCHANGED <<setupVars, sock, live, rx, frameVars, beat, feed, link, closing>>

\* Close, the first time: a later caller waits for the first.
Close ==
  /\ step = "up" /\ closing = "no"
  /\ live' = FALSE /\ closing' = "waiting"
  /\ UNCHANGED <<setupVars, sock, rx, workerVars>>

\* Faulty: workers are told to stop and not waited for.
AwaitNobody ==
  /\ closing = "waiting"
  /\ closing' = "teardown"
  /\ UNCHANGED <<setupVars, sock, live, rx, workerVars>>

AwaitWorkers ==
  /\ closing = "waiting" /\ beat = "stopped" /\ feed = "stopped"
  /\ closing' = "teardown"
  /\ UNCHANGED <<setupVars, sock, live, rx, workerVars>>

Teardown ==
  /\ closing = "teardown"
  /\ rx' \in {rx, rx \cup {"torn"}}
  /\ closing' = "releasing"
  /\ UNCHANGED <<setupVars, sock, live, workerVars>>

Release ==
  /\ closing = "releasing"
  /\ sock' = CloseAll(Owned)
  /\ closing' = "closed"
  /\ UNCHANGED <<setupVars, live, rx, workerVars>>

CloseStep == AwaitWorkers \/ Teardown \/ Release

Next ==
  \/ SetupStep \/ NTPProbe \/ CancelContext \/ ServersEnd
  \/ BeginFrame \/ SendCodecFrame \/ SendFrame \/ EndFrames
  \/ BeginBeats \/ Beat \/ FeedbackAnswered \/ Feedback \/ Tick
  \/ Close \/ CloseStep

Spec == Init /\ [][Next]_vars

\* Every request and every write has a deadline, every worker looks at its
\* context when it wakes up, and select, which chooses at random, takes a
\* context that stays cancelled sooner or later: feedbackLoop meets it only
\* between two requests, hence strong fairness.  Nobody has to call Close.
Fairness ==
  /\ WF_vars(SetupStep)
  /\ WF_vars(BeginBeats) /\ WF_vars(Beat /\ beat' = "stopped")
  /\ WF_vars(FeedbackAnswered) /\ SF_vars(Feedback /\ feed' = "stopped")
  /\ WF_vars(CloseStep)

FairSpec == Spec /\ Fairness

-----------------------------------------------------------------------------
TypeOK ==
  /\ modern \in BOOLEAN /\ step \in Steps /\ tries \in 0..MaxTries /\ probed \in BOOLEAN
  /\ told \in Answer /\ audio \in BOOLEAN
  /\ sock \in [Sockets -> {"none", "open", "closed"}] /\ live \in BOOLEAN
  /\ rx \subseteq {"prepared", "audio", "video", "recorded", "torn"}
  /\ firstFrameSent \in BOOLEAN /\ lastTimestamp \in Nat /\ nonce \in Nat
  /\ video \in {"none", "reading", "codec", "frame", "ended"}
  /\ beat \in {"none", "waiting", "ticking", "stopped"}
  /\ feed \in {"none", "calling", "ticking", "stopped"}
  /\ closing \in {"no", "waiting", "teardown", "releasing", "closed"}
  /\ clock \in 0..ClockMax
  /\ link \in [first : Packets \cup {"none"}, cut : Packets \cup {"none"},
               behind : SUBSET Packets, frames : Nat, time : Nat]

\* Whether set-up fails, at whatever point, or the session is closed, no socket
\* stays open; and while there is a session, Close knows every open socket.
NothingLost ==
  /\ step = "failed" => Open = {}
  /\ step = "up" => Open \subseteq Owned
  /\ closing = "closed" => Open = {}

\* A modern receiver is asked for streams only when it has been prepared and its
\* event channel was connected; a legacy one gets RECORD only when it has both
\* streams and the data connection was opened.
RightOrder ==
  /\ modern /\ rx \cap {"audio", "video"} # {} => "prepared" \in rx /\ sock["event"] # "none"
  /\ ~modern /\ "recorded" \in rx => {"audio", "video"} \subseteq rx /\ sock["data"] # "none"

\* Once TEARDOWN is sent no worker is left, to ask the receiver for feedback on
\* a session that it no longer has or to write on a connection that it dropped.
TeardownLast == closing \in {"releasing", "closed"} => beat = "stopped" /\ feed = "stopped"

\* The receiver reads a codec frame before anything else, heartbeats included.
OpensWithCodec == link.first \in {"none", "codec"}

\* A loop whose packet was cut short writes nothing behind it: a receiver that
\* is out of step reads more from the other loop at the most.
CutEndsWriter ==
  /\ link.cut = "beat" => "beat" \notin link.behind
  /\ link.cut \in {"codec", "frame"} => link.behind \subseteq {"beat"}

\* As long as the receiver is in step, it has opened as many frames as the
\* sender has used nonces, so that it can open the next.
NoncesAgree == link.cut = "none" /\ video # "ended" => nonce = link.frames

\* What set-up has reached, step by step: the strengthening that RightOrder and
\* NothingLost need.
Reached ==
  /\ step \in {"start", "ports"} => tries < MaxTries /\ \A s \in Sockets : sock[s] # "open"
  /\ modern =>
       /\ step \in {"start", "ports", "control", "clock", "event", "record"} =>
            rx \cap {"audio", "video"} = {}
       /\ step \notin {"start", "ports", "control", "failed"} => "prepared" \in rx
       /\ step \notin {"start", "ports", "control", "clock", "event", "failed"} =>
            sock["event"] # "none"
       /\ step \in {"cipher", "audioStream", "workers", "up"} => sock["timing"] # "open"
  /\ ~modern =>
       /\ step \notin {"control", "clock"}
       /\ step \in {"start", "ports", "audio", "event", "video", "dial"} => "recorded" \notin rx
       /\ step \notin {"start", "ports", "audio", "failed"} => "audio" \in rx
       /\ step \notin {"start", "ports", "audio", "event", "video", "failed"} => "video" \in rx
       /\ step \notin {"start", "ports", "audio", "event", "video", "dial", "failed"} =>
            sock["data"] # "none"
  /\ step \in {"workers", "up"} => Open \subseteq Owned

\* The workers run, and Close is called, on a session that is up; the loop of a
\* heartbeat begins after the codec frame; whoever cut a packet has ended.
Workers ==
  /\ step # "up" => closing = "no" /\ video = "none" /\ beat = "none" /\ feed = "none"
  /\ closing = "teardown" => beat = "stopped" /\ feed = "stopped"
  /\ firstFrameSent => link.first = "codec"
  /\ beat = "ticking" \/ video = "frame" => firstFrameSent
  /\ link.cut = "none" => link.behind = {}
  /\ link.cut = "beat" => beat = "stopped"
  /\ link.cut \in {"codec", "frame"} => video = "ended"
  /\ link.time <= lastTimestamp
  /\ video \in {"codec", "frame"} => link.time < lastTimestamp

IInv == TypeOK /\ Reached /\ Workers /\ OpensWithCodec /\ NoncesAgree /\ NothingLost
               /\ RightOrder /\ TeardownLast /\ CutEndsWriter

\* Frames arrive with increasing times, although feedback may set the clock back
\* between any two of them.
TimesIncrease == [][link'.frames # link.frames => link'.time > link.time]_vars

\* Close returns, whatever the workers were doing when it was called.
CloseReturns == closing # "no" ~> closing = "closed"
=============================================================================
