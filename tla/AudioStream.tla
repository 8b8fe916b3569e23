---------------------------- MODULE AudioStream ----------------------------
(***************************************************************************)
(* The audio of a session, internal/airplay/audio.go: the capture process  *)
(* and the pipe it fills, StreamAudio, which waits for video, drops what   *)
(* the pipe holds by then and sends RTP packets, the goroutine that        *)
(* announces the RTP time, the one that listens on the control port, and   *)
(* the end of all of them.                                                 *)
(*                                                                         *)
(* An audio frame is its sequence number and RTP time; one in the pipe is  *)
(* only stale or not: captured before there was video, or after.  A packet *)
(* carries the low 16 bits of the sequence number, which no code compares; *)
(* here it is a count.  Packets are UDP: the network drops one run of      *)
(* consecutive packets, of at most MaxLoss.                                *)
(***************************************************************************)
EXTENDS Integers, Sequences, SequencesExt

CONSTANTS Depth,      \* retransmitDepth: 8 in the code
          Spf,        \* samples per frame: 352
          RtpMod,     \* RTP times are numbers modulo 2^32
          Epochs,     \* the RTP times that randomRTPTime may draw
          MaxLoss,    \* the length of the run of packets lost, at most
          PipeMax,    \* the frames that the pipe and its blocked writer hold
          QueueMax,   \* the frames in the leaky queue before the writer: 2
          MaxFrames   \* bounds the frames sent, for TLC

ASSUME DepthAssumption == Depth \in Nat \ {0} /\ Spf \in Nat \ {0} /\ RtpMod \in Nat \ {0}
\* A retransmitted frame is less than half the range of RTP times old.
ASSUME RangeAssumption == 2 * (Depth + 1) * Spf < RtpMod
ASSUME EpochsAssumption == Epochs \subseteq 0..(RtpMod - 1)
ASSUME BoundAssumption == MaxLoss \in Nat /\ MaxFrames \in Nat
ASSUME PipeAssumption == PipeMax \in Nat /\ QueueMax \in Nat \ {0}

VARIABLES
  \* Whether the receiver is modern (ChaCha20, each frame sent once) or legacy
  \* (each frame sent twice).
  modern,
  \* MirrorSession.firstFrameSent; the context; whether the sockets are open.
  firstFrameSent, live, open,
  \* AudioCapture: its process, and the frames captured and not read, TRUE for
  \* stale ones: those in the pipe or with its writer, then those in the queue.
  capture, pipe,
  \* StreamAudio: where it stands, frameSeq and nextRtp, the frames kept for
  \* retransmission with the index of the next, whether the burst is done, and
  \* whether the frame at hand is stale.
  pc, frameSeq, nextRtp, ring, index, burstDone, stale,
  \* AudioStream: rtpTime and chachaNonce.
  rtpTime, nonce,
  \* The goroutine of the announcements, with the RTP time of the last one, and
  \* the one that listens.
  sync, announced, listener,
  \* The network and the receiver: packets that the run of losses can still
  \* take, whether it has begun, and the packets received.
  losses, losing, got

captureVars == <<capture, pipe>>
loopVars    == <<frameSeq, nextRtp, ring, index, burstDone, stale>>
sendVars    == <<rtpTime, nonce, losses, losing, got>>
asideVars   == <<sync, announced, listener>>
vars == <<modern, firstFrameSent, live, open, captureVars, pc, loopVars, sendVars, asideVars>>

NoFrame == [seq |-> 0, rtp |-> 0]
NoTime  == -1

Init ==
  /\ modern \in BOOLEAN
  /\ firstFrameSent = FALSE /\ live = TRUE /\ open = TRUE
  /\ capture = "running" /\ pipe = <<>>
  /\ pc = "waiting" /\ frameSeq = 1 /\ nextRtp = 0 /\ ring = [i \in 0..(Depth - 1) |-> NoFrame]
  /\ index = 0 /\ burstDone = FALSE /\ stale = FALSE
  /\ rtpTime = 0 /\ nonce = 0
  /\ sync = "none" /\ announced = NoTime /\ listener = "none"
  /\ losses = MaxLoss /\ losing = FALSE /\ got = {}

-----------------------------------------------------------------------------
(* The capture                                                             *)

\* The pipeline captures a frame.  While the pipe is full its writer waits, and the
\* full queue before it drops its oldest frame, the one behind the writer's.
CaptureFrame ==
  /\ capture = "running"
  /\ \/ /\ Len(pipe) < PipeMax + QueueMax
        /\ pipe' = Append(pipe, ~firstFrameSent)
     \/ /\ Len(pipe) = PipeMax + QueueMax
        /\ pipe' = Append(RemoveAt(pipe, PipeMax + 1), ~firstFrameSent)
  /\ UNCHANGED <<modern, firstFrameSent, live, open, capture, pc, loopVars, sendVars, asideVars>>

\* The process exits; Wait closes the pipe, whatever is in it.
CaptureExits ==
  /\ capture = "running"
  /\ capture' = "exited" /\ pipe' = <<>>
  /\ UNCHANGED <<modern, firstFrameSent, live, open, pc, loopVars, sendVars, asideVars>>

\* Faulty: Stop first waits for StreamAudio, which reads from the process.
StopCaptureAfterStream ==
  /\ ~live /\ capture # "stopped" /\ pc = "ended"
  /\ capture' = "stopped" /\ pipe' = <<>>
  /\ UNCHANGED <<modern, firstFrameSent, live, open, pc, loopVars, sendVars, asideVars>>

\* AudioCapture.Stop: kill, close the pipe, wait.
StopCapture ==
  /\ ~live /\ capture # "stopped"
  /\ capture' = "stopped" /\ pipe' = <<>>
  /\ UNCHANGED <<modern, firstFrameSent, live, open, pc, loopVars, sendVars, asideVars>>

-----------------------------------------------------------------------------
(* StreamAudio                                                             *)

\* The codec frame has been sent (MirrorSession).
FirstFrame ==
  /\ ~firstFrameSent
  /\ firstFrameSent' = TRUE
  /\ UNCHANGED <<modern, live, open, captureVars, pc, loopVars, sendVars, asideVars>>

\* The random epoch, the first announcement, and the two goroutines.
Start ==
  /\ pc = "waiting" /\ firstFrameSent
  /\ nextRtp' \in Epochs
  /\ rtpTime' = nextRtp' /\ announced' = nextRtp'
  /\ sync' = "running" /\ listener' = "running"
  /\ pc' = "drain"
  /\ UNCHANGED <<modern, firstFrameSent, live, open, captureVars, frameSeq, ring, index,
                 burstDone, stale, nonce, losses, losing, got>>

\* DrainStale: one read, until one finds nothing for 2 ms.  That the writer fills
\* the room which a read has made in less is taken for granted.
DrainStale ==
  /\ pc = "drain"
  /\ IF pipe = <<>> THEN pc' = "loop" /\ UNCHANGED pipe
     ELSE pipe' = Tail(pipe) /\ UNCHANGED pc
  /\ UNCHANGED <<modern, firstFrameSent, live, open, capture, loopVars, sendVars, asideVars>>

\* Between two frames the context is looked at; the read that follows is blocked
\* until there is a frame or the pipe is closed.
BeginRead ==
  /\ pc = "loop" /\ live
  /\ pc' = "reading"
  /\ UNCHANGED <<modern, firstFrameSent, live, open, captureVars, loopVars, sendVars, asideVars>>

\* ReadFrame; modern frames and those of the first burst are not preceded by one
\* that is sent again.
ReadFrame ==
  /\ pc = "reading" /\ pipe # <<>> /\ frameSeq <= MaxFrames
  /\ stale' = Head(pipe) /\ pipe' = Tail(pipe)
  /\ pc' = IF modern \/ ~burstDone THEN "send" ELSE "resend"
  /\ UNCHANGED <<modern, firstFrameSent, live, open, capture, frameSeq, nextRtp, ring, index,
                 burstDone, sendVars, asideVars>>

\* The capture has exited or its pipe was closed: nothing else ends a read.
ReadFails ==
  /\ pc = "reading" /\ capture # "running"
  /\ pc' = "ended"
  /\ UNCHANGED <<modern, firstFrameSent, live, open, captureVars, loopVars, sendVars, asideVars>>

\* The context is cancelled, in the wait for video or between two frames.
EndStream ==
  /\ pc \in {"waiting", "loop"} /\ ~live
  /\ pc' = "ended"
  /\ UNCHANGED <<modern, firstFrameSent, live, open, captureVars, loopVars, sendVars, asideVars>>

\* Faulty: RTP times are compared as numbers.
NotOlderUnwrapped(rtp) == rtp >= rtpTime

\* int32(rtp - rtpTime) >= 0
NotOlder(rtp) == 2 * ((rtp - rtpTime) % RtpMod) < RtpMod

\* Faulty: the counter stays where it is.
NextNonceStuck == nonce

\* nextAudioChaChaNonce; a legacy packet has none, and a copy no other.
NextNonce == IF modern THEN nonce + 1 ELSE nonce

\* sendAudioPacketWithSeqAndNonce, to a socket that is open: UDP takes the packet
\* and may lose it.
Packet(frame) ==
  /\ nonce' = NextNonce
  /\ \/ /\ losses > 0
        /\ losing' = TRUE /\ losses' = losses - 1
        /\ UNCHANGED got
     \/ /\ got' = got \cup {[seq |-> frame.seq, rtp |-> frame.rtp, nonce |-> nonce]}
        /\ losses' = IF losing THEN 0 ELSE losses
        /\ UNCHANGED losing
  /\ rtpTime' = IF NotOlder(frame.rtp) THEN frame.rtp ELSE rtpTime

Resend ==
  /\ pc = "resend" /\ open
  /\ Packet(ring[index])
  /\ pc' = "send"
  /\ UNCHANGED <<modern, firstFrameSent, live, open, captureVars, loopVars, asideVars>>

\* Faulty: the new frame is stored behind the one that was just sent again.
SendMisplaced ==
  /\ pc = "send" /\ open
  /\ LET frame == [seq |-> frameSeq, rtp |-> nextRtp]
         next  == (index + 1) % Depth IN
       /\ Packet(frame)
       /\ IF modern THEN UNCHANGED <<ring, index, burstDone>>
          ELSE /\ ring' = IF burstDone THEN [ring EXCEPT ![next] = frame]
                                       ELSE [ring EXCEPT ![index] = frame]
               /\ index' = next
               /\ burstDone' = (burstDone \/ next = 0)
  /\ frameSeq' = frameSeq + 1 /\ nextRtp' = (nextRtp + Spf) % RtpMod
  /\ pc' = "loop" /\ stale' = FALSE
  /\ UNCHANGED <<modern, firstFrameSent, live, open, captureVars, asideVars>>

\* A new frame; a legacy receiver gets it again when Depth others have followed.
Send ==
  /\ pc = "send" /\ open
  /\ LET frame == [seq |-> frameSeq, rtp |-> nextRtp]
         next  == (index + 1) % Depth IN
       /\ Packet(frame)
       /\ IF modern THEN UNCHANGED <<ring, index, burstDone>>
          ELSE /\ ring' = [ring EXCEPT ![index] = frame]
               /\ index' = next
               /\ burstDone' = (burstDone \/ next = 0)
  /\ frameSeq' = frameSeq + 1 /\ nextRtp' = (nextRtp + Spf) % RtpMod
  /\ pc' = "loop" /\ stale' = FALSE
  /\ UNCHANGED <<modern, firstFrameSent, live, open, captureVars, asideVars>>

\* A packet that cannot be written, to a closed socket or an open one.
SendFails ==
  /\ pc \in {"resend", "send"}
  /\ pc' = "ended"
  /\ nonce' = NextNonce
  /\ UNCHANGED <<modern, firstFrameSent, live, open, captureVars, loopVars, rtpTime, losses,
                 losing, got, asideVars>>

StreamAudio ==
  \/ Start \/ DrainStale \/ BeginRead \/ ReadFrame \/ ReadFails \/ EndStream
  \/ Resend \/ Send \/ SendFails

-----------------------------------------------------------------------------
(* Announcements, the control port, the end                                *)

\* sendSyncPacket reads the RTP time under the mutex.
Announce ==
  /\ sync = "running"
  /\ \/ open /\ announced' = rtpTime
     \/ ~open /\ UNCHANGED announced
  /\ UNCHANGED <<modern, firstFrameSent, live, open, captureVars, pc, loopVars, sendVars,
                 sync, listener>>

EndSync ==
  /\ sync = "running" /\ ~live
  /\ sync' = "ended"
  /\ UNCHANGED <<modern, firstFrameSent, live, open, captureVars, pc, loopVars, sendVars,
                 announced, listener>>

\* ReadFrom fails on a closed socket; resend requests are only logged.
EndListener ==
  /\ listener = "running" /\ ~open
  /\ listener' = "ended"
  /\ UNCHANGED <<modern, firstFrameSent, live, open, captureVars, pc, loopVars, sendVars,
                 sync, announced>>

\* The stream is removed: its context is cancelled, its session closed (with
\* AudioStream.Close), in either order, and then its capture stopped.
Cancel ==
  /\ live /\ live' = FALSE
  /\ UNCHANGED <<modern, firstFrameSent, open, captureVars, pc, loopVars, sendVars, asideVars>>

CloseStream ==
  /\ open /\ open' = FALSE
  /\ UNCHANGED <<modern, firstFrameSent, live, captureVars, pc, loopVars, sendVars, asideVars>>

Next ==
  \/ CaptureFrame \/ CaptureExits \/ StopCapture \/ FirstFrame \/ StreamAudio
  \/ Announce \/ EndSync \/ EndListener \/ Cancel \/ CloseStream

Spec == Init /\ [][Next]_vars

\* The goroutines run; a stream whose context is cancelled is also closed (Daemon,
\* connectAndStream and handleDisconnect) and its capture stopped: the deferred Stop
\* of connectAndStream, which does not wait for StreamAudio, and CommandContext, which
\* kills the process with the context.  Nobody makes the process write a frame.
FairSpec ==
  /\ Spec
  /\ WF_vars(StreamAudio) /\ WF_vars(EndSync) /\ WF_vars(EndListener)
  /\ WF_vars(StopCapture) /\ WF_vars(~live /\ CloseStream)

-----------------------------------------------------------------------------
Frames == [seq : Nat, rtp : 0..(RtpMod - 1)]

TypeOK ==
  /\ modern \in BOOLEAN /\ firstFrameSent \in BOOLEAN /\ live \in BOOLEAN /\ open \in BOOLEAN
  /\ capture \in {"running", "exited", "stopped"} /\ pipe \in Seq(BOOLEAN)
  /\ pc \in {"waiting", "drain", "loop", "reading", "resend", "send", "ended"}
  /\ frameSeq \in Nat \ {0} /\ nextRtp \in 0..(RtpMod - 1)
  /\ ring \in [0..(Depth - 1) -> Frames] /\ index \in 0..(Depth - 1)
  /\ burstDone \in BOOLEAN /\ stale \in BOOLEAN
  /\ rtpTime \in 0..(RtpMod - 1) /\ nonce \in Nat
  /\ sync \in {"none", "running", "ended"} /\ listener \in {"none", "running", "ended"}
  /\ announced \in {NoTime} \cup 0..(RtpMod - 1)
  /\ losses \in 0..MaxLoss /\ losing \in BOOLEAN
  /\ got \subseteq [seq : Nat, rtp : 0..(RtpMod - 1), nonce : Nat]

\* A copy of a frame carries its RTP time, and on a modern stream no nonce was
\* used for two packets.
CopiesAgree ==
  \A p, q \in got : /\ p.seq = q.seq => p.rtp = q.rtp
                    /\ modern /\ p.nonce = q.nonce => p = q

\* No audio is sent that was captured before there was video to go with it.
Fresh == pc \in {"resend", "send"} => ~stale

Received == {p.seq : p \in got}

\* A legacy receiver has every frame that was sent twice, whichever Depth packets
\* in a row the network lost.
Recovered == ~modern => 1..(frameSeq - 1 - Depth) \subseteq Received

\* The RTP time that is announced with the clock is that of the newest frame: a
\* copy of an old one does not set it back, and it follows the frames over the
\* end of the range of RTP times.
ClockFollows ==
  pc \in {"loop", "reading", "resend", "send"} =>
    rtpTime = IF frameSeq = 1 THEN nextRtp ELSE (nextRtp - Spf) % RtpMod

\* What these rest on, with which they are inductive.  The pipe has been drained
\* once frames are read.
Drained ==
  /\ pc \notin {"waiting", "ended"} => firstFrameSent
  /\ pc \in {"loop", "reading", "resend", "send"} => \A i \in 1..Len(pipe) : pipe[i] = FALSE

\* The RTP time of frame s, reckoned back from the next.
RtpOf(s) == (nextRtp - (frameSeq - s) * Spf) % RtpMod

\* All packets are of one timeline, and the nonces of a modern stream go up.
Timeline ==
  /\ pc \in {"waiting", "drain"} => frameSeq = 1 /\ index = 0 /\ ~burstDone /\ got = {}
  /\ pc = "drain" => rtpTime = nextRtp
  /\ \A p \in got : p.rtp = RtpOf(p.seq) /\ (modern => p.nonce < nonce)

\* The ring of a legacy stream has the last Depth frames, or all in the first
\* burst: the newest behind the index, and at it the one that is Depth old.
Ring ==
  /\ pc = "resend" => ~modern /\ burstDone
  /\ ~modern =>
       /\ IF burstDone THEN frameSeq > Depth ELSE frameSeq = index + 1
       /\ \A i \in 0..(Depth - 1) :
            /\ i < index => ring[i].seq = frameSeq - index + i
            /\ i >= index /\ burstDone => ring[i].seq = frameSeq - Depth + i - index
            /\ i < index \/ burstDone => ring[i].rtp = RtpOf(ring[i].seq)

\* A frame that is missing was lost by the one run of losses, and that is over
\* before the frame is sent again: it cannot take more packets than there are
\* new frames before that.
Covered ==
  MaxLoss <= Depth /\ ~modern =>
    \A k \in 1..(frameSeq - 1) : k \notin Received =>
      /\ losing /\ losses <= k + Depth - frameSeq
      /\ pc = "send" => frameSeq < k + Depth

\* What is sent is current, and each packet the only one of its frame or nonce.
IInv ==
  TypeOK /\ CopiesAgree /\ Fresh /\ ClockFollows /\ Drained /\ Timeline /\ Ring /\ Covered

\* When a stream is removed, StreamAudio and its two goroutines end.
AudioEnds == ~live ~> pc = "ended" /\ sync # "running" /\ listener # "running"
=============================================================================
