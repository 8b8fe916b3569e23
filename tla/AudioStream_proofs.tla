-------------------------- MODULE AudioStream_proofs --------------------------
(***************************************************************************)
(* AudioStream announces the time of the newest frame, gives each frame    *)
(* one RTP time and each packet of a modern stream one nonce, and has a    *)
(* legacy receiver get every frame that it sends twice, for every length   *)
(* of the ring, every number of frames and every range of RTP times.       *)
(***************************************************************************)
EXTENDS AudioStream, SequenceTheorems, TLAPS

-----------------------------------------------------------------------------
(* Numbers modulo M                                                        *)

LEMMA ModParts ==
  ASSUME NEW M \in Nat \ {0}, NEW a \in Int
  PROVE  \E q \in Int, r \in 0..(M - 1) : a = M * q + r /\ r = a % M
<1>1. a \div M \in Int /\ a % M \in 0..(M - 1) /\ a = M * (a \div M) + (a % M)
  OBVIOUS
<1> QED
  BY <1>1, Zenon

\* A multiple of M that is smaller than M is 0.
LEMMA SmallMultiple ==
  ASSUME NEW M \in Nat \ {0}, NEW q \in Int, NEW d \in Int, q * M = d, -M < d, d < M
  PROVE  d = 0
<1>1. CASE q = 0 BY <1>1
<1>2. CASE q > 0
  <2>1. q * M >= M BY <1>2
  <2> QED BY <2>1
<1>3. CASE q < 0
  <2>1. q * M <= -M BY <1>3
  <2> QED BY <2>1
<1> QED BY <1>1, <1>2, <1>3

\* The remainder is the only number in the range that differs by a multiple.
LEMMA ModUnique ==
  ASSUME NEW M \in Nat \ {0}, NEW a \in Int, NEW q \in Int, NEW r \in 0..(M - 1),
         a = q * M + r
  PROVE  a % M = r
<1>1. PICK p \in Int, s \in 0..(M - 1) : a = M * p + s /\ s = a % M
  BY ModParts
<1>2. a = M * p + s
  BY <1>1, Zenon
<1>3. (p - q) * M = r - s
  BY <1>2
<1>4. r - s \in Int /\ p - q \in Int /\ -M < r - s /\ r - s < M
  OBVIOUS
<1>5. r - s = 0
  BY <1>3, <1>4, SmallMultiple
<1>6. r = s
  BY <1>5
<1> QED
  BY <1>1, <1>6, Zenon

\* A remainder in a sum or a difference can be replaced by the number itself.
LEMMA ModAdd ==
  ASSUME NEW M \in Nat \ {0}, NEW a \in Int, NEW b \in Int
  PROVE  ((a % M) + b) % M = (a + b) % M
<1>1. PICK p \in Int, r \in 0..(M - 1) : a = M * p + r /\ r = a % M
  BY ModParts
<1>2. PICK q \in Int, s \in 0..(M - 1) : r + b = M * q + s /\ s = (r + b) % M
  <2>1. r + b \in Int OBVIOUS
  <2> QED BY <2>1, ModParts
<1>3. a + b = (p + q) * M + s
  <2>1. a = M * p + r /\ r + b = M * q + s
    BY <1>1, <1>2, Zenon
  <2>2. a + b = M * p + (M * q + s)
    BY <2>1
  <2>3. (p + q) * M = M * p + M * q
    OBVIOUS
  <2> QED
    BY <2>2, <2>3
<1>4. p + q \in Int /\ a + b \in Int
  OBVIOUS
<1>5. (a + b) % M = s
  BY <1>3, <1>4, ModUnique
<1> QED
  BY <1>1, <1>2, <1>5

LEMMA ModSub ==
  ASSUME NEW M \in Nat \ {0}, NEW a \in Int, NEW b \in Int
  PROVE  (b - (a % M)) % M = (b - a) % M
<1>1. PICK p \in Int, r \in 0..(M - 1) : a = M * p + r /\ r = a % M
  BY ModParts
<1>2. PICK q \in Int, s \in 0..(M - 1) : b - r = M * q + s /\ s = (b - r) % M
  <2>1. b - r \in Int OBVIOUS
  <2> QED BY <2>1, ModParts
<1>3. b - a = (q - p) * M + s
  <2>1. a = M * p + r /\ b - r = M * q + s
    BY <1>1, <1>2, Zenon
  <2>2. b - a = (M * q + s) - M * p
    BY <2>1
  <2>3. (q - p) * M = M * q - M * p
    OBVIOUS
  <2> QED
    BY <2>2, <2>3
<1>4. q - p \in Int /\ b - a \in Int
  OBVIOUS
<1>5. (b - a) % M = s
  BY <1>3, <1>4, ModUnique
<1> QED
  BY <1>1, <1>2, <1>5

LEMMA ModSmall ==
  ASSUME NEW M \in Nat \ {0}, NEW a \in 0..(M - 1)
  PROVE  a % M = a
<1>1. a = 0 * M + a /\ 0 \in Int /\ a \in Int
  OBVIOUS
<1> QED
  BY <1>1, ModUnique

LEMMA ModNegative ==
  ASSUME NEW M \in Nat \ {0}, NEW a \in 1..(M - 1)
  PROVE  (-a) % M = M - a
<1>1. -a = (-1) * M + (M - a) /\ -1 \in Int /\ -a \in Int /\ M - a \in 0..(M - 1)
  OBVIOUS
<1> QED
  BY <1>1, ModUnique

LEMMA ModType == ASSUME NEW M \in Nat \ {0}, NEW a \in Int PROVE a % M \in 0..(M - 1)
  OBVIOUS

-----------------------------------------------------------------------------
(* RTP times                                                               *)

LEMMA Constants ==
  /\ Depth \in Nat \ {0} /\ Spf \in Nat \ {0} /\ RtpMod \in Nat \ {0}
  /\ Depth * Spf \in Nat /\ Depth * Spf >= Spf
  /\ 2 * (Depth * Spf) + 2 * Spf < RtpMod
<1>1. Depth \in Nat \ {0} /\ Spf \in Nat \ {0} /\ RtpMod \in Nat \ {0}
  BY DepthAssumption
<1>2. Depth * Spf \in Nat /\ Depth * Spf >= Spf
  BY <1>1
<1>3. 2 * (Depth + 1) * Spf = 2 * (Depth * Spf) + 2 * Spf
  BY <1>1
<1> QED
  BY <1>1, <1>2, <1>3, RangeAssumption

\* The RTP time of a frame stays as it is when the next frame is reckoned with.
LEMMA RtpShift ==
  ASSUME NEW next \in Int, NEW seq \in Int, NEW s \in Int
  PROVE  (((next + Spf) % RtpMod) - (seq + 1 - s) * Spf) % RtpMod
           = (next - (seq - s) * Spf) % RtpMod
<1> DEFINE a == next + Spf
           b == -((seq + 1 - s) * Spf)
<1>1. a \in Int /\ b \in Int /\ RtpMod \in Nat \ {0} /\ Spf \in Int
  BY Constants
<1>2. ((a % RtpMod) + b) % RtpMod = (a + b) % RtpMod
  <2> HIDE DEF a, b
  <2> QED
    BY <1>1, ModAdd
<1>3. a + b = next - (seq - s) * Spf
  <2>1. (seq + 1 - s) * Spf = (seq - s) * Spf + Spf
    BY <1>1
  <2> QED
    BY <2>1, <1>1
<1>4. (a % RtpMod) + b = ((next + Spf) % RtpMod) - (seq + 1 - s) * Spf
  <2>1. a % RtpMod \in Int
    <3> HIDE DEF a
    <3> QED
      BY <1>1, ModType
  <2> QED
    BY <2>1, <1>1
<1> QED
  BY <1>2, <1>3, <1>4

\* A new frame has its time, and the one before it follows that time.
LEMMA RtpOfNewest ==
  ASSUME NEW next \in 0..(RtpMod - 1)
  PROVE  (((next + Spf) % RtpMod) - Spf) % RtpMod = next
<1>1. next + Spf \in Int /\ -Spf \in Int /\ RtpMod \in Nat \ {0}
  BY Constants
<1>2. (((next + Spf) % RtpMod) + (-Spf)) % RtpMod = ((next + Spf) + (-Spf)) % RtpMod
  BY <1>1, ModAdd
<1>3. (next + Spf) + (-Spf) = next /\ (((next + Spf) % RtpMod) + (-Spf)) = ((next + Spf) % RtpMod) - Spf
  <2>1. (next + Spf) % RtpMod \in Int /\ Spf \in Int
    BY <1>1, Constants, ModType
  <2> QED
    BY <2>1
<1> QED
  BY <1>2, <1>3, <1>1, ModSmall

\* The next frame is not older than the newest, wherever the range ends.
LEMMA NextIsNewer ==
  ASSUME nextRtp \in 0..(RtpMod - 1), rtpTime \in {nextRtp, (nextRtp - Spf) % RtpMod}
  PROVE  NotOlder(nextRtp)
<1>1. nextRtp \in Int /\ nextRtp - Spf \in Int /\ RtpMod \in Nat \ {0} /\ Spf \in 0..(RtpMod - 1)
  BY Constants
<1>2. CASE rtpTime = nextRtp
  <2>1. nextRtp - rtpTime = 0 /\ 0 \in 0..(RtpMod - 1)
    BY <1>1, <1>2
  <2>2. (nextRtp - rtpTime) % RtpMod = 0
    BY <1>1, <2>1, ModSmall
  <2> QED
    BY <2>2, <1>1 DEF NotOlder
<1>3. CASE rtpTime = (nextRtp - Spf) % RtpMod
  <2>1. (nextRtp - rtpTime) % RtpMod = (nextRtp - (nextRtp - Spf)) % RtpMod
    BY <1>1, <1>3, ModSub
  <2>2. nextRtp - (nextRtp - Spf) = Spf
    BY <1>1
  <2>3. (nextRtp - rtpTime) % RtpMod = Spf
    BY <1>1, <2>1, <2>2, ModSmall
  <2> QED
    BY <2>3, Constants DEF NotOlder
<1> QED
  BY <1>2, <1>3

\* The frame that is Depth old is older than the newest, or the newest itself.
LEMMA ResentIsOlder ==
  ASSUME nextRtp \in 0..(RtpMod - 1), NEW time \in Int,
         time = (nextRtp - Depth * Spf) % RtpMod, rtpTime = (nextRtp - Spf) % RtpMod,
         NotOlder(time)
  PROVE  time = rtpTime
<1>1. nextRtp \in Int /\ Spf \in Int /\ Depth * Spf \in Int /\ RtpMod \in Nat \ {0}
  BY Constants
<1> DEFINE old == Depth * Spf
           a == nextRtp - old
           b == nextRtp - Spf
<1>2. a \in Int /\ b \in Int /\ old \in Int /\ rtpTime = b % RtpMod /\ time = a % RtpMod
  BY <1>1
<1>3. (time - rtpTime) % RtpMod = (a - b) % RtpMod
  <2> HIDE DEF a, b
  <2>1. a % RtpMod \in Int /\ b % RtpMod \in Int
    BY <1>1, <1>2, ModType
  <2>2. (time - rtpTime) % RtpMod = (time - b) % RtpMod
    <3>1. (time - (b % RtpMod)) % RtpMod = (time - b) % RtpMod
      BY <1>1, <1>2, ModSub
    <3> QED
      BY <3>1, <1>2
  <2>3. time - b = (a % RtpMod) + (-b) /\ -b \in Int /\ a + (-b) = a - b
    BY <1>2, <2>1
  <2>4. ((a % RtpMod) + (-b)) % RtpMod = (a + (-b)) % RtpMod
    BY <1>1, <1>2, <2>3, ModAdd
  <2> QED
    BY <2>2, <2>3, <2>4
<1>4. CASE old = Spf
  BY <1>4, <1>2
<1>5. CASE old # Spf
  <2> DEFINE d == old - Spf
  <2>1. d \in 1..(RtpMod - 1) /\ 2 * d < RtpMod /\ a - b = -d
    BY <1>1, <1>5, Constants
  <2>2. (time - rtpTime) % RtpMod = RtpMod - d
    <3> HIDE DEF d
    <3> QED
      BY <1>1, <1>3, <2>1, ModNegative
  <2> QED
    <3> HIDE DEF d
    <3> QED
      BY <1>1, <2>1, <2>2 DEF NotOlder
<1> QED
  BY <1>4, <1>5

-----------------------------------------------------------------------------
(* What a packet does                                                      *)

\* TypeOK in three parts, which different provers handle.
Flags == /\ modern \in BOOLEAN /\ firstFrameSent \in BOOLEAN /\ live \in BOOLEAN
         /\ open \in BOOLEAN /\ burstDone \in BOOLEAN /\ losing \in BOOLEAN

Piped == pipe \in Seq(BOOLEAN) /\ stale \in BOOLEAN

Packets == [seq : Nat, rtp : 0..(RtpMod - 1), nonce : Nat]

States ==
  /\ capture \in {"running", "exited", "stopped"}
  /\ pc \in {"waiting", "drain", "loop", "reading", "resend", "send", "ended"}
  /\ frameSeq \in Nat \ {0} /\ nextRtp \in 0..(RtpMod - 1)
  /\ ring \in [0..(Depth - 1) -> Frames] /\ index \in 0..(Depth - 1)
  /\ rtpTime \in 0..(RtpMod - 1) /\ nonce \in Nat
  /\ sync \in {"none", "running", "ended"} /\ listener \in {"none", "running", "ended"}
  /\ announced \in {NoTime} \cup 0..(RtpMod - 1)
  /\ losses \in 0..MaxLoss /\ got \subseteq Packets

LEMMA TypeParts == TypeOK <=> Flags /\ Piped /\ States
  BY DEF TypeOK, Flags, Piped, States, Packets

\* A packet arrives and ends the run of losses, or is lost to it.
Sent(frame) == [seq |-> frame.seq, rtp |-> frame.rtp, nonce |-> nonce]

LEMMA PacketStep ==
  ASSUME States, NEW frame \in Frames, Packet(frame)
  PROVE  /\ nonce' \in Nat /\ nonce' = NextNonce /\ losses' \in 0..MaxLoss
         /\ rtpTime' \in 0..(RtpMod - 1) /\ rtpTime' \in {rtpTime, frame.rtp}
         /\ got' \subseteq Packets /\ Sent(frame) \in Packets
         /\ \/ /\ losses > 0 /\ losses' = losses - 1 /\ losing' = TRUE /\ got' = got
            \/ /\ losses' = IF losing THEN 0 ELSE losses
               /\ losing' = losing /\ got' = got \cup {Sent(frame)}
<1>1. frame.seq \in Nat /\ frame.rtp \in 0..(RtpMod - 1)
  BY DEF Frames
<1>2. Sent(frame) \in Packets
  BY <1>1 DEF Sent, Packets, States
<1>3. nonce' \in Nat /\ nonce' = NextNonce
  BY DEF Packet, NextNonce, States
<1>4. rtpTime' \in 0..(RtpMod - 1) /\ rtpTime' \in {rtpTime, frame.rtp}
  BY <1>1 DEF Packet, States
<1>5. \/ /\ losses > 0 /\ losses' = losses - 1 /\ losing' = TRUE /\ got' = got
      \/ /\ losses' = IF losing THEN 0 ELSE losses
         /\ losing' = losing /\ got' = got \cup {Sent(frame)}
  BY DEF Packet, Sent
<1>6. losses' \in 0..MaxLoss
  BY <1>5, BoundAssumption DEF States
<1>7. got' \subseteq Packets
  BY <1>2, <1>5 DEF States
<1> QED
  BY <1>2, <1>3, <1>4, <1>5, <1>6, <1>7

\* The index of the next frame of the ring.
LEMMA NextIndex ==
  ASSUME index \in 0..(Depth - 1)
  PROVE  (index + 1) % Depth = IF index + 1 = Depth THEN 0 ELSE index + 1
<1>1. CASE index + 1 = Depth
  <2>1. index + 1 = 1 * Depth + 0 /\ 0 \in 0..(Depth - 1) /\ 1 \in Int /\ index + 1 \in Int
    BY <1>1, Constants
  <2> QED
    BY <1>1, <2>1, Constants, ModUnique
<1>2. CASE index + 1 # Depth
  <2>1. index + 1 \in 0..(Depth - 1)
    BY <1>2, Constants
  <2> QED
    BY <1>2, <2>1, Constants, ModSmall
<1> QED
  BY <1>1, <1>2

\* What Send does, apart from the packet.
Frame == [seq |-> frameSeq, rtp |-> nextRtp]

Stored ==
  \/ modern /\ UNCHANGED <<ring, index, burstDone>>
  \/ /\ ~modern /\ ring' = [ring EXCEPT ![index] = Frame]
     /\ \/ index + 1 = Depth /\ index' = 0 /\ burstDone' = TRUE
        \/ index + 1 # Depth /\ index' = index + 1 /\ burstDone' = burstDone

LEMMA SendStep ==
  ASSUME Flags, States, Send
  PROVE  /\ pc = "send" /\ open /\ Frame \in Frames /\ Packet(Frame) /\ Stored
         /\ frameSeq' = frameSeq + 1 /\ nextRtp' = (nextRtp + Spf) % RtpMod
         /\ nextRtp' \in 0..(RtpMod - 1) /\ pc' = "loop" /\ stale' = FALSE
         /\ UNCHANGED <<modern, firstFrameSent, live, open, capture, pipe, sync, announced, listener>>
<1>1. Frame \in Frames
  BY DEF Frame, Frames, States
<1>2. Stored
  <2>1. (index + 1) % Depth = IF index + 1 = Depth THEN 0 ELSE index + 1
    BY NextIndex DEF States
  <2>2. CASE modern
    BY <2>2 DEF Send, Stored
  <2>3. CASE ~modern /\ index + 1 = Depth
    <3>1. index' = 0 /\ ring' = [ring EXCEPT ![index] = Frame]
      BY <2>1, <2>3 DEF Send, Frame
    <3>2. burstDone' = (burstDone \/ 0 = 0)
      BY <2>1, <2>3 DEF Send
    <3> QED
      BY <2>3, <3>1, <3>2 DEF Stored
  <2>4. CASE ~modern /\ index + 1 # Depth
    <3>1. index' = index + 1 /\ ring' = [ring EXCEPT ![index] = Frame]
      BY <2>1, <2>4 DEF Send, Frame
    <3>2. index + 1 # 0
      BY DEF States
    <3>3. burstDone' = (burstDone \/ index + 1 = 0)
      BY <2>1, <2>4 DEF Send
    <3>4. burstDone' = burstDone
      BY <3>2, <3>3, Zenon DEF Flags
    <3> QED
      BY <2>4, <3>1, <3>4 DEF Stored
  <2> QED
    BY <2>2, <2>3, <2>4
<1>3. nextRtp' \in 0..(RtpMod - 1)
  <2>1. nextRtp + Spf \in Int
    BY Constants DEF States
  <2> QED
    BY <2>1, Constants, ModType DEF Send
<1> QED
  BY <1>1, <1>2, <1>3 DEF Send, Frame, captureVars, asideVars

LEMMA ResendStep ==
  ASSUME States, Resend
  PROVE  /\ pc = "resend" /\ ring[index] \in Frames /\ Packet(ring[index]) /\ pc' = "send"
         /\ UNCHANGED <<modern, firstFrameSent, live, open, capture, pipe, frameSeq, nextRtp,
                        ring, index, burstDone, stale, sync, announced, listener>>
  BY DEF Resend, States, captureVars, loopVars, asideVars

-----------------------------------------------------------------------------
(* The invariant is inductive, part by part                                *)

LEMMA FlagsStep == ASSUME Flags, [Next]_vars PROVE Flags'
<1> USE DEF Flags, captureVars, loopVars, sendVars, asideVars
<1>1. CASE CaptureFrame BY <1>1, Zenon DEF CaptureFrame
<1>2. CASE CaptureExits BY <1>2, Zenon DEF CaptureExits
<1>3. CASE StopCapture BY <1>3, Zenon DEF StopCapture
<1>4. CASE FirstFrame BY <1>4, Zenon DEF FirstFrame
<1>5. CASE Start BY <1>5, Zenon DEF Start
<1>6. CASE DrainStale BY <1>6, Zenon DEF DrainStale
<1>7. CASE ReadFrame BY <1>7, Zenon DEF ReadFrame
<1>6a. CASE BeginRead BY <1>6a, Zenon DEF BeginRead
<1>7a. CASE ReadFails BY <1>7a, Zenon DEF ReadFails
<1>8. CASE EndStream BY <1>8, Zenon DEF EndStream
<1>9. CASE Resend BY <1>9, Zenon DEF Resend, Packet
<1>10. CASE Send BY <1>10, Zenon DEF Send, Packet
<1>11. CASE SendFails BY <1>11, Zenon DEF SendFails
<1>12. CASE Announce BY <1>12, Zenon DEF Announce
<1>13. CASE EndSync BY <1>13, Zenon DEF EndSync
<1>14. CASE EndListener BY <1>14, Zenon DEF EndListener
<1>15. CASE Cancel BY <1>15, Zenon DEF Cancel
<1>16. CASE CloseStream BY <1>16, Zenon DEF CloseStream
<1>17. CASE UNCHANGED vars BY <1>17, Zenon DEF vars
<1> QED
  BY <1>1, <1>2, <1>3, <1>4, <1>5, <1>6, <1>6a, <1>7, <1>7a, <1>8, <1>9, <1>10,
     <1>11, <1>12, <1>13, <1>14, <1>15, <1>16, <1>17
     DEF Next, StreamAudio

LEMMA StatesStep == ASSUME Flags, States, [Next]_vars PROVE States'
<1> USE DEF States, captureVars, loopVars, sendVars, asideVars
<1>1. CASE CaptureFrame BY <1>1 DEF CaptureFrame
<1>2. CASE CaptureExits BY <1>2 DEF CaptureExits
<1>3. CASE StopCapture BY <1>3 DEF StopCapture
<1>4. CASE FirstFrame BY <1>4 DEF FirstFrame
<1>5. CASE Start BY <1>5, EpochsAssumption DEF Start
<1>6. CASE DrainStale BY <1>6 DEF DrainStale
<1>7. CASE ReadFrame BY <1>7 DEF ReadFrame
<1>6a. CASE BeginRead BY <1>6a DEF BeginRead
<1>7a. CASE ReadFails BY <1>7a DEF ReadFails
<1>8. CASE EndStream BY <1>8 DEF EndStream
<1>9. CASE Resend BY <1>9, ResendStep, PacketStep DEF Resend
<1>10. CASE Send
  <2>1. /\ frameSeq' \in Nat \ {0} /\ ring' \in [0..(Depth - 1) -> Frames] /\ index' \in 0..(Depth - 1)
    <3>1. Stored /\ Frame \in Frames /\ frameSeq' = frameSeq + 1
      BY <1>10, SendStep
    <3>2. CASE modern
      BY <3>1, <3>2 DEF Stored
    <3>3. CASE ~modern
      BY <3>1, <3>3, Constants DEF Stored
    <3> QED
      BY <3>2, <3>3
  <2> QED
    BY <1>10, <2>1, SendStep, PacketStep
<1>11. CASE SendFails BY <1>11 DEF SendFails, NextNonce
<1>12. CASE Announce BY <1>12 DEF Announce
<1>13. CASE EndSync BY <1>13 DEF EndSync
<1>14. CASE EndListener BY <1>14 DEF EndListener
<1>15. CASE Cancel BY <1>15 DEF Cancel
<1>16. CASE CloseStream BY <1>16 DEF CloseStream
<1>17. CASE UNCHANGED vars BY <1>17 DEF vars
<1> QED
  BY <1>1, <1>2, <1>3, <1>4, <1>5, <1>6, <1>6a, <1>7, <1>7a, <1>8, <1>9, <1>10,
     <1>11, <1>12, <1>13, <1>14, <1>15, <1>16, <1>17
     DEF Next, StreamAudio

\* The pipe: what is appended, what is taken, what is left.
Current == Piped /\ Fresh /\ Drained

LEMMA PipeAppended ==
  ASSUME NEW s \in Seq(BOOLEAN), NEW x \in BOOLEAN
  PROVE  /\ Append(s, x) \in Seq(BOOLEAN) /\ Len(Append(s, x)) = Len(s) + 1
         /\ Len(s) \in Nat /\ Append(s, x)[Len(s) + 1] = x
         /\ \A i \in 1..Len(s) : Append(s, x)[i] = s[i]
  BY AppendProperties, LenProperties

\* All elements of s are elements of the pipe.
Kept(s) == \A i \in 1..Len(s) : \E j \in 1..Len(pipe) : s[i] = pipe[j]

LEMMA PipeDropped ==
  ASSUME pipe \in Seq(BOOLEAN), NEW k \in 1..Len(pipe)
  PROVE  RemoveAt(pipe, k) \in Seq(BOOLEAN) /\ Kept(RemoveAt(pipe, k))
<1> DEFINE s == SubSeq(pipe, 1, k - 1)
           u == SubSeq(pipe, k + 1, Len(pipe))
<1>1. Len(pipe) \in Nat /\ k \in Int /\ \A i \in 1..Len(pipe) : pipe[i] \in BOOLEAN
  BY LenProperties, ElementOfSeq
<1>2. /\ s \in Seq(BOOLEAN) /\ Len(s) = k - 1
      /\ \A i \in 1..(k - 1) : s[i] = pipe[i]
  <2>1. 1 \in Int /\ k - 1 \in Int /\ \A i \in 1..(k - 1) : pipe[i] \in BOOLEAN
    BY <1>1
  <2>2. /\ s \in Seq(BOOLEAN) /\ Len(s) = (IF 1 <= k - 1 THEN k - 1 - 1 + 1 ELSE 0)
        /\ \A i \in 1..(k - 1 - 1 + 1) : s[i] = pipe[1 + i - 1]
    BY <2>1, SubSeqProperties
  <2> HIDE DEF s
  <2> QED
    BY <1>1, <2>2
<1>3. /\ u \in Seq(BOOLEAN) /\ Len(u) = Len(pipe) - k
      /\ \A i \in 1..(Len(pipe) - k) : u[i] = pipe[k + i]
  <2>1. k + 1 \in Int /\ Len(pipe) \in Int /\ \A i \in (k + 1)..Len(pipe) : pipe[i] \in BOOLEAN
    BY <1>1
  <2>2. /\ u \in Seq(BOOLEAN)
        /\ Len(u) = (IF k + 1 <= Len(pipe) THEN Len(pipe) - (k + 1) + 1 ELSE 0)
        /\ \A i \in 1..(Len(pipe) - (k + 1) + 1) : u[i] = pipe[k + 1 + i - 1]
    BY <2>1, SubSeqProperties
  <2> HIDE DEF u
  <2> QED
    BY <1>1, <2>2
<1>4. RemoveAt(pipe, k) = s \o u
  BY DEF RemoveAt
<1> HIDE DEF s, u
<1>5. /\ s \o u \in Seq(BOOLEAN) /\ Len(s \o u) = Len(s) + Len(u)
      /\ \A i \in 1..(Len(s) + Len(u)) : (s \o u)[i] = IF i <= Len(s) THEN s[i] ELSE u[i - Len(s)]
  BY <1>2, <1>3, ConcatProperties
<1>6. ASSUME NEW i \in 1..Len(s \o u)
      PROVE  \E j \in 1..Len(pipe) : (s \o u)[i] = pipe[j]
  <2>1. CASE i <= k - 1
    <3>1. i \in 1..Len(pipe) /\ (s \o u)[i] = pipe[i]
      BY <1>1, <1>2, <1>3, <1>5, <2>1
    <3> QED
      BY <3>1
  <2>2. CASE ~(i <= k - 1)
    <3>1. i - (k - 1) \in 1..(Len(pipe) - k) /\ (s \o u)[i] = u[i - (k - 1)]
      BY <1>1, <1>2, <1>3, <1>5, <2>2
    <3>2. k + (i - (k - 1)) \in 1..Len(pipe) /\ u[i - (k - 1)] = pipe[k + (i - (k - 1))]
      BY <1>1, <1>3, <3>1
    <3> QED
      BY <3>1, <3>2
  <2> QED
    BY <2>1, <2>2
<1> QED
  BY <1>4, <1>5, <1>6 DEF Kept

LEMMA PipeTaken ==
  ASSUME pipe \in Seq(BOOLEAN), pipe # <<>>
  PROVE  /\ Tail(pipe) \in Seq(BOOLEAN) /\ Head(pipe) \in BOOLEAN /\ Head(pipe) = pipe[1]
         /\ Len(pipe) \in Nat /\ Len(pipe) >= 1 /\ Len(Tail(pipe)) = Len(pipe) - 1
         /\ \A i \in 1..Len(Tail(pipe)) : Tail(pipe)[i] = pipe[i + 1]
  BY HeadTailProperties, LenProperties, EmptySeq

LEMMA CurrentStep == ASSUME Flags, States, Current, [Next]_vars PROVE Current'
<1> USE DEF Current, captureVars, loopVars, sendVars, asideVars
<1>0. <<>> \in Seq(BOOLEAN) /\ Len(<<>>) = 0
  BY EmptySeq
<1>1. CASE CaptureFrame
  <2>1. (~firstFrameSent) \in BOOLEAN
    <3>1. CASE firstFrameSent
      <4>1. (~firstFrameSent) = FALSE
        BY <3>1
      <4> QED
        BY <4>1, Zenon
    <3>2. CASE ~firstFrameSent
      <4>1. (~firstFrameSent) = TRUE
        BY <3>2
      <4> QED
        BY <4>1, Zenon
    <3> QED
      BY <3>1, <3>2
  <2>2. PICK x \in BOOLEAN : x = (~firstFrameSent)
    BY <2>1, Zenon
  <2>3. firstFrameSent => x = FALSE
    BY <2>2, Zenon
  <2>4. UNCHANGED <<pc, stale, firstFrameSent>>
    BY <1>1 DEF CaptureFrame
  <2>5. PICK s \in Seq(BOOLEAN) : pipe' = Append(s, x) /\ Kept(s)
    <3>1. CASE pipe' = Append(pipe, ~firstFrameSent)
      <4>1. Kept(pipe)
        BY DEF Kept
      <4> QED
        BY <2>2, <3>1, <4>1, Zenon DEF Piped
    <3>2. CASE /\ Len(pipe) = PipeMax + QueueMax
               /\ pipe' = Append(RemoveAt(pipe, PipeMax + 1), ~firstFrameSent)
      <4>1. PipeMax + 1 \in 1..Len(pipe)
        BY <3>2, PipeAssumption
      <4>2. RemoveAt(pipe, PipeMax + 1) \in Seq(BOOLEAN) /\ Kept(RemoveAt(pipe, PipeMax + 1))
        BY <4>1, PipeDropped DEF Piped
      <4> QED
        BY <2>2, <3>2, <4>2, Zenon
    <3> QED
      BY <1>1, <3>1, <3>2, Zenon DEF CaptureFrame
  <2>6. /\ pipe' \in Seq(BOOLEAN) /\ Len(pipe') = Len(s) + 1 /\ Len(s) \in Nat
        /\ pipe'[Len(s) + 1] = x /\ \A i \in 1..Len(s) : pipe'[i] = s[i]
    BY <2>5, PipeAppended
  <2>7. Piped' /\ Fresh'
    BY <2>4, <2>6, Zenon DEF Piped, Fresh
  <2>8. Drained'
    <3> SUFFICES ASSUME pc \in {"loop", "reading", "resend", "send"}, NEW i \in 1..Len(pipe')
                 PROVE  pipe'[i] = FALSE
      BY <2>4 DEF Drained
    <3>1. firstFrameSent /\ \A k \in 1..Len(pipe) : pipe[k] = FALSE
      BY DEF Drained
    <3>2. CASE i = Len(s) + 1
      BY <2>3, <2>6, <3>1, <3>2
    <3>3. CASE i # Len(s) + 1
      <4>1. i \in 1..Len(s) /\ pipe'[i] = s[i]
        BY <2>6, <3>3
      <4> QED
        BY <2>5, <3>1, <4>1 DEF Kept
    <3> QED
      BY <3>2, <3>3
  <2> QED
    BY <2>7, <2>8
<1>2. CASE CaptureExits BY <1>2, <1>0 DEF CaptureExits, Piped, Fresh, Drained
<1>3. CASE StopCapture BY <1>3, <1>0 DEF StopCapture, Piped, Fresh, Drained
<1>4. CASE FirstFrame BY <1>4 DEF FirstFrame, Piped, Fresh, Drained
<1>5. CASE Start BY <1>5 DEF Start, Piped, Fresh, Drained
<1>6. CASE DrainStale
  <2>1. CASE pipe = <<>>
    BY <1>6, <2>1, <1>0 DEF DrainStale, Piped, Fresh, Drained
  <2>2. CASE pipe # <<>>
    <3>1. Tail(pipe) \in Seq(BOOLEAN)
      BY <2>2, PipeTaken DEF Piped
    <3>2. pipe' = Tail(pipe) /\ pc' = "drain" /\ UNCHANGED <<stale, firstFrameSent>> /\ pc = "drain"
      BY <1>6, <2>2 DEF DrainStale
    <3> QED
      BY <3>1, <3>2 DEF Piped, Fresh, Drained
  <2> QED
    BY <2>1, <2>2
<1>7. CASE ReadFrame
  <2>1. pipe # <<>> /\ pc = "reading" /\ stale' = Head(pipe) /\ pipe' = Tail(pipe)
    BY <1>7 DEF ReadFrame
  <2>2. stale' \in BOOLEAN /\ pipe' \in Seq(BOOLEAN) /\ stale' = pipe[1]
    BY <2>1, PipeTaken DEF Piped
  <2>3. Len(pipe) \in Nat /\ Len(pipe) >= 1 /\ Len(pipe') = Len(pipe) - 1
    BY <2>1, PipeTaken DEF Piped
  <2>4. \A i \in 1..Len(pipe') : pipe'[i] = pipe[i + 1]
    BY <2>1, PipeTaken DEF Piped
  <2>5. stale' = FALSE /\ \A i \in 1..Len(pipe') : pipe'[i] = FALSE
    BY <2>1, <2>2, <2>3, <2>4 DEF Drained
  <2>6. firstFrameSent' /\ Fresh'
    BY <1>7, <2>1, <2>5 DEF ReadFrame, Drained, Fresh
  <2> QED
    BY <2>2, <2>5, <2>6 DEF Piped, Drained
<1>6a. CASE BeginRead BY <1>6a DEF BeginRead, Piped, Fresh, Drained
<1>7a. CASE ReadFails BY <1>7a DEF ReadFails, Piped, Fresh, Drained
<1>8. CASE EndStream BY <1>8 DEF EndStream, Piped, Fresh, Drained
<1>9. CASE Resend BY <1>9, ResendStep DEF Resend, Piped, Fresh, Drained
<1>10. CASE Send BY <1>10, SendStep DEF Send, Piped, Fresh, Drained
<1>11. CASE SendFails BY <1>11 DEF SendFails, Piped, Fresh, Drained
<1>12. CASE Announce BY <1>12 DEF Announce, Piped, Fresh, Drained
<1>13. CASE EndSync BY <1>13 DEF EndSync, Piped, Fresh, Drained
<1>14. CASE EndListener BY <1>14 DEF EndListener, Piped, Fresh, Drained
<1>15. CASE Cancel BY <1>15 DEF Cancel, Piped, Fresh, Drained
<1>16. CASE CloseStream BY <1>16 DEF CloseStream, Piped, Fresh, Drained
<1>17. CASE UNCHANGED vars BY <1>17 DEF vars, Piped, Fresh, Drained
<1> QED
  BY <1>1, <1>2, <1>3, <1>4, <1>5, <1>6, <1>6a, <1>7, <1>7a, <1>8, <1>9, <1>10,
     <1>11, <1>12, <1>13, <1>14, <1>15, <1>16, <1>17
     DEF Next, StreamAudio

\* No nonce of a modern stream is used twice, and each is behind the counter.
Nonces ==
  modern => /\ \A p \in got : p.nonce < nonce
            /\ \A p, q \in got : p.nonce = q.nonce => p = q

LEMMA NoncesPacket ==
  ASSUME States, Nonces, NEW frame \in Frames, Packet(frame), UNCHANGED modern
  PROVE  Nonces'
<1>1. nonce' = NextNonce /\ Sent(frame).nonce = nonce /\ got' \subseteq got \cup {Sent(frame)}
  BY PacketStep DEF Sent
<1>2. nonce \in Nat /\ \A p \in got : p.nonce \in Nat
  BY DEF States, Packets
<1> QED
  BY <1>1, <1>2 DEF Nonces, NextNonce

LEMMA NoncesStep == ASSUME Flags, States, Nonces, [Next]_vars PROVE Nonces'
<1> USE DEF captureVars, loopVars, sendVars, asideVars
<1>0. nonce \in Nat /\ \A p \in got : p.nonce \in Nat
  BY DEF States, Packets
<1>1. CASE CaptureFrame BY <1>1 DEF CaptureFrame, Nonces
<1>2. CASE CaptureExits BY <1>2 DEF CaptureExits, Nonces
<1>3. CASE StopCapture BY <1>3 DEF StopCapture, Nonces
<1>4. CASE FirstFrame BY <1>4 DEF FirstFrame, Nonces
<1>5. CASE Start BY <1>5 DEF Start, Nonces
<1>6. CASE DrainStale BY <1>6 DEF DrainStale, Nonces
<1>7. CASE ReadFrame BY <1>7 DEF ReadFrame, Nonces
<1>6a. CASE BeginRead BY <1>6a DEF BeginRead, Nonces
<1>7a. CASE ReadFails BY <1>7a DEF ReadFails, Nonces
<1>8. CASE EndStream BY <1>8 DEF EndStream, Nonces
<1>9. CASE Resend BY <1>9, ResendStep, NoncesPacket DEF Resend
<1>10. CASE Send BY <1>10, SendStep, NoncesPacket DEF Send
<1>11. CASE SendFails BY <1>11, <1>0 DEF SendFails, NextNonce, Nonces
<1>12. CASE Announce BY <1>12 DEF Announce, Nonces
<1>13. CASE EndSync BY <1>13 DEF EndSync, Nonces
<1>14. CASE EndListener BY <1>14 DEF EndListener, Nonces
<1>15. CASE Cancel BY <1>15 DEF Cancel, Nonces
<1>16. CASE CloseStream BY <1>16 DEF CloseStream, Nonces
<1>17. CASE UNCHANGED vars BY <1>17 DEF vars, Nonces
<1> QED
  BY <1>1, <1>2, <1>3, <1>4, <1>5, <1>6, <1>6a, <1>7, <1>7a, <1>8, <1>9, <1>10,
     <1>11, <1>12, <1>13, <1>14, <1>15, <1>16, <1>17
     DEF Next, StreamAudio

\* What the next frame makes of the RTP times reckoned so far.
LEMMA RtpKept ==
  ASSUME States, nextRtp' = (nextRtp + Spf) % RtpMod, frameSeq' = frameSeq + 1
  PROVE  /\ \A s \in Int : (nextRtp' - (frameSeq' - s) * Spf) % RtpMod = RtpOf(s)
         /\ (nextRtp' - (frameSeq' - frameSeq) * Spf) % RtpMod = nextRtp
         /\ (nextRtp' - Spf) % RtpMod = nextRtp
<1>1. nextRtp \in 0..(RtpMod - 1) /\ nextRtp \in Int /\ frameSeq \in Int /\ Spf \in Int
  BY Constants DEF States
<1>2. ASSUME NEW s \in Int
      PROVE  (nextRtp' - (frameSeq' - s) * Spf) % RtpMod = RtpOf(s)
  <2>1. (((nextRtp + Spf) % RtpMod) - (frameSeq + 1 - s) * Spf) % RtpMod
          = (nextRtp - (frameSeq - s) * Spf) % RtpMod
    BY <1>1, RtpShift
  <2>2. (nextRtp' - (frameSeq' - s) * Spf) % RtpMod
          = (((nextRtp + Spf) % RtpMod) - (frameSeq + 1 - s) * Spf) % RtpMod
    <3>1. (nextRtp + Spf) % RtpMod \in Int
      BY <1>1, Constants, ModType
    <3>2. (frameSeq' - s) * Spf = (frameSeq + 1 - s) * Spf
      BY <1>1
    <3> QED
      BY <1>1, <3>1, <3>2, Constants
  <2> QED
    BY <2>1, <2>2, Zenon DEF RtpOf
<1>3. (nextRtp' - Spf) % RtpMod = nextRtp
  BY <1>1, RtpOfNewest
<1>4. (frameSeq' - frameSeq) * Spf = Spf
  <2>1. frameSeq' - frameSeq = 1
    BY <1>1
  <2> QED
    BY <2>1, <1>1
<1> QED
  BY <1>2, <1>3, <1>4

\* Where the timeline begins, and the time that is announced.
Begun ==
  /\ pc \in {"waiting", "drain"} => frameSeq = 1 /\ index = 0 /\ ~burstDone /\ got = {}
  /\ pc = "drain" => rtpTime = nextRtp
  /\ ClockFollows

\* Every packet has the RTP time of its frame.
Past == \A p \in got : p.rtp = RtpOf(p.seq)

LEMMA LineParts == Timeline /\ ClockFollows <=> Begun /\ Past /\ \A p \in got : modern => p.nonce < nonce
  BY DEF Timeline, Begun, Past

\* The frame that is sent again is Depth frames old.
LEMMA RingEnd ==
  ASSUME States, Ring, pc = "resend"
  PROVE  /\ ~modern /\ burstDone /\ frameSeq > Depth
         /\ ring[index].seq = frameSeq - Depth /\ ring[index].rtp = RtpOf(ring[index].seq)
         /\ ring[index].rtp = (nextRtp - Depth * Spf) % RtpMod
<1>1. index \in 0..(Depth - 1) /\ index >= index /\ frameSeq \in Nat /\ index \in Int /\ Depth \in Nat
  BY Constants DEF States
<1>2. ~modern /\ burstDone /\ frameSeq > Depth
  BY DEF Ring
<1>3. ring[index].seq = frameSeq - Depth + index - index /\ ring[index].rtp = RtpOf(ring[index].seq)
  BY <1>1, <1>2 DEF Ring
<1>4. frameSeq - Depth + index - index = frameSeq - Depth /\ frameSeq - (frameSeq - Depth) = Depth
  BY <1>1
<1> QED
  BY <1>2, <1>3, <1>4 DEF RtpOf

LEMMA BegunStep == ASSUME Flags, States, Begun, Ring, [Next]_vars PROVE Begun'
<1> USE DEF captureVars, loopVars, sendVars, asideVars
<1>1. CASE CaptureFrame BY <1>1 DEF CaptureFrame, Begun, ClockFollows
<1>2. CASE CaptureExits BY <1>2 DEF CaptureExits, Begun, ClockFollows
<1>3. CASE StopCapture BY <1>3 DEF StopCapture, Begun, ClockFollows
<1>4. CASE FirstFrame BY <1>4 DEF FirstFrame, Begun, ClockFollows
<1>5. CASE Start BY <1>5 DEF Start, Begun, ClockFollows
<1>6. CASE DrainStale BY <1>6 DEF DrainStale, Begun, ClockFollows
<1>7. CASE ReadFrame BY <1>7 DEF ReadFrame, Begun, ClockFollows
<1>6a. CASE BeginRead BY <1>6a DEF BeginRead, Begun, ClockFollows
<1>7a. CASE ReadFails BY <1>7a DEF ReadFails, Begun, ClockFollows
<1>8. CASE EndStream BY <1>8 DEF EndStream, Begun, ClockFollows
<1>9. CASE Resend
  <2>1. pc = "resend" /\ pc' = "send" /\ UNCHANGED <<frameSeq, nextRtp>>
    BY <1>9, ResendStep
  <2>2. rtpTime = (nextRtp - Spf) % RtpMod
    BY <2>1, RingEnd, Constants DEF Begun, ClockFollows
  <2>3. ring[index].rtp \in Int /\ nextRtp \in 0..(RtpMod - 1)
    BY <2>1, <1>9, ResendStep DEF States, Frames
  <2>4. NotOlder(ring[index].rtp) => ring[index].rtp = rtpTime
    BY <2>1, <2>2, <2>3, RingEnd, ResentIsOlder
  <2>5. rtpTime' = rtpTime
    BY <1>9, <2>4 DEF Resend, Packet
  <2> QED
    BY <2>1, <2>5 DEF Begun, ClockFollows
<1>10. CASE Send
  <2>1. pc' = "loop" /\ frameSeq' = frameSeq + 1 /\ pc = "send" /\ frameSeq \in Nat \ {0}
    BY <1>10, SendStep DEF States
  <2>2. rtpTime \in {nextRtp, (nextRtp - Spf) % RtpMod} /\ nextRtp \in 0..(RtpMod - 1)
    BY <2>1 DEF Begun, ClockFollows, States
  <2>3. NotOlder(nextRtp)
    BY <2>2, NextIsNewer
  <2>4. rtpTime' = nextRtp
    BY <1>10, <2>3 DEF Send, Packet
  <2>5. (nextRtp' - Spf) % RtpMod = nextRtp
    BY <1>10, SendStep, RtpKept
  <2> QED
    BY <2>1, <2>4, <2>5 DEF Begun, ClockFollows
<1>11. CASE SendFails BY <1>11 DEF SendFails, Begun, ClockFollows
<1>12. CASE Announce BY <1>12 DEF Announce, Begun, ClockFollows
<1>13. CASE EndSync BY <1>13 DEF EndSync, Begun, ClockFollows
<1>14. CASE EndListener BY <1>14 DEF EndListener, Begun, ClockFollows
<1>15. CASE Cancel BY <1>15 DEF Cancel, Begun, ClockFollows
<1>16. CASE CloseStream BY <1>16 DEF CloseStream, Begun, ClockFollows
<1>17. CASE UNCHANGED vars BY <1>17 DEF vars, Begun, ClockFollows
<1> QED
  BY <1>1, <1>2, <1>3, <1>4, <1>5, <1>6, <1>6a, <1>7, <1>7a, <1>8, <1>9, <1>10,
     <1>11, <1>12, <1>13, <1>14, <1>15, <1>16, <1>17
     DEF Next, StreamAudio

LEMMA PastStep == ASSUME Flags, States, Begun, Past, Ring, [Next]_vars PROVE Past'
<1> USE DEF captureVars, loopVars, sendVars, asideVars
<1>1. CASE CaptureFrame BY <1>1 DEF CaptureFrame, Past, RtpOf
<1>2. CASE CaptureExits BY <1>2 DEF CaptureExits, Past, RtpOf
<1>3. CASE StopCapture BY <1>3 DEF StopCapture, Past, RtpOf
<1>4. CASE FirstFrame BY <1>4 DEF FirstFrame, Past, RtpOf
<1>5. CASE Start BY <1>5 DEF Start, Begun, Past
<1>6. CASE DrainStale BY <1>6 DEF DrainStale, Past, RtpOf
<1>7. CASE ReadFrame BY <1>7 DEF ReadFrame, Past, RtpOf
<1>6a. CASE BeginRead BY <1>6a DEF BeginRead, Past, RtpOf
<1>7a. CASE ReadFails BY <1>7a DEF ReadFails, Past, RtpOf
<1>8. CASE EndStream BY <1>8 DEF EndStream, Past, RtpOf
<1>9. CASE Resend
  <2>1. pc = "resend" /\ UNCHANGED <<frameSeq, nextRtp>> /\ ring[index] \in Frames /\ Packet(ring[index])
    BY <1>9, ResendStep
  <2>2. ring[index].rtp = RtpOf(ring[index].seq)
    BY <2>1, RingEnd
  <2>3. \A p \in got' : p \in got \/ p = Sent(ring[index])
    BY <2>1, PacketStep
  <2>4. ASSUME NEW p \in got' PROVE p.rtp = RtpOf(p.seq)
    BY <2>2, <2>3 DEF Sent, Past
  <2> QED
    BY <2>1, <2>4 DEF Past, RtpOf
<1>10. CASE Send
  <2>1. \A p \in got' : p \in got \/ p = Sent(Frame)
    BY <1>10, SendStep, PacketStep
  <2>2. nextRtp' = (nextRtp + Spf) % RtpMod /\ frameSeq' = frameSeq + 1 /\ frameSeq \in Int
    <3>1. frameSeq \in Int
      BY DEF States
    <3> QED
      BY <1>10, <3>1, SendStep
  <2>3. ASSUME NEW p \in got' PROVE p.rtp = (nextRtp' - (frameSeq' - p.seq) * Spf) % RtpMod
    <3>1. CASE p \in got
      <4>1. p.seq \in Int /\ p.rtp = RtpOf(p.seq)
        BY <3>1 DEF Past, States, Packets
      <4> QED
        BY <2>2, <4>1, RtpKept
    <3>2. CASE p = Sent(Frame)
      <4>1. p.seq = frameSeq /\ p.rtp = nextRtp
        BY <3>2 DEF Sent, Frame
      <4> QED
        BY <2>2, <4>1, RtpKept
    <3> QED
      BY <2>1, <3>1, <3>2
  <2> QED
    BY <2>3 DEF Past, RtpOf
<1>11. CASE SendFails BY <1>11 DEF SendFails, Past, RtpOf
<1>12. CASE Announce BY <1>12 DEF Announce, Past, RtpOf
<1>13. CASE EndSync BY <1>13 DEF EndSync, Past, RtpOf
<1>14. CASE EndListener BY <1>14 DEF EndListener, Past, RtpOf
<1>15. CASE Cancel BY <1>15 DEF Cancel, Past, RtpOf
<1>16. CASE CloseStream BY <1>16 DEF CloseStream, Past, RtpOf
<1>17. CASE UNCHANGED vars BY <1>17 DEF vars, Past, RtpOf
<1> QED
  BY <1>1, <1>2, <1>3, <1>4, <1>5, <1>6, <1>6a, <1>7, <1>7a, <1>8, <1>9, <1>10,
     <1>11, <1>12, <1>13, <1>14, <1>15, <1>16, <1>17
     DEF Next, StreamAudio

LEMMA RingSend == ASSUME Flags, States, Ring, Send PROVE Ring'
<1>1. /\ index \in 0..(Depth - 1) /\ frameSeq \in Nat /\ Depth \in Nat \ {0}
      /\ index \in Int /\ ring \in [0..(Depth - 1) -> Frames]
  BY Constants DEF States
<1>2. /\ nextRtp' = (nextRtp + Spf) % RtpMod /\ frameSeq' = frameSeq + 1
      /\ pc' = "loop" /\ modern' = modern /\ Stored
  BY SendStep
<1>3. CASE modern
  BY <1>2, <1>3 DEF Ring
<1>4. CASE ~modern
  <2>1. ring' = [ring EXCEPT ![index] = Frame]
    BY <1>2, <1>4 DEF Stored
  <2>2. \/ index + 1 = Depth /\ index' = 0 /\ burstDone' = TRUE
        \/ index + 1 # Depth /\ index' = index + 1 /\ burstDone' = burstDone
    BY <1>2, <1>4 DEF Stored
  <2>3. IF burstDone' THEN frameSeq' > Depth ELSE frameSeq' = index' + 1
    BY <1>1, <1>2, <1>4, <2>2 DEF Ring
  <2>4. /\ ring'[index].seq = frameSeq /\ ring'[index].rtp = nextRtp
        /\ \A i \in 0..(Depth - 1) : i # index => ring'[i] = ring[i]
    BY <1>1, <2>1 DEF Frame
  <2>5. ASSUME NEW i \in 0..(Depth - 1)
        PROVE  /\ i < index' => ring'[i].seq = frameSeq' - index' + i
               /\ i >= index' /\ burstDone' => ring'[i].seq = frameSeq' - Depth + i - index'
               /\ i < index' \/ burstDone' =>
                    ring'[i].rtp = (nextRtp' - (frameSeq' - ring'[i].seq) * Spf) % RtpMod
    <3>1. CASE i = index
      <4>1. ring'[i].seq = frameSeq /\ ring'[i].rtp = nextRtp
        BY <2>4, <3>1
      <4>2. ring'[i].rtp = (nextRtp' - (frameSeq' - ring'[i].seq) * Spf) % RtpMod
        BY <4>1, <1>2, RtpKept
      <4>3. /\ i < index' => ring'[i].seq = frameSeq' - index' + i
            /\ i >= index' => ring'[i].seq = frameSeq' - Depth + i - index'
        BY <1>1, <1>2, <2>2, <3>1, <4>1
      <4> QED
        BY <4>2, <4>3
    <3>2. CASE i # index
      <4>1. ring'[i] = ring[i] /\ ring[i].seq \in Int
        BY <1>1, <2>4, <3>2 DEF Frames
      <4>2. i < index' \/ burstDone' => i < index \/ burstDone
        BY <1>1, <2>2, <3>2
      <4>3. i < index \/ burstDone => ring[i].rtp = RtpOf(ring[i].seq)
        BY <1>4 DEF Ring
      <4>4. i < index' \/ burstDone' =>
              ring'[i].rtp = (nextRtp' - (frameSeq' - ring'[i].seq) * Spf) % RtpMod
        BY <4>1, <4>2, <4>3, <1>2, RtpKept
      <4>5. /\ i < index => ring[i].seq = frameSeq - index + i
            /\ i >= index /\ burstDone => ring[i].seq = frameSeq - Depth + i - index
        BY <1>4 DEF Ring
      <4>6. i < index' => ring'[i].seq = frameSeq' - index' + i
        BY <1>1, <1>2, <2>2, <3>2, <4>1, <4>5
      <4>7. i >= index' /\ burstDone' => ring'[i].seq = frameSeq' - Depth + i - index'
        <5>1. CASE index + 1 = Depth /\ index' = 0
          BY <1>1, <1>2, <3>2, <4>1, <4>5, <5>1
        <5>2. CASE index' = index + 1 /\ burstDone' = burstDone
          BY <1>1, <1>2, <3>2, <4>1, <4>5, <5>2
        <5> QED
          BY <2>2, <5>1, <5>2
      <4> QED
        BY <4>4, <4>6, <4>7
    <3> QED
      BY <3>1, <3>2
  <2> QED
    BY <1>2, <2>3, <2>5 DEF Ring, RtpOf
<1> QED
  BY <1>3, <1>4

LEMMA RingStep == ASSUME Flags, States, Begun, Ring, [Next]_vars PROVE Ring'
<1> USE DEF captureVars, loopVars, sendVars, asideVars
<1>1. CASE CaptureFrame BY <1>1 DEF CaptureFrame, Ring, RtpOf
<1>2. CASE CaptureExits BY <1>2 DEF CaptureExits, Ring, RtpOf
<1>3. CASE StopCapture BY <1>3 DEF StopCapture, Ring, RtpOf
<1>4. CASE FirstFrame BY <1>4 DEF FirstFrame, Ring, RtpOf
<1>5. CASE Start
  <2>1. modern \/ (~modern /\ index = 0 /\ ~burstDone /\ frameSeq = 1)
    BY <1>5 DEF Start, Begun
  <2>2. UNCHANGED <<modern, frameSeq, ring, index, burstDone>> /\ pc' = "drain"
    BY <1>5 DEF Start
  <2>3. \A i \in 0..(Depth - 1) : ~(i < 0)
    OBVIOUS
  <2> QED
    BY <2>1, <2>2, <2>3 DEF Ring
<1>6. CASE DrainStale BY <1>6 DEF DrainStale, Ring, RtpOf
<1>7. CASE ReadFrame BY <1>7 DEF ReadFrame, Ring, RtpOf
<1>6a. CASE BeginRead BY <1>6a DEF BeginRead, Ring, RtpOf
<1>7a. CASE ReadFails BY <1>7a DEF ReadFails, Ring, RtpOf
<1>8. CASE EndStream BY <1>8 DEF EndStream, Ring, RtpOf
<1>9. CASE Resend BY <1>9, ResendStep DEF Resend, Ring, RtpOf
<1>10. CASE Send BY <1>10, RingSend DEF Send
<1>11. CASE SendFails BY <1>11 DEF SendFails, Ring, RtpOf
<1>12. CASE Announce BY <1>12 DEF Announce, Ring, RtpOf
<1>13. CASE EndSync BY <1>13 DEF EndSync, Ring, RtpOf
<1>14. CASE EndListener BY <1>14 DEF EndListener, Ring, RtpOf
<1>15. CASE Cancel BY <1>15 DEF Cancel, Ring, RtpOf
<1>16. CASE CloseStream BY <1>16 DEF CloseStream, Ring, RtpOf
<1>17. CASE UNCHANGED vars BY <1>17 DEF vars, Ring, RtpOf
<1> QED
  BY <1>1, <1>2, <1>3, <1>4, <1>5, <1>6, <1>6a, <1>7, <1>7a, <1>8, <1>9, <1>10,
     <1>11, <1>12, <1>13, <1>14, <1>15, <1>16, <1>17
     DEF Next, StreamAudio

\* A packet adds its frame to those received, unless it is lost.
LEMMA ReceivedStep ==
  ASSUME States, NEW frame \in Frames, Packet(frame)
  PROVE  /\ Received \subseteq Received' /\ losses' <= losses /\ losses \in Nat /\ losses' \in Nat
         /\ \/ losses > 0 /\ losses' = losses - 1 /\ losing' = TRUE
            \/ /\ losses' = IF losing THEN 0 ELSE losses
               /\ losing' = losing /\ frame.seq \in Received'
<1>1. losses \in Nat
  BY BoundAssumption DEF States
<1>2. CASE losses > 0 /\ losses' = losses - 1 /\ losing' = TRUE /\ got' = got
  <2>1. Received' = Received
    BY <1>2 DEF Received
  <2>2. losses' <= losses /\ losses' \in Nat
    BY <1>1, <1>2
  <2> QED
    BY <1>1, <1>2, <2>1, <2>2
<1>3. CASE /\ losses' = IF losing THEN 0 ELSE losses
           /\ losing' = losing /\ got' = got \cup {Sent(frame)}
  <2>1. Sent(frame) \in got' /\ Sent(frame).seq = frame.seq
    BY <1>3 DEF Sent
  <2>2. frame.seq \in Received'
    BY <2>1 DEF Received
  <2>3. Received \subseteq Received'
    BY <1>3 DEF Received
  <2>4. losses' <= losses /\ losses' \in Nat
    BY <1>1, <1>3
  <2> QED
    BY <1>1, <1>3, <2>2, <2>3, <2>4
<1> QED
  BY <1>2, <1>3, PacketStep

\* A frame that is missing can still be sent again when the losses are over.
Awaited(k) == /\ losing /\ losses <= k + Depth - frameSeq
              /\ pc = "send" => frameSeq < k + Depth

LEMMA CoveredResend == ASSUME Flags, States, Ring, Covered, Resend PROVE Covered'
<1> SUFFICES ASSUME MaxLoss <= Depth, ~modern, NEW k \in 1..(frameSeq - 1), k \notin Received'
             PROVE  Awaited(k)'
  BY ResendStep DEF Covered, Awaited
<1>1. /\ pc = "resend" /\ pc' = "send" /\ frameSeq' = frameSeq /\ frameSeq \in Nat
      /\ ring[index] \in Frames /\ Packet(ring[index])
  BY ResendStep DEF States
<1>0. /\ Received \subseteq Received' /\ losses' <= losses /\ losses \in Nat /\ losses' \in Nat
      /\ \/ losses > 0 /\ losses' = losses - 1 /\ losing' = TRUE
         \/ losing' = losing /\ ring[index].seq \in Received'
  BY <1>1, ReceivedStep
<1>2. k \notin Received /\ losing /\ losses <= k + Depth - frameSeq
  BY <1>0, <1>1 DEF Covered
<1>3. losses' <= losses /\ losses \in Nat /\ losing'
  BY <1>0, <1>2
<1>4. losses' \in Nat
  BY <1>0
<1>5. frameSeq < k + Depth
  <2> SUFFICES ASSUME frameSeq >= k + Depth PROVE FALSE
    BY <1>1, Constants
  <2>1. losses = 0 /\ k = frameSeq - Depth
    BY <1>1, <1>2, <1>3, Constants
  <2>2. ring[index].seq \in Received'
    BY <1>0, <2>1
  <2>3. ring[index].seq = k
    BY <1>1, <2>1, RingEnd
  <2> QED
    BY <2>2, <2>3
<1>6. losses' <= k + Depth - frameSeq
  BY <1>1, <1>2, <1>3, <1>4, Constants
<1> QED
  BY <1>1, <1>3, <1>5, <1>6 DEF Awaited

LEMMA CoveredSend == ASSUME Flags, States, Covered, Send PROVE Covered'
<1>1. /\ pc = "send" /\ pc' = "loop" /\ frameSeq' = frameSeq + 1 /\ frameSeq \in Nat
      /\ Frame \in Frames /\ Packet(Frame) /\ modern' = modern
  BY SendStep DEF States
<1> SUFFICES ASSUME MaxLoss <= Depth, ~modern, NEW k \in 1..frameSeq, k \notin Received'
             PROVE  Awaited(k)'
  BY <1>1 DEF Covered, Awaited
<1>2. /\ losses \in Nat /\ losses <= Depth /\ losses' \in Nat
      /\ Received \subseteq Received' /\ Depth \in Nat
  <2>1. losses <= MaxLoss
    BY BoundAssumption DEF States
  <2>2. losses \in Nat /\ losses' \in Nat /\ Received \subseteq Received'
    BY <1>1, ReceivedStep
  <2> QED
    BY <2>1, <2>2, BoundAssumption, Constants
<1>3. \/ losses > 0 /\ losses' = losses - 1 /\ losing' = TRUE
      \/ losses' = (IF losing THEN 0 ELSE losses) /\ losing' = losing /\ frameSeq \in Received'
  BY <1>1, ReceivedStep DEF Frame
<1>4. CASE k = frameSeq
  <2>1. losses > 0 /\ losses' = losses - 1 /\ losing' = TRUE
    BY <1>3, <1>4
  <2> QED
    BY <1>1, <1>2, <1>4, <2>1 DEF Awaited
<1>5. CASE k < frameSeq
  <2>1. losing /\ losses <= k + Depth - frameSeq /\ frameSeq < k + Depth
    BY <1>1, <1>2, <1>5 DEF Covered
  <2>2. losing'
    BY <1>3, <2>1
  <2>3. losses' = losses - 1 \/ losses' = 0
    BY <1>3, <2>1
  <2>4. losses' <= k + Depth - (frameSeq + 1)
    BY <1>1, <1>2, <2>1, <2>3
  <2> QED
    BY <1>1, <2>2, <2>4 DEF Awaited
<1> QED
  BY <1>1, <1>4, <1>5

LEMMA CoveredStep == ASSUME Flags, States, Begun, Ring, Covered, [Next]_vars PROVE Covered'
<1> USE DEF captureVars, loopVars, sendVars, asideVars
<1>1. CASE CaptureFrame BY <1>1 DEF CaptureFrame, Covered, Received
<1>2. CASE CaptureExits BY <1>2 DEF CaptureExits, Covered, Received
<1>3. CASE StopCapture BY <1>3 DEF StopCapture, Covered, Received
<1>4. CASE FirstFrame BY <1>4 DEF FirstFrame, Covered, Received
<1>5. CASE Start BY <1>5 DEF Start, Covered, Received
<1>6. CASE DrainStale BY <1>6 DEF DrainStale, Covered, Received
<1>7. CASE ReadFrame
  <2>1. pc' = "send" /\ ~modern => frameSeq <= Depth
    BY <1>7, Constants DEF ReadFrame, Ring, States
  <2>2. UNCHANGED <<modern, frameSeq, losing, losses, got>> /\ frameSeq \in Nat /\ Depth \in Nat
    BY <1>7, Constants DEF ReadFrame, States
  <2>3. ASSUME NEW k \in 1..(frameSeq - 1), frameSeq <= Depth PROVE frameSeq < k + Depth
    BY <2>2, <2>3
  <2> QED
    BY <2>1, <2>2, <2>3 DEF Covered, Received
<1>6a. CASE BeginRead BY <1>6a DEF BeginRead, Covered, Received
<1>7a. CASE ReadFails BY <1>7a DEF ReadFails, Covered, Received
<1>8. CASE EndStream BY <1>8 DEF EndStream, Covered, Received
<1>9. CASE Resend BY <1>9, CoveredResend DEF Resend
<1>10. CASE Send BY <1>10, CoveredSend DEF Send
<1>11. CASE SendFails BY <1>11 DEF SendFails, Covered, Received
<1>12. CASE Announce BY <1>12 DEF Announce, Covered, Received
<1>13. CASE EndSync BY <1>13 DEF EndSync, Covered, Received
<1>14. CASE EndListener BY <1>14 DEF EndListener, Covered, Received
<1>15. CASE Cancel BY <1>15 DEF Cancel, Covered, Received
<1>16. CASE CloseStream BY <1>16 DEF CloseStream, Covered, Received
<1>17. CASE UNCHANGED vars BY <1>17 DEF vars, Covered, Received
<1> QED
  BY <1>1, <1>2, <1>3, <1>4, <1>5, <1>6, <1>6a, <1>7, <1>7a, <1>8, <1>9, <1>10,
     <1>11, <1>12, <1>13, <1>14, <1>15, <1>16, <1>17
     DEF Next, StreamAudio

-----------------------------------------------------------------------------
(* The theorems                                                            *)

\* IInv in the parts that the steps above preserve.
LEMMA Parts ==
  IInv <=> Flags /\ States /\ Current /\ Nonces /\ Begun /\ Past /\ Ring /\ Covered
<1>1. Past /\ Nonces => CopiesAgree
  BY DEF Past, Nonces, CopiesAgree
<1>2. CopiesAgree /\ Timeline => Nonces
  BY DEF Timeline, Nonces, CopiesAgree
<1>3. Nonces => \A p \in got : modern => p.nonce < nonce
  BY DEF Nonces
<1> QED
  BY <1>1, <1>2, <1>3, TypeParts, LineParts DEF IInv, Current

LEMMA InitInv == Init => IInv
<1> SUFFICES ASSUME Init PROVE IInv
  OBVIOUS
<1>1. Flags
  BY Zenon DEF Init, Flags
<1>2. States
  <2>1. ring \in [0..(Depth - 1) -> Frames]
    BY Constants DEF Init, NoFrame, Frames
  <2> QED
    BY <2>1, Constants, BoundAssumption DEF Init, States
<1>3. Current
  <2>1. pipe \in Seq(BOOLEAN)
    BY EmptySeq DEF Init
  <2>2. stale \in BOOLEAN
    BY Zenon DEF Init
  <2> QED
    BY <2>1, <2>2 DEF Init, Current, Piped, Fresh, Drained
<1>4. Nonces /\ Begun /\ Past
  BY DEF Init, Nonces, Begun, ClockFollows, Past
<1>5. Ring
  <2>1. \A i \in 0..(Depth - 1) : ~(i < 0)
    OBVIOUS
  <2> QED
    BY <2>1 DEF Init, Ring
<1>6. Covered
  <2>1. 1..(frameSeq - 1) = {}
    BY DEF Init
  <2> QED
    BY <2>1 DEF Covered
<1> QED
  BY <1>1, <1>2, <1>3, <1>4, <1>5, <1>6, Parts

LEMMA StepInv == IInv /\ [Next]_vars => IInv'
<1> SUFFICES ASSUME IInv, [Next]_vars PROVE IInv'
  OBVIOUS
<1>1. Flags /\ States /\ Current /\ Nonces /\ Begun /\ Past /\ Ring /\ Covered
  BY Parts
<1>2. Flags' /\ States' /\ Current' /\ Nonces' /\ Begun' /\ Past' /\ Ring' /\ Covered'
  BY <1>1, FlagsStep, StatesStep, CurrentStep, NoncesStep, BegunStep, PastStep, RingStep,
     CoveredStep
<1>3. IInv' <=> Flags' /\ States' /\ Current' /\ Nonces' /\ Begun' /\ Past' /\ Ring' /\ Covered'
  BY Parts, PTL
<1> QED
  BY <1>2, <1>3

\* At every step of StreamAudio and the goroutines beside it, what is sent is current,
\* each frame has one RTP time in all its copies, and each nonce one packet.
THEOREM Invariance == Spec => []IInv
  BY InitInv, StepInv, PTL DEF Spec

\* sendSyncPacket announces the RTP time of the newest frame: the older time of a
\* frame that is sent again does not set it back (the int32 comparison of audio.go),
\* and it follows the frames over the end of the range.
THEOREM ClockFollowsFrames == Spec => []ClockFollows
<1>1. IInv => ClockFollows
  BY DEF IInv
<1> QED
  BY <1>1, Invariance, PTL

\* A copy that is sent again has the RTP time of its frame, and no two packets of a
\* modern stream are sealed with one nonce (nextAudioChaChaNonce).
THEOREM CopiesAlwaysAgree == Spec => []CopiesAgree
<1>1. IInv => CopiesAgree
  BY DEF IInv
<1> QED
  BY <1>1, Invariance, PTL

\* Sending each frame again when Depth others have followed gives a legacy receiver
\* all frames but the last, whichever Depth packets in a row are lost.
THEOREM AllRecovered == ASSUME MaxLoss <= Depth PROVE Spec => []Recovered
<1>1. IInv => Recovered
  <2> SUFFICES ASSUME IInv, ~modern, NEW k \in 1..(frameSeq - 1 - Depth), k \notin Received
               PROVE  FALSE
    BY DEF Recovered
  <2>1. frameSeq \in Nat /\ losses \in Nat /\ Depth \in Nat
    BY Parts, BoundAssumption, Constants DEF States
  <2>2. k \in 1..(frameSeq - 1)
    BY <2>1
  <2>3. losses <= k + Depth - frameSeq
    BY <2>2 DEF IInv, Covered
  <2> QED
    BY <2>1, <2>3
<1> QED
  BY <1>1, Invariance, PTL
=============================================================================
