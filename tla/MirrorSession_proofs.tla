------------------------ MODULE MirrorSession_proofs ------------------------
(***************************************************************************)
(* MirrorSession loses no socket, lets no worker outlive the TEARDOWN and  *)
(* sends frames with increasing times, however many ranges of ports are    *)
(* tried, however many frames are sent and whatever the clock shows.       *)
(***************************************************************************)
EXTENDS MirrorSession, TLAPS

\* TypeOK in three parts, which different provers handle.
Flags == /\ modern \in BOOLEAN /\ probed \in BOOLEAN /\ audio \in BOOLEAN
         /\ live \in BOOLEAN /\ firstFrameSent \in BOOLEAN

Links == [first : Packets \cup {"none"}, cut : Packets \cup {"none"},
          behind : SUBSET Packets, frames : Nat, time : Nat]

States ==
  /\ step \in Steps /\ tries \in 0..MaxTries
  /\ sock \in [Sockets -> {"none", "open", "closed"}]
  /\ rx \subseteq {"prepared", "audio", "video", "recorded", "torn"}
  /\ lastTimestamp \in Nat /\ nonce \in Nat
  /\ video \in {"none", "reading", "codec", "frame", "ended"}
  /\ beat \in {"none", "waiting", "ticking", "stopped"}
  /\ feed \in {"none", "calling", "ticking", "stopped"}
  /\ closing \in {"no", "waiting", "teardown", "releasing", "closed"}
  /\ clock \in 0..ClockMax
  /\ link \in Links

\* IInv in two parts: what set-up and Close do, what the workers do.
Resources == Reached /\ NothingLost /\ RightOrder
Working   == Workers /\ OpensWithCodec /\ NoncesAgree /\ TeardownLast /\ CutEndsWriter

LEMMA Parts == IInv <=> Flags /\ told \in Answer /\ States /\ Resources /\ Working
  BY DEF IInv, TypeOK, Flags, States, Links, Resources, Working

-----------------------------------------------------------------------------
\* A request of the set-up, apart from what its response says.
Asked(part, next) ==
  /\ rx' \in {rx, rx \cup {part}}
  /\ UNCHANGED <<modern, tries, probed, audio, workerVars, closing>>
  /\ \/ part \in rx' /\ step' = next /\ UNCHANGED <<sock, live>>
     \/ step' = "failed" /\ sock' = CloseAll(Sockets) /\ live' = FALSE

LEMMA RequestSetupStep ==
  ASSUME NEW part, NEW next, NEW responses, RequestSetup(part, next, responses)
  PROVE  Asked(part, next)
  BY DEF RequestSetup, Goto, Fail, Asked

\* The three SETUPs, and where an answer leads.
LEMMA SetupRequests ==
  /\ ControlSetup => step = "control" /\ Asked("prepared", "clock")
  /\ AudioSetup => step = "audio" /\ Asked("audio", IF modern THEN "video" ELSE "event")
  /\ VideoSetup => step = "video" /\ Asked("video", "dial")
  BY RequestSetupStep DEF ControlSetup, AudioSetup, VideoSetup, After

\* Closing leaves a socket closed or as it was.
LEMMA CloseAllType ==
  ASSUME States, NEW S
  PROVE  CloseAll(S) \in [Sockets -> {"none", "open", "closed"}]
  BY DEF CloseAll, States

\* What a write that went out, in part or not at all, does to the connection.
Wrote(packet, sent) ==
  /\ link' \in Links
  /\ link'.first = IF sent = "nothing" \/ link.first # "none" THEN link.first ELSE packet
  /\ link'.cut = IF sent = "part" /\ link.cut = "none" THEN packet ELSE link.cut
  /\ link'.behind = IF sent = "nothing" \/ link.cut = "none" THEN link.behind
                    ELSE link.behind \cup {packet}
  /\ link'.frames = IF sent = "all" /\ link.cut = "none" /\ packet = "frame"
                    THEN link.frames + 1 ELSE link.frames
  /\ link'.time = IF sent = "all" /\ link.cut = "none" /\ packet = "frame"
                  THEN lastTimestamp ELSE link.time

LEMMA WriteStep ==
  ASSUME link \in Links, lastTimestamp \in Nat, NEW packet \in Packets,
         NEW sent \in {"all", "part", "nothing"}, link' = Write(packet, sent)
  PROVE  Wrote(packet, sent)
<1> USE DEF Wrote
<1>1. CASE sent = "nothing" BY <1>1 DEF Links, Write
<1>2. CASE sent = "part" /\ link.cut = "none" BY <1>2 DEF Links, Write
<1>3. CASE sent = "part" /\ link.cut # "none" BY <1>3 DEF Links, Write
<1>4. CASE sent = "all" /\ link.cut = "none" /\ packet = "frame"
  <2>1. link.frames + 1 \in Nat
    BY DEF Links
  <2> QED
    BY <1>4, <2>1 DEF Links, Write
<1>5. CASE sent = "all" /\ link.cut = "none" /\ packet # "frame" BY <1>5 DEF Links, Write
<1>6. CASE sent = "all" /\ link.cut # "none" BY <1>6 DEF Links, Write
<1> QED
  BY <1>1, <1>2, <1>3, <1>4, <1>5, <1>6

-----------------------------------------------------------------------------
\* No flag gets another value than TRUE or FALSE.
LEMMA FlagsStep == ASSUME Flags, [Next]_vars PROVE Flags'
<1> USE DEF Flags, setupVars, workerVars, frameVars
<1>1. CASE Prepare BY <1>1, Zenon DEF Prepare, Goto
<1>2. CASE AllocatePorts BY <1>2, Zenon DEF AllocatePorts
<1>3. CASE ControlSetup BY <1>3, SetupRequests, Zenon DEF Asked
<1>4. CASE ConfigureClock BY <1>4, Zenon DEF ConfigureClock, Goto, Fail
<1>5. CASE AudioSetup BY <1>5, SetupRequests, Zenon DEF Asked
<1>6. CASE AudioSetupTimesOut BY <1>6, Zenon DEF AudioSetupTimesOut, Goto, Fail
<1>7. CASE VideoSetup BY <1>7, SetupRequests, Zenon DEF Asked
<1>8. CASE ConnectEvent BY <1>8, Zenon DEF ConnectEvent, Goto, Fail
<1>9. CASE DialData BY <1>9, Zenon DEF DialData, Goto, Fail
<1>10. CASE Record BY <1>10, Zenon DEF Record, Goto, Fail
<1>11. CASE SetVolume BY <1>11, Zenon DEF SetVolume, Goto
<1>12. CASE MakeCipher BY <1>12, Zenon DEF MakeCipher, Goto, Fail
<1>13. CASE AttachAudio BY <1>13, Zenon DEF AttachAudio, Goto
<1>14. CASE StartWorkers BY <1>14, Zenon DEF StartWorkers, Goto
<1>15. CASE NTPProbe BY <1>15, Zenon DEF NTPProbe
<1>16. CASE CancelContext BY <1>16, Zenon DEF CancelContext
<1>17. CASE ServersEnd BY <1>17, Zenon DEF ServersEnd
<1>18. CASE BeginFrame BY <1>18, Zenon DEF BeginFrame
<1>19. CASE SendCodecFrame BY <1>19, Zenon DEF SendCodecFrame
<1>20. CASE SendFrame BY <1>20, Zenon DEF SendFrame
<1>21. CASE EndFrames BY <1>21, Zenon DEF EndFrames
<1>22. CASE BeginBeats BY <1>22, Zenon DEF BeginBeats
<1>23. CASE Beat BY <1>23, Zenon DEF Beat
<1>24. CASE FeedbackAnswered BY <1>24, Zenon DEF FeedbackAnswered
<1>25. CASE Feedback BY <1>25, Zenon DEF Feedback
<1>26. CASE Tick BY <1>26, Zenon DEF Tick
<1>27. CASE Close BY <1>27, Zenon DEF Close
<1>28. CASE AwaitWorkers BY <1>28, Zenon DEF AwaitWorkers
<1>29. CASE Teardown BY <1>29, Zenon DEF Teardown
<1>30. CASE Release BY <1>30, Zenon DEF Release
<1>31. CASE UNCHANGED vars BY <1>31, Zenon DEF vars
<1> QED
  BY <1>1, <1>2, <1>3, <1>4, <1>5, <1>6, <1>7, <1>8, <1>9, <1>10, <1>11,
     <1>12, <1>13, <1>14, <1>15, <1>16, <1>17, <1>18, <1>19, <1>20, <1>21,
     <1>22, <1>23, <1>24, <1>25, <1>26, <1>27, <1>28, <1>29, <1>30, <1>31
     DEF Next, SetupStep, CloseStep

\* What is kept of a response is what a response may say.
LEMMA ToldStep == ASSUME told \in Answer, [Next]_vars PROVE told' \in Answer
<1>1. Nothing \in Answer
  BY DEF Answer, Nothing
<1>2. CASE ControlSetup
  BY <1>1, <1>2 DEF ControlSetup, RequestSetup, Goto, Fail, ControlResponses
<1>3. CASE ConfigureClock
  BY <1>1, <1>3 DEF ConfigureClock, Goto, Fail
<1>4. CASE AudioSetup
  BY <1>1, <1>4 DEF AudioSetup, RequestSetup, Goto, Fail, AudioResponses
<1>5. CASE AudioSetupTimesOut
  BY <1>1, <1>5 DEF AudioSetupTimesOut, Goto, Fail
<1>6. CASE VideoSetup
  BY <1>1, <1>6 DEF VideoSetup, RequestSetup, Goto, Fail, Answer
<1>7. CASE ConnectEvent
  BY <1>1, <1>7 DEF ConnectEvent, Goto, Fail, Answer
<1>8. CASE DialData
  BY <1>1, <1>8 DEF DialData, Goto, Fail, Answer
<1>9. CASE Record
  BY <1>1, <1>9 DEF Record, Goto, Fail
<1>10. CASE MakeCipher
  BY <1>1, <1>10 DEF MakeCipher, Goto, Fail
<1>11. CASE AttachAudio
  BY <1>1, <1>11 DEF AttachAudio, Goto
<1>12. CASE UNCHANGED told BY <1>12
<1> QED
  BY <1>1, <1>2, <1>3, <1>4, <1>5, <1>6, <1>7, <1>8, <1>9, <1>10, <1>11, <1>12
     DEF Next, SetupStep, CloseStep, Goto, vars, setupVars, Prepare,
        AllocatePorts, SetVolume, StartWorkers, NTPProbe, CancelContext,
        ServersEnd, BeginFrame, SendCodecFrame, SendFrame, EndFrames,
        BeginBeats, Beat, FeedbackAnswered, Feedback, Tick, Close,
        AwaitWorkers, Teardown, Release

\* All other variables keep their types.
LEMMA StatesStep == ASSUME States, Reached, [Next]_vars PROVE States'
<1> USE BoundAssumption DEF States, setupVars, workerVars, frameVars
<1>1. CASE Prepare BY <1>1 DEF Prepare, Goto, Steps
<1>2. CASE AllocatePorts
  <2> USE <1>2 DEF AllocatePorts
  <2>1. step' \in Steps /\ tries' \in 0..MaxTries
    BY DEF Steps, Reached
  <2>2. sock' \in [Sockets -> {"none", "open", "closed"}]
    OBVIOUS
  <2> QED
    BY <2>1, <2>2
<1>3. CASE ControlSetup
  <2>1. Asked("prepared", "clock")
    BY <1>3, SetupRequests
  <2>2. sock' \in [Sockets -> {"none", "open", "closed"}]
    BY <2>1, CloseAllType DEF Asked
  <2>3. step' \in Steps
    BY <2>1 DEF Asked, Steps
  <2>4. rx' \subseteq {"prepared", "audio", "video", "recorded", "torn"}
    BY <2>1 DEF Asked
  <2> QED
    BY <2>1, <2>2, <2>3, <2>4 DEF Asked
<1>4. CASE ConfigureClock
  BY <1>4, CloseAllType DEF ConfigureClock, Goto, Fail, After, Steps
<1>5. CASE AudioSetup
  <2>1. PICK next \in {"video", "event"} : Asked("audio", next)
    BY <1>5, SetupRequests
  <2>2. sock' \in [Sockets -> {"none", "open", "closed"}]
    BY <2>1, CloseAllType DEF Asked
  <2>3. step' \in Steps
    BY <2>1 DEF Asked, Steps
  <2>4. rx' \subseteq {"prepared", "audio", "video", "recorded", "torn"}
    BY <2>1 DEF Asked
  <2> QED
    BY <2>1, <2>2, <2>3, <2>4 DEF Asked
<1>6. CASE AudioSetupTimesOut
  BY <1>6, CloseAllType DEF AudioSetupTimesOut, Goto, Fail, Steps
<1>7. CASE VideoSetup
  <2>1. Asked("video", "dial")
    BY <1>7, SetupRequests
  <2>2. sock' \in [Sockets -> {"none", "open", "closed"}]
    BY <2>1, CloseAllType DEF Asked
  <2>3. step' \in Steps
    BY <2>1 DEF Asked, Steps
  <2>4. rx' \subseteq {"prepared", "audio", "video", "recorded", "torn"}
    BY <2>1 DEF Asked
  <2> QED
    BY <2>1, <2>2, <2>3, <2>4 DEF Asked
<1>8. CASE ConnectEvent
  BY <1>8, CloseAllType DEF ConnectEvent, Goto, Fail, After, Steps
<1>9. CASE DialData
  BY <1>9, CloseAllType DEF DialData, Goto, Fail, After, Steps
<1>10. CASE Record
  BY <1>10, CloseAllType DEF Record, Goto, Fail, After, Steps
<1>11. CASE SetVolume BY <1>11, CloseAllType DEF SetVolume, Goto, After, Steps
<1>12. CASE MakeCipher
  BY <1>12, CloseAllType DEF MakeCipher, Goto, Fail, After, Steps
<1>13. CASE AttachAudio BY <1>13, CloseAllType DEF AttachAudio, Goto, Steps
<1>14. CASE StartWorkers BY <1>14 DEF StartWorkers, Goto, Steps
<1>15. CASE NTPProbe BY <1>15 DEF NTPProbe
<1>16. CASE CancelContext BY <1>16 DEF CancelContext
<1>17. CASE ServersEnd
  <2>1. sock' = CloseAll({"event"}) \/ sock' = CloseAll({"timing"})
    BY <1>17 DEF ServersEnd
  <2>2. UNCHANGED <<setupVars, rx, workerVars, closing>>
    BY <1>17 DEF ServersEnd
  <2> QED
    BY <2>1, <2>2, CloseAllType
<1>18. CASE BeginFrame BY <1>18 DEF BeginFrame, FrameTime
<1>19. CASE SendCodecFrame
  <2>1. \E sent \in {"all", "part", "nothing"} : link' = Write("codec", sent)
    BY <1>19 DEF SendCodecFrame, Outcomes
  <2>2. link' \in Links
    BY <2>1, WriteStep DEF Packets, Wrote
  <2> QED
    BY <1>19, <2>2 DEF SendCodecFrame
<1>20. CASE SendFrame
  <2>1. \E sent \in {"all", "part", "nothing"} : link' = Write("frame", sent)
    BY <1>20 DEF SendFrame, Outcomes
  <2>2. link' \in Links
    BY <2>1, WriteStep DEF Packets, Wrote
  <2> QED
    BY <1>20, <2>2 DEF SendFrame
<1>21. CASE EndFrames BY <1>21 DEF EndFrames
<1>22. CASE BeginBeats BY <1>22 DEF BeginBeats
<1>23. CASE Beat
  <2>1. link' = link \/ \E sent \in {"all", "part", "nothing"} : link' = Write("beat", sent)
    BY <1>23 DEF Beat, Outcomes
  <2>2. link' \in Links
    BY <2>1, WriteStep DEF Packets, Wrote
  <2> QED
    BY <1>23, <2>2 DEF Beat
<1>24. CASE FeedbackAnswered BY <1>24 DEF FeedbackAnswered, Reanchored
<1>25. CASE Feedback BY <1>25 DEF Feedback
<1>26. CASE Tick BY <1>26 DEF Tick
<1>27. CASE Close BY <1>27 DEF Close
<1>28. CASE AwaitWorkers BY <1>28 DEF AwaitWorkers
<1>29. CASE Teardown BY <1>29 DEF Teardown
<1>30. CASE Release BY <1>30, CloseAllType DEF Release
<1>31. CASE UNCHANGED vars BY <1>31 DEF vars
<1> QED
  BY <1>1, <1>2, <1>3, <1>4, <1>5, <1>6, <1>7, <1>8, <1>9, <1>10, <1>11,
     <1>12, <1>13, <1>14, <1>15, <1>16, <1>17, <1>18, <1>19, <1>20, <1>21,
     <1>22, <1>23, <1>24, <1>25, <1>26, <1>27, <1>28, <1>29, <1>30, <1>31
     DEF Next, SetupStep, CloseStep

\* Each phase of the set-up adds what Reached says of the next one; every error,
\* and Close, closes what there is.
LEMMA ResourcesStep == ASSUME States, Working, Resources, [Next]_vars PROVE Resources'
<1> USE DEF States, Working, Workers, Resources, Reached, NothingLost, RightOrder, Open, Owned,
        CloseAll, Sockets, UDP, setupVars, workerVars, frameVars
<1>1. CASE Prepare BY <1>1 DEF Prepare, Goto
<1>2. CASE AllocatePorts BY <1>2 DEF AllocatePorts
<1>3. CASE ControlSetup BY <1>3, SetupRequests DEF Asked
<1>4. CASE ConfigureClock BY <1>4 DEF ConfigureClock, Goto, Fail, After
<1>5. CASE AudioSetup BY <1>5, SetupRequests DEF Asked
<1>6. CASE AudioSetupTimesOut BY <1>6 DEF AudioSetupTimesOut, Goto, Fail
<1>7. CASE VideoSetup BY <1>7, SetupRequests DEF Asked
<1>8. CASE ConnectEvent BY <1>8 DEF ConnectEvent, Goto, Fail, After
<1>9. CASE DialData BY <1>9 DEF DialData, Goto, Fail, After
<1>10. CASE Record BY <1>10 DEF Record, Goto, Fail, After
<1>11. CASE SetVolume BY <1>11 DEF SetVolume, Goto, After
<1>12. CASE MakeCipher BY <1>12 DEF MakeCipher, Goto, Fail, After
<1>13. CASE AttachAudio BY <1>13 DEF AttachAudio, Goto
<1>14. CASE StartWorkers BY <1>14 DEF StartWorkers, Goto
<1>15. CASE NTPProbe BY <1>15 DEF NTPProbe
<1>16. CASE CancelContext BY <1>16 DEF CancelContext
<1>17. CASE ServersEnd BY <1>17 DEF ServersEnd
<1>18. CASE BeginFrame BY <1>18 DEF BeginFrame
<1>19. CASE SendCodecFrame BY <1>19 DEF SendCodecFrame
<1>20. CASE SendFrame BY <1>20 DEF SendFrame
<1>21. CASE EndFrames BY <1>21 DEF EndFrames
<1>22. CASE BeginBeats BY <1>22 DEF BeginBeats
<1>23. CASE Beat BY <1>23 DEF Beat
<1>24. CASE FeedbackAnswered BY <1>24 DEF FeedbackAnswered
<1>25. CASE Feedback BY <1>25 DEF Feedback
<1>26. CASE Tick BY <1>26 DEF Tick
<1>27. CASE Close BY <1>27 DEF Close
<1>28. CASE AwaitWorkers BY <1>28 DEF AwaitWorkers
<1>29. CASE Teardown BY <1>29 DEF Teardown
<1>30. CASE Release BY <1>30 DEF Release
<1>31. CASE UNCHANGED vars BY <1>31 DEF vars
<1> QED
  BY <1>1, <1>2, <1>3, <1>4, <1>5, <1>6, <1>7, <1>8, <1>9, <1>10, <1>11,
     <1>12, <1>13, <1>14, <1>15, <1>16, <1>17, <1>18, <1>19, <1>20, <1>21,
     <1>22, <1>23, <1>24, <1>25, <1>26, <1>27, <1>28, <1>29, <1>30, <1>31
     DEF Next, SetupStep, CloseStep

\* Whoever cuts a packet ends with it, and Close waits for those that have not.
LEMMA WorkingStep == ASSUME States, Working, [Next]_vars PROVE Working'
<1> USE BoundAssumption DEF States, Working, Workers, OpensWithCodec, NoncesAgree, TeardownLast, CutEndsWriter,
        setupVars, workerVars, frameVars
<1>1. CASE Prepare BY <1>1 DEF Prepare, Goto
<1>2. CASE AllocatePorts BY <1>2 DEF AllocatePorts
<1>3. CASE ControlSetup BY <1>3, SetupRequests DEF Asked
<1>4. CASE ConfigureClock BY <1>4 DEF ConfigureClock, Goto, Fail
<1>5. CASE AudioSetup BY <1>5, SetupRequests DEF Asked
<1>6. CASE AudioSetupTimesOut BY <1>6 DEF AudioSetupTimesOut, Goto, Fail
<1>7. CASE VideoSetup BY <1>7, SetupRequests DEF Asked
<1>8. CASE ConnectEvent BY <1>8 DEF ConnectEvent, Goto, Fail
<1>9. CASE DialData BY <1>9 DEF DialData, Goto, Fail
<1>10. CASE Record BY <1>10 DEF Record, Goto, Fail
<1>11. CASE SetVolume BY <1>11 DEF SetVolume, Goto
<1>12. CASE MakeCipher BY <1>12 DEF MakeCipher, Goto, Fail
<1>13. CASE AttachAudio BY <1>13 DEF AttachAudio, Goto
<1>14. CASE StartWorkers BY <1>14 DEF StartWorkers, Goto
<1>15. CASE NTPProbe BY <1>15 DEF NTPProbe
<1>16. CASE CancelContext BY <1>16 DEF CancelContext
<1>17. CASE ServersEnd BY <1>17 DEF ServersEnd
<1>18. CASE BeginFrame BY <1>18 DEF BeginFrame, FrameTime, Links
<1>19. CASE SendCodecFrame
  <2>1. PICK sent \in {"all", "part", "nothing"} :
          /\ link' = Write("codec", sent)
          /\ firstFrameSent' = (firstFrameSent \/ sent = "all")
          /\ video' = IF sent = "all" THEN "frame" ELSE "ended"
    BY <1>19 DEF SendCodecFrame, Outcomes
  <2>2. Wrote("codec", sent)
    BY <2>1, WriteStep DEF Packets
  <2>3. Workers'
    BY <1>19, <2>1, <2>2 DEF SendCodecFrame, Wrote, Links
  <2>4. OpensWithCodec'
    BY <1>19, <2>1, <2>2 DEF SendCodecFrame, Wrote
  <2>5. NoncesAgree'
    BY <1>19, <2>1, <2>2 DEF SendCodecFrame, Wrote, Links
  <2>6. TeardownLast'
    BY <1>19, <2>1, <2>2 DEF SendCodecFrame, Wrote
  <2>7. CutEndsWriter'
    BY <1>19, <2>1, <2>2 DEF SendCodecFrame, Wrote
  <2> QED
    BY <2>3, <2>4, <2>5, <2>6, <2>7
<1>20. CASE SendFrame
  <2>1. PICK sent \in {"all", "part", "nothing"} :
          /\ link' = Write("frame", sent)
          /\ video' = IF sent = "all" THEN "reading" ELSE "ended"
    BY <1>20 DEF SendFrame, Outcomes
  <2>2. Wrote("frame", sent)
    BY <2>1, WriteStep DEF Packets
  <2>3. Workers'
    BY <1>20, <2>1, <2>2 DEF SendFrame, Wrote, Links
  <2>4. OpensWithCodec'
    BY <1>20, <2>1, <2>2 DEF SendFrame, Wrote
  <2>5. NoncesAgree'
    BY <1>20, <2>1, <2>2 DEF SendFrame, Wrote, Links
  <2>6. TeardownLast'
    BY <1>20, <2>1, <2>2 DEF SendFrame, Wrote
  <2>7. CutEndsWriter'
    BY <1>20, <2>1, <2>2 DEF SendFrame, Wrote
  <2> QED
    BY <2>3, <2>4, <2>5, <2>6, <2>7
<1>21. CASE EndFrames BY <1>21 DEF EndFrames
<1>22. CASE BeginBeats BY <1>22 DEF BeginBeats
<1>23. CASE Beat
  <2>1. CASE beat' = "stopped" /\ UNCHANGED link
    BY <1>23, <2>1 DEF Beat
  <2>2. ASSUME NEW sent \in {"all", "part", "nothing"}, link' = Write("beat", sent),
               beat' = IF sent = "all" THEN "ticking" ELSE "stopped"
        PROVE  Working'
    <3>1. Wrote("beat", sent)
      BY <2>2, WriteStep DEF Packets
    <3>2. Workers'
      BY <1>23, <2>2, <3>1 DEF Beat, Wrote, Links
    <3>3. OpensWithCodec'
      BY <1>23, <2>2, <3>1 DEF Beat, Wrote
    <3>4. NoncesAgree'
      BY <1>23, <2>2, <3>1 DEF Beat, Wrote, Links
    <3>5. TeardownLast'
      BY <1>23, <2>2, <3>1 DEF Beat, Wrote
    <3>6. CutEndsWriter'
      BY <1>23, <2>2, <3>1 DEF Beat, Wrote
    <3> QED
      BY <3>2, <3>3, <3>4, <3>5, <3>6
  <2> QED
    BY <1>23, <2>1, <2>2 DEF Beat, Outcomes
<1>24. CASE FeedbackAnswered BY <1>24 DEF FeedbackAnswered
<1>25. CASE Feedback BY <1>25 DEF Feedback
<1>26. CASE Tick BY <1>26 DEF Tick
<1>27. CASE Close BY <1>27 DEF Close
<1>28. CASE AwaitWorkers BY <1>28 DEF AwaitWorkers
<1>29. CASE Teardown BY <1>29 DEF Teardown
<1>30. CASE Release BY <1>30 DEF Release
<1>31. CASE UNCHANGED vars BY <1>31 DEF vars
<1> QED
  BY <1>1, <1>2, <1>3, <1>4, <1>5, <1>6, <1>7, <1>8, <1>9, <1>10, <1>11,
     <1>12, <1>13, <1>14, <1>15, <1>16, <1>17, <1>18, <1>19, <1>20, <1>21,
     <1>22, <1>23, <1>24, <1>25, <1>26, <1>27, <1>28, <1>29, <1>30, <1>31
     DEF Next, SetupStep, CloseStep

-----------------------------------------------------------------------------
LEMMA InitIInv == Init => IInv
<1> SUFFICES ASSUME Init PROVE IInv
  OBVIOUS
<1>1. Flags
  BY Zenon DEF Init, Flags
<1>2. told \in Answer
  BY DEF Init, Answer, Nothing
<1>3. States
  BY BoundAssumption DEF Init, States, Links, Steps
<1>4. Resources /\ Working
  BY BoundAssumption DEF Init, Resources, Reached, NothingLost, RightOrder, Open, Working, Workers, OpensWithCodec,
         NoncesAgree, TeardownLast, CutEndsWriter
<1> QED
  BY <1>1, <1>2, <1>3, <1>4, Parts

\* The types, what the set-up has reached and where the workers stand hold in
\* every state of every session.
THEOREM Invariance == Spec => []IInv
<1>1. IInv /\ [Next]_vars => IInv'
  <2> SUFFICES ASSUME IInv, [Next]_vars PROVE IInv'
    OBVIOUS
  <2>1. Flags /\ told \in Answer /\ States /\ Resources /\ Working
    BY Parts
  <2>2. Flags' /\ told' \in Answer /\ States' /\ Resources' /\ Working'
    BY <2>1, FlagsStep, ToldStep, StatesStep, ResourcesStep, WorkingStep DEF Resources
  <2> QED
    BY <2>2, Parts DEF IInv, TypeOK, Flags, States, Links, Resources, Working
<1> QED
  BY <1>1, InitIInv, PTL DEF Spec

\* Whichever phase of the set-up fails, and whenever the session is closed, no
\* socket stays open, and Close knows those of a session that is up.
THEOREM NoSocketLost == Spec => []NothingLost
<1>1. IInv => NothingLost
  BY DEF IInv
<1> QED
  BY <1>1, Invariance, PTL

\* TEARDOWN is the last that a session asks of its receiver.
THEOREM TeardownIsLast == Spec => []TeardownLast
<1>1. IInv => TeardownLast
  BY DEF IInv
<1> QED
  BY <1>1, Invariance, PTL

\* A loop whose packet was cut short writes nothing behind it.
THEOREM CutIsLast == Spec => []CutEndsWriter
<1>1. IInv => CutEndsWriter
  BY DEF IInv
<1> QED
  BY <1>1, Invariance, PTL

\* Frames arrive with increasing times, whatever feedback does to the clock: the
\* time of a frame was raised above that of the last when it was begun.
THEOREM FrameTimesIncrease == Spec => TimesIncrease
<1> DEFINE Increases == link'.frames # link.frames => link'.time > link.time
<1>1. IInv /\ [Next]_vars => Increases
  <2> SUFFICES ASSUME IInv, [Next]_vars PROVE Increases
    OBVIOUS
  <2>1. States /\ Workers
    BY Parts DEF Working
  <2>2. CASE SendCodecFrame
    BY <2>1, <2>2, WriteStep DEF SendCodecFrame, Outcomes, Packets, Wrote, States
  <2>3. CASE SendFrame
    BY <2>1, <2>3, WriteStep DEF SendFrame, Outcomes, Packets, Wrote, States, Workers, Links
  <2>4. CASE Beat
    BY <2>1, <2>4, WriteStep DEF Beat, Outcomes, Packets, Wrote, States
  <2>5. CASE UNCHANGED link
    BY <2>5
  <2> QED
    BY <2>2, <2>3, <2>4, <2>5, SetupRequests
       DEF Asked, Next, SetupStep, CloseStep, Goto, Fail, vars, workerVars,
          Prepare, AllocatePorts, ConfigureClock, AudioSetupTimesOut,
          ConnectEvent, DialData, Record, SetVolume, MakeCipher, AttachAudio,
          StartWorkers, NTPProbe, CancelContext, ServersEnd, BeginFrame,
          EndFrames, BeginBeats, FeedbackAnswered, Feedback, Tick, Close,
          AwaitWorkers, Teardown, Release
<1> QED
  BY <1>1, Invariance, PTL DEF Spec, TimesIncrease
=============================================================================
