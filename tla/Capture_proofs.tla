--------------------------- MODULE Capture_proofs ---------------------------
(***************************************************************************)
(* Whichever step of a capture's start fails, and whoever stops it, nothing *)
(* of it is left, for any number of callers of Stop.                       *)
(***************************************************************************)
EXTENDS Capture, TLAPS

\* TypeOK in three parts, which different provers handle.
Flags == /\ live \in BOOLEAN /\ watching \in BOOLEAN
         /\ stopped \in BOOLEAN /\ cancelled \in BOOLEAN

Responses == [req : 0..3, good : BOOLEAN]

States ==
  /\ req \in 0..3 /\ asked \in 0..3
  /\ pc \in {"begin", "connect", "call", "watch", "await", "unmatch", "remote", "spawn", "running",
           "failed"}
  /\ bus \in Resource /\ pwFd \in Resource /\ stdout \in Resource
  /\ proc \in {"none", "running", "exited", "waited"}
  /\ reader \in {"idle", "reading", "ended"}
  /\ stop \in [Callers -> {"none", "stopping", "waiting", "done", "returned"}]

LEMMA Parts == TypeOK <=> Flags /\ response \in Responses /\ States
  BY DEF TypeOK, Flags, Responses, States

\* No flag gets another value than TRUE or FALSE.
LEMMA FlagsStep == ASSUME Flags, [Next]_vars PROVE Flags'
<1> USE DEF Flags, portalVars, procVars, stopVars
<1>1. CASE StartWaylandCapture BY <1>1, Zenon DEF StartWaylandCapture
<1>2. CASE StartX11Capture BY <1>2, Zenon DEF StartX11Capture
<1>3. CASE StartFails BY <1>3, Zenon DEF StartFails
<1>3a. CASE Connect BY <1>3a, Zenon DEF Connect
<1>4. CASE RequestFails BY <1>4, Zenon DEF RequestFails, Closed
<1>5. CASE Call BY <1>5, Zenon DEF Call
<1>6. CASE Watch BY <1>6, Zenon DEF Watch
<1>7. CASE Receive BY <1>7, Zenon DEF Receive
<1>8. CASE AwaitCancelled BY <1>8, Zenon DEF AwaitCancelled
<1>8a. CASE GiveUp BY <1>8a, Zenon DEF GiveUp
<1>9. CASE OpenRemote BY <1>9, Zenon DEF OpenRemote
<1>10. CASE Spawn BY <1>10, Zenon DEF Spawn, Closed
<1>11. CASE SpawnFails BY <1>11, Zenon DEF SpawnFails, Closed
<1>12. CASE Cancel BY <1>12, Zenon DEF Cancel
<1>13. CASE Respond BY <1>13, Zenon DEF Respond
<1>14. CASE Exits BY <1>14, Zenon DEF Exits
<1>15. CASE Kill BY <1>15, Zenon DEF Kill
<1>16. CASE Wait BY <1>16, Zenon DEF Wait
<1>17. CASE Read BY <1>17, Zenon DEF Read
<1>18. CASE ReadData BY <1>18, Zenon DEF ReadData
<1>18a. CASE ReadEnds BY <1>18a, Zenon DEF ReadEnds
<1>19. ASSUME NEW c \in Callers, StopChecks(c) PROVE Flags'
  BY <1>19, Zenon DEF StopChecks
<1>20. ASSUME NEW c \in Callers, StopCloses(c) PROVE Flags'
  BY <1>20, Zenon DEF StopCloses, Closed
<1>21. ASSUME NEW c \in Callers, StopWaits(c) PROVE Flags'
  BY <1>21, Zenon DEF StopWaits
<1>22. CASE UNCHANGED vars BY <1>22, Zenon DEF vars
<1> QED
  BY <1>1, <1>2, <1>3, <1>3a, <1>4, <1>5, <1>6, <1>7, <1>8, <1>8a, <1>9, <1>10, <1>11,
     <1>12, <1>13, <1>14, <1>15, <1>16, <1>17, <1>18, <1>18a, <1>19, <1>20, <1>21, <1>22
     DEF Next, Starting, CallReturns, Stop

\* What is in the channel is a response to one of the requests.
LEMMA ResponseStep == ASSUME States, response \in Responses, [Next]_vars PROVE response' \in Responses
<1>1. None \in Responses
  BY DEF None, Responses
<1>2. CASE Respond
  <2>1. PICK good \in BOOLEAN : response' \in {response, [req |-> asked, good |-> good]}
    BY <1>2 DEF Respond
  <2>2. [req |-> asked, good |-> good] \in Responses
    BY DEF States, Responses
  <2> QED
    BY <2>1, <2>2
<1>3. CASE response' \in {response, None}
  BY <1>1, <1>3
<1> QED
  BY <1>2, <1>3
     DEF Next, Starting, CallReturns, Stop, vars, portalVars, StartWaylandCapture,
         StartX11Capture, StartFails, Connect, RequestFails, Call, Watch, Receive,
         AwaitCancelled, GiveUp, OpenRemote, Spawn, SpawnFails, Cancel, Exits, Kill, Wait,
         Read, ReadData, ReadEnds, StopChecks, StopCloses, StopWaits

\* All other variables keep their types.
LEMMA StatesStep == ASSUME States, [Next]_vars PROVE States'
<1> USE DEF States, Resource, portalVars, procVars, stopVars
<1>1. CASE StartWaylandCapture BY <1>1 DEF StartWaylandCapture
<1>2. CASE StartX11Capture BY <1>2 DEF StartX11Capture
<1>3. CASE StartFails BY <1>3 DEF StartFails
<1>3a. CASE Connect BY <1>3a DEF Connect
<1>4. CASE RequestFails BY <1>4 DEF RequestFails, Closed
<1>5. CASE Call BY <1>5 DEF Call
<1>6. CASE Watch BY <1>6 DEF Watch
<1>7. CASE Receive BY <1>7 DEF Receive
<1>8. CASE AwaitCancelled BY <1>8 DEF AwaitCancelled
<1>8a. CASE GiveUp BY <1>8a DEF GiveUp
<1>9. CASE OpenRemote BY <1>9 DEF OpenRemote
<1>10. CASE Spawn BY <1>10 DEF Spawn, Closed
<1>11. CASE SpawnFails BY <1>11 DEF SpawnFails, Closed
<1>12. CASE Cancel BY <1>12 DEF Cancel
<1>13. CASE Respond BY <1>13 DEF Respond
<1>14. CASE Exits BY <1>14 DEF Exits
<1>15. CASE Kill BY <1>15 DEF Kill
<1>16. CASE Wait BY <1>16 DEF Wait
<1>17. CASE Read BY <1>17 DEF Read
<1>18. CASE ReadData BY <1>18 DEF ReadData
<1>18a. CASE ReadEnds BY <1>18a DEF ReadEnds
<1>19. ASSUME NEW c \in Callers, StopChecks(c) PROVE States'
  BY <1>19 DEF StopChecks
<1>20. ASSUME NEW c \in Callers, StopCloses(c) PROVE States'
  BY <1>20 DEF StopCloses, Closed
<1>21. ASSUME NEW c \in Callers, StopWaits(c) PROVE States'
  BY <1>21 DEF StopWaits
<1>22. CASE UNCHANGED vars BY <1>22 DEF vars
<1> QED
  BY <1>1, <1>2, <1>3, <1>3a, <1>4, <1>5, <1>6, <1>7, <1>8, <1>8a, <1>9, <1>10, <1>11,
     <1>12, <1>13, <1>14, <1>15, <1>16, <1>17, <1>18, <1>18a, <1>19, <1>20, <1>21, <1>22
     DEF Next, Starting, CallReturns, Stop

\* A step of the start opens what the next one needs, a failure closes it; only
\* cmd.Wait, and Stop, close the output, and Stop ends after cmd.Wait.
Safe == NothingLeft /\ SessionKept /\ Held
LEMMA SafeStep == ASSUME States, Safe, [Next]_vars PROVE Safe'
<1> USE DEF States, Resource, Safe, NothingLeft, SessionKept, Held, portalVars, procVars, stopVars
<1>1. CASE StartWaylandCapture BY <1>1 DEF StartWaylandCapture
<1>2. CASE StartX11Capture BY <1>2 DEF StartX11Capture
<1>3. CASE StartFails BY <1>3 DEF StartFails
<1>3a. CASE Connect BY <1>3a DEF Connect
<1>4. CASE RequestFails BY <1>4 DEF RequestFails, Closed
<1>5. CASE Call BY <1>5 DEF Call
<1>6. CASE Watch BY <1>6 DEF Watch
<1>7. CASE Receive BY <1>7 DEF Receive
<1>8. CASE AwaitCancelled BY <1>8 DEF AwaitCancelled
<1>8a. CASE GiveUp BY <1>8a DEF GiveUp
<1>9. CASE OpenRemote BY <1>9 DEF OpenRemote
<1>10. CASE Spawn BY <1>10 DEF Spawn, Closed
<1>11. CASE SpawnFails BY <1>11 DEF SpawnFails, Closed
<1>12. CASE Cancel BY <1>12 DEF Cancel
<1>13. CASE Respond BY <1>13 DEF Respond
<1>14. CASE Exits BY <1>14 DEF Exits
<1>15. CASE Kill BY <1>15 DEF Kill
<1>16. CASE Wait BY <1>16 DEF Wait
<1>17. CASE Read BY <1>17 DEF Read
<1>18. CASE ReadData BY <1>18 DEF ReadData
<1>18a. CASE ReadEnds BY <1>18a DEF ReadEnds
<1>19. ASSUME NEW c \in Callers, StopChecks(c) PROVE Safe'
  BY <1>19 DEF StopChecks
<1>20. ASSUME NEW c \in Callers, StopCloses(c) PROVE Safe'
  BY <1>20 DEF StopCloses, Closed
<1>21. ASSUME NEW c \in Callers, StopWaits(c) PROVE Safe'
  BY <1>21 DEF StopWaits
<1>22. CASE UNCHANGED vars BY <1>22 DEF vars
<1> QED
  BY <1>1, <1>2, <1>3, <1>3a, <1>4, <1>5, <1>6, <1>7, <1>8, <1>8a, <1>9, <1>10, <1>11,
     <1>12, <1>13, <1>14, <1>15, <1>16, <1>17, <1>18, <1>18a, <1>19, <1>20, <1>21, <1>22
     DEF Next, Starting, CallReturns, Stop

\* The resources of a capture are accounted for in every state.
THEOREM Invariance == Spec => []IInv
<1>1. Init => IInv
  <2>1. Init => Flags
    BY Zenon DEF Init, Flags
  <2>2. Init => response \in Responses
    BY DEF Init, Responses, None
  <2>3. Init => States /\ Safe
    BY DEF Init, States, Resource, Safe, NothingLeft, SessionKept, Held
  <2> QED
    BY <2>1, <2>2, <2>3, Parts DEF IInv, Safe
<1>2. IInv /\ [Next]_vars => IInv'
  <2>1. ASSUME IInv, [Next]_vars PROVE Flags' /\ response' \in Responses /\ States' /\ Safe'
    BY <2>1, Parts, FlagsStep, ResponseStep, StatesStep, SafeStep DEF IInv, Safe
  <2> QED
    BY <2>1 DEF IInv, TypeOK, Flags, Responses, States, Safe
<1> QED
  BY <1>1, <1>2, PTL DEF Spec

\* A start that has failed, and a Stop that has run to its end, leave no portal
\* session, no descriptor, no pipe and no process.
THEOREM NothingIsLeft == Spec => []NothingLeft
<1>1. IInv => NothingLeft
  BY DEF IInv
<1> QED
  BY <1>1, Invariance, PTL
=============================================================================
