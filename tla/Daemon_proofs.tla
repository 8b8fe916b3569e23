--------------------------- MODULE Daemon_proofs ---------------------------
(***************************************************************************)
(* Proofs about Daemon for any sets of targets, entries and captures: its  *)
(* types, its inductive invariant and what follows from it, and that it    *)
(* implements StreamLifecycle.                                             *)
(***************************************************************************)
EXTENDS Daemon, TLAPS

\* What the locked helpers do to the registry, whatever calls them.
LEMMA StopCaptureType ==
  ASSUME TypeOK, StopCapture
  PROVE  /\ broadcast' \in Captures \cup {NoCapture}
         /\ proc' \in [Captures -> BOOLEAN]
  BY DEF TypeOK, StopCapture

LEMMA MaybeStopType ==
  ASSUME TypeOK, NEW s, MaybeStopBroadcastLocked(s)
  PROVE  /\ broadcast' \in Captures \cup {NoCapture}
         /\ proc' \in [Captures -> BOOLEAN]
  BY StopCaptureType DEF TypeOK, MaybeStopBroadcastLocked

LEMMA RemoveStreamLockedType ==
  ASSUME TypeOK, NEW t \in Targets, RemoveStreamLocked(t)
  PROVE  /\ streams' \in [Targets -> Entries \cup {NoEntry}]
         /\ pendingTarget' \in Targets \cup {NoTarget}
         /\ cancelled' \in [Entries -> BOOLEAN]
         /\ broadcast' \in Captures \cup {NoCapture}
         /\ proc' \in [Captures -> BOOLEAN]
  BY MaybeStopType DEF TypeOK, RemoveStreamLocked

LEMMA RemoveStreamType ==
  ASSUME TypeOK, NEW e \in Entries, RemoveStream(e)
  PROVE  /\ streams' \in [Targets -> Entries \cup {NoEntry}]
         /\ pendingTarget' \in Targets \cup {NoTarget}
         /\ cancelled' \in [Entries -> BOOLEAN]
         /\ broadcast' \in Captures \cup {NoCapture}
         /\ proc' \in [Captures -> BOOLEAN]
  BY RemoveStreamLockedType DEF TypeOK, RemoveStream, Current

LEMMA StopAllType ==
  ASSUME TypeOK, StopAllLocked
  PROVE  /\ streams' \in [Targets -> Entries \cup {NoEntry}]
         /\ pendingTarget' \in Targets \cup {NoTarget}
         /\ cancelled' \in [Entries -> BOOLEAN]
         /\ broadcast' \in Captures \cup {NoCapture}
         /\ proc' \in [Captures -> BOOLEAN]
         /\ conn' \in [Entries -> BOOLEAN]
         /\ sink' \in [Entries -> BOOLEAN]
  BY StopCaptureType DEF TypeOK, StopAllLocked, CloseEntries

\* Every step keeps every variable in its type.
LEMMA TypeStep == ASSUME TypeOK, [Next]_vars PROVE TypeOK'
<1> USE DEF State, Attempt, Label
<1>1. ASSUME NEW t \in Targets, NEW p \in BOOLEAN, HandleConnect(t, p) PROVE TypeOK'
  BY <1>1 DEF TypeOK, HandleConnect, captureVars
<1>2. ASSUME NEW t \in Targets, SubmitPIN(t) PROVE TypeOK'
  BY <1>2 DEF TypeOK, SubmitPIN, localVars, captureVars
<1>3. ASSUME NEW t \in Targets, HandleDisconnect(t) PROVE TypeOK'
  BY <1>3, RemoveStreamLockedType DEF TypeOK, HandleDisconnect, CloseEntries
<1>4. CASE DisconnectAll
  BY <1>4, StopAllType DEF TypeOK, DisconnectAll
<1>5. ASSUME NEW e \in Entries, Step(e) PROVE TypeOK'
  <2>1. CASE DialOK(e)
    BY <2>1 DEF TypeOK, DialOK, Goto, daemonVars, entryVars, captureVars
  <2>2. CASE InfoOK(e)
    BY <2>2 DEF TypeOK, InfoOK, AfterInfo, Goto, daemonVars, entryVars, captureVars
  <2>3. CASE PairOK(e)
    BY <2>3 DEF TypeOK, PairOK, Goto, daemonVars, entryVars, captureVars
  <2>4. CASE Reconnect(e)
    BY <2>4 DEF TypeOK, Reconnect, Goto, daemonVars, entryVars, captureVars
  <2>5. CASE WaitForPIN(e)
    BY <2>5 DEF TypeOK, WaitForPIN, Goto, captureVars
  <2>6. CASE TakePIN(e)
    BY <2>6 DEF TypeOK, TakePIN, Goto, daemonVars, captureVars
  <2>7. CASE CancelPINWait(e)
    BY <2>7 DEF TypeOK, CancelPINWait, Goto, entryVars, captureVars
  <2>8. CASE ReadBroadcast(e)
    BY <2>8 DEF TypeOK, ReadBroadcast, Goto, daemonVars, entryVars, captureVars
  <2>9. CASE AddSink(e)
    BY <2>9 DEF TypeOK, AddSink, Goto, daemonVars, entryVars, captureVars
  <2>10. CASE PublishBroadcast(e)
    BY <2>10 DEF TypeOK, PublishBroadcast, Goto, entryVars
  <2>11. CASE DiscardCapture(e)
    BY <2>11 DEF TypeOK, DiscardCapture, Goto, daemonVars, entryVars
  <2>12. CASE LateAddSink(e)
    BY <2>12 DEF TypeOK, LateAddSink, Goto, daemonVars, entryVars, captureVars
  <2>13. CASE SetupOK(e)
    BY <2>13 DEF TypeOK, SetupOK, Goto, daemonVars, captureVars
  <2>14. CASE SetupStale(e)
    BY <2>14, MaybeStopType DEF TypeOK, SetupStale, CloseOwn, Return, Goto
  <2>15. CASE Cleanup(e)
    BY <2>15, RemoveStreamType DEF TypeOK, Cleanup, Return, Goto
  <2> QED
    BY <1>5, <2>1, <2>2, <2>3, <2>4, <2>5, <2>6, <2>7, <2>8, <2>9, <2>10, <2>11, <2>12,
       <2>13, <2>14, <2>15 DEF Step
<1>6. ASSUME NEW e \in Entries, GiveUp(e) PROVE TypeOK'
  BY <1>6, RemoveStreamType DEF TypeOK, GiveUp, CloseOwn, Return, Goto
<1>7. ASSUME NEW e \in Entries, StartCapture(e) PROVE TypeOK'
  BY <1>7 DEF TypeOK, StartCapture, Goto, daemonVars, entryVars
<1>8. ASSUME NEW e \in Entries, StreamEnds(e) PROVE TypeOK'
  BY <1>8 DEF TypeOK, StreamEnds, CloseOwn, Goto, daemonVars, entryVars, captureVars
<1>9. ASSUME NEW c \in Captures, RunEnds(c) PROVE TypeOK'
  BY <1>9 DEF TypeOK, RunEnds, daemonVars, entryVars
<1>10. ASSUME NEW c \in Captures, StopAllAfterRun(c) PROVE TypeOK'
  BY <1>10, StopAllType DEF TypeOK, StopAllAfterRun
<1>11. CASE UNCHANGED vars
  BY <1>11 DEF TypeOK, vars, daemonVars, entryVars, localVars, captureVars
<1> QED
  BY <1>1, <1>2, <1>3, <1>4, <1>5, <1>6, <1>7, <1>8, <1>9, <1>10, <1>11 DEF Next, Request

\* No step of any goroutine or request takes a variable out of its type.
THEOREM TypeCorrect == Spec => []TypeOK
<1>1. Init => TypeOK
  BY DEF Init, TypeOK, State, Attempt, Label
<1> QED
  BY <1>1, TypeStep, PTL DEF Spec

-----------------------------------------------------------------------------
\* Removing all streams leaves none in the map and none that was not told, and
\* nothing open at a goroutine that has returned.
LEMMA StopAllRegistry ==
  ASSUME IInv, StopAllLocked
  PROVE  /\ \A f \in Entries : cancelled'[f] = TRUE
         /\ \A f \in Entries : conn'[f] => conn[f]
         /\ \A f \in Entries : sink'[f] => sink[f]
         /\ \A t \in Targets : streams'[t] = NoEntry
         /\ \A f \in Entries : ~Current(f)'
<1>1. \A f \in Entries : ~cancelled[f] => \E t \in Targets : streams[t] = f
  BY DEF IInv, EntryInv, Current
<1>2. \A f \in Entries : cancelled'[f] = TRUE
  BY <1>1 DEF IInv, TypeOK, StopAllLocked
<1>3. \A f \in Entries : (conn'[f] => conn[f]) /\ (sink'[f] => sink[f])
  BY DEF IInv, TypeOK, StopAllLocked, CloseEntries
<1>4. \A t \in Targets : streams'[t] = NoEntry
  BY DEF StopAllLocked
<1> QED
  BY <1>2, <1>3, <1>4, NullAssumption DEF Current

\* It also leaves no broadcast, and stops the daemon's capture only.
LEMMA StopAllCapture ==
  ASSUME IInv, StopAllLocked
  PROVE  /\ broadcast' = NoCapture
         /\ pendingTarget' = NoTarget
         /\ \A c \in Captures : proc'[c] <=> proc[c] /\ c # broadcast
  BY DEF IInv, TypeOK, StopAllLocked, StopCapture

\* Removing one stream takes its entry out of the map and tells it; the other
\* entries stay as they were.
LEMMA RemoveStreamRegistry ==
  ASSUME IInv, NEW t \in Targets, RemoveStreamLocked(t)
  PROVE  /\ \A f \in Entries : cancelled'[f] <=> cancelled[f] \/ streams[t] = f
         /\ \A f \in Entries : (\E u \in Targets : u = target[f] /\ streams'[u] = f)
                               <=> Current(f) /\ streams[t] # f
<1>1. \A u \in Targets : streams'[u] = IF u = t THEN NoEntry ELSE streams[u]
  BY DEF IInv, TypeOK, RemoveStreamLocked
<1>2. \A f \in Entries : cancelled'[f] <=> cancelled[f] \/ streams[t] = f
  BY DEF IInv, TypeOK, RemoveStreamLocked
<1> QED
  BY <1>1, <1>2, NullAssumption DEF Current, IInv, MapInv

\* The three ways to remove streams from outside their goroutine.
LEMMA DisconnectStep ==
  ASSUME IInv, TypeOK', NEW t \in Targets, HandleDisconnect(t)
  PROVE  IInv'
<1>1. UNCHANGED <<target, state, pinCh, pc, attempt, feed, run>>
  BY DEF HandleDisconnect
<1>2. ASSUME NEW f \in Entries PROVE EntryInv(f)'
  <2>1. /\ cancelled'[f] <=> cancelled[f] \/ streams[t] = f
        /\ Current(f)' <=> Current(f) /\ streams[t] # f
    BY <1>1, RemoveStreamRegistry DEF HandleDisconnect, Current
  <2>2. (conn'[f] => conn[f]) /\ (sink'[f] => sink[f])
    BY DEF HandleDisconnect, CloseEntries, IInv, TypeOK
  <2> QED
    BY <1>1, <2>1, <2>2 DEF IInv, EntryInv
<1>3. MapInv'
  BY NullAssumption DEF IInv, TypeOK, MapInv, HandleDisconnect, RemoveStreamLocked
<1>4. (\A f \in Entries : FeedInv(f))'
  BY NullAssumption
     DEF IInv, TypeOK, EntryInv, MapInv, FeedInv, CaptureInv, BroadcastLive, Own, Current,
         HandleDisconnect, CloseEntries, RemoveStreamLocked, MaybeStopBroadcastLocked,
         NoStreams, StopCapture, State, Label
<1>5. CaptureInv'
  BY <1>1 DEF IInv, TypeOK, CaptureInv, BroadcastLive, NoOrphanCapture, HandleDisconnect,
              RemoveStreamLocked, MaybeStopBroadcastLocked, StopCapture
<1> QED
  BY <1>2, <1>3, <1>4, <1>5 DEF IInv

LEMMA DisconnectAllStep ==
  ASSUME IInv, TypeOK', DisconnectAll
  PROVE  IInv'
<1>1. StopAllLocked /\ UNCHANGED <<target, state, pinCh, pc, attempt, feed, run>>
  BY DEF DisconnectAll
<1>2. (\A f \in Entries : EntryInv(f))' /\ MapInv'
  BY <1>1, StopAllRegistry, StopAllCapture DEF IInv, EntryInv, MapInv
<1>3. \A f \in Entries : Own(f) => sink'[f] /\ feed[f] # broadcast
  <2> SUFFICES ASSUME NEW f \in Entries, Own(f) PROVE sink'[f] /\ feed[f] # broadcast
    OBVIOUS
  <2>1. state[f] # "streaming" /\ sink[f]
    BY DEF IInv, EntryInv, FeedInv, Own
  <2>2. sink'[f]
    BY <1>1, <2>1 DEF StopAllLocked, CloseEntries, IInv, TypeOK
  <2>3. feed[f] # NoCapture /\ run[feed[f]] = "idle"
    BY DEF IInv, FeedInv, Own
  <2> QED
    BY <2>2, <2>3 DEF IInv, CaptureInv, BroadcastLive
<1>4. ASSUME NEW f \in Entries PROVE FeedInv(f)'
  <2>1. ~Current(f)'
    BY <1>1, StopAllRegistry
  <2>2. CASE Own(f)
    <3>1. feed[f] \in Captures /\ proc[feed[f]] /\ run[feed[f]] = "idle"
      BY <2>2 DEF IInv, TypeOK, FeedInv, Own
    <3>2. proc'[feed[f]] /\ run'[feed[f]] = "idle"
      BY <1>1, <1>3, <2>2, <3>1, StopAllCapture
    <3> QED
      BY <1>1, <1>3, <2>1, <2>2, <3>2 DEF IInv, FeedInv, Own
  <2>3. CASE ~Own(f)
    BY <1>1, <2>1, <2>3 DEF IInv, FeedInv, Own
  <2> QED
    BY <2>2, <2>3
<1>5. CaptureInv'
  BY <1>1, StopAllCapture DEF IInv, CaptureInv, BroadcastLive, NoOrphanCapture
<1> QED
  BY <1>2, <1>4, <1>5 DEF IInv

LEMMA StopAllAfterRunStep ==
  ASSUME IInv, TypeOK', NEW c \in Captures, StopAllAfterRun(c)
  PROVE  IInv'
<1>1. /\ StopAllLocked
      /\ UNCHANGED <<target, state, pinCh, pc, attempt, feed>>
      /\ run[c] = "ended" /\ run' = [run EXCEPT ![c] = "idle"]
  BY DEF StopAllAfterRun
<1>2. (\A f \in Entries : EntryInv(f))' /\ MapInv'
  BY <1>1, StopAllRegistry, StopAllCapture DEF IInv, EntryInv, MapInv
<1>3. \A f \in Entries : Own(f) => sink'[f] /\ feed[f] # broadcast
  <2> SUFFICES ASSUME NEW f \in Entries, Own(f) PROVE sink'[f] /\ feed[f] # broadcast
    OBVIOUS
  <2>1. state[f] # "streaming" /\ sink[f]
    BY DEF IInv, EntryInv, FeedInv, Own
  <2>2. sink'[f]
    BY <1>1, <2>1 DEF StopAllLocked, CloseEntries, IInv, TypeOK
  <2>3. feed[f] # NoCapture /\ run[feed[f]] = "idle"
    BY DEF IInv, FeedInv, Own
  <2> QED
    BY <2>2, <2>3 DEF IInv, CaptureInv, BroadcastLive
<1>4. ASSUME NEW f \in Entries PROVE FeedInv(f)'
  <2>1. ~Current(f)'
    BY <1>1, StopAllRegistry
  <2>2. CASE Own(f)
    <3>1. feed[f] \in Captures /\ proc[feed[f]] /\ run[feed[f]] = "idle"
      BY <2>2 DEF IInv, TypeOK, FeedInv, Own
    <3>2. proc'[feed[f]] /\ run'[feed[f]] = "idle"
      BY <1>1, <1>3, <2>2, <3>1, StopAllCapture DEF IInv, TypeOK
    <3> QED
      BY <1>1, <1>3, <2>1, <2>2, <3>2 DEF IInv, FeedInv, Own
  <2>3. CASE ~Own(f)
    BY <1>1, <2>1, <2>3 DEF IInv, FeedInv, Own
  <2> QED
    BY <2>2, <2>3
<1>5. CaptureInv'
  BY <1>1, StopAllCapture DEF IInv, CaptureInv, BroadcastLive, NoOrphanCapture
<1> QED
  BY <1>2, <1>4, <1>5 DEF IInv

\* The invariant is inductive.  One leaf for each action; what they share is the
\* definition of the invariant's parts.
LEMMA Inductive == ASSUME IInv, [Next]_vars PROVE IInv'
<1>0. TypeOK /\ TypeOK'
  BY TypeStep DEF IInv
<1> USE NullAssumption DEF TypeOK, EntryInv, MapInv, FeedInv, CaptureInv, BroadcastLive,
        NoOrphanCapture, Own, Current, State, Label, Attempt
<1>1. ASSUME NEW t \in Targets, NEW p \in BOOLEAN, HandleConnect(t, p) PROVE IInv'
  BY <1>1, <1>0 DEF IInv, HandleConnect, FreeEntry, captureVars
<1>2. ASSUME NEW t \in Targets, SubmitPIN(t) PROVE IInv'
  BY <1>2, <1>0 DEF IInv, SubmitPIN, localVars, captureVars
<1>3. ASSUME NEW t \in Targets, HandleDisconnect(t) PROVE IInv'
  BY <1>0, <1>3, DisconnectStep
<1>4. CASE DisconnectAll
  BY <1>0, <1>4, DisconnectAllStep
<1>5. ASSUME NEW e \in Entries, Step(e) PROVE IInv'
  <2>1. CASE DialOK(e)
    BY <2>1, <1>0 DEF IInv, DialOK, At, Goto, daemonVars, entryVars, captureVars
  <2>2. CASE InfoOK(e)
    BY <2>2, <1>0 DEF IInv, InfoOK, At, AfterInfo, Goto, daemonVars, entryVars,
       captureVars
  <2>3. CASE PairOK(e)
    BY <2>3, <1>0 DEF IInv, PairOK, At, Goto, daemonVars, entryVars, captureVars
  <2>4. CASE Reconnect(e)
    BY <2>4, <1>0 DEF IInv, Reconnect, At, Goto, daemonVars, entryVars, captureVars
  <2>5. CASE WaitForPIN(e)
    BY <2>5, <1>0 DEF IInv, WaitForPIN, At, Goto, captureVars
  <2>6. CASE TakePIN(e)
    BY <2>6, <1>0 DEF IInv, TakePIN, At, Goto, daemonVars, captureVars
  <2>7. CASE CancelPINWait(e)
    BY <2>7, <1>0 DEF IInv, CancelPINWait, At, Goto, entryVars, captureVars
  <2>8. CASE ReadBroadcast(e)
    BY <2>8, <1>0 DEF IInv, ReadBroadcast, At, Goto, daemonVars, entryVars, captureVars
  <2>9. CASE AddSink(e)
    BY <2>9, <1>0 DEF IInv, AddSink, At, Goto, daemonVars, entryVars, captureVars
  <2>10. CASE PublishBroadcast(e)
    BY <2>10, <1>0 DEF IInv, PublishBroadcast, At, Goto, entryVars
  <2>11. CASE DiscardCapture(e)
    BY <2>11, <1>0 DEF IInv, DiscardCapture, At, Goto, daemonVars, entryVars
  <2>12. CASE LateAddSink(e)
    BY <2>12, <1>0 DEF IInv, LateAddSink, At, Goto, daemonVars, entryVars, captureVars
  <2>13. CASE SetupOK(e)
    BY <2>13, <1>0 DEF IInv, SetupOK, At, Goto, daemonVars, captureVars
  <2>14. CASE SetupStale(e)
    BY <2>14, <1>0 DEF IInv, SetupStale, At, CloseOwn, Return, Goto,
       MaybeStopBroadcastLocked, NoStreams, StopCapture
  <2>15. CASE Cleanup(e)
    BY <2>15, <1>0 DEF IInv, Cleanup, At, Return, Goto, RemoveStream, RemoveStreamLocked,
       MaybeStopBroadcastLocked, NoStreams, StopCapture
  <2> QED
    BY <1>5, <2>1, <2>2, <2>3, <2>4, <2>5, <2>6, <2>7, <2>8, <2>9, <2>10, <2>11, <2>12, <2>13, <2>14, <2>15 DEF Step
<1>6. ASSUME NEW e \in Entries, GiveUp(e) PROVE IInv'
  <2> USE DEF GiveUp, At, CloseOwn, Return, Goto, RemoveStream, RemoveStreamLocked,
          MaybeStopBroadcastLocked, NoStreams, StopCapture
  <2>1. ASSUME NEW f \in Entries PROVE EntryInv(f)'
    <3>1. CASE f = e
      BY <1>6, <1>0, <3>1 DEF IInv
    <3>2. CASE f # e
      <4>1. /\ pc'[f] = pc[f] /\ target'[f] = target[f] /\ state'[f] = state[f]
            /\ pinCh'[f] = pinCh[f] /\ conn'[f] = conn[f] /\ sink'[f] = sink[f]
        BY <1>6, <3>2
      <4>2. (Current(f)' <=> Current(f)) /\ cancelled'[f] = cancelled[f]
        BY <1>6, <3>2, <4>1 DEF IInv
      <4> QED
        BY <4>1, <4>2 DEF IInv
    <3> QED
      BY <3>1, <3>2
  <2>2. MapInv'
    BY <1>6, <1>0 DEF IInv
  <2>3. ASSUME NEW f \in Entries \ {e} PROVE FeedInv(f)'
    <3>1. /\ pc'[f] = pc[f] /\ feed'[f] = feed[f] /\ target'[f] = target[f]
          /\ sink'[f] = sink[f] /\ conn'[f] = conn[f] /\ run' = run
      BY <1>6
    <3>2. Current(f)' => Current(f) /\ broadcast' = broadcast
      BY <1>6, <3>1 DEF IInv
    <3>3. Own(f) => /\ feed[f] \in Captures /\ feed[f] # broadcast
                    /\ proc'[feed[f]] = proc[feed[f]]
      BY <1>6, <3>1 DEF IInv
    <3>4. \A g \in Entries : feed'[g] = feed[g] \/ feed'[g] = NoCapture
      BY <1>6
    <3> QED
      BY <3>1, <3>2, <3>3, <3>4 DEF IInv
  <2>4. FeedInv(e)'
    BY <1>6 DEF IInv
  <2>5. CaptureInv'
    BY <1>6, <1>0 DEF IInv
  <2> QED
    BY <1>0, <2>1, <2>2, <2>3, <2>4, <2>5 DEF IInv
<1>7. ASSUME NEW e \in Entries, StartCapture(e) PROVE IInv'
  BY <1>7, <1>0 DEF IInv, StartCapture, FreeCapture, At, Goto, daemonVars, entryVars
<1>8. ASSUME NEW e \in Entries, StreamEnds(e) PROVE IInv'
  BY <1>8, <1>0 DEF IInv, StreamEnds, At, CloseOwn, Goto, daemonVars, entryVars,
     captureVars
<1>9. ASSUME NEW c \in Captures, RunEnds(c) PROVE IInv'
  BY <1>9, <1>0 DEF IInv, RunEnds, daemonVars, entryVars
<1>10. ASSUME NEW c \in Captures, StopAllAfterRun(c) PROVE IInv'
  BY <1>0, <1>10, StopAllAfterRunStep
<1>11. CASE UNCHANGED vars
  BY <1>11 DEF IInv, vars, daemonVars, entryVars, localVars, captureVars
<1> QED
  BY <1>1, <1>2, <1>3, <1>4, <1>5, <1>6, <1>7, <1>8, <1>9, <1>10, <1>11 DEF Next, Request

\* At start every entry and every capture is free.
LEMMA InitInv == Init => IInv
  BY NullAssumption
     DEF Init, IInv, TypeOK, EntryInv, MapInv, FeedInv, CaptureInv, BroadcastLive,
         NoOrphanCapture, Own, Current, State, Label, Attempt

\* No interleaving of requests, connections and captures breaks the invariant.
THEOREM Invariance == Spec => []IInv
  BY InitInv, Inductive, PTL DEF Spec

-----------------------------------------------------------------------------
\* What follows from the invariant.

\* "pin_required" is only reported while a goroutine waits for the PIN of the
\* target that would get it.
THEOREM PINAnswerable == Spec => []NeedsPINIsAnswerable
<1>1. IInv => NeedsPINIsAnswerable
  <2> SUFFICES ASSUME IInv, OverallState = "pin_required" PROVE NeedsPINIsAnswerable
    BY DEF NeedsPINIsAnswerable
  <2>1. pendingTarget # NoTarget
    BY DEF OverallState
  <2>2. /\ pendingTarget \in Targets /\ streams[pendingTarget] \in Entries
        /\ state[streams[pendingTarget]] = "pin_required"
        /\ target[streams[pendingTarget]] = pendingTarget
    BY <2>1 DEF IInv, TypeOK, MapInv
  <2>3. Current(streams[pendingTarget])
    BY <2>2 DEF Current
  <2> QED
    BY <2>2, <2>3 DEF IInv, EntryInv, NeedsPINIsAnswerable
<1> QED
  BY <1>1, Invariance, PTL

\* The send to pinCh under the mutex never blocks.
THEOREM PINSendSafe == Spec => []PINSendNeverBlocks
<1>1. IInv => PINSendNeverBlocks
  BY DEF IInv, TypeOK, EntryInv, PINSendNeverBlocks
<1> QED
  BY <1>1, Invariance, PTL

\* Contexts are cancelled with the removal from the map, and only then.
THEOREM Cancellation == Spec => []CancelledIffRemoved
<1>1. IInv => CancelledIffRemoved
  BY DEF IInv, EntryInv, CancelledIffRemoved
<1> QED
  BY <1>1, Invariance, PTL

\* Streams of the map share the daemon's broadcast, which has a live process and
\* a goroutine, and no process is left that nobody would stop.
THEOREM CaptureShared == Spec => [](FedByBroadcast /\ BroadcastLive /\ NoOrphanCapture)
<1>1. IInv => FedByBroadcast
  BY DEF IInv, FeedInv, Own, FedByBroadcast
<1>2. IInv => BroadcastLive /\ NoOrphanCapture
  BY DEF IInv, CaptureInv
<1> QED
  BY <1>1, <1>2, Invariance, PTL

\* A stream's resources are open while it streams from a running capture, and
\* closed when its goroutine has returned.
THEOREM Resources == Spec => [](StreamingHasSink /\ NothingLeftOpen)
<1>1. IInv => StreamingHasSink
  BY DEF IInv, FeedInv, StreamingHasSink
<1>2. IInv => NothingLeftOpen
  BY DEF IInv, EntryInv, NothingLeftOpen
<1> QED
  BY <1>1, <1>2, Invariance, PTL

\* A connection's own steps, RemoveStream included, leave other streams alone.
THEOREM OnlyOwnStream == Spec => RemovesOnlyItself
<1> DEFINE Spares == \A e \in Entries : pc[e] # "done" /\ pc'[e] # pc[e] =>
                       \A t \in Targets : streams[t] # e => streams'[t] = streams[t]
<1>1. ASSUME IInv, [Next]_vars, NEW e \in Entries, pc[e] # "done", pc'[e] # pc[e]
      PROVE  \A t \in Targets : streams[t] # e => streams'[t] = streams[t]
  <2> USE <1>1 DEF IInv, TypeOK
  <2>1. ASSUME NEW t \in Targets, NEW p \in BOOLEAN, HandleConnect(t, p) PROVE FALSE
    BY <2>1 DEF HandleConnect, FreeEntry
  <2>2. ASSUME NEW t \in Targets, SubmitPIN(t) \/ HandleDisconnect(t) PROVE FALSE
    BY <2>2 DEF SubmitPIN, HandleDisconnect, localVars
  <2>3. ASSUME DisconnectAll PROVE FALSE
    BY <2>3 DEF DisconnectAll
  <2>4. ASSUME NEW c \in Captures, RunEnds(c) \/ StopAllAfterRun(c) PROVE FALSE
    BY <2>4 DEF RunEnds, StopAllAfterRun
  <2>5. ASSUME NEW f \in Entries, Step(f) \/ GiveUp(f) \/ StartCapture(f) \/ StreamEnds(f)
        PROVE  /\ f = e
               /\ UNCHANGED streams \/ RemoveStream(f)
    <3>1. CASE GiveUp(f) \/ StartCapture(f) \/ StreamEnds(f)
      BY <2>5, <3>1 DEF GiveUp, Return, StartCapture, StreamEnds, Goto, daemonVars
    <3>2. CASE Step(f)
      BY <2>5, <3>2
         DEF Step, DialOK, InfoOK, PairOK, Reconnect, WaitForPIN, TakePIN, CancelPINWait,
             ReadBroadcast, AddSink, PublishBroadcast, DiscardCapture, LateAddSink,
             SetupOK, SetupStale, Cleanup, Return, Goto, daemonVars
    <3> QED
      BY <2>5, <3>1, <3>2
  <2>6. RemoveStream(e) =>
          \A t \in Targets : streams[t] # e => streams'[t] = streams[t]
    BY DEF RemoveStream, RemoveStreamLocked, Current
  <2>7. CASE UNCHANGED vars
    BY <2>7 DEF vars, localVars
  <2> QED
    BY <2>1, <2>2, <2>3, <2>4, <2>5, <2>6, <2>7 DEF Next, Request
<1>2. IInv /\ [Next]_vars => [Spares]_vars
  BY <1>1
<1> QED
  BY <1>2, Invariance, PTL DEF Spec, RemovesOnlyItself

-----------------------------------------------------------------------------
(* Daemon implements StreamLifecycle                                      *)

\* The refinement: Status is what the client of the socket sees of the map.
Status == [t \in Targets |-> StatusOf(t)]

\* A step that changes neither the map nor a state in it does not show.
LEMMA StatusFrame ==
  ASSUME TypeOK, \A t \in Targets : StatusOf(t)' = StatusOf(t)
  PROVE  Status' = Status
  BY DEF Status

\* removeStreamLocked is a Drop: the shared capture goes with the last stream.
LEMMA RemoveDrops ==
  ASSUME IInv, NEW t \in Targets, streams[t] # NoEntry, RemoveStreamLocked(t),
         \A e \in Entries : streams[t] # e => state'[e] = state[e]
  PROVE  Lifecycle!Drop(t)
<1>1. \A u \in Targets : streams'[u] = IF u = t THEN NoEntry ELSE streams[u]
  BY DEF IInv, TypeOK, RemoveStreamLocked
<1>2. \A u \in Targets : u # t /\ streams[u] # NoEntry => streams[u] # streams[t]
  BY DEF IInv, MapInv
<1>3. \A u \in Targets : StatusOf(u)' = IF u = t THEN "idle" ELSE StatusOf(u)
  BY <1>1, <1>2 DEF StatusOf, IInv, TypeOK
<1>4. Status' = [Status EXCEPT ![t] = "idle"]
  BY <1>3 DEF Status
<1>5. StatusOf(t) # "idle"
  BY DEF IInv, TypeOK, StatusOf, State
<1>6. NoStreams(streams') <=> Lifecycle!Idle(Status')
  <2>1. \A u \in Targets : streams'[u] = NoEntry <=> Status'[u] = "idle"
    BY <1>1, <1>2 DEF IInv, TypeOK, Status, StatusOf, State
  <2> QED
    BY <2>1 DEF NoStreams, Lifecycle!Idle
<1>7. (broadcast' # NoCapture) = (broadcast # NoCapture /\ ~Lifecycle!Idle(Status'))
  BY <1>6 DEF RemoveStreamLocked, MaybeStopBroadcastLocked, StopCapture
<1> QED
  BY <1>4, <1>5, <1>7 DEF Lifecycle!Drop, Status, RemoveStreamLocked

\* Removing a goroutine's own stream, if it is still there, drops it.
LEMMA OwnRemoval ==
  ASSUME IInv, NEW e \in Entries, pc[e] # "done", RemoveStream(e), Return(e)
  PROVE  Lifecycle!Drop(target[e]) \/ UNCHANGED Lifecycle!vars
<1>1. \A f \in Entries : f # e => state'[f] = state[f]
  BY DEF Return, IInv, TypeOK
<1>2. target[e] \in Targets
  BY DEF IInv, EntryInv
<1>3. CASE Current(e)
  BY <1>1, <1>2, <1>3, RemoveDrops, NullAssumption DEF Current, RemoveStream, IInv, TypeOK
<1>4. CASE ~Current(e)
  <2>1. \A t \in Targets : streams[t] # e
    BY <1>4, NullAssumption DEF Current, IInv, MapInv
  <2>2. streams' = streams /\ pendingTarget' = pendingTarget /\ broadcast' = broadcast
    BY <1>4 DEF RemoveStream
  <2>3. \A t \in Targets : StatusOf(t)' = StatusOf(t)
    BY <1>1, <2>1, <2>2 DEF StatusOf, IInv, TypeOK
  <2> QED
    BY <2>2, <2>3, StatusFrame DEF Lifecycle!vars, Status, IInv
<1> QED
  BY <1>3, <1>4

\* stopAllLocked is a DropAll.
LEMMA AllDropped ==
  ASSUME IInv, StopAllLocked
  PROVE  Lifecycle!DropAll
<1>1. \A t \in Targets : StatusOf(t)' = "idle"
  BY DEF StatusOf, StopAllLocked
<1> QED
  BY <1>1 DEF Lifecycle!DropAll, StopAllLocked, StopCapture

\* A change of one stream's state shows at its target, and nowhere else.
LEMMA StateShows ==
  ASSUME IInv, NEW e \in Entries, Current(e), streams' = streams, NEW s \in State,
         state' = [state EXCEPT ![e] = s]
  PROVE  /\ target[e] \in Targets /\ Status[target[e]] = state[e]
         /\ Status' = [Status EXCEPT ![target[e]] = s]
<1>1. target[e] \in Targets /\ streams[target[e]] = e
  BY DEF Current
<1>2. \A u \in Targets : u # target[e] => streams[u] # e
  BY NullAssumption DEF IInv, MapInv
<1>3. \A u \in Targets : StatusOf(u)' = IF u = target[e] THEN s ELSE StatusOf(u)
  BY <1>1, <1>2, NullAssumption DEF StatusOf, IInv, TypeOK
<1> QED
  BY <1>1, <1>3, NullAssumption DEF Status, StatusOf

\* Every step of a goroutine is a step of the life cycle of its stream, or none.
LEMMA StepRefines ==
  ASSUME IInv, NEW e \in Entries, Step(e)
  PROVE  Lifecycle!Next \/ UNCHANGED Lifecycle!vars
<1> USE DEF Lifecycle!vars
<1>1. CASE \/ DialOK(e) \/ InfoOK(e) \/ PairOK(e) \/ Reconnect(e) \/ TakePIN(e)
           \/ ReadBroadcast(e) \/ AddSink(e) \/ DiscardCapture(e) \/ LateAddSink(e)
  BY <1>1 DEF DialOK, InfoOK, PairOK, Reconnect, TakePIN, ReadBroadcast, AddSink,
              DiscardCapture, LateAddSink, daemonVars, entryVars, StatusOf
<1>2. CASE WaitForPIN(e)
  <2>1. CASE Current(e) /\ pendingTarget \in {NoTarget, target[e]}
    <3>1. pendingTarget = NoTarget /\ state[e] = "connecting"
      BY <1>2, <2>1 DEF WaitForPIN, At, IInv, TypeOK, EntryInv, MapInv, Current, State
    <3>2. Lifecycle!AskPIN(target[e])
      BY <1>2, <2>1, <3>1, StateShows DEF WaitForPIN, Lifecycle!AskPIN, Status, State
    <3> QED
      BY <2>1, <3>2 DEF Lifecycle!Next, Current
  <2>2. CASE ~(Current(e) /\ pendingTarget \in {NoTarget, target[e]})
    BY <1>2, <2>2 DEF WaitForPIN, StatusOf
  <2> QED
    BY <2>1, <2>2
<1>3. CASE CancelPINWait(e)
  BY <1>3 DEF CancelPINWait, entryVars, StatusOf, Lifecycle!Next, Lifecycle!LoseTurn
<1>4. CASE PublishBroadcast(e)
  BY <1>4 DEF PublishBroadcast, entryVars, StatusOf, Lifecycle!Next, Lifecycle!Cast, At,
              IInv, FeedInv, Own
<1>5. CASE SetupOK(e)
  <2>1. broadcast # NoCapture /\ state[e] = "connecting"
    BY <1>5 DEF SetupOK, At, IInv, TypeOK, EntryInv, FeedInv, Own, State
  <2>2. Lifecycle!Stream(target[e])
    BY <1>5, <2>1, StateShows DEF SetupOK, Lifecycle!Stream, daemonVars, Status, State
  <2> QED
    BY <1>5, <2>2 DEF SetupOK, Current, Lifecycle!Next
<1>6. CASE SetupStale(e)
  <2>1. \A t \in Targets : streams[t] # e
    BY <1>6, NullAssumption DEF SetupStale, Current, IInv, MapInv
  <2>2. \A t \in Targets : StatusOf(t)' = StatusOf(t)
    BY <1>6, <2>1 DEF SetupStale, Return, StatusOf, IInv, TypeOK
  <2>3. CASE ~NoStreams(streams)
    BY <1>6, <2>2, <2>3, StatusFrame
       DEF SetupStale, MaybeStopBroadcastLocked, IInv, Status
  <2>4. CASE NoStreams(streams)
    BY <1>6, <2>2, <2>4
       DEF SetupStale, MaybeStopBroadcastLocked, StopCapture, NoStreams, StatusOf,
           Lifecycle!Next, Lifecycle!Settle, Lifecycle!Idle
  <2> QED
    BY <2>3, <2>4
<1>7. CASE Cleanup(e)
  BY <1>7, OwnRemoval DEF Cleanup, At, Lifecycle!Next, IInv, EntryInv
<1> QED
  BY <1>1, <1>2, <1>3, <1>4, <1>5, <1>6, <1>7 DEF Step

\* The daemon implements the life cycle that its clients see.
THEOREM Refinement == Spec => ImplementsLifecycle
<1>1. Init => Lifecycle!Init
  BY DEF Init, Lifecycle!Init, StatusOf
<1>2. ASSUME IInv, [Next]_vars PROVE [Lifecycle!Next]_(Lifecycle!vars)
  <2> USE <1>2 DEF Lifecycle!vars
  <2>1. ASSUME NEW t \in Targets, NEW p \in BOOLEAN, HandleConnect(t, p)
        PROVE  Lifecycle!Connect(t)
    <3>1. PICK e \in Entries : /\ FreeEntry(e)
                               /\ streams' = [streams EXCEPT ![t] = e]
      BY <2>1 DEF HandleConnect
    <3>2. state[e] = "connecting"
      BY <3>1 DEF FreeEntry, IInv, EntryInv
    <3>3. streams[t] = NoEntry /\ UNCHANGED <<pendingTarget, broadcast, state>>
      BY <2>1 DEF HandleConnect
    <3>4. \A u \in Targets : StatusOf(u)' = IF u = t THEN "connecting" ELSE StatusOf(u)
      BY <3>1, <3>2, <3>3, NullAssumption DEF StatusOf, IInv, TypeOK
    <3> QED
      BY <3>3, <3>4 DEF Lifecycle!Connect, StatusOf
  <2>2. ASSUME NEW t \in Targets, SubmitPIN(t) PROVE Lifecycle!GivePIN(t)
    <3>1. PICK e \in Entries : /\ streams[t] = e /\ state[e] = "pin_required"
                               /\ state' = [state EXCEPT ![e] = "connecting"]
      BY <2>2 DEF SubmitPIN
    <3>2. Current(e) /\ target[e] = t
      BY <3>1, NullAssumption DEF IInv, MapInv, Current
    <3>3. pendingTarget = t /\ pendingTarget' = NoTarget /\ UNCHANGED <<streams, broadcast>>
      BY <2>2 DEF SubmitPIN
    <3> QED
      BY <3>1, <3>2, <3>3, StateShows DEF Lifecycle!GivePIN, Status, State
  <2>3. ASSUME NEW t \in Targets, HandleDisconnect(t) PROVE Lifecycle!Drop(t)
    BY <2>3, RemoveDrops DEF HandleDisconnect
  <2>4. DisconnectAll => Lifecycle!DropAll
    BY AllDropped DEF DisconnectAll
  <2>5. ASSUME NEW e \in Entries, GiveUp(e)
        PROVE  Lifecycle!Next \/ UNCHANGED Lifecycle!vars
    BY <2>5, OwnRemoval DEF GiveUp, At, Lifecycle!Next, IInv, EntryInv
  <2>6. ASSUME NEW e \in Entries, StartCapture(e) \/ StreamEnds(e)
        PROVE  UNCHANGED Lifecycle!vars
    BY <2>6 DEF StartCapture, StreamEnds, daemonVars, entryVars, StatusOf
  <2>7. ASSUME NEW c \in Captures, RunEnds(c) PROVE UNCHANGED Lifecycle!vars
    BY <2>7 DEF RunEnds, daemonVars, entryVars, StatusOf
  <2>8. ASSUME NEW c \in Captures, StopAllAfterRun(c) PROVE Lifecycle!DropAll
    BY <2>8, AllDropped DEF StopAllAfterRun
  <2>9. CASE UNCHANGED vars
    BY <2>9 DEF vars, daemonVars, entryVars, StatusOf
  <2> QED
    BY <2>1, <2>2, <2>3, <2>4, <2>5, <2>6, <2>7, <2>8, <2>9, StepRefines
       DEF Next, Request, Lifecycle!Next
<1> QED
  BY <1>1, <1>2, Invariance, PTL DEF Spec, ImplementsLifecycle, Lifecycle!Spec
=============================================================================
