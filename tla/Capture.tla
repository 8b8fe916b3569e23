------------------------------ MODULE Capture ------------------------------
(***************************************************************************)
(* The capture of the screen, internal/airplay/capture.go: the requests to *)
(* the desktop portal and the wait for their Response signals, the start   *)
(* of the GStreamer process, Read, Stop, and the goroutine that waits for  *)
(* the process.  An X11 capture is the same without the portal.            *)
(*                                                                         *)
(* A request is its number: 1 CreateSession, 2 SelectSources, 3 Start.     *)
(* What the responses say is left out, but for whether they can be used.   *)
(* A D-Bus call is blocked until its reply: it has neither a context nor a *)
(* time-out.  What is answered by a Response, later, has the context.      *)
(***************************************************************************)
EXTENDS Integers

CONSTANT Callers   \* those that may call Stop: a deferred call, a signal handler

ASSUME CallersAssumption == Callers # {}

VARIABLES
  live,       \* the context of StartCapture
  pc, req,    \* where StartCapture is, and the request it is at
  bus,        \* the D-Bus connection: "none", "open" or "closed"
  watching,   \* whether the connection delivers signals to the channel
  asked,      \* the request that the portal has to answer, or 0
  response,   \* the response in the channel: its request, whether it is good; or None
  pwFd,       \* the descriptor of the PipeWire remote, in this process
  proc,       \* the process: "none", "running", "exited", "waited"
  stdout,     \* its output: "none", "open" or "closed"
  reader,     \* the goroutine that reads: "idle", "reading" or "ended"
  stopped, cancelled,  \* ScreenCapture.stopped; the context of the process
  stop        \* where each call of Stop is

portalVars == <<watching, asked, response>>
procVars   == <<proc, stdout>>
stopVars   == <<stopped, cancelled, stop>>
vars == <<live, pc, req, bus, portalVars, pwFd, procVars, reader, stopVars>>

None == [req |-> 0, good |-> FALSE]

Init ==
  /\ live = TRUE /\ pc = "begin" /\ req = 0
  /\ bus = "none" /\ watching = FALSE /\ asked = 0 /\ response = None
  /\ pwFd = "none" /\ proc = "none" /\ stdout = "none" /\ reader = "idle"
  /\ stopped = FALSE /\ cancelled = FALSE /\ stop = [c \in Callers |-> "none"]

-----------------------------------------------------------------------------
(* requestScreencast                                                       *)

Closed(r) == IF r = "open" THEN "closed" ELSE r

\* The context is cancelled: by a signal, or when the last stream is removed.
Cancel ==
  /\ live /\ live' = FALSE
  /\ UNCHANGED <<pc, req, bus, portalVars, pwFd, procVars, reader, stopVars>>

StartWaylandCapture ==
  /\ pc = "begin" /\ pc' = "connect"
  /\ UNCHANGED <<live, req, bus, portalVars, pwFd, procVars, reader, stopVars>>

\* Without the portal.
StartX11Capture ==
  /\ pc = "begin" /\ pc' = "spawn"
  /\ UNCHANGED <<live, req, bus, portalVars, pwFd, procVars, reader, stopVars>>

\* A plugin or an encoder is missing.
StartFails ==
  /\ pc = "begin" /\ pc' = "failed"
  /\ UNCHANGED <<live, req, bus, portalVars, pwFd, procVars, reader, stopVars>>

\* The session bus lets it in; without a version the portal counts as an old one.
Connect ==
  /\ pc = "connect" /\ pc' = "call" /\ req' = 1 /\ bus' = "open"
  /\ UNCHANGED <<live, portalVars, pwFd, procVars, reader, stopVars>>

\* A step of requestScreencast fails: a call, a malformed response.
RequestFails ==
  /\ pc \in {"connect", "call", "watch", "remote"}
  /\ pc' = "failed" /\ bus' = Closed(bus) /\ watching' = FALSE
  /\ UNCHANGED <<live, req, asked, response, pwFd, procVars, reader, stopVars>>

\* The portal returns the handle of the request.
Call ==
  /\ pc = "call" /\ pc' = "watch" /\ asked' = req
  /\ UNCHANGED <<live, req, bus, watching, response, pwFd, procVars, reader, stopVars>>

\* Only then are signals asked for.
Watch ==
  /\ pc = "watch" /\ pc' = "await" /\ watching' = TRUE
  /\ UNCHANGED <<live, req, bus, asked, response, pwFd, procVars, reader, stopVars>>

\* The portal, or the user, answers; nobody gets it when no signals are asked for.
Respond ==
  /\ asked # 0 /\ asked' = 0
  /\ IF watching THEN \E good \in BOOLEAN : response' = [req |-> asked, good |-> good]
     ELSE UNCHANGED response
  /\ UNCHANGED <<live, pc, req, bus, watching, pwFd, procVars, reader, stopVars>>

\* The response of another request is passed over.  Behind one that can be used,
\* RemoveMatch is one more call to wait for before the next; otherwise the last.
Receive ==
  /\ pc = "await" /\ response # None /\ response' = None
  /\ IF response.req # req THEN UNCHANGED <<pc, req, watching>>
     ELSE /\ watching' = FALSE
          /\ CASE ~response.good -> pc' = "unmatch" /\ UNCHANGED req
               [] response.good /\ req < 3 -> pc' = "call" /\ req' = req + 1
               [] OTHER -> pc' = "remote" /\ UNCHANGED req
  /\ UNCHANGED <<live, bus, asked, pwFd, procVars, reader, stopVars>>

AwaitCancelled ==
  /\ pc = "await" /\ ~live
  /\ pc' = "unmatch" /\ watching' = FALSE /\ response' = None
  /\ UNCHANGED <<live, req, bus, asked, pwFd, procVars, reader, stopVars>>

\* The deferred RemoveMatch has returned; the connection is closed.
GiveUp ==
  /\ pc = "unmatch" /\ pc' = "failed" /\ bus' = "closed"
  /\ UNCHANGED <<live, req, portalVars, pwFd, procVars, reader, stopVars>>

\* OpenPipeWireRemote; the restore token is saved, or a warning is logged.
OpenRemote ==
  /\ pc = "remote" /\ pc' = "spawn" /\ pwFd' = "open"
  /\ UNCHANGED <<live, req, bus, portalVars, procVars, reader, stopVars>>

-----------------------------------------------------------------------------
(* The process                                                             *)

\* The child has the descriptor.  cmd.Start does nothing on a cancelled context.
Spawn ==
  /\ pc = "spawn" /\ live
  /\ pc' = "running" /\ proc' = "running" /\ stdout' = "open" /\ pwFd' = Closed(pwFd)
  /\ UNCHANGED <<live, req, bus, portalVars, reader, stopVars>>

\* Faulty: only the descriptor is closed.
SpawnFailsOpen ==
  /\ pc = "spawn" /\ pc' = "failed"
  /\ pwFd' = Closed(pwFd)
  /\ UNCHANGED <<live, req, bus, portalVars, procVars, reader, stopVars>>

SpawnFails ==
  /\ pc = "spawn" /\ pc' = "failed"
  /\ pwFd' = Closed(pwFd) /\ bus' = Closed(bus)
  /\ UNCHANGED <<live, req, portalVars, procVars, reader, stopVars>>

\* It ends by itself, when sharing is stopped at the desktop for instance.
Exits ==
  /\ proc = "running" /\ proc' = "exited"
  /\ UNCHANGED <<live, pc, req, bus, portalVars, pwFd, stdout, reader, stopVars>>

\* os/exec kills it when its context is done, and Stop after two seconds.
Kill ==
  /\ proc = "running"
  /\ ~live \/ cancelled \/ \E c \in Callers : stop[c] = "waiting"
  /\ proc' = "exited"
  /\ UNCHANGED <<live, pc, req, bus, portalVars, pwFd, stdout, reader, stopVars>>

\* Faulty: the goroutine waits until all is read, as os/exec asks for.
WaitAfterReads ==
  /\ proc = "exited" /\ reader = "ended"
  /\ proc' = "waited" /\ stdout' = "closed"
  /\ UNCHANGED <<live, pc, req, bus, portalVars, pwFd, reader, stopVars>>

\* cmd.Wait, which closes the pipe as well, and the close of waitCh.
Wait ==
  /\ proc = "exited"
  /\ proc' = "waited" /\ stdout' = "closed"
  /\ UNCHANGED <<live, pc, req, bus, portalVars, pwFd, reader, stopVars>>

\* Read looks at waitCh before it reads.
Read ==
  /\ pc = "running" /\ reader = "idle"
  /\ reader' = IF proc = "waited" THEN "ended" ELSE "reading"
  /\ UNCHANGED <<live, pc, req, bus, portalVars, pwFd, procVars, stopVars>>

\* Data, also what a process has written before it exited.
ReadData ==
  /\ reader = "reading" /\ stdout = "open"
  /\ reader' = "idle"
  /\ UNCHANGED <<live, pc, req, bus, portalVars, pwFd, procVars, stopVars>>

\* The end of the output, or the error of a closed pipe.
ReadEnds ==
  /\ reader = "reading" /\ (proc # "running" \/ stdout = "closed")
  /\ reader' = "ended"
  /\ UNCHANGED <<live, pc, req, bus, portalVars, pwFd, procVars, stopVars>>

-----------------------------------------------------------------------------
(* Stop                                                                    *)

\* No lock: two callers may both find stopped unset.
StopChecks(c) ==
  /\ pc = "running" /\ stop[c] = "none"
  /\ stop' = [stop EXCEPT ![c] = IF stopped THEN "returned" ELSE "stopping"]
  /\ UNCHANGED <<live, pc, req, bus, portalVars, pwFd, procVars, reader, stopped, cancelled>>

StopCloses(c) ==
  /\ stop[c] = "stopping" /\ stop' = [stop EXCEPT ![c] = "waiting"]
  /\ stopped' = TRUE /\ cancelled' = TRUE
  /\ stdout' = "closed" /\ bus' = Closed(bus)
  /\ UNCHANGED <<live, pc, req, portalVars, pwFd, proc, reader>>

StopWaits(c) ==
  /\ stop[c] = "waiting" /\ proc = "waited"
  /\ stop' = [stop EXCEPT ![c] = "done"]
  /\ UNCHANGED <<live, pc, req, bus, portalVars, pwFd, procVars, reader, stopped, cancelled>>

Stop == \E c \in Callers : StopCloses(c) \/ StopWaits(c)

\* What the program does by itself, and what waits for a reply on the bus.
Starting ==
  \/ StartWaylandCapture \/ StartX11Capture \/ StartFails
  \/ Receive \/ AwaitCancelled \/ Spawn \/ SpawnFails

CallReturns == Connect \/ Call \/ Watch \/ OpenRemote \/ GiveUp \/ RequestFails

Next ==
  \/ Starting \/ CallReturns \/ Cancel \/ Respond \/ Exits \/ Kill \/ Wait
  \/ Read \/ ReadData \/ ReadEnds
  \/ Stop \/ \E c \in Callers : StopChecks(c)

Spec == Init /\ [][Next]_vars

\* The goroutines run and a killed process dies.  Neither the user nor the portal
\* need ever answer, and a call on the bus may never return.
FairSpec ==
  /\ Spec /\ WF_vars(Starting) /\ WF_vars(Kill) /\ WF_vars(Wait)
  /\ WF_vars(ReadEnds) /\ WF_vars(Stop)

-----------------------------------------------------------------------------
Resource == {"none", "open", "closed"}

TypeOK ==
  /\ live \in BOOLEAN /\ req \in 0..3
  /\ pc \in {"begin", "connect", "call", "watch", "await", "unmatch", "remote", "spawn", "running",
           "failed"}
  /\ bus \in Resource /\ pwFd \in Resource /\ stdout \in Resource
  /\ watching \in BOOLEAN /\ asked \in 0..3 /\ response \in [req : 0..3, good : BOOLEAN]
  /\ proc \in {"none", "running", "exited", "waited"}
  /\ reader \in {"idle", "reading", "ended"}
  /\ stopped \in BOOLEAN /\ cancelled \in BOOLEAN
  /\ stop \in [Callers -> {"none", "stopping", "waiting", "done", "returned"}]

\* When the start has failed, wherever, and when Stop has run to its end, the
\* connection to the portal, with it the screencast session, and the descriptor
\* are closed, and there is no process.
NothingLeft ==
  pc = "failed" \/ (\E c \in Callers : stop[c] = "done") =>
    /\ bus # "open" /\ pwFd # "open" /\ stdout # "open"
    /\ proc \in {"none", "waited"}

\* While the process runs the connection to the portal stays open until Stop, and
\* the descriptor is the child's alone.
SessionKept ==
  pc = "running" => pwFd # "open" /\ (bus = "closed" => stopped)

\* What exists at each step of the start, of the process and of Stop: the
\* strengthening with which the two above are inductive.
Held ==
  /\ pc # "running" => proc = "none" /\ stdout = "none" /\ ~stopped
                       /\ \A c \in Callers : stop[c] = "none"
  /\ pc \in {"begin", "connect"} => bus = "none"
  /\ pc = "running" => proc # "none"
  /\ pwFd = "open" => pc = "spawn"
  /\ proc = "waited" => stdout = "closed"
  /\ stopped => bus # "open" /\ stdout = "closed"
  /\ \A c \in Callers : stop[c] \in {"waiting", "done"} => stopped
  /\ \A c \in Callers : stop[c] = "done" => proc = "waited"
  /\ bus = "closed" => pc = "failed" \/ stopped

IInv == TypeOK /\ NothingLeft /\ SessionKept /\ Held

\* A start whose context is cancelled leaves the wait for the user's answer, and
\* comes to its end if its calls on the bus return; nothing else that is outside
\* has to happen for it.  Stop returns, whether or not the process obeys and
\* anybody reads; and a goroutine that reads then gets the end of the capture.
Ends ==
  /\ (pc = "await" /\ ~live) ~> pc # "await"
  /\ WF_vars(CallReturns) => (~live ~> pc \in {"running", "failed"})
  /\ \A c \in Callers : stop[c] = "stopping" ~> stop[c] = "done"
  /\ (stopped /\ reader = "reading") ~> reader = "ended"
=============================================================================
