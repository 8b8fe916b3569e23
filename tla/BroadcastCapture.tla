-------------------------- MODULE BroadcastCapture --------------------------
(***************************************************************************)
(* The fan-out of one screen capture to its streams,                       *)
(* internal/airplay/capture_broadcast.go: the goroutine Run, the sinks     *)
(* with their pipes, and the streams that own and read them.               *)
(*                                                                         *)
(* The capture is cut into numbered pieces; a read gives Run a chunk of    *)
(* them.  A pipe has no buffer: a write lasts until its reader has taken   *)
(* the whole chunk, in reads of any size, or the pipe is closed.  The order*)
(* in which Run serves its sinks is left open.                             *)
(*                                                                         *)
(* The names that begin with Fan keep those of VideoFraming apart, which   *)
(* VideoPath_proofs extends too.                                           *)
(***************************************************************************)
EXTENDS Naturals

CONSTANTS Sinks, NoSink,
          ChunkMax,   \* the most pieces one read gives
          PieceMax    \* bounds the capture, for TLC

ASSUME SinkAssumption == NoSink \notin Sinks
ASSUME ChunkAssumption == ChunkMax \in Nat /\ PieceMax \in Nat

VARIABLES
  \* Run: where it stands, the sinks of its snapshot it has yet to serve, the
  \* one it serves; the pieces handed out before this chunk, those of the chunk,
  \* and how many of them went to cur.
  pc, todo, cur, base, len, off,
  sinks,      \* bc.sinks
  closed,     \* BroadcastSink.closed
  pipe,       \* the halves of each pipe that were closed
  \* A sink's owner: whether it sets its session up, reads, or has stopped
  \* reading; the pieces it read, and the error that ended its reading.
  owner, got, readErr

runVars   == <<pc, todo, cur, base, len, off>>
sinkVars  == <<sinks, closed, pipe>>
ownerVars == <<owner, got, readErr>>
fanVars == <<runVars, sinkVars, ownerVars>>

FanInit ==
  /\ pc = "new" /\ todo = {} /\ cur = NoSink
  /\ base = 0 /\ len = 0 /\ off = 0
  /\ sinks = {}
  /\ closed = [s \in Sinks |-> FALSE]
  /\ pipe = [s \in Sinks |-> {}]
  /\ owner = [s \in Sinks |-> "none"]
  /\ got = [s \in Sinks |-> {}]
  /\ readErr = [s \in Sinks |-> "nil"]

-----------------------------------------------------------------------------
\* io.Pipe: what a read gives once either half is closed.
PipeReadError(s) == IF "reader" \in pipe[s] THEN "ErrClosedPipe" ELSE "EOF"

\* Faulty: who is blocked in the pipe is not woken.
CloseFlagOnly(s) ==
  /\ closed' = [closed EXCEPT ![s] = TRUE]
  /\ pipe' = pipe

\* BroadcastSink.close, under its own mutex.
CloseSink(s) ==
  /\ closed' = [closed EXCEPT ![s] = TRUE]
  /\ pipe' = IF closed[s] THEN pipe ELSE [pipe EXCEPT ![s] = {"reader", "writer"}]

-----------------------------------------------------------------------------
\* The streams.

\* AddSink, before Run or at any time while it runs.
AddSink(s) ==
  /\ owner[s] = "none"
  /\ sinks' = sinks \cup {s}
  /\ owner' = [owner EXCEPT ![s] = "setup"]
  /\ UNCHANGED <<runVars, closed, pipe, got, readErr>>

\* The session is set up, and StreamFrames starts to read.
StartReading(s) ==
  /\ owner[s] = "setup"
  /\ owner' = [owner EXCEPT ![s] = "reading"]
  /\ UNCHANGED <<runVars, sinkVars, got, readErr>>

\* A read of any size takes a part of the chunk that is being written.
Read(s) ==
  /\ owner[s] = "reading" /\ pipe[s] = {}
  /\ pc = "write" /\ cur = s
  /\ \E k \in 1 .. (len - off) :
       /\ off' = off + k
       /\ got' = [got EXCEPT ![s] = @ \cup (base + off + 1) .. (base + off + k)]
  /\ UNCHANGED <<pc, todo, cur, base, len, sinkVars, owner, readErr>>

ReadFails(s) ==
  /\ owner[s] = "reading" /\ pipe[s] # {}
  /\ readErr' = [readErr EXCEPT ![s] = PipeReadError(s)]
  /\ owner' = [owner EXCEPT ![s] = "left"]
  /\ UNCHANGED <<runVars, sinkVars, got>>

\* The owner stops reading for a reason of its own: a failed set-up or send, a
\* cancelled context.
Leave(s) ==
  /\ owner[s] \in {"setup", "reading"}
  /\ owner' = [owner EXCEPT ![s] = "left"]
  /\ UNCHANGED <<runVars, sinkVars, got, readErr>>

\* Close, by the owner when it is done or by who disconnects it.
Close(s) ==
  /\ owner[s] # "none" /\ ~closed[s]
  /\ CloseSink(s)
  /\ UNCHANGED <<runVars, sinks, ownerVars>>

-----------------------------------------------------------------------------
\* Run.

Start ==
  /\ pc = "new"
  /\ pc' = "read"
  /\ UNCHANGED <<todo, cur, base, len, off, sinkVars, ownerVars>>

\* A read of the capture, and the snapshot of the sinks.  Without sinks Run goes
\* on reading.
Pump ==
  /\ pc = "read"
  /\ \E n \in 1 .. ChunkMax :
       /\ base + n <= PieceMax
       /\ IF sinks = {} THEN base' = base + n /\ UNCHANGED <<len, pc>>
                        ELSE len' = n /\ pc' = "write" /\ UNCHANGED base
  /\ todo' = sinks
  /\ UNCHANGED <<cur, off, sinkVars, ownerVars>>

\* The capture ended or failed: the closing function takes its snapshot.
SourceEnds ==
  /\ pc = "read"
  /\ todo' = sinks
  /\ pc' = "close"
  /\ UNCHANGED <<cur, base, len, off, sinkVars, ownerVars>>

NextSink ==
  /\ pc = "write" /\ cur = NoSink
  /\ \E s \in todo : cur' = s /\ todo' = todo \ {s}
  /\ UNCHANGED <<pc, base, len, off, sinkVars, ownerVars>>

\* Faulty: a write returns when the first read took a part.
WriteShort ==
  /\ pc = "write" /\ cur # NoSink
  /\ off > 0
  /\ cur' = NoSink /\ off' = 0
  /\ UNCHANGED <<pc, todo, base, len, sinkVars, ownerVars>>

WriteDone ==
  /\ pc = "write" /\ cur # NoSink
  /\ off = len
  /\ cur' = NoSink /\ off' = 0
  /\ UNCHANGED <<pc, todo, base, len, sinkVars, ownerVars>>

\* Faulty: the removal shifts the list that is being walked, and a sink is
\* passed over.
WriteFailsShifts(s) ==
  /\ pc = "write" /\ cur = s
  /\ pipe[s] # {}
  /\ CloseSink(s)
  /\ sinks' = sinks \ {s}
  /\ cur' = NoSink /\ off' = 0
  /\ \E rest \in {todo} \cup {todo \ {r} : r \in todo} : todo' = rest
  /\ UNCHANGED <<pc, base, len, ownerVars>>

\* The pipe is closed, at the check before the write or during it: RemoveSink.
WriteFails(s) ==
  /\ pc = "write" /\ cur = s
  /\ pipe[s] # {}
  /\ CloseSink(s)
  /\ sinks' = sinks \ {s}
  /\ cur' = NoSink /\ off' = 0
  /\ UNCHANGED <<pc, todo, base, len, ownerVars>>

Served ==
  /\ pc = "write" /\ cur = NoSink /\ todo = {}
  /\ pc' = "read"
  /\ base' = base + len /\ len' = 0
  /\ UNCHANGED <<todo, cur, off, sinkVars, ownerVars>>

\* Faulty: who reads is not told of the end.
CloseOneSkipped ==
  /\ pc = "close"
  /\ \E s \in todo : todo' = todo \ {s}
  /\ UNCHANGED <<pc, cur, base, len, off, sinkVars, ownerVars>>

CloseOne ==
  /\ pc = "close"
  /\ \E s \in todo : CloseSink(s) /\ todo' = todo \ {s}
  /\ UNCHANGED <<pc, cur, base, len, off, sinks, ownerVars>>

\* close(bc.done)
Done ==
  /\ pc = "close" /\ todo = {}
  /\ pc' = "done"
  /\ UNCHANGED <<todo, cur, base, len, off, sinkVars, ownerVars>>

-----------------------------------------------------------------------------
\* What Run does without waiting for its capture.
RunStep == \/ NextSink \/ WriteDone \/ Served \/ CloseOne \/ Done
           \/ \E s \in Sinks : WriteFails(s)

FanNext == \/ Start \/ Pump \/ SourceEnds \/ RunStep
        \/ \E s \in Sinks : \/ AddSink(s) \/ StartReading(s) \/ Read(s) \/ ReadFails(s)
                            \/ Leave(s) \/ Close(s)

FanSpec == FanInit /\ [][FanNext]_fanVars

\* Run goes on.  A set-up ends, since its exchanges have deadlines; a reader
\* reads again when it has sent what it read, or stops; and whoever stops
\* closes its sink.
FanFairSpec ==
  /\ FanSpec
  /\ WF_fanVars(RunStep)
  /\ \A s \in Sinks : /\ WF_fanVars(StartReading(s) \/ Read(s) \/ ReadFails(s))
                      /\ WF_fanVars(owner[s] = "left" /\ Close(s))

-----------------------------------------------------------------------------
FanTypeOK ==
  /\ pc \in {"new", "read", "write", "close", "done"}
  /\ todo \subseteq Sinks
  /\ cur \in Sinks \cup {NoSink}
  /\ base \in Nat /\ len \in Nat /\ off \in Nat
  /\ sinks \subseteq Sinks
  /\ closed \in [Sinks -> BOOLEAN]
  /\ pipe \in [Sinks -> SUBSET {"reader", "writer"}]
  /\ owner \in [Sinks -> {"none", "setup", "reading", "left"}]
  /\ got \in [Sinks -> SUBSET Nat]
  /\ readErr \in [Sinks -> {"nil", "EOF", "ErrClosedPipe"}]

\* Whatever sinks come, go or fail while a chunk is handed out, each stream gets
\* a part of the capture without a gap: the decoder behind it never misses a
\* piece that it cannot know of.
Gapless == \A s \in Sinks : \A x, y \in got[s] : x .. y \subseteq got[s]

\* Between two reads of the capture, every open sink that has got anything has
\* got everything: no stream lags behind another by more than a chunk.
InStep ==
  pc = "read" =>
    \A s \in sinks : pipe[s] = {} /\ got[s] # {} => base \in got[s]

\* A sink stays registered until its stream has closed it, so that the end of
\* the capture can reach it.
OpenStaysRegistered ==
  \A s \in Sinks : owner[s] # "none" /\ ~closed[s] => s \in sinks

\* No piece is handed to a stream twice, although buffer and chunk are reused.
NothingTwice ==
  [][\A s \in Sinks : s = cur /\ off' > off
       => (base + off + 1) .. (base + off') \cap got[s] = {}]_fanVars

\* No stream holds the others up for good: one that leaves, or whose receiver is
\* being disconnected, lets go of the chunk it was being given.
WritesEnd == pc = "write" ~> pc = "read"

\* Who has read from the capture learns of its end.
ReadersLearnOfEnd ==
  \A s \in Sinks : got[s] # {} /\ pc = "close" ~> owner[s] = "left"

-----------------------------------------------------------------------------
\* The inductive invariant.

\* Up to which piece an open sink that has got anything has got everything.
Reached(s) == IF pc = "write" /\ s = cur THEN base + off
              ELSE IF pc = "write" /\ s \in todo THEN base
              ELSE base + len

SinkInv(s) ==
  /\ \A x \in got[s] : x <= base + len
  /\ pipe[s] = {} => \A x \in got[s] : x <= Reached(s) /\ x .. Reached(s) \subseteq got[s]
  /\ pipe[s] = {} <=> ~closed[s]
  /\ owner[s] # "none" /\ ~closed[s] => s \in sinks
  /\ owner[s] = "none" => got[s] = {} /\ s \notin sinks /\ ~closed[s] /\ s \notin todo

RunInv ==
  /\ cur # NoSink => pc = "write" /\ cur \notin todo /\ owner[cur] # "none"
  /\ cur # NoSink => off <= len
  /\ cur = NoSink => off = 0
  /\ pc \in {"new", "read", "done"} => todo = {}
  /\ pc # "write" => len = 0

FanInv == FanTypeOK /\ Gapless /\ RunInv /\ \A s \in Sinks : SinkInv(s)
=============================================================================
