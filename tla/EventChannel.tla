---------------------------- MODULE EventChannel ----------------------------
(***************************************************************************)
(* The event channel of a session, internal/airplay/event_channel.go: the  *)
(* connection on which the receiver sends requests of its own, which the   *)
(* sender reads and acknowledges in turn (serveEventChannel), while        *)
(* another goroutine waits to close it with the session's context.         *)
(*                                                                         *)
(* The plaintext of a request is its request line, its headers, which know *)
(* how many units of body follow, and that body.  The receiver cuts its    *)
(* plaintext into frames wherever it likes: a frame may begin in the       *)
(* headers of one request and end in another.  A frame is sealed with a    *)
(* key and numbered by a counter; on an unencrypted channel it is what one *)
(* read returns.  An acknowledgement is short enough for one frame.  The   *)
(* receiver is external.                                                   *)
(***************************************************************************)
EXTENDS Naturals, Sequences

CONSTANTS MaxRequests,   \* bounds the receiver's requests, for TLC
          MaxBody,       \* the units of a request's body at most
          FrameSize      \* the units of a frame at most

ASSUME BoundAssumption == MaxRequests \in Nat /\ MaxBody \in Nat /\ FrameSize \in Nat \ {0}

VARIABLES
  \* The receiver: the requests made, what is not framed yet, its counters, the
  \* acknowledgements read, whether it keeps to the protocol and the connection.
  sent, outbox, rxWriteNonce, rxReadNonce, answered, sane, rxOpen,
  \* The two directions of the connection, and whether our end is open.
  toClient, toReceiver, open,
  \* eventChannel: readNonce and writeNonce; the plaintext that was read and not
  \* parsed, in readBuf or in the bufio.Reader.
  readNonce, writeNonce, readBuf,
  \* serveEventChannel: where it stands, the CSeq of its request, and the body
  \* still to be skipped; whether the goroutine beside it waits; its context.
  pc, cseq, left, watching, live

rxVars     == <<sent, outbox, rxWriteNonce, rxReadNonce, answered, sane, rxOpen>>
wireVars   == <<toClient, toReceiver>>
nonceVars  == <<readNonce, writeNonce>>
serverVars == <<pc, cseq, left>>
vars == <<rxVars, wireVars, open, nonceVars, readBuf, serverVars, watching, live>>

Keys == {"Events-Read", "Events-Write"}
Units == [kind : {"line", "head", "body", "bad"}, cseq : 1..MaxRequests, bodies : 0..MaxBody]
Unit(k, n, b) == [kind |-> k, cseq |-> n, bodies |-> b]

\* Request n with b units of body.  The headers and each unit of body know how much
\* of the body follows: of the headers that is the Content-Length, of a body only
\* the properties look.
HeadAndBody(n, b) == [i \in 1..(b + 1) |-> Unit(IF i = 1 THEN "head" ELSE "body", n, b + 1 - i)]
RequestUnits(n, b) == <<Unit("line", n, 0)>> \o HeadAndBody(n, b)

\* newEventChannel: the receiver's requests are sealed with the Events-Write key.
ClientKeys == [read |-> "Events-Write", write |-> "Events-Read"]

Init ==
  /\ sent = 0 /\ outbox = <<>> /\ rxWriteNonce = 0 /\ rxReadNonce = 0
  /\ answered = <<>> /\ sane = TRUE /\ rxOpen = TRUE
  /\ toClient = <<>> /\ toReceiver = <<>> /\ open = TRUE
  /\ readNonce = 0 /\ writeNonce = 0 /\ readBuf = <<>>
  /\ pc = "line" /\ cseq = 0 /\ left = 0 /\ watching = TRUE /\ live = TRUE

-----------------------------------------------------------------------------
(* The receiver (external)                                                 *)

Request ==
  /\ rxOpen /\ sane /\ sent < MaxRequests
  /\ sent' = sent + 1
  /\ \E b \in 0..MaxBody : outbox' = outbox \o RequestUnits(sent + 1, b)
  /\ UNCHANGED <<rxWriteNonce, rxReadNonce, answered, sane, rxOpen, wireVars, open,
                 nonceVars, readBuf, serverVars, watching, live>>

\* What is no request, or one without a CSeq.
Garble ==
  /\ rxOpen /\ sane /\ sent < MaxRequests
  /\ sent' = sent + 1 /\ sane' = FALSE
  /\ \E line \in {<<>>, <<Unit("line", sent + 1, 0)>>} :
       outbox' = outbox \o Append(line, Unit("bad", sent + 1, 0))
  /\ UNCHANGED <<rxWriteNonce, rxReadNonce, answered, rxOpen, wireVars, open,
                 nonceVars, readBuf, serverVars, watching, live>>

Frame ==
  /\ rxOpen
  /\ \E n \in 1..FrameSize :
       /\ n <= Len(outbox)
       /\ toClient' = Append(toClient, [key |-> "Events-Write", nonce |-> rxWriteNonce,
                                        units |-> SubSeq(outbox, 1, n)])
       /\ outbox' = SubSeq(outbox, n + 1, Len(outbox))
  /\ rxWriteNonce' = rxWriteNonce + 1
  /\ UNCHANGED <<sent, rxReadNonce, answered, sane, rxOpen, toReceiver, open,
                 nonceVars, readBuf, serverVars, watching, live>>

\* A frame that does not open is lost on the receiver, and the rest with it.
Acknowledged ==
  /\ rxOpen /\ toReceiver # <<>>
  /\ Head(toReceiver).key = "Events-Read" /\ Head(toReceiver).nonce = rxReadNonce
  /\ rxReadNonce' = rxReadNonce + 1
  /\ answered' = Append(answered, Head(toReceiver).cseq)
  /\ toReceiver' = Tail(toReceiver)
  /\ UNCHANGED <<sent, outbox, rxWriteNonce, sane, rxOpen, toClient, open,
                 nonceVars, readBuf, serverVars, watching, live>>

HangUp ==
  /\ rxOpen
  /\ rxOpen' = FALSE
  /\ UNCHANGED <<sent, outbox, rxWriteNonce, rxReadNonce, answered, sane, wireVars, open,
                 nonceVars, readBuf, serverVars, watching, live>>

-----------------------------------------------------------------------------
(* serveEventChannel                                                       *)

Reading == pc \in {"line", "header", "body"} /\ readBuf = <<>>

\* The server returns; after an error, of the protocol say, its connection is
\* closed, otherwise (and once the context is cancelled) the session does that.
Return(failed) ==
  /\ pc' = "done" /\ cseq' = 0 /\ left' = 0 /\ readBuf' = <<>>
  /\ open' = (open /\ ~(failed /\ live))

\* Faulty: the counter of a frame goes with its bytes, not with the frame.
ReadPerUnit ==
  /\ Reading /\ open /\ toClient # <<>>
  /\ toClient' = Tail(toClient)
  /\ IF Head(toClient).key = ClientKeys.read /\ Head(toClient).nonce = readNonce
     THEN /\ readBuf' = Head(toClient).units
          /\ readNonce' = readNonce + Len(Head(toClient).units)
          /\ UNCHANGED <<serverVars, open>>
     ELSE Return(TRUE) /\ UNCHANGED readNonce
  /\ UNCHANGED <<rxVars, toReceiver, writeNonce, watching, live>>

\* eventChannel.Read when nothing is left of the frame before.
Read ==
  /\ Reading /\ open /\ toClient # <<>>
  /\ toClient' = Tail(toClient)
  /\ IF Head(toClient).key = ClientKeys.read /\ Head(toClient).nonce = readNonce
     THEN /\ readBuf' = Head(toClient).units
          /\ readNonce' = readNonce + 1
          /\ UNCHANGED <<serverVars, open>>
     ELSE Return(TRUE) /\ UNCHANGED readNonce
  /\ UNCHANGED <<rxVars, toReceiver, writeNonce, watching, live>>

\* EOF, in the middle of a frame perhaps, or our end is closed.
ReadEnds ==
  /\ Reading
  /\ \/ ~open /\ Return(FALSE)
     \/ ~rxOpen /\ toClient = <<>> /\ (Return(FALSE) \/ Return(TRUE))
  /\ UNCHANGED <<rxVars, wireVars, nonceVars, watching, live>>

\* readEventRequest: the request line.
ReadLine ==
  /\ pc = "line" /\ readBuf # <<>>
  /\ IF Head(readBuf).kind = "line"
     THEN pc' = "header" /\ readBuf' = Tail(readBuf) /\ UNCHANGED <<cseq, left, open>>
     ELSE Return(TRUE)
  /\ UNCHANGED <<rxVars, wireVars, nonceVars, watching, live>>

\* The headers, one of which is the CSeq.
ReadHeaders ==
  /\ pc = "header" /\ readBuf # <<>>
  /\ IF Head(readBuf).kind = "head"
     THEN /\ cseq' = Head(readBuf).cseq /\ left' = Head(readBuf).bodies
          /\ pc' = IF left' = 0 THEN "answer" ELSE "body"
          /\ readBuf' = Tail(readBuf)
          /\ UNCHANGED open
     ELSE Return(TRUE)
  /\ UNCHANGED <<rxVars, wireVars, nonceVars, watching, live>>

\* readEventRequest discards the body, as much of it as has been read.
SkipBody ==
  /\ pc = "body" /\ readBuf # <<>>
  /\ left' = left - 1
  /\ pc' = IF left' = 0 THEN "answer" ELSE "body"
  /\ readBuf' = Tail(readBuf)
  /\ UNCHANGED <<cseq, rxVars, wireVars, nonceVars, open, watching, live>>

\* Faulty: every request gets a bufio.Reader of its own.
RespondForgetful ==
  /\ pc = "answer"
  /\ \/ /\ open
        /\ toReceiver' = Append(toReceiver, [key |-> ClientKeys.write, nonce |-> writeNonce,
                                             cseq |-> cseq])
        /\ writeNonce' = writeNonce + 1
        /\ pc' = "line" /\ cseq' = 0 /\ readBuf' = <<>>
        /\ UNCHANGED <<left, open>>
     \/ (~open \/ ~rxOpen) /\ Return(TRUE) /\ UNCHANGED <<toReceiver, writeNonce>>
  /\ UNCHANGED <<rxVars, toClient, readNonce, watching, live>>

\* Write of the acknowledgement; it may fail when the receiver has hung up.
Respond ==
  /\ pc = "answer"
  /\ \/ /\ open
        /\ toReceiver' = Append(toReceiver, [key |-> ClientKeys.write, nonce |-> writeNonce,
                                             cseq |-> cseq])
        /\ writeNonce' = writeNonce + 1
        /\ pc' = "line" /\ cseq' = 0
        /\ UNCHANGED <<left, readBuf, open>>
     \/ (~open \/ ~rxOpen) /\ Return(TRUE) /\ UNCHANGED <<toReceiver, writeNonce>>
  /\ UNCHANGED <<rxVars, toClient, readNonce, watching, live>>

Serve == Read \/ ReadEnds \/ ReadLine \/ ReadHeaders \/ SkipBody \/ Respond

-----------------------------------------------------------------------------
(* The context, and the session                                            *)

Cancel ==
  /\ live
  /\ live' = FALSE
  /\ UNCHANGED <<rxVars, wireVars, open, nonceVars, readBuf, serverVars, watching>>

\* Faulty: the goroutine leaves the connection to the server.
WatchOnly ==
  /\ watching /\ (~live \/ pc = "done")
  /\ watching' = FALSE
  /\ UNCHANGED <<rxVars, wireVars, open, nonceVars, readBuf, serverVars, live>>

\* The goroutine beside the server: it closes the connection when the context is
\* cancelled, or ends when the server has.
Watch ==
  /\ watching
  /\ \/ ~live /\ open' = FALSE
     \/ pc = "done" /\ UNCHANGED open
  /\ watching' = FALSE
  /\ UNCHANGED <<rxVars, wireVars, nonceVars, readBuf, serverVars, live>>

\* MirrorSession.Close, or a set-up that fails, cancels and closes.
SessionCloses ==
  /\ ~live /\ open
  /\ open' = FALSE
  /\ UNCHANGED <<rxVars, wireVars, nonceVars, readBuf, serverVars, watching, live>>

Receiver == Request \/ Garble \/ Frame \/ Acknowledged \/ HangUp
Next == Receiver \/ Serve \/ Cancel \/ Watch \/ SessionCloses

Spec == Init /\ [][Next]_vars

\* Both goroutines run; the network delivers as long as the receiver stays.
FairSpec == Spec /\ WF_vars(Serve) /\ WF_vars(Watch) /\ WF_vars(Frame) /\ WF_vars(Acknowledged)

-----------------------------------------------------------------------------
TypeOK ==
  /\ sent \in 0..MaxRequests /\ outbox \in Seq(Units)
  /\ rxWriteNonce \in Nat /\ rxReadNonce \in Nat /\ answered \in Seq(1..MaxRequests)
  /\ sane \in BOOLEAN /\ rxOpen \in BOOLEAN
  /\ toClient \in Seq([key : Keys, nonce : Nat, units : Seq(Units)])
  /\ toReceiver \in Seq([key : Keys, nonce : Nat, cseq : 1..MaxRequests])
  /\ open \in BOOLEAN /\ readNonce \in Nat /\ writeNonce \in Nat /\ readBuf \in Seq(Units)
  /\ pc \in {"line", "header", "body", "answer", "done"} /\ cseq \in 0..MaxRequests
  /\ left \in 0..MaxBody /\ watching \in BOOLEAN /\ live \in BOOLEAN

\* Where the server stands: which request it has, and what of it is to come.
Phases ==
  /\ cseq # 0 <=> pc \in {"body", "answer"}
  /\ left # 0 <=> pc = "body"
  /\ pc = "done" => readBuf = <<>>

\* Both ends count the frames of a direction alike: each that is on its way will
\* open, whatever the other direction does and however the server ends.
Numbered ==
  /\ rxWriteNonce = readNonce + Len(toClient)
  /\ \A i \in DOMAIN toClient : /\ toClient[i].key = ClientKeys.read
                                /\ toClient[i].nonce = readNonce + i - 1
                                /\ toClient[i].units # <<>>
  /\ writeNonce = rxReadNonce + Len(toReceiver)
  /\ \A i \in DOMAIN toReceiver : /\ toReceiver[i].key = ClientKeys.write
                                  /\ toReceiver[i].nonce = rxReadNonce + i - 1

\* Requests are acknowledged in the order they were made, each once.
AcknowledgedInOrder ==
  /\ \A i \in DOMAIN answered : answered[i] = i
  /\ \A i \in DOMAIN toReceiver : toReceiver[i].cseq = Len(answered) + i
  /\ cseq # 0 => cseq = Len(answered) + Len(toReceiver) + 1

\* A place in what the receiver writes, behind a unit: the request that it is of, the
\* units of body to come, and what follows when those have come.
At(n, b, next) == [cseq |-> n, bodies |-> b, next |-> next]
Follows(k) == IF k = "line" THEN "head" ELSE IF k = "bad" THEN "nothing" ELSE "line"
Behind(u) == At(u.cseq, u.bodies, Follows(u.kind))

\* What may follow at place p: the rest of a request, the next one, or nonsense.
Link(p, u) ==
  IF p.bodies > 0 THEN u = Unit("body", p.cseq, p.bodies - 1)
  ELSE /\ p.next # "nothing" /\ u.kind \in {p.next, "bad"}
       /\ u.cseq = IF p.next = "line" THEN p.cseq + 1 ELSE p.cseq
       /\ u.kind # "head" => u.bodies = 0

Joined(p, units) ==
  /\ units # <<>> => Link(p, units[1])
  /\ \A i \in 1..(Len(units) - 1) : Link(Behind(units[i]), units[i + 1])

EndOf(units, p) == IF units = <<>> THEN p ELSE Behind(units[Len(units)])

\* How far the server has parsed, how far the frames before frame i go, how far all
\* do, and how far the receiver has written.
Done == Len(answered) + Len(toReceiver)
Parsed == IF pc = "header" THEN At(Done + 1, 0, "head")
          ELSE At(IF cseq = 0 THEN Done ELSE cseq, left, "line")
Before(i) == IF i = 1 THEN EndOf(readBuf, Parsed) ELSE EndOf(toClient[i - 1].units, Parsed)
Framed == Before(Len(toClient) + 1)
Written == EndOf(outbox, Framed)

\* While the server runs, what the receiver has written and the server not parsed
\* goes on where the server stands, without a gap up to the last request made: no
\* boundary between frames loses one, or makes one of the body of another.
NothingSkipped ==
  pc # "done" =>
    /\ Joined(Parsed, readBuf)
    /\ \A i \in DOMAIN toClient : Joined(Before(i), toClient[i].units)
    /\ Joined(Framed, outbox)
    /\ Written.cseq = sent /\ Written.bodies = 0
    /\ sane => Written.next = "line"

\* The server ends only when the receiver breaks the protocol or hangs up, or the
\* session ends, and nothing else closes its connection.
EndsWithReason ==
  /\ pc = "done" => ~sane \/ ~rxOpen \/ ~live
  /\ ~open => pc = "done" \/ ~live

\* No request is amiss, none acknowledged twice, and no frame fails to open.
IInv ==
  TypeOK /\ Phases /\ Numbered /\ AcknowledgedInOrder /\ NothingSkipped /\ EndsWithReason

\* A receiver that keeps to the protocol, and stays, is acknowledged every
\* request, unless the session ends first.
AllAcknowledged ==
  \A n \in 1..MaxRequests :
    sent >= n ~> Len(answered) >= n \/ ~sane \/ ~rxOpen \/ ~live

\* When the context is cancelled the server ends, whatever it was waiting for,
\* and when it has ended, for any reason, so has the goroutine beside it.
GoroutinesEnd == ~live \/ pc = "done" ~> pc = "done" /\ ~watching
=============================================================================
