------------------------ MODULE EventChannel_proofs ------------------------
(***************************************************************************)
(* EventChannel acknowledges the receiver's requests in order and once,    *)
(* loses nothing at the boundary of two frames, keeps the counters of both *)
(* directions together and ends only with a reason, for any number of      *)
(* requests, any length of bodies and any way to cut them into frames.     *)
(***************************************************************************)
EXTENDS EventChannel, SequenceTheorems, TLAPS

-----------------------------------------------------------------------------
(* Units that follow each other, in sequences that are cut and joined      *)

\* What can follow at p is what is joined on there, one by one.
LEMMA JoinedFirst ==
  ASSUME NEW p, NEW s \in Seq(Units), s # <<>>, Joined(p, s)
  PROVE  /\ Head(s) = s[1] /\ Head(s) \in Units /\ Link(p, s[1])
         /\ Tail(s) \in Seq(Units) /\ Joined(Behind(s[1]), Tail(s))
         /\ EndOf(Tail(s), Behind(s[1])) = EndOf(s, p)
<1>1. /\ Len(s) \in Nat \ {0} /\ Tail(s) \in Seq(Units) /\ Len(Tail(s)) = Len(s) - 1
      /\ \A i \in 1..Len(Tail(s)) : Tail(s)[i] = s[i + 1]
  BY EmptySeq, HeadTailProperties
<1>2. Head(s) = s[1] /\ Head(s) \in Units
  BY HeadTailProperties
<1>3. Tail(s) = <<>> <=> Len(s) = 1
  <2>1. Len(<<>>) = 0 /\ (Tail(s) # <<>> => Len(Tail(s)) \in Nat \ {0})
    BY <1>1, EmptySeq
  <2>2. Tail(s) = <<>> <=> Len(Tail(s)) = 0
    BY <2>1
  <2> QED
    BY <1>1, <2>2
<1>4. Link(p, s[1])
  BY DEF Joined
<1>5. ASSUME Tail(s) # <<>> PROVE Link(Behind(s[1]), Tail(s)[1])
  <2>1. 1 \in 1..(Len(s) - 1) /\ Tail(s)[1] = s[2]
    BY <1>1, <1>3, <1>5
  <2>2. Link(Behind(s[1]), s[1 + 1])
    BY <2>1 DEF Joined
  <2> QED
    BY <2>1, <2>2
<1>6. ASSUME NEW i \in 1..(Len(Tail(s)) - 1)
      PROVE  Link(Behind(Tail(s)[i]), Tail(s)[i + 1])
  <2>1. /\ i \in Nat /\ i + 1 \in 1..(Len(s) - 1)
        /\ Tail(s)[i] = s[i + 1] /\ Tail(s)[i + 1] = s[(i + 1) + 1]
    BY <1>1
  <2>2. Link(Behind(s[i + 1]), s[(i + 1) + 1])
    BY <2>1 DEF Joined
  <2> QED
    BY <2>1, <2>2
<1>7. Joined(Behind(s[1]), Tail(s))
  BY <1>5, <1>6 DEF Joined
<1>8. EndOf(Tail(s), Behind(s[1])) = EndOf(s, p)
  <2>1. CASE Len(s) = 1
    BY <1>3, <2>1 DEF EndOf
  <2>2. CASE Len(s) # 1
    <3>1. Tail(s)[Len(Tail(s))] = s[Len(s)]
      BY <1>1, <2>2
    <3> QED
      BY <1>3, <2>2, <3>1 DEF EndOf
  <2> QED
    BY <2>1, <2>2
<1> QED
  BY <1>1, <1>2, <1>4, <1>7, <1>8

\* What is joined on to the end of a sequence is joined to it.
LEMMA JoinedConcat ==
  ASSUME NEW p, NEW s \in Seq(Units), NEW t \in Seq(Units), Joined(p, s), Joined(EndOf(s, p), t)
  PROVE  /\ s \o t \in Seq(Units) /\ Joined(p, s \o t)
         /\ EndOf(s \o t, p) = EndOf(t, EndOf(s, p))
<1>1. CASE s = <<>>
  BY <1>1, ConcatEmptySeq DEF EndOf
<1>2. CASE t = <<>>
  BY <1>2, ConcatEmptySeq DEF EndOf
<1>3. CASE s # <<>> /\ t # <<>>
  <2>1. Len(s) \in Nat \ {0} /\ Len(t) \in Nat \ {0}
    BY <1>3, EmptySeq
  <2>2. /\ s \o t \in Seq(Units) /\ Len(s \o t) = Len(s) + Len(t)
        /\ \A i \in 1..(Len(s) + Len(t)) : (s \o t)[i] = IF i <= Len(s) THEN s[i] ELSE t[i - Len(s)]
    BY ConcatProperties
  <2>3. s \o t # <<>> /\ (s \o t)[1] = s[1]
    BY <2>1, <2>2, EmptySeq
  <2>4. ASSUME NEW i \in 1..(Len(s) + Len(t) - 1)
        PROVE  Link(Behind((s \o t)[i]), (s \o t)[i + 1])
    <3>1. i \in Nat /\ i \in 1..(Len(s) + Len(t)) /\ i + 1 \in 1..(Len(s) + Len(t))
      BY <2>1
    <3>2. CASE i < Len(s)
      <4>1. i \in 1..(Len(s) - 1) /\ (s \o t)[i] = s[i] /\ (s \o t)[i + 1] = s[i + 1]
        BY <2>1, <2>2, <3>1, <3>2
      <4> QED
        BY <4>1 DEF Joined
    <3>3. CASE i = Len(s)
      <4>1. (s \o t)[i] = s[Len(s)] /\ (s \o t)[i + 1] = t[1]
        BY <2>1, <2>2, <3>1, <3>3
      <4> QED
        BY <1>3, <4>1 DEF Joined, EndOf
    <3>4. CASE i > Len(s)
      <4>1. /\ i - Len(s) \in 1..(Len(t) - 1) /\ (s \o t)[i] = t[i - Len(s)]
            /\ (s \o t)[i + 1] = t[(i - Len(s)) + 1]
        BY <2>1, <2>2, <3>1, <3>4
      <4> QED
        BY <4>1 DEF Joined
    <3> QED
      BY <2>1, <3>1, <3>2, <3>3, <3>4
  <2>5. Joined(p, s \o t)
    BY <1>3, <2>2, <2>3, <2>4 DEF Joined
  <2>6. (s \o t)[Len(s \o t)] = t[Len(t)]
    BY <2>1, <2>2
  <2> QED
    BY <1>3, <2>2, <2>3, <2>5, <2>6 DEF EndOf
<1> QED
  BY <1>1, <1>2, <1>3

\* A sequence can be cut anywhere.
LEMMA JoinedCut ==
  ASSUME NEW p, NEW s \in Seq(Units), Joined(p, s), NEW n \in 1..Len(s)
  PROVE  LET a == SubSeq(s, 1, n)
             b == SubSeq(s, n + 1, Len(s))
         IN  /\ a \in Seq(Units) /\ a # <<>> /\ Joined(p, a)
             /\ b \in Seq(Units) /\ Joined(EndOf(a, p), b)
             /\ EndOf(b, EndOf(a, p)) = EndOf(s, p)
<1> DEFINE a == SubSeq(s, 1, n)
           b == SubSeq(s, n + 1, Len(s))
<1>1. /\ Len(s) \in Nat \ {0} /\ n \in Nat \ {0} /\ n <= Len(s) /\ s # <<>>
      /\ \A i \in 1..Len(s) : s[i] \in Units
  BY LenProperties, EmptySeq, ElementOfSeq
<1>2. /\ a \in Seq(Units) /\ Len(a) = n /\ \A i \in 1..n : a[i] = s[i]
  BY <1>1, SubSeqProperties
<1>3. /\ b \in Seq(Units) /\ Len(b) = Len(s) - n
      /\ \A i \in 1..(Len(s) - n) : b[i] = s[n + i]
  BY <1>1, SubSeqProperties
<1> HIDE DEF a, b
<1>4. a # <<>> /\ EndOf(a, p) = Behind(s[n]) /\ (b = <<>> <=> n = Len(s))
  BY <1>1, <1>2, <1>3, EmptySeq DEF EndOf
<1>5. Joined(p, a)
  <2>1. ASSUME NEW i \in 1..(Len(a) - 1) PROVE Link(Behind(a[i]), a[i + 1])
    <3>1. i \in 1..(Len(s) - 1) /\ a[i] = s[i] /\ a[i + 1] = s[i + 1]
      BY <1>1, <1>2
    <3> QED
      BY <3>1 DEF Joined
  <2>2. a[1] = s[1]
    BY <1>1, <1>2
  <2> QED
    BY <1>1, <2>1, <2>2 DEF Joined
<1>6. Joined(Behind(s[n]), b)
  <2>1. ASSUME NEW i \in 1..(Len(b) - 1) PROVE Link(Behind(b[i]), b[i + 1])
    <3>1. /\ n + i \in 1..(Len(s) - 1) /\ n + (i + 1) = (n + i) + 1
          /\ i \in 1..(Len(s) - n) /\ i + 1 \in 1..(Len(s) - n)
      BY <1>1, <1>3
    <3>2. b[i] = s[n + i] /\ b[i + 1] = s[(n + i) + 1]
      BY <1>3, <3>1
    <3> QED
      BY <3>1, <3>2 DEF Joined
  <2>2. ASSUME b # <<>> PROVE Link(Behind(s[n]), b[1])
    <3>1. n \in 1..(Len(s) - 1) /\ b[1] = s[n + 1]
      BY <1>1, <1>3, <1>4, <2>2
    <3> QED
      BY <3>1 DEF Joined
  <2> QED
    BY <2>1, <2>2 DEF Joined
<1>7. EndOf(b, Behind(s[n])) = EndOf(s, p)
  <2>1. CASE n = Len(s)
    BY <1>1, <1>4, <2>1 DEF EndOf
  <2>2. CASE n # Len(s)
    <3>1. b[Len(b)] = s[Len(s)]
      BY <1>1, <1>3, <2>2
    <3> QED
      BY <1>1, <1>4, <2>2, <3>1 DEF EndOf
  <2> QED
    BY <2>1, <2>2
<1> QED
  BY <1>2, <1>3, <1>4, <1>5, <1>6, <1>7 DEF a, b

\* Headers and a body are joined to the request line before them.
LEMMA HeadJoined ==
  ASSUME NEW n \in 1..MaxRequests, NEW b \in 0..MaxBody, NEW p, p = At(n, 0, "head")
  PROVE  /\ HeadAndBody(n, b) \in Seq(Units) /\ Joined(p, HeadAndBody(n, b))
         /\ EndOf(HeadAndBody(n, b), p) = At(n, 0, "line")
<1> DEFINE s == HeadAndBody(n, b)
<1>1. n \in Nat /\ n > 0 /\ b \in Nat /\ b <= MaxBody /\ MaxBody \in Nat /\ MaxRequests \in Nat
  BY BoundAssumption
<1>2. /\ s \in [1..(b + 1) -> Units]
      /\ \A i \in 1..(b + 1) : s[i] = Unit(IF i = 1 THEN "head" ELSE "body", n, b + 1 - i)
  BY <1>1 DEF HeadAndBody, Unit, Units
<1>3. s \in Seq(Units)
  BY <1>1, <1>2, SeqDef
<1>4. Len(s) = b + 1
  BY <1>1 DEF HeadAndBody
<1>5. s # <<>> /\ 1 \in 1..(b + 1) /\ b + 1 \in 1..(b + 1)
  BY <1>1, <1>4, EmptySeq
<1> HIDE DEF s
<1>6. Link(p, s[1])
  <2>1. s[1] = Unit("head", n, b + 1 - 1)
    BY <1>2, <1>5
  <2> QED
    BY <2>1 DEF Link, At, Unit
<1>7. ASSUME NEW i \in 1..(Len(s) - 1) PROVE Link(Behind(s[i]), s[i + 1])
  <2>1. /\ i \in Nat /\ i > 0 /\ i <= b /\ i \in 1..(b + 1) /\ i + 1 \in 1..(b + 1) /\ i + 1 # 1
    BY <1>1, <1>4
  <2>2. /\ s[i] = Unit(IF i = 1 THEN "head" ELSE "body", n, b + 1 - i)
        /\ s[i + 1] = Unit("body", n, b + 1 - (i + 1))
    BY <1>2, <2>1
  <2>3. b + 1 - i > 0 /\ (b + 1 - i) - 1 = b + 1 - (i + 1)
    BY <1>1, <2>1
  <2> QED
    BY <2>2, <2>3 DEF Link, Behind, At, Unit
<1>8. EndOf(s, p) = At(n, 0, "line")
  <2>1. s[b + 1] = Unit(IF b + 1 = 1 THEN "head" ELSE "body", n, b + 1 - (b + 1))
    BY <1>2, <1>5
  <2>2. b + 1 - (b + 1) = 0
    BY <1>1
  <2>3. s[b + 1].cseq = n /\ s[b + 1].bodies = 0 /\ s[b + 1].kind \in {"head", "body"}
    BY <2>1, <2>2 DEF Unit
  <2> QED
    BY <1>4, <1>5, <2>3 DEF EndOf, Behind, Follows, At
<1> QED
  BY <1>3, <1>5, <1>6, <1>7, <1>8 DEF Joined, s

\* One unit.
LEMMA OneJoined ==
  ASSUME NEW p, NEW u \in Units, Link(p, u)
  PROVE  <<u>> \in Seq(Units) /\ Joined(p, <<u>>) /\ EndOf(<<u>>, p) = Behind(u)
<1> DEFINE s == <<u>>
<1>1. s \in Seq(Units) /\ Len(s) = 1 /\ s[1] = u /\ s # <<>>
  OBVIOUS
<1> HIDE DEF s
<1>2. Joined(p, s) /\ EndOf(s, p) = Behind(u)
  BY <1>1 DEF Joined, EndOf
<1> QED
  BY <1>1, <1>2 DEF s

\* The request line of request n.
LEMMA LineJoined ==
  ASSUME NEW n \in 1..MaxRequests, NEW p, p = At(n - 1, 0, "line")
  PROVE  LET line == <<Unit("line", n, 0)>> IN
         line \in Seq(Units) /\ Joined(p, line) /\ EndOf(line, p) = At(n, 0, "head")
<1> DEFINE u == Unit("line", n, 0)
<1>1. u \in Units /\ u.kind = "line" /\ u.cseq = n /\ u.bodies = 0
  BY BoundAssumption DEF Unit, Units
<1>2. (n - 1) + 1 = n
  BY BoundAssumption
<1> HIDE DEF u
<1>3. Link(p, u)
  BY <1>1, <1>2 DEF Link, At
<1>4. Behind(u) = At(n, 0, "head")
  BY <1>1 DEF Behind, Follows
<1> QED
  BY <1>1, <1>3, <1>4, OneJoined DEF u

\* The units of a request are joined to the end of the one before.
LEMMA RequestJoined ==
  ASSUME NEW n \in 1..MaxRequests, NEW b \in 0..MaxBody, NEW p, p = At(n - 1, 0, "line")
  PROVE  /\ RequestUnits(n, b) \in Seq(Units) /\ Joined(p, RequestUnits(n, b))
         /\ EndOf(RequestUnits(n, b), p) = At(n, 0, "line")
<1> DEFINE s == <<Unit("line", n, 0)>>
           t == HeadAndBody(n, b)
<1>1. s \in Seq(Units) /\ Joined(p, s) /\ EndOf(s, p) = At(n, 0, "head")
  BY LineJoined
<1>2. t \in Seq(Units) /\ Joined(EndOf(s, p), t) /\ EndOf(t, EndOf(s, p)) = At(n, 0, "line")
  BY <1>1, HeadJoined
<1>3. RequestUnits(n, b) = s \o t
  BY DEF RequestUnits
<1> HIDE DEF s, t
<1> QED
  BY <1>1, <1>2, <1>3, JoinedConcat

-----------------------------------------------------------------------------
(* Types                                                                   *)

\* TypeOK in two parts, which different provers handle.
Flags == /\ sane \in BOOLEAN /\ rxOpen \in BOOLEAN /\ open \in BOOLEAN
         /\ watching \in BOOLEAN /\ live \in BOOLEAN

Frames == [key : Keys, nonce : Nat, units : Seq(Units)]
Acks   == [key : Keys, nonce : Nat, cseq : 1..MaxRequests]

States ==
  /\ sent \in 0..MaxRequests /\ outbox \in Seq(Units)
  /\ rxWriteNonce \in Nat /\ rxReadNonce \in Nat /\ answered \in Seq(1..MaxRequests)
  /\ toClient \in Seq(Frames) /\ toReceiver \in Seq(Acks)
  /\ readNonce \in Nat /\ writeNonce \in Nat /\ readBuf \in Seq(Units)
  /\ pc \in {"line", "header", "body", "answer", "done"} /\ cseq \in 0..MaxRequests
  /\ left \in 0..MaxBody

LEMMA TypeParts == TypeOK <=> Flags /\ States
  BY DEF TypeOK, Flags, States, Frames, Acks

\* No flag gets another value than TRUE or FALSE.
LEMMA FlagsStep == ASSUME Flags, [Next]_vars PROVE Flags'
<1> USE DEF Flags, rxVars, wireVars, nonceVars, serverVars, Return
<1>1. CASE Request BY <1>1, Zenon DEF Request
<1>2. CASE Garble BY <1>2, Zenon DEF Garble
<1>3. CASE Frame BY <1>3, Zenon DEF Frame
<1>4. CASE Acknowledged BY <1>4, Zenon DEF Acknowledged
<1>5. CASE HangUp BY <1>5, Zenon DEF HangUp
<1>6. CASE Read BY <1>6, Zenon DEF Read
<1>7. CASE ReadEnds BY <1>7, Zenon DEF ReadEnds
<1>8. CASE ReadHeaders BY <1>8, Zenon DEF ReadHeaders
<1>8a. CASE ReadLine BY <1>8a, Zenon DEF ReadLine
<1>9. CASE SkipBody BY <1>9, Zenon DEF SkipBody
<1>10. CASE Respond BY <1>10, Zenon DEF Respond
<1>11. CASE Cancel BY <1>11, Zenon DEF Cancel
<1>12. CASE Watch BY <1>12, Zenon DEF Watch
<1>13. CASE SessionCloses BY <1>13, Zenon DEF SessionCloses
<1>14. CASE UNCHANGED vars BY <1>14, Zenon DEF vars
<1> QED
  BY <1>1, <1>2, <1>3, <1>4, <1>5, <1>6, <1>7, <1>8, <1>8a, <1>9, <1>10, <1>11, <1>12, <1>13, <1>14
     DEF Next, Receiver, Serve

LEMMA Empty ==
  /\ <<>> \in Seq(Units) /\ <<>> \in Seq(1..MaxRequests) /\ <<>> \in Seq(Frames)
       /\ <<>> \in Seq(Acks)
  /\ Len(<<>>) = 0
  BY EmptySeq

\* What is left of the server when it has returned.
Ended == pc' = "done" /\ cseq' = 0 /\ left' = 0 /\ readBuf' = <<>>

\* A read that does not end the server takes a frame whole.
Takes == /\ readBuf' = Head(toClient).units /\ readNonce' = readNonce + 1
         /\ UNCHANGED <<pc, cseq, left, open>>

LEMMA ReadStep ==
  ASSUME Read
  PROVE  /\ pc \in {"line", "header", "body"} /\ readBuf = <<>> /\ open /\ toClient # <<>>
         /\ toClient' = Tail(toClient)
         /\ UNCHANGED <<rxVars, toReceiver, writeNonce, watching, live>>
         /\ IF Head(toClient).key = ClientKeys.read /\ Head(toClient).nonce = readNonce
            THEN Takes ELSE Ended /\ UNCHANGED readNonce
  BY DEF Read, Reading, Takes, Ended, Return, serverVars

LEMMA ReadEndsStep ==
  ASSUME ReadEnds
  PROVE  /\ Ended /\ pc # "done" /\ UNCHANGED <<rxVars, wireVars, nonceVars, watching, live>>
         /\ ~open \/ ~rxOpen
  BY DEF ReadEnds, Reading, Ended, Return

LEMMA ReadHeadersStep ==
  ASSUME ReadHeaders
  PROVE  /\ pc = "header" /\ readBuf # <<>>
         /\ UNCHANGED <<rxVars, wireVars, nonceVars, watching, live>>
         /\ IF Head(readBuf).kind = "head"
            THEN /\ cseq' = Head(readBuf).cseq /\ left' = Head(readBuf).bodies
                 /\ pc' = IF left' = 0 THEN "answer" ELSE "body"
                 /\ readBuf' = Tail(readBuf) /\ open' = open
            ELSE Ended
  BY DEF ReadHeaders, Ended, Return

LEMMA ReadLineStep ==
  ASSUME ReadLine
  PROVE  /\ pc = "line" /\ readBuf # <<>>
         /\ UNCHANGED <<rxVars, wireVars, nonceVars, watching, live>>
         /\ IF Head(readBuf).kind = "line"
            THEN pc' = "header" /\ readBuf' = Tail(readBuf) /\ UNCHANGED <<cseq, left, open>>
            ELSE Ended
  BY DEF ReadLine, Ended, Return

\* An acknowledgement, with what it is sealed with.
Ack == [key |-> ClientKeys.write, nonce |-> writeNonce, cseq |-> cseq]

LEMMA RespondStep ==
  ASSUME Respond
  PROVE  /\ pc = "answer" /\ UNCHANGED <<rxVars, toClient, readNonce, watching, live>>
         /\ \/ /\ open /\ open' = open /\ pc' = "line" /\ cseq' = 0
               /\ UNCHANGED <<left, readBuf>>
               /\ toReceiver' = Append(toReceiver, Ack) /\ writeNonce' = writeNonce + 1
            \/ (~open \/ ~rxOpen) /\ Ended /\ UNCHANGED <<toReceiver, writeNonce>>
  BY DEF Respond, Ended, Return, Ack

LEMMA GarbleUnits ==
  ASSUME NEW n \in 1..MaxRequests, NEW line \in {<<>>, <<Unit("line", n, 0)>>}
  PROVE  /\ line \in Seq(Units) /\ Unit("bad", n, 0) \in Units
         /\ Append(line, Unit("bad", n, 0)) \in Seq(Units)
<1>1. Unit("bad", n, 0) \in Units /\ Unit("line", n, 0) \in Units
  BY BoundAssumption DEF Unit, Units
<1> DEFINE u == Unit("line", n, 0)
<1>2. <<u>> \in Seq(Units)
  <2> HIDE DEF u
  <2> QED
    BY <1>1 DEF u
<1>3. line \in Seq(Units)
  BY <1>2, EmptySeq
<1> QED
  BY <1>1, <1>3, AppendProperties

LEMMA StatesStep == ASSUME States, Phases, [Next]_vars PROVE States'
<1> USE DEF States, rxVars, wireVars, nonceVars, serverVars
<1>0. /\ MaxRequests \in Nat /\ MaxBody \in Nat
      /\ "Events-Read" \in Keys /\ "Events-Write" \in Keys /\ ClientKeys.write = "Events-Read"
  BY BoundAssumption DEF Keys, ClientKeys
<1>1. CASE Request
  <2>1. PICK b \in 0..MaxBody : outbox' = outbox \o RequestUnits(sent + 1, b)
    BY <1>1 DEF Request
  <2>2. sent + 1 \in 1..MaxRequests /\ sent' = sent + 1
    BY <1>0, <1>1 DEF Request
  <2>3. RequestUnits(sent + 1, b) \in Seq(Units)
    BY <2>2, RequestJoined
  <2>4. outbox' \in Seq(Units)
    BY <2>1, <2>3, ConcatProperties
  <2> QED
    BY <1>0, <1>1, <2>2, <2>4 DEF Request
<1>2. CASE Garble
  <2>1. PICK line \in {<<>>, <<Unit("line", sent + 1, 0)>>} :
          outbox' = outbox \o Append(line, Unit("bad", sent + 1, 0))
    BY <1>2 DEF Garble
  <2>2. sent + 1 \in 1..MaxRequests /\ sent' = sent + 1
    BY <1>0, <1>2 DEF Garble
  <2>3. Append(line, Unit("bad", sent + 1, 0)) \in Seq(Units)
    BY <2>2, GarbleUnits
  <2>4. outbox' \in Seq(Units)
    BY <2>1, <2>3, ConcatProperties
  <2> QED
    BY <1>0, <1>2, <2>2, <2>4 DEF Garble
<1>3. CASE Frame
  <2>1. PICK n \in 1..FrameSize :
          /\ n <= Len(outbox)
          /\ toClient' = Append(toClient, [key |-> "Events-Write", nonce |-> rxWriteNonce,
                                           units |-> SubSeq(outbox, 1, n)])
          /\ outbox' = SubSeq(outbox, n + 1, Len(outbox))
    BY <1>3 DEF Frame
  <2>2. Len(outbox) \in Nat /\ n \in Nat /\ \A i \in 1..Len(outbox) : outbox[i] \in Units
    BY <2>1, LenProperties, ElementOfSeq, BoundAssumption
  <2>3. SubSeq(outbox, 1, n) \in Seq(Units)
    BY <2>1, <2>2, SubSeqProperties
  <2>4. SubSeq(outbox, n + 1, Len(outbox)) \in Seq(Units)
    BY <2>1, <2>2, SubSeqProperties
  <2>5. [key |-> "Events-Write", nonce |-> rxWriteNonce, units |-> SubSeq(outbox, 1, n)] \in Frames
    BY <1>0, <2>3 DEF Frames
  <2>6. toClient' \in Seq(Frames)
    BY <2>1, <2>5, AppendProperties
  <2> QED
    BY <1>3, <2>1, <2>4, <2>6 DEF Frame
<1>4. CASE Acknowledged
  <2>1. Head(toReceiver) \in Acks /\ Tail(toReceiver) \in Seq(Acks)
    BY <1>4, HeadTailProperties DEF Acknowledged
  <2>2. Append(answered, Head(toReceiver).cseq) \in Seq(1..MaxRequests)
    BY <2>1, AppendProperties DEF Acks
  <2> QED
    BY <1>4, <2>1, <2>2 DEF Acknowledged
<1>5. CASE HangUp BY <1>5 DEF HangUp
<1>6. CASE Read
  <2>1. Head(toClient) \in Frames /\ Tail(toClient) \in Seq(Frames)
    BY <1>6, ReadStep, HeadTailProperties
  <2>2. Head(toClient).units \in Seq(Units)
    BY <2>1 DEF Frames
  <2>3. /\ toClient' = Tail(toClient) /\ UNCHANGED <<rxVars, toReceiver, writeNonce>>
        /\ Takes \/ (Ended /\ UNCHANGED readNonce)
    BY <1>6, ReadStep
  <2>4. CASE Takes
    BY <2>1, <2>2, <2>3, <2>4 DEF Takes
  <2>5. CASE Ended /\ UNCHANGED readNonce
    BY <1>0, <2>1, <2>3, <2>5, Empty DEF Ended
  <2> QED
    BY <2>3, <2>4, <2>5
<1>7. CASE ReadEnds
  BY <1>0, <1>7, ReadEndsStep, Empty DEF Ended
<1>8. CASE ReadHeaders
  <2>1. Head(readBuf) \in Units /\ Tail(readBuf) \in Seq(Units)
    BY <1>8, ReadHeadersStep, HeadTailProperties
  <2>2. Head(readBuf).cseq \in 0..MaxRequests /\ Head(readBuf).bodies \in 0..MaxBody
    <3>1. Head(readBuf).cseq \in 1..MaxRequests /\ Head(readBuf).bodies \in 0..MaxBody
      BY <2>1 DEF Units
    <3> QED
      BY <3>1
  <2>3. CASE Ended
    BY <1>0, <1>8, <2>3, ReadHeadersStep, Empty DEF Ended
  <2>4. CASE ~Ended
    BY <1>8, <2>1, <2>2, <2>4, ReadHeadersStep
  <2> QED
    BY <2>3, <2>4
<1>8a. CASE ReadLine
  <2>1. Tail(readBuf) \in Seq(Units)
    BY <1>8a, ReadLineStep, HeadTailProperties
  <2>2. CASE Ended
    BY <1>0, <1>8a, <2>2, ReadLineStep, Empty DEF Ended
  <2>3. CASE ~Ended
    BY <1>8a, <2>1, <2>3, ReadLineStep
  <2> QED
    BY <2>2, <2>3
<1>9. CASE SkipBody
  <2>1. Tail(readBuf) \in Seq(Units)
    BY <1>9, HeadTailProperties DEF SkipBody
  <2>2. left - 1 \in 0..MaxBody
    BY <1>0, <1>9 DEF SkipBody, Phases
  <2> QED
    BY <1>9, <2>1, <2>2 DEF SkipBody
<1>10. CASE Respond
  <2>1. Ack \in Acks
    BY <1>0, <1>10, RespondStep DEF Phases, Ack, Acks
  <2>2. Append(toReceiver, Ack) \in Seq(Acks)
    BY <2>1, AppendProperties
  <2>3. CASE Ended
    BY <1>0, <1>10, <2>2, <2>3, RespondStep, Empty DEF Ended
  <2>4. CASE ~Ended
    <3>1. /\ UNCHANGED <<rxVars, toClient, readNonce, left, readBuf>>
          /\ toReceiver' = Append(toReceiver, Ack) /\ writeNonce' = writeNonce + 1
          /\ pc' = "line" /\ cseq' = 0
      BY <1>10, <2>4, RespondStep
    <3> QED
      BY <1>0, <2>2, <3>1
  <2> QED
    BY <2>3, <2>4
<1>11. CASE Cancel BY <1>11 DEF Cancel
<1>12. CASE Watch BY <1>12 DEF Watch
<1>13. CASE SessionCloses BY <1>13 DEF SessionCloses
<1>14. CASE UNCHANGED vars BY <1>14 DEF vars
<1> QED
  BY <1>1, <1>2, <1>3, <1>4, <1>5, <1>6, <1>7, <1>8, <1>8a, <1>9, <1>10, <1>11, <1>12, <1>13, <1>14
     DEF Next, Receiver, Serve

-----------------------------------------------------------------------------
(* Where the server stands, the counters and the acknowledgements          *)

LEMMA PhasesStep == ASSUME States, Phases, [Next]_vars PROVE Phases'
<1> USE DEF Phases
<1>1. CASE ReadHeaders
  <2>1. Head(readBuf) \in Units
    BY <1>1, ReadHeadersStep, HeadTailProperties DEF States
  <2>2. Head(readBuf).cseq # 0
    BY <2>1, BoundAssumption DEF Units
  <2> QED
    BY <1>1, <2>2, ReadHeadersStep DEF Ended
<1>2. CASE Read
  <2>1. pc \in {"line", "header", "body"} /\ (Ended \/ UNCHANGED <<pc, cseq, left>>)
    BY <1>2, ReadStep DEF Takes
  <2> QED
    BY <2>1 DEF Ended
<1>3. CASE ReadEnds \/ ReadLine \/ SkipBody \/ Respond
  BY <1>3, ReadEndsStep, ReadLineStep, RespondStep DEF SkipBody, Ended
<1>4. CASE Receiver \/ Cancel \/ Watch \/ SessionCloses \/ UNCHANGED vars
  BY <1>4 DEF Receiver, Request, Garble, Frame, Acknowledged, HangUp, Cancel, Watch,
              SessionCloses, serverVars, vars
<1> QED
  BY <1>1, <1>2, <1>3, <1>4 DEF Next, Serve

LEMMA Indices ==
  ASSUME States
  PROVE  /\ DOMAIN toClient = 1..Len(toClient) /\ Len(toClient) \in Nat
         /\ DOMAIN toReceiver = 1..Len(toReceiver) /\ Len(toReceiver) \in Nat
         /\ DOMAIN answered = 1..Len(answered) /\ Len(answered) \in Nat
         /\ toClient # <<>> => 1 \in 1..Len(toClient)
         /\ toReceiver # <<>> => 1 \in 1..Len(toReceiver)
<1>1. /\ DOMAIN toClient = 1..Len(toClient) /\ Len(toClient) \in Nat
      /\ toClient # <<>> => Len(toClient) \in Nat \ {0}
  BY LenProperties, EmptySeq DEF States
<1>2. /\ DOMAIN toReceiver = 1..Len(toReceiver) /\ Len(toReceiver) \in Nat
      /\ toReceiver # <<>> => Len(toReceiver) \in Nat \ {0}
  BY LenProperties, EmptySeq DEF States
<1>3. DOMAIN answered = 1..Len(answered) /\ Len(answered) \in Nat
  BY LenProperties DEF States
<1> QED
  BY <1>1, <1>2, <1>3

\* Head and tail of a sequence that is on its way.
LEMMA HeadOf ==
  ASSUME NEW S, NEW s \in Seq(S), s # <<>>
  PROVE  /\ Head(s) = s[1] /\ s[1] \in S /\ Tail(s) \in Seq(S) /\ Len(s) \in Nat \ {0}
         /\ Len(Tail(s)) = Len(s) - 1 /\ DOMAIN Tail(s) = 1..(Len(s) - 1)
         /\ \A i \in 1..(Len(s) - 1) : Tail(s)[i] = s[i + 1]
<1>1. Head(s) \in S /\ Tail(s) \in Seq(S) /\ Len(Tail(s)) = Len(s) - 1
      /\ \A i \in 1..Len(Tail(s)) : Tail(s)[i] = s[i + 1]
  BY HeadTailProperties
<1>2. Len(s) \in Nat \ {0} /\ Head(s) = s[1] /\ DOMAIN Tail(s) = 1..Len(Tail(s))
  BY <1>1, EmptySeq, LenProperties
<1> QED
  BY <1>1, <1>2

\* What Append gives, whatever is appended.
LEMMA AppendAny ==
  ASSUME NEW S, NEW s \in Seq(S), NEW x
  PROVE  /\ Len(Append(s, x)) = Len(s) + 1 /\ DOMAIN Append(s, x) = 1..(Len(s) + 1)
         /\ \A i \in 1..Len(s) : Append(s, x)[i] = s[i]
         /\ Append(s, x)[Len(s) + 1] = x
<1>1. s \in Seq(S \cup {x})
  BY SeqMonotonic
<1>2. /\ Append(s, x) \in Seq(S \cup {x}) /\ Len(Append(s, x)) = Len(s) + 1
      /\ \A i \in 1..Len(s) : Append(s, x)[i] = s[i]
      /\ Append(s, x)[Len(s) + 1] = x
  BY <1>1, AppendProperties
<1> QED
  BY <1>2, LenProperties

\* The frame that is read is the next one: no other is ever on its way.
LEMMA ReadTakes == ASSUME States, Numbered, Read PROVE Takes
<1>1. toClient # <<>> /\ 1 \in DOMAIN toClient /\ Head(toClient) = toClient[1] /\ readNonce \in Nat
  BY ReadStep, Indices, HeadOf DEF States
<1>2. Head(toClient).key = ClientKeys.read /\ Head(toClient).nonce = readNonce
  BY <1>1 DEF Numbered
<1> QED
  BY <1>2, ReadStep

LEMMA NumberedStep == ASSUME States, Numbered, [Next]_vars PROVE Numbered'
<1> USE DEF rxVars, wireVars, nonceVars, serverVars
<1>0. /\ rxWriteNonce \in Nat /\ readNonce \in Nat /\ writeNonce \in Nat /\ rxReadNonce \in Nat
      /\ toClient \in Seq(Frames) /\ toReceiver \in Seq(Acks)
  BY DEF States
<1>1. CASE Frame
  <2>1. PICK n \in 1..FrameSize :
          /\ n <= Len(outbox)
          /\ toClient' = Append(toClient, [key |-> "Events-Write", nonce |-> rxWriteNonce,
                                           units |-> SubSeq(outbox, 1, n)])
    BY <1>1 DEF Frame
  <2> DEFINE f == [key |-> "Events-Write", nonce |-> rxWriteNonce, units |-> SubSeq(outbox, 1, n)]
  <2>2. SubSeq(outbox, 1, n) \in Seq(Units) /\ Len(SubSeq(outbox, 1, n)) = n /\ n # 0
    <3>1. /\ outbox \in Seq(Units) /\ Len(outbox) \in Nat /\ n \in Nat \ {0}
          /\ \A i \in 1..Len(outbox) : outbox[i] \in Units
      BY LenProperties, ElementOfSeq, BoundAssumption DEF States
    <3> QED
      BY <2>1, <3>1, SubSeqProperties
  <2>3. SubSeq(outbox, 1, n) # <<>>
    BY <2>2, EmptySeq
  <2>4. f \in Frames
    BY <1>0, <2>2 DEF Frames, Keys
  <2>5. /\ toClient' \in Seq(Frames) /\ Len(toClient') = Len(toClient) + 1
        /\ \A i \in 1..Len(toClient) : toClient'[i] = toClient[i]
        /\ toClient'[Len(toClient) + 1] = f
    BY <1>0, <2>1, <2>4, AppendProperties
  <2>6. DOMAIN toClient' = 1..(Len(toClient) + 1)
    BY <2>5, LenProperties
  <2>7. rxWriteNonce' = rxWriteNonce + 1 /\ UNCHANGED <<readNonce, writeNonce, rxReadNonce,
          toReceiver>>
    BY <1>1 DEF Frame
  <2>8. ASSUME NEW i \in 1..(Len(toClient) + 1)
        PROVE  /\ toClient'[i].key = ClientKeys.read /\ toClient'[i].nonce = readNonce + i - 1
               /\ toClient'[i].units # <<>>
    <3>1. CASE i \in 1..Len(toClient)
      BY <2>5, <3>1, Indices DEF Numbered
    <3>2. CASE i = Len(toClient) + 1
      <4>1. rxWriteNonce = readNonce + i - 1
        BY <1>0, <3>2, Indices DEF Numbered
      <4> QED
        BY <2>3, <2>5, <3>2, <4>1 DEF ClientKeys
    <3> QED
      BY <3>1, <3>2, Indices
  <2>9. rxWriteNonce' = readNonce' + Len(toClient')
    BY <1>0, <2>5, <2>7, Indices DEF Numbered
  <2> QED
    BY <2>6, <2>7, <2>8, <2>9 DEF Numbered
<1>2. CASE Read
  <2>1. /\ toClient # <<>> /\ toClient' = Tail(toClient) /\ readNonce' = readNonce + 1
        /\ UNCHANGED <<rxWriteNonce, writeNonce, rxReadNonce, toReceiver>>
    BY <1>2, ReadTakes, ReadStep DEF Takes
  <2>2. /\ Len(toClient) \in Nat \ {0} /\ Len(toClient') = Len(toClient) - 1
        /\ DOMAIN toClient' = 1..(Len(toClient) - 1)
        /\ \A i \in 1..(Len(toClient) - 1) : toClient'[i] = toClient[i + 1]
    BY <1>0, <2>1, HeadOf
  <2>3. ASSUME NEW i \in 1..(Len(toClient) - 1)
        PROVE  /\ toClient'[i].key = ClientKeys.read /\ toClient'[i].nonce = readNonce' + i - 1
               /\ toClient'[i].units # <<>>
    <3>1. i + 1 \in DOMAIN toClient /\ i \in Nat
      BY <2>2, Indices
    <3>2. /\ toClient[i + 1].key = ClientKeys.read
               /\ toClient[i + 1].nonce = readNonce + (i + 1) - 1
          /\ toClient[i + 1].units # <<>>
      BY <3>1 DEF Numbered
    <3>3. readNonce + (i + 1) - 1 = readNonce' + i - 1
      BY <1>0, <2>1, <3>1
    <3> QED
      BY <2>2, <3>2, <3>3
  <2>4. rxWriteNonce' = readNonce' + Len(toClient')
    BY <1>0, <2>1, <2>2 DEF Numbered
  <2> QED
    BY <2>1, <2>2, <2>3, <2>4 DEF Numbered
<1>3. CASE Acknowledged
  <2>1. /\ toReceiver # <<>> /\ toReceiver' = Tail(toReceiver) /\ rxReadNonce' = rxReadNonce + 1
        /\ UNCHANGED <<rxWriteNonce, writeNonce, readNonce, toClient>>
    BY <1>3 DEF Acknowledged
  <2>2. /\ Len(toReceiver) \in Nat \ {0} /\ Len(toReceiver') = Len(toReceiver) - 1
        /\ DOMAIN toReceiver' = 1..(Len(toReceiver) - 1)
        /\ \A i \in 1..(Len(toReceiver) - 1) : toReceiver'[i] = toReceiver[i + 1]
    BY <1>0, <2>1, HeadOf
  <2>3. ASSUME NEW i \in 1..(Len(toReceiver) - 1)
        PROVE  /\ toReceiver'[i].key = ClientKeys.write
                    /\ toReceiver'[i].nonce = rxReadNonce' + i - 1
    <3>1. i + 1 \in DOMAIN toReceiver /\ i \in Nat
      BY <2>2, Indices
    <3>2. /\ toReceiver[i + 1].key = ClientKeys.write
          /\ toReceiver[i + 1].nonce = rxReadNonce + (i + 1) - 1
      BY <3>1 DEF Numbered
    <3>3. rxReadNonce + (i + 1) - 1 = rxReadNonce' + i - 1
      BY <1>0, <2>1, <3>1
    <3> QED
      BY <2>2, <3>2, <3>3
  <2>4. writeNonce' = rxReadNonce' + Len(toReceiver')
    BY <1>0, <2>1, <2>2 DEF Numbered
  <2> QED
    BY <2>1, <2>2, <2>3, <2>4 DEF Numbered
<1>4. CASE UNCHANGED <<rxWriteNonce, readNonce, toClient, writeNonce, rxReadNonce, toReceiver>>
  BY <1>4 DEF Numbered
<1>5. CASE Respond
  <2>1. CASE UNCHANGED <<toReceiver, writeNonce>>
    BY <1>4, <1>5, <2>1, RespondStep
  <2>2. CASE ~UNCHANGED <<toReceiver, writeNonce>>
    <3>1. /\ toReceiver' = Append(toReceiver, Ack) /\ writeNonce' = writeNonce + 1
          /\ UNCHANGED <<rxWriteNonce, readNonce, toClient, rxReadNonce>>
      BY <1>5, <2>2, RespondStep
    <3>2. Ack.key = ClientKeys.write /\ Ack.nonce = writeNonce
      BY DEF Ack
    <3>3. /\ Len(toReceiver') = Len(toReceiver) + 1 /\ DOMAIN toReceiver' = 1..(Len(toReceiver) + 1)
          /\ \A i \in 1..Len(toReceiver) : toReceiver'[i] = toReceiver[i]
          /\ toReceiver'[Len(toReceiver) + 1] = Ack
      BY <3>1, AppendAny, <1>0
    <3>4. ASSUME NEW i \in 1..(Len(toReceiver) + 1)
          PROVE  toReceiver'[i].key = ClientKeys.write /\ toReceiver'[i].nonce = rxReadNonce + i - 1
      <4>1. CASE i \in 1..Len(toReceiver)
        BY <3>3, <4>1, Indices DEF Numbered
      <4>2. CASE i = Len(toReceiver) + 1
        <5>1. writeNonce = rxReadNonce + i - 1
          BY <1>0, <4>2, Indices DEF Numbered
        <5> QED
          BY <3>2, <3>3, <4>2, <5>1
      <4> QED
        BY <4>1, <4>2, Indices
    <3>5. writeNonce' = rxReadNonce' + Len(toReceiver')
      BY <1>0, <3>1, <3>3, Indices DEF Numbered
    <3> QED
      BY <3>1, <3>3, <3>4, <3>5 DEF Numbered
  <2> QED
    BY <2>1, <2>2
<1>6. CASE \/ Request \/ Garble \/ HangUp \/ ReadEnds \/ ReadLine \/ ReadHeaders \/ SkipBody
           \/ Cancel \/ Watch \/ SessionCloses \/ UNCHANGED vars
  BY <1>4, <1>6 DEF Request, Garble, HangUp, ReadEnds, ReadLine, ReadHeaders, SkipBody, Cancel, Watch,
                    SessionCloses, vars
<1> QED
  BY <1>1, <1>2, <1>3, <1>5, <1>6 DEF Next, Receiver, Serve

\* What the server takes next follows where it stands.
LEMMA NextUnit ==
  ASSUME States, NothingSkipped, pc # "done", readBuf # <<>>
  PROVE  /\ Head(readBuf) = readBuf[1] /\ readBuf[1] \in Units /\ Link(Parsed, readBuf[1])
         /\ Tail(readBuf) \in Seq(Units) /\ Joined(Behind(readBuf[1]), Tail(readBuf))
         /\ EndOf(Tail(readBuf), Behind(readBuf[1])) = EndOf(readBuf, Parsed)
<1>1. readBuf \in Seq(Units) /\ Joined(Parsed, readBuf)
  BY DEF States, NothingSkipped
<1> HIDE DEF Parsed
<1> QED
  BY <1>1, JoinedFirst

\* The line and the headers that are read next are those of the next request.
LEMMA NextHeader ==
  ASSUME States, Phases, NothingSkipped, pc \in {"line", "header"}, readBuf # <<>>
  PROVE  /\ readBuf[1].kind \in {IF pc = "line" THEN "line" ELSE "head", "bad"}
         /\ readBuf[1].cseq = Len(answered) + Len(toReceiver) + 1
         /\ readBuf[1].kind # "head" => readBuf[1].bodies = 0
<1>1. cseq = 0 /\ left = 0
  BY DEF Phases
<1>2. /\ Parsed.next = IF pc = "line" THEN "line" ELSE "head"
      /\ Parsed.cseq = IF pc = "line" THEN Done ELSE Done + 1
      /\ ~(Parsed.bodies > 0)
  BY <1>1 DEF Parsed, At
<1>3. Link(Parsed, readBuf[1])
  BY NextUnit
<1> HIDE DEF Parsed
<1> QED
  BY <1>2, <1>3 DEF Link, Done

LEMMA AcknowledgedStep ==
  ASSUME States, Phases, NothingSkipped, AcknowledgedInOrder, [Next]_vars
  PROVE  AcknowledgedInOrder'
<1> USE DEF rxVars, wireVars, nonceVars, serverVars
<1>0. answered \in Seq(1..MaxRequests) /\ toReceiver \in Seq(Acks)
  BY DEF States
<1>1. CASE UNCHANGED <<answered, toReceiver>> /\ (cseq' = cseq \/ cseq' = 0)
  BY <1>1 DEF AcknowledgedInOrder
<1>2. CASE Acknowledged
  <2>1. /\ toReceiver # <<>> /\ toReceiver' = Tail(toReceiver) /\ cseq' = cseq
        /\ answered' = Append(answered, Head(toReceiver).cseq)
    BY <1>2 DEF Acknowledged
  <2>2. /\ Len(toReceiver) \in Nat \ {0} /\ Len(toReceiver') = Len(toReceiver) - 1
        /\ DOMAIN toReceiver' = 1..(Len(toReceiver) - 1) /\ Head(toReceiver) = toReceiver[1]
        /\ \A i \in 1..(Len(toReceiver) - 1) : toReceiver'[i] = toReceiver[i + 1]
    BY <1>0, <2>1, HeadOf
  <2>3. /\ Len(answered') = Len(answered) + 1 /\ DOMAIN answered' = 1..(Len(answered) + 1)
        /\ \A i \in 1..Len(answered) : answered'[i] = answered[i]
        /\ answered'[Len(answered) + 1] = toReceiver[1].cseq
    BY <1>0, <2>1, <2>2, AppendAny
  <2>4. toReceiver[1].cseq = Len(answered) + 1
    BY <2>1, Indices DEF AcknowledgedInOrder
  <2>5. ASSUME NEW i \in 1..(Len(answered) + 1) PROVE answered'[i] = i
    BY <2>3, <2>4, Indices DEF AcknowledgedInOrder
  <2>6. ASSUME NEW i \in 1..(Len(toReceiver) - 1)
        PROVE  toReceiver'[i].cseq = Len(answered') + i
    <3>1. i + 1 \in DOMAIN toReceiver /\ i \in Nat
      BY <2>2, Indices
    <3>2. toReceiver[i + 1].cseq = Len(answered) + (i + 1)
      BY <3>1 DEF AcknowledgedInOrder
    <3> QED
      BY <2>2, <2>3, <3>1, <3>2, Indices
  <2>7. Len(answered') + Len(toReceiver') = Len(answered) + Len(toReceiver)
    BY <2>2, <2>3, Indices
  <2> QED
    BY <2>1, <2>2, <2>3, <2>5, <2>6, <2>7 DEF AcknowledgedInOrder
<1>3. CASE Respond
  <2>1. CASE UNCHANGED toReceiver
    BY <1>1, <1>3, <2>1, RespondStep DEF Ended
  <2>2. CASE ~UNCHANGED toReceiver
    <3>1. toReceiver' = Append(toReceiver, Ack) /\ answered' = answered /\ cseq' = 0
      BY <1>3, <2>2, RespondStep
    <3>2. Ack.cseq = Len(answered) + Len(toReceiver) + 1
      BY <1>3, RespondStep DEF Ack, Phases, AcknowledgedInOrder
    <3>3. /\ Len(toReceiver') = Len(toReceiver) + 1 /\ DOMAIN toReceiver' = 1..(Len(toReceiver) + 1)
          /\ \A i \in 1..Len(toReceiver) : toReceiver'[i] = toReceiver[i]
          /\ toReceiver'[Len(toReceiver) + 1] = Ack
      BY <1>0, <3>1, AppendAny
    <3>4. ASSUME NEW i \in 1..(Len(toReceiver) + 1)
          PROVE  toReceiver'[i].cseq = Len(answered) + i
      <4>1. CASE i \in 1..Len(toReceiver)
        BY <3>3, <4>1, Indices DEF AcknowledgedInOrder
      <4>2. CASE i = Len(toReceiver) + 1
        BY <3>2, <3>3, <4>2, Indices
      <4> QED
        BY <4>1, <4>2, Indices
    <3> QED
      BY <3>1, <3>3, <3>4 DEF AcknowledgedInOrder
  <2> QED
    BY <2>1, <2>2
<1>4. CASE ReadHeaders
  <2>1. pc = "header" /\ readBuf # <<>> /\ UNCHANGED <<answered, toReceiver>>
    BY <1>4, ReadHeadersStep
  <2>2. CASE Ended
    BY <1>1, <2>1, <2>2 DEF Ended
  <2>3. CASE ~Ended
    <3>1. Head(readBuf).kind = "head" /\ cseq' = Head(readBuf).cseq
      BY <1>4, <2>3, ReadHeadersStep
    <3>2. cseq' = Len(answered) + Len(toReceiver) + 1
      BY <2>1, <3>1, NextUnit, NextHeader
    <3> QED
      BY <2>1, <3>2 DEF AcknowledgedInOrder
  <2> QED
    BY <2>2, <2>3
<1>5. CASE Read
  BY <1>1, <1>5, ReadStep DEF Takes, Ended
<1>6. CASE \/ Request \/ Garble \/ Frame \/ HangUp \/ ReadEnds \/ ReadLine \/ SkipBody
           \/ Cancel \/ Watch \/ SessionCloses \/ UNCHANGED vars
  BY <1>1, <1>6, ReadEndsStep, ReadLineStep
     DEF Request, Garble, Frame, HangUp, SkipBody, Cancel, Watch, SessionCloses, vars, Ended
<1> QED
  BY <1>2, <1>3, <1>4, <1>5, <1>6 DEF Next, Receiver, Serve

-----------------------------------------------------------------------------
(* Nothing is skipped                                                      *)

\* Frames go as far as they did when what is before them does.
LEMMA BeforeSame ==
  ASSUME States, Numbered, toClient' = toClient, EndOf(readBuf', Parsed') = EndOf(readBuf, Parsed)
  PROVE  /\ \A i \in 1..(Len(toClient) + 1) : Before(i)' = Before(i)
         /\ Framed' = Framed
<1>1. ASSUME NEW i \in 1..(Len(toClient) + 1) PROVE Before(i)' = Before(i)
  <2>1. CASE i = 1
    BY <2>1 DEF Before
  <2>2. CASE i # 1
    <3>1. i - 1 \in DOMAIN toClient
      BY <2>2, Indices
    <3>2. toClient[i - 1].units # <<>>
      BY <3>1 DEF Numbered
    <3> QED
      BY <2>2, <3>2 DEF Before, EndOf
  <2> QED
    BY <2>1, <2>2
<1>2. Len(toClient) + 1 \in 1..(Len(toClient) + 1)
  BY Indices
<1> QED
  BY <1>1, <1>2 DEF Framed

\* What is left when only the server moves on in what it has read.
LEMMA ServerMoves ==
  ASSUME States, Numbered, NothingSkipped, pc # "done", Joined(Parsed', readBuf'),
         EndOf(readBuf', Parsed') = EndOf(readBuf, Parsed),
         UNCHANGED <<toClient, outbox, sent, sane>>
  PROVE  NothingSkipped'
<1>1. /\ \A i \in 1..(Len(toClient) + 1) : Before(i)' = Before(i)
      /\ Framed' = Framed
  BY BeforeSame
<1>2. \A i \in DOMAIN toClient : Joined(Before(i)', toClient'[i].units)
  BY <1>1, Indices DEF NothingSkipped
<1>3. Joined(Framed', outbox') /\ Written' = Written
  BY <1>1 DEF NothingSkipped, Written
<1> QED
  BY <1>2, <1>3 DEF NothingSkipped

LEMMA ReadLineSkips ==
  ASSUME States, Phases, Numbered, NothingSkipped, ReadLine
  PROVE  NothingSkipped'
<1>1. CASE Ended
  BY <1>1 DEF Ended, NothingSkipped
<1>2. CASE ~Ended
  <2>1. /\ pc = "line" /\ readBuf # <<>> /\ Head(readBuf).kind = "line"
        /\ pc' = "header" /\ readBuf' = Tail(readBuf)
        /\ UNCHANGED <<toClient, outbox, sent, sane, answered, toReceiver>>
    BY <1>2, ReadLineStep DEF rxVars, wireVars
  <2>2. /\ Head(readBuf) = readBuf[1]
        /\ Joined(Behind(readBuf[1]), Tail(readBuf))
        /\ EndOf(Tail(readBuf), Behind(readBuf[1])) = EndOf(readBuf, Parsed)
    BY <2>1, NextUnit
  <2>3. readBuf[1].cseq = Done + 1 /\ readBuf[1].bodies = 0
    BY <2>1, <2>2, NextHeader DEF Done
  <2>4. Parsed' = Behind(readBuf[1])
    BY <2>1, <2>2, <2>3 DEF Parsed, Done, Behind, Follows
  <2> QED
    BY <2>1, <2>2, <2>4, ServerMoves
<1> QED
  BY <1>1, <1>2

LEMMA ReadHeadersSkips ==
  ASSUME States, Phases, Numbered, NothingSkipped, ReadHeaders
  PROVE  NothingSkipped'
<1>1. CASE Ended
  BY <1>1 DEF Ended, NothingSkipped
<1>2. CASE ~Ended
  <2>1. /\ pc = "header" /\ readBuf # <<>> /\ Head(readBuf).kind = "head"
        /\ cseq' = Head(readBuf).cseq /\ left' = Head(readBuf).bodies /\ readBuf' = Tail(readBuf)
        /\ UNCHANGED <<toClient, outbox, sent, sane, answered, toReceiver>>
    BY <1>2, ReadHeadersStep DEF rxVars, wireVars
  <2>2. /\ Head(readBuf) = readBuf[1] /\ readBuf[1] \in Units
        /\ Joined(Behind(readBuf[1]), Tail(readBuf))
        /\ EndOf(Tail(readBuf), Behind(readBuf[1])) = EndOf(readBuf, Parsed)
    BY <2>1, NextUnit
  <2>3. cseq' # 0 /\ pc' # "header"
    BY <1>2, <2>1, <2>2, ReadHeadersStep, BoundAssumption DEF Units
  <2>4. Parsed' = Behind(readBuf[1])
    BY <2>1, <2>2, <2>3 DEF Parsed, Behind, Follows
  <2> QED
    BY <2>1, <2>2, <2>4, ServerMoves
<1> QED
  BY <1>1, <1>2

LEMMA SkipBodySkips ==
  ASSUME States, Phases, Numbered, NothingSkipped, SkipBody
  PROVE  NothingSkipped'
<1>1. /\ pc = "body" /\ pc' # "header" /\ readBuf # <<>> /\ left' = left - 1 /\ readBuf' = Tail(readBuf)
      /\ UNCHANGED <<cseq, toClient, outbox, sent, sane, answered, toReceiver>>
  BY DEF SkipBody, rxVars, wireVars
<1>2. /\ Link(Parsed, readBuf[1]) /\ Joined(Behind(readBuf[1]), Tail(readBuf))
      /\ EndOf(Tail(readBuf), Behind(readBuf[1])) = EndOf(readBuf, Parsed)
  BY <1>1, NextUnit
<1>3. left \in Nat /\ left > 0 /\ cseq # 0
  BY <1>1, BoundAssumption DEF States, Phases
<1>4. readBuf[1] = Unit("body", cseq, left - 1)
  BY <1>1, <1>2, <1>3 DEF Link, Parsed, At
<1>5. Parsed' = Behind(readBuf[1])
  <2>1. readBuf[1].cseq = cseq /\ readBuf[1].bodies = left' /\ readBuf[1].kind = "body"
    BY <1>1, <1>4 DEF Unit
  <2>2. Parsed' = At(cseq, left', "line")
    BY <1>1, <1>3 DEF Parsed
  <2> QED
    BY <2>1, <2>2 DEF Behind, Follows
<1> QED
  BY <1>1, <1>2, <1>5, ServerMoves

\* What the receiver writes is joined on to what it has written.
LEMMA WriteSkips ==
  ASSUME States, Numbered, NothingSkipped, NEW t \in Seq(Units), outbox' = outbox \o t,
         pc # "done" => /\ Joined(Written, t)
                        /\ EndOf(t, Written).cseq = sent' /\ EndOf(t, Written).bodies = 0
                        /\ sane' => EndOf(t, Written).next = "line",
         UNCHANGED <<pc, cseq, left, answered, toReceiver, readBuf, toClient>>
  PROVE  NothingSkipped'
<1>1. CASE pc = "done"
  BY <1>1 DEF NothingSkipped
<1>2. CASE pc # "done"
  <2>1. Parsed' = Parsed
    BY DEF Parsed, Done
  <2>2. (\A i \in 1..(Len(toClient) + 1) : Before(i)' = Before(i)) /\ Framed' = Framed
    BY <2>1, BeforeSame
  <2>3. outbox \in Seq(Units) /\ Joined(Framed, outbox) /\ Written = EndOf(outbox, Framed)
    BY <1>2 DEF States, NothingSkipped, Written
  <2>4. Joined(Framed, outbox \o t) /\ EndOf(outbox \o t, Framed) = EndOf(t, Written)
    <3> HIDE DEF Framed
    <3> QED
      BY <1>2, <2>3, JoinedConcat
  <2>5. Joined(Framed', outbox') /\ Written' = EndOf(t, Written)
    BY <2>2, <2>4 DEF Written
  <2>6. \A i \in DOMAIN toClient : Joined(Before(i)', toClient'[i].units)
    BY <1>2, <2>2, Indices DEF NothingSkipped
  <2>7. Joined(Parsed', readBuf')
    BY <1>2, <2>1 DEF NothingSkipped
  <2> QED
    BY <1>2, <2>5, <2>6, <2>7 DEF NothingSkipped
<1> QED
  BY <1>1, <1>2

\* Where the receiver has got to, and that it may go on.
LEMMA WrittenAt ==
  ASSUME NothingSkipped, pc # "done", sane = TRUE
  PROVE  Written = At(sent, 0, "line")
<1>1. Written.cseq = sent /\ Written.bodies = 0 /\ Written.next = "line"
  BY DEF NothingSkipped
<1>2. \E n, b, g : Written = At(n, b, g)
  BY DEF Written, Framed, Before, EndOf, Behind, Parsed, Done
<1>3. PICK n, b, g : Written = At(n, b, g)
  BY <1>2
<1> QED
  BY <1>1, <1>3 DEF At

LEMMA RequestSkips ==
  ASSUME States, Numbered, NothingSkipped, Request
  PROVE  NothingSkipped'
<1>1. PICK b \in 0..MaxBody : outbox' = outbox \o RequestUnits(sent + 1, b)
  BY DEF Request
<1>2. /\ sent + 1 \in 1..MaxRequests /\ sent' = sent + 1 /\ (sent + 1) - 1 = sent /\ sane
           /\ sane' = sane
      /\ UNCHANGED <<pc, cseq, left, answered, toReceiver, readBuf, toClient>>
  BY BoundAssumption DEF Request, States, serverVars, wireVars
<1> DEFINE t == RequestUnits(sent + 1, b)
           p == At((sent + 1) - 1, 0, "line")
<1>3. t \in Seq(Units) /\ Joined(p, t) /\ EndOf(t, p) = At(sent + 1, 0, "line")
  BY <1>2, RequestJoined
<1>4. pc # "done" => Written = p
  BY <1>2, WrittenAt
<1> HIDE DEF t, p
<1>5. pc # "done" => /\ Joined(Written, t)
                     /\ EndOf(t, Written).cseq = sent' /\ EndOf(t, Written).bodies = 0
                     /\ sane' => EndOf(t, Written).next = "line"
  BY <1>2, <1>3, <1>4 DEF At
<1>6. outbox' = outbox \o t
  BY <1>1 DEF t
<1> QED
  BY <1>2, <1>3, <1>5, <1>6, WriteSkips

LEMMA GarbleSkips ==
  ASSUME States, Numbered, NothingSkipped, Garble
  PROVE  NothingSkipped'
<1>1. PICK line \in {<<>>, <<Unit("line", sent + 1, 0)>>} :
        outbox' = outbox \o Append(line, Unit("bad", sent + 1, 0))
  BY DEF Garble
<1>2. /\ sent + 1 \in 1..MaxRequests /\ sent' = sent + 1 /\ sane /\ ~sane'
      /\ (sent + 1) - 1 = sent
      /\ UNCHANGED <<pc, cseq, left, answered, toReceiver, readBuf, toClient>>
  BY BoundAssumption DEF Garble, States, serverVars, wireVars
<1> DEFINE u == Unit("bad", sent + 1, 0)
           p == At((sent + 1) - 1, 0, "line")
<1>3. line \in Seq(Units) /\ u \in Units
  BY <1>2, GarbleUnits
<1>4. Joined(p, line) /\ EndOf(line, p) \in {p, At(sent + 1, 0, "head")}
  <2>1. CASE line = <<>>
    BY <2>1, EmptySeq DEF Joined, EndOf
  <2>2. CASE line = <<Unit("line", sent + 1, 0)>>
    BY <1>2, <2>2, LineJoined
  <2> QED
    BY <2>1, <2>2
<1>5. Link(EndOf(line, p), u)
  <2>1. u.kind = "bad" /\ u.cseq = sent + 1 /\ u.bodies = 0
    BY DEF Unit
  <2>2. Link(p, u) /\ Link(At(sent + 1, 0, "head"), u)
    BY <1>2, <2>1 DEF Link, At
  <2> QED
    BY <1>4, <2>2
<1> DEFINE t == line \o <<u>>
<1>6. Append(line, u) = t
  BY <1>3, AppendIsConcat
<1>7. t \in Seq(Units) /\ Joined(p, t) /\ EndOf(t, p) = Behind(u)
  <2> HIDE DEF u, p
  <2> DEFINE bad == <<u>>
             q == EndOf(line, p)
  <2>1. bad \in Seq(Units) /\ Joined(q, bad) /\ EndOf(bad, q) = Behind(u)
    BY <1>3, <1>5, OneJoined
  <2> HIDE DEF bad
  <2> QED
    BY <1>3, <1>4, <2>1, JoinedConcat DEF bad
<1>8. Behind(u).cseq = sent + 1 /\ Behind(u).bodies = 0
  BY DEF Behind, At, Unit
<1>9. pc # "done" => Written = p
  BY <1>2, WrittenAt
<1>10. outbox' = outbox \o t
  BY <1>1, <1>6
<1> HIDE DEF t, p, u
<1>11. pc # "done" => /\ Joined(Written, t)
                      /\ EndOf(t, Written).cseq = sent' /\ EndOf(t, Written).bodies = 0
  BY <1>2, <1>7, <1>8, <1>9
<1> QED
  BY <1>2, <1>7, <1>10, <1>11, WriteSkips

\* A frame takes the first of what was written.
LEMMA FrameSkips ==
  ASSUME States, Numbered, NothingSkipped, Frame
  PROVE  NothingSkipped'
<1>1. CASE pc = "done"
  BY <1>1 DEF Frame, NothingSkipped, serverVars
<1>2. CASE pc # "done"
  <2>1. PICK n \in 1..FrameSize :
          /\ n <= Len(outbox)
          /\ toClient' = Append(toClient, [key |-> "Events-Write", nonce |-> rxWriteNonce,
                                           units |-> SubSeq(outbox, 1, n)])
          /\ outbox' = SubSeq(outbox, n + 1, Len(outbox))
    BY DEF Frame
  <2> DEFINE a == SubSeq(outbox, 1, n)
             f == [key |-> "Events-Write", nonce |-> rxWriteNonce, units |-> a]
             m == Len(toClient)
  <2>2. UNCHANGED <<pc, cseq, left, answered, toReceiver, readBuf, sent, sane>>
    BY DEF Frame, serverVars
  <2>3. n \in 1..Len(outbox) /\ outbox \in Seq(Units) /\ Joined(Framed, outbox)
    BY <1>2, <2>1, LenProperties, BoundAssumption DEF States, NothingSkipped
  <2>4. /\ a # <<>> /\ Joined(Framed, a) /\ Joined(EndOf(a, Framed), outbox')
        /\ EndOf(outbox', EndOf(a, Framed)) = Written
    <3> DEFINE p == Framed
    <3>1. Joined(p, outbox) /\ Written = EndOf(outbox, p)
      BY <2>3 DEF Written
    <3> HIDE DEF p
    <3>2. /\ a # <<>> /\ Joined(p, a) /\ Joined(EndOf(a, p), SubSeq(outbox, n + 1, Len(outbox)))
          /\ EndOf(SubSeq(outbox, n + 1, Len(outbox)), EndOf(a, p)) = EndOf(outbox, p)
      BY <2>3, <3>1, JoinedCut
    <3> QED
      BY <2>1, <3>1, <3>2 DEF p
  <2>5. /\ m \in Nat /\ Len(toClient') = m + 1 /\ DOMAIN toClient' = 1..(m + 1)
        /\ \A i \in 1..m : toClient'[i] = toClient[i]
        /\ toClient'[m + 1] = f
    BY <2>1, AppendAny, Indices DEF States
  <2>6. Parsed' = Parsed
    BY <2>2 DEF Parsed, Done
  <2>7. ASSUME NEW i \in 1..(m + 1) PROVE Before(i)' = Before(i)
    <3>1. CASE i = 1
      BY <2>2, <2>6, <3>1 DEF Before
    <3>2. CASE i # 1
      <4>1. i - 1 \in 1..m /\ toClient'[i - 1] = toClient[i - 1]
        BY <2>5, <3>2
      <4> QED
        BY <2>6, <3>2, <4>1 DEF Before
    <3> QED
      BY <3>1, <3>2
  <2>8. m + 1 \in 1..(m + 1) /\ (m + 1) + 1 # 1 /\ ((m + 1) + 1) - 1 = m + 1
    BY <2>5
  <2>9. ASSUME NEW i \in 1..(m + 1), i = m + 1 PROVE Before(i)' = Framed
    BY <2>7, <2>9 DEF Framed
  <2>10. Framed' = EndOf(a, Framed)
    <3>1. Framed' = EndOf(toClient'[m + 1].units, Parsed')
      BY <2>5, <2>8 DEF Framed, Before
    <3>2. toClient'[m + 1].units = a
      BY <2>5
    <3> QED
      BY <2>4, <3>1, <3>2 DEF EndOf
  <2>11. Joined(Framed', outbox') /\ Written' = Written
    BY <2>4, <2>10 DEF Written
  <2>12. ASSUME NEW i \in 1..(m + 1) PROVE Joined(Before(i)', toClient'[i].units)
    <3>1. CASE i \in 1..m
      BY <1>2, <2>5, <2>7, <3>1, Indices DEF NothingSkipped
    <3>2. CASE i = m + 1
      <4>1. toClient'[i].units = a /\ Before(i)' = Framed
        BY <2>5, <2>9, <3>2
      <4> QED
        BY <2>4, <4>1
    <3> QED
      BY <2>5, <3>1, <3>2
  <2>13. Joined(Parsed', readBuf')
    BY <1>2, <2>2, <2>6 DEF NothingSkipped
  <2>14. \A i \in DOMAIN toClient' : Joined(Before(i)', toClient'[i].units)
    BY <2>5, <2>12
  <2> QED
    BY <1>2, <2>2, <2>11, <2>13, <2>14 DEF NothingSkipped
<1> QED
  BY <1>1, <1>2

\* The frame that is read is the one that goes on where the server stands.
LEMMA ReadSkips ==
  ASSUME States, Numbered, NothingSkipped, Read
  PROVE  NothingSkipped'
<1>1. /\ pc # "done" /\ readBuf = <<>> /\ toClient # <<>> /\ toClient' = Tail(toClient)
      /\ readBuf' = Head(toClient).units
      /\ UNCHANGED <<pc, cseq, left, answered, toReceiver, outbox, sent, sane>>
  BY ReadTakes, ReadStep DEF Takes, rxVars
<1> DEFINE m == Len(toClient)
<1>2. /\ m \in Nat \ {0} /\ Len(toClient') = m - 1 /\ DOMAIN toClient' = 1..(m - 1)
      /\ Head(toClient) = toClient[1] /\ \A i \in 1..(m - 1) : toClient'[i] = toClient[i + 1]
  BY <1>1, HeadOf DEF States
<1>3. Parsed' = Parsed /\ Before(1) = Parsed
  BY <1>1 DEF Parsed, Done, Before, EndOf
<1>4. 1 \in DOMAIN toClient /\ readBuf' = toClient[1].units /\ readBuf' # <<>>
  BY <1>1, <1>2, Indices DEF Numbered
<1>5. Joined(Parsed', readBuf')
  <2>1. Joined(Before(1), toClient[1].units)
    BY <1>1, <1>4 DEF NothingSkipped
  <2> QED
    BY <1>3, <1>4, <2>1
<1>6. ASSUME NEW i \in 1..m PROVE Before(i)' = Before(i + 1)
  <2>1. i \in Nat /\ i + 1 # 1 /\ (i + 1) - 1 = i
    BY <1>2
  <2>2. Before(i + 1) = EndOf(toClient[i].units, Parsed)
    BY <2>1 DEF Before
  <2>3. CASE i = 1
    BY <1>3, <1>4, <2>2, <2>3 DEF Before
  <2>4. CASE i # 1
    <3>1. i - 1 \in 1..(m - 1) /\ (i - 1) + 1 = i
      BY <1>2, <2>1, <2>4
    <3>2. toClient'[i - 1] = toClient[i]
      BY <1>2, <3>1
    <3> QED
      BY <1>3, <2>2, <2>4, <3>2 DEF Before
  <2> QED
    BY <2>3, <2>4
<1>7. Framed' = Framed
  <2>1. m \in 1..m /\ (m - 1) + 1 = m
    BY <1>2
  <2> QED
    BY <1>2, <1>6, <2>1 DEF Framed
<1>8. ASSUME NEW i \in 1..(m - 1) PROVE Joined(Before(i)', toClient'[i].units)
  <2>1. i \in 1..m /\ i + 1 \in DOMAIN toClient
    BY <1>2, Indices
  <2>2. Joined(Before(i + 1), toClient[i + 1].units)
    BY <1>1, <2>1 DEF NothingSkipped
  <2> QED
    BY <1>2, <1>6, <2>1, <2>2
<1>9. Joined(Framed', outbox') /\ Written' = Written
  BY <1>1, <1>7 DEF NothingSkipped, Written
<1> QED
  BY <1>1, <1>2, <1>5, <1>8, <1>9 DEF NothingSkipped

LEMMA SkippedStep ==
  ASSUME States, Phases, Numbered, AcknowledgedInOrder, NothingSkipped, [Next]_vars
  PROVE  NothingSkipped'
<1> USE DEF rxVars, wireVars, nonceVars, serverVars
<1>1. ASSUME Ended PROVE NothingSkipped'
  BY <1>1 DEF Ended, NothingSkipped
<1>2. ASSUME Parsed' = Parsed, UNCHANGED <<readBuf, toClient, outbox, sent, sane>>,
             pc' # "done" => pc # "done"
      PROVE  NothingSkipped'
  <2>1. CASE pc' = "done"
    BY <2>1 DEF NothingSkipped
  <2>2. CASE pc' # "done"
    <3>1. Joined(Parsed', readBuf') /\ EndOf(readBuf', Parsed') = EndOf(readBuf, Parsed)
      BY <1>2, <2>2 DEF NothingSkipped
    <3> QED
      BY <1>2, <2>2, <3>1, ServerMoves
  <2> QED
    BY <2>1, <2>2
<1>3. CASE Acknowledged
  <2>1. /\ Len(answered') = Len(answered) + 1 /\ Len(toReceiver') = Len(toReceiver) - 1
        /\ UNCHANGED <<cseq, left, pc, readBuf, toClient, outbox, sent, sane>>
    <3>1. /\ toReceiver # <<>> /\ toReceiver' = Tail(toReceiver)
          /\ answered' = Append(answered, Head(toReceiver).cseq)
          /\ UNCHANGED <<cseq, left, pc, readBuf, toClient, outbox, sent, sane>>
      BY <1>3 DEF Acknowledged
    <3> QED
      BY <3>1, HeadOf, AppendAny DEF States
  <2>2. Len(answered') + Len(toReceiver') = Len(answered) + Len(toReceiver)
    BY <2>1, Indices
  <2>3. Parsed' = Parsed
    BY <2>1, <2>2 DEF Parsed, Done
  <2> QED
    BY <1>2, <2>1, <2>3
<1>4. CASE Respond
  <2>1. CASE Ended
    BY <1>1, <2>1
  <2>2. CASE ~Ended
    <3>1. /\ pc = "answer" /\ cseq' = 0 /\ pc' = "line" /\ toReceiver' = Append(toReceiver, Ack)
          /\ UNCHANGED <<answered, left, readBuf, toClient, outbox, sent, sane>>
      BY <1>4, <2>2, RespondStep
    <3>2. Len(toReceiver') = Len(toReceiver) + 1
      BY <3>1, AppendAny DEF States
    <3>3. cseq # 0 /\ Len(answered') + Len(toReceiver') = cseq
      BY <3>1, <3>2, Indices DEF Phases, AcknowledgedInOrder
    <3>4. Parsed' = Parsed
      BY <3>1, <3>3 DEF Parsed, Done
    <3> QED
      BY <1>2, <3>1, <3>4
  <2> QED
    BY <2>1, <2>2
<1>5. CASE HangUp \/ Cancel \/ Watch \/ SessionCloses \/ UNCHANGED vars
  <2>1. UNCHANGED <<cseq, left, pc, answered, toReceiver, readBuf, toClient, outbox, sent, sane>>
    BY <1>5 DEF HangUp, Cancel, Watch, SessionCloses, vars
  <2>2. Parsed' = Parsed
    BY <2>1 DEF Parsed, Done
  <2> QED
    BY <1>2, <2>1, <2>2
<1>6. CASE ReadEnds
  BY <1>1, <1>6, ReadEndsStep
<1> QED
  BY <1>3, <1>4, <1>5, <1>6, RequestSkips, GarbleSkips, FrameSkips, ReadSkips, ReadLineSkips,
     ReadHeadersSkips, SkipBodySkips DEF Next, Receiver, Serve

-----------------------------------------------------------------------------
(* Why the server ends                                                     *)

\* Nothing follows what is no request: the receiver has given up the protocol.
LEMMA BadIsLast ==
  ASSUME States, Numbered, NothingSkipped, pc # "done", readBuf # <<>>,
         readBuf[1].kind = "bad", readBuf[1].bodies = 0
  PROVE  ~sane
<1> DEFINE p == Behind(readBuf[1])
<1>1. p.next = "nothing" /\ ~(p.bodies > 0)
  BY DEF Behind, Follows, At
<1>2. /\ Tail(readBuf) \in Seq(Units) /\ Joined(p, Tail(readBuf))
      /\ EndOf(Tail(readBuf), p) = EndOf(readBuf, Parsed)
  BY NextUnit
<1> HIDE DEF p
<1>3. \A units : Joined(p, units) => units = <<>>
  BY <1>1 DEF Joined, Link
<1>4. Before(1) = p
  BY <1>2, <1>3 DEF EndOf, Before
<1>5. toClient = <<>>
  <2>1. ASSUME toClient # <<>> PROVE FALSE
    <3>1. 1 \in DOMAIN toClient
      BY <2>1, Indices
    <3> QED
      BY <1>3, <1>4, <3>1 DEF NothingSkipped, Numbered
  <2> QED
    BY <2>1
<1>6. Framed = p
  BY <1>4, <1>5, Empty DEF Framed
<1>7. outbox = <<>>
  BY <1>3, <1>6 DEF NothingSkipped
<1> QED
  BY <1>1, <1>6, <1>7 DEF Written, EndOf, NothingSkipped

LEMMA EndsStep ==
  ASSUME Flags, States, Phases, Numbered, NothingSkipped, EndsWithReason, [Next]_vars
  PROVE  EndsWithReason'
<1> USE DEF EndsWithReason, rxVars, wireVars, serverVars
<1>1. CASE Request \/ Garble \/ Frame \/ Acknowledged \/ HangUp \/ SkipBody
  BY <1>1 DEF Request, Garble, Frame, Acknowledged, HangUp, SkipBody
<1>2. CASE Read
  BY <1>2, ReadTakes, ReadStep DEF Takes
<1>3. CASE ReadEnds
  BY <1>3, ReadEndsStep DEF Ended
<1>4. CASE ReadHeaders
  <2>1. CASE Ended
    <3>1. ~sane
      <4>1. pc = "header" /\ readBuf # <<>> /\ readBuf' = <<>>
        BY <1>4, <2>1, ReadHeadersStep DEF Ended
      <4>2. Head(readBuf).kind # "head"
        BY <1>4, <2>1, <4>1, ReadHeadersStep DEF Ended
      <4>3. Head(readBuf) = readBuf[1]
        BY <4>1, NextUnit
      <4>4. readBuf[1].kind = "bad" /\ readBuf[1].bodies = 0
        BY <4>1, <4>2, <4>3, NextHeader
      <4> QED
        BY <4>1, <4>4, BadIsLast
    <3> QED
      BY <1>4, <2>1, <3>1, ReadHeadersStep DEF Ended
  <2>2. CASE ~Ended
    BY <1>4, <2>2, ReadHeadersStep
  <2> QED
    BY <2>1, <2>2
<1>4a. CASE ReadLine
  <2>1. CASE Ended
    <3>1. ~sane
      <4>1. pc = "line" /\ readBuf # <<>> /\ readBuf' = <<>>
        BY <1>4a, <2>1, ReadLineStep DEF Ended
      <4>2. Head(readBuf).kind # "line"
        BY <1>4a, <2>1, <4>1, ReadLineStep DEF Ended
      <4>3. Head(readBuf) = readBuf[1]
        BY <4>1, NextUnit
      <4>4. readBuf[1].kind = "bad" /\ readBuf[1].bodies = 0
        BY <4>1, <4>2, <4>3, NextHeader
      <4> QED
        BY <4>1, <4>4, BadIsLast
    <3> QED
      BY <1>4a, <2>1, <3>1, ReadLineStep DEF Ended
  <2>2. CASE ~Ended
    BY <1>4a, <2>2, ReadLineStep
  <2> QED
    BY <2>1, <2>2
<1>5. CASE Respond
  BY <1>5, RespondStep DEF Ended
<1>6. CASE Cancel \/ Watch \/ SessionCloses \/ UNCHANGED vars
  BY <1>6 DEF Cancel, Watch, SessionCloses, vars
<1> QED
  BY <1>1, <1>2, <1>3, <1>4, <1>4a, <1>5, <1>6 DEF Next, Receiver, Serve

-----------------------------------------------------------------------------
(* The theorems                                                            *)

LEMMA InitInv == Init => IInv
<1> SUFFICES ASSUME Init PROVE IInv
  OBVIOUS
<1> USE DEF Init
<1>1. Flags BY Zenon DEF Flags
<1>2. States BY Empty, BoundAssumption DEF States
<1>3. Phases BY DEF Phases
<1>4. Numbered /\ AcknowledgedInOrder BY Empty DEF Numbered, AcknowledgedInOrder
<1>5. EndsWithReason BY DEF EndsWithReason
<1>6. NothingSkipped
  <2>1. Parsed = At(0, 0, "line")
    BY Empty DEF Parsed, Done
  <2>2. Framed = At(0, 0, "line")
    BY <2>1, Empty DEF Framed, Before, EndOf
  <2>3. \A p : Joined(p, <<>>)
    BY Empty DEF Joined
  <2> QED
    BY <2>1, <2>2, <2>3, Empty DEF NothingSkipped, Written, EndOf, At
<1> QED
  BY <1>1, <1>2, <1>3, <1>4, <1>5, <1>6, TypeParts DEF IInv

LEMMA Inductive == ASSUME IInv, [Next]_vars PROVE IInv'
<1>1. /\ Flags /\ States /\ Phases /\ Numbered /\ AcknowledgedInOrder /\ NothingSkipped
      /\ EndsWithReason
  BY TypeParts DEF IInv
<1>2. TypeOK'
  <2>1. Flags' /\ States'
    BY <1>1, FlagsStep, StatesStep
  <2> QED
    BY <2>1 DEF TypeOK, Flags, States, Frames, Acks
<1> QED
  BY <1>1, <1>2, PhasesStep, NumberedStep, AcknowledgedStep, SkippedStep, EndsStep DEF IInv

\* The inductive invariant holds in every reachable state: no unit of any request
\* is skipped, no frame fails to open, however the receiver cuts its frames.
THEOREM Invariance == Spec => []IInv
  BY InitInv, Inductive, PTL DEF Spec

\* Every frame on its way opens at the other end, in both directions and after the
\* end of the server too.
THEOREM FramesOpen == Spec => []Numbered
<1>1. IInv => Numbered
  BY DEF IInv
<1> QED
  BY <1>1, Invariance, PTL

\* The receiver's requests are acknowledged in order, each once.
THEOREM InOrder == Spec => []AcknowledgedInOrder
<1>1. IInv => AcknowledgedInOrder
  BY DEF IInv
<1> QED
  BY <1>1, Invariance, PTL

\* As long as the server runs, it stands where what is still to come begins.
THEOREM Gapless == Spec => []NothingSkipped
<1>1. IInv => NothingSkipped
  BY DEF IInv
<1> QED
  BY <1>1, Invariance, PTL

\* The server ends only if the receiver breaks the protocol or hangs up, or the
\* session is over.
THEOREM NoEarlyEnd == Spec => []EndsWithReason
<1>1. IInv => EndsWithReason
  BY DEF IInv
<1> QED
  BY <1>1, Invariance, PTL
=============================================================================
