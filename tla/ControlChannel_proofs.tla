------------------------ MODULE ControlChannel_proofs ------------------------
(***************************************************************************)
(* ControlChannel hands every caller its own answer as long as no deadline *)
(* has passed, keeps the counters of both ends together whatever fails,    *)
(* and asks for no password that it has, for any number of callers, of     *)
(* requests and of the receiver's nonces, and for bodies of any length.    *)
(***************************************************************************)
EXTENDS ControlChannel, SequenceTheorems, TLAPS

\* TypeOK in parts, which different provers handle.
Flags == /\ encrypted \in BOOLEAN /\ open \in BOOLEAN /\ torn \in BOOLEAN
         /\ garbled \in BOOLEAN /\ expired \in BOOLEAN /\ protected \in BOOLEAN
         /\ rxEncrypted \in BOOLEAN

Points  == {"idle", "waiting", "sending", "header", "body"}
Answers == [of : Nat, status : Statuses, nonce : 0..NonceMax, left : Nat]

Counters ==
  /\ cseq \in Nat /\ encWriteNonce \in Nat /\ encReadNonce \in Nat
  /\ rxReadNonce \in Nat /\ rxWriteNonce \in Nat /\ challenged \in Nat
  /\ authChallenge \in 0..NonceMax /\ nonce \in 1..NonceMax

Callings ==
  /\ mu \in Callers \cup {NoCaller}
  /\ authPassword \in {"none", "right", "wrong"}
  /\ phase \in {"pairing", "raw", "session"}
  /\ pc \in [Callers -> Points] /\ kind \in [Callers -> Kinds]
  /\ result \in [Callers -> {"none", "own", "rejected", "other"}]
  /\ \A c \in Callers: pc[c] \in {"sending", "header", "body"} <=> mu = c
  /\ tries \in 0..2

Read  == answer \in Answers
Wires == auth \in Seq(1..NonceMax) /\ toReceiver \in Seq(SentRequests)
  /\ toClient \in Seq(AnswerUnits)

LEMMA TypeParts == TypeOK <=> Flags /\ Counters /\ Callings /\ Read /\ Wires
  BY DEF TypeOK, Flags, Counters, Callings, Read, Wires, Points, Answers

-----------------------------------------------------------------------------
(* How a call goes on                                                      *)

\* A challenge is answered, or the call ends and the pairing code has its result.
Retries(c) ==
  /\ answer.status = "401" /\ tries = 1 /\ kind[c] # "raw" /\ authPassword # "none"
  /\ authChallenge' = answer.nonce
  /\ pc' = [pc EXCEPT ![c] = "sending"]
  /\ auth' = RetryAuth(kind[c], answer.nonce) /\ answer' = NoAnswer /\ garbled' = FALSE
  /\ UNCHANGED <<mu, result, tries, encrypted, encWriteNonce, encReadNonce, phase, open>>

Ends(c, status, written) ==
  /\ mu' = NoCaller /\ pc' = [pc EXCEPT ![c] = "idle"]
  /\ auth' = <<>> /\ tries' = 0 /\ answer' = NoAnswer /\ garbled' = FALSE
  /\ Paired(c, status, written)

\* The answer is the result, or there is none.
Hands(c) ==
  /\ Ends(c, answer.status, encWriteNonce)
  /\ authChallenge' = IF answer.status = "401" /\ tries = 1 /\ kind[c] # "raw"
                      THEN answer.nonce ELSE authChallenge
  /\ answer.status = "401" => ~(tries = 1 /\ kind[c] # "raw" /\ authPassword # "none")
  /\ result' = [result EXCEPT ![c] = IF answer.of # cseq \/ garbled THEN "other"
                                     ELSE IF answer.status = "401" THEN "rejected" ELSE "own"]

Fails(c) ==
  /\ Ends(c, "failed", encWriteNonce)
  /\ result' = [result EXCEPT ![c] = "none"] /\ UNCHANGED authChallenge

LEMMA AnsweredStep == ASSUME NEW c, Answered(c) PROVE Retries(c) \/ Hands(c)
<1> DEFINE first == answer.status = "401" /\ tries = 1 /\ kind[c] # "raw"
<1>1. CASE first /\ authPassword # "none"
  BY <1>1 DEF Answered, Retries, Cached, cryptVars
<1>2. CASE ~(first /\ authPassword # "none")
  BY <1>2 DEF Answered, Hands, Ends, Return, Cached
<1> QED
  BY <1>1, <1>2

LEMMA GiveUpStep ==
  ASSUME NEW c, GiveUp(c)
  PROVE  (pc[c] = "body" /\ (Retries(c) \/ Hands(c))) \/ Fails(c)
  BY AnsweredStep DEF GiveUp, Fail, Fails, Ends, Return

LEMMA SendFailsStep ==
  ASSUME NEW c, SendFails(c)
  PROVE  pc[c] = "sending" /\ ~open /\ Ends(c, "failed", Written(c))
  BY DEF SendFails, Fail, Ends, Return

\* Whichever way a read ends: with the whole answer, in time or not.
Over(c) == Retries(c) \/ Hands(c) \/ Fails(c)

LEMMA OverStep ==
  ASSUME NEW c, ReadEnds(c) \/ Expire(c) \/ ReadFails(c)
  PROVE  /\ Over(c) /\ pc[c] \in {"header", "body"}
         /\ pc[c] = "header" => Fails(c)
         /\ UNCHANGED <<cseq, authPassword, kind, toReceiver, protected, nonce, rxEncrypted,
                        rxReadNonce, rxWriteNonce, challenged>>
<1>1. CASE ReadEnds(c)
  BY <1>1, AnsweredStep DEF ReadEnds, Over, wireVars, rxVars
<1>2. CASE Expire(c)
  BY <1>2, GiveUpStep DEF Expire, Over, rxVars
<1>3. CASE ReadFails(c)
  BY <1>3, GiveUpStep DEF ReadFails, Over, rxVars
<1> QED
  BY <1>1, <1>2, <1>3

\* What the receiver makes of a request.
Asks(r) == protected /\ ~Authorized(r)

Replies(r, status, n) ==
  /\ open /\ toReceiver # <<>> /\ r = Head(toReceiver) /\ Understood(r)
  /\ status = "401" <=> Asks(r)
  /\ nonce' \in {nonce, nonce + 1} /\ nonce' \in 1..NonceMax
  /\ nonce' = nonce + 1 => status = "ok"
  /\ challenged' = challenged + IF Asks(r) /\ r.kind = "rtsp" THEN 1 ELSE 0
  /\ toClient' = IF torn THEN <<>> ELSE toClient \o Units(r, status, n)
  /\ rxEncrypted' = (rxEncrypted \/ (r.kind = "verify" /\ status = "ok"))
  /\ rxReadNonce' = IF r.enc THEN rxReadNonce + r.frames ELSE 0
  /\ rxWriteNonce' = IF rxEncrypted THEN rxWriteNonce + n + 1 ELSE 0
  /\ toReceiver' = Tail(toReceiver)
  /\ UNCHANGED <<mu, cseq, authVars, cryptVars, phase, open, pc, kind, result, callVars,
                 readVars, torn, protected, expired>>

LEMMA AnswerStep ==
  ASSUME Answer, nonce \in 1..NonceMax
  PROVE  \E status \in {"ok", "401", "error"}, n \in Nat : Replies(Head(toReceiver), status, n)
<1> DEFINE r == Head(toReceiver)
<1> DEFINE Sends(status, n) ==
      /\ nonce' \in IF protected /\ status = "ok" /\ nonce < NonceMax THEN {nonce, nonce + 1}
           ELSE {nonce}
      /\ challenged' = challenged + IF Asks(r) /\ r.kind = "rtsp" THEN 1 ELSE 0
      /\ toClient' = IF torn THEN <<>> ELSE toClient \o Units(r, status, n)
      /\ rxEncrypted' = (rxEncrypted \/ (r.kind = "verify" /\ status = "ok"))
      /\ rxReadNonce' = IF r.enc THEN rxReadNonce + r.frames ELSE 0
      /\ rxWriteNonce' = IF rxEncrypted THEN rxWriteNonce + n + 1 ELSE 0
<1>1. PICK status \in (IF Asks(r) THEN {"401"} ELSE {"ok", "error"}) :
        \E n \in Bodies[status] : Sends(status, n)
  BY DEF Answer, Asks
<1>2. PICK n \in Bodies[status] : Sends(status, n)
  BY <1>1
<1>3. status \in {"ok", "401", "error"} /\ (status = "401" <=> Asks(r))
  BY <1>1
<1>4. n \in Nat
  BY <1>3, BodiesAssumption
<1>5. nonce' \in {nonce, nonce + 1} /\ nonce' \in 1..NonceMax
      /\ (nonce' = nonce + 1 => status = "ok")
  BY <1>2, <1>3, BoundAssumption
<1>6. /\ open /\ toReceiver # <<>> /\ Understood(r) /\ toReceiver' = Tail(toReceiver)
      /\ UNCHANGED <<mu, cseq, authVars, cryptVars, phase, open, pc, kind, result, callVars,
                     readVars, torn, protected, expired>>
  BY DEF Answer
<1>7. Replies(r, status, n)
  BY <1>2, <1>3, <1>5, <1>6 DEF Replies
<1> QED
  BY <1>3, <1>4, <1>7

-----------------------------------------------------------------------------
(* Types                                                                   *)

LEMMA FlagsStep == ASSUME Flags, [Next]_vars PROVE Flags'
<1> USE DEF Flags, authVars, cryptVars, callVars, readVars, wireVars, rxVars
<1>1. ASSUME NEW c \in Callers, Call(c) PROVE Flags'
  BY <1>1, Zenon DEF Call
<1>2. ASSUME NEW c \in Callers, Lock(c) PROVE Flags'
  BY <1>2, Zenon DEF Lock
<1>3. ASSUME NEW c \in Callers, Send(c) PROVE Flags'
  BY <1>3, Zenon DEF Send
<1>4. ASSUME NEW c \in Callers, SendFails(c) PROVE Flags'
  BY <1>4, Zenon DEF SendFails, Fail, Return, Paired
<1>5. ASSUME NEW c \in Callers, ReadHeader(c) PROVE Flags'
  BY <1>5, Zenon DEF ReadHeader
<1>6. ASSUME NEW c \in Callers, ReadBody(c) PROVE Flags'
  BY <1>6, Zenon DEF ReadBody
<1>7. ASSUME NEW c \in Callers, ReadEnds(c) PROVE Flags'
  BY <1>7, Zenon DEF ReadEnds, Answered, Return, Paired
<1>8. ASSUME NEW c \in Callers, Expire(c) PROVE Flags'
  BY <1>8, Zenon DEF Expire, GiveUp, Fail, Answered, Return, Paired
<1>9. ASSUME NEW c \in Callers, ReadFails(c) PROVE Flags'
  BY <1>9, Zenon DEF ReadFails, GiveUp, Fail, Answered, Return, Paired
<1>10. CASE Disconnect
  BY <1>10, Zenon DEF Disconnect
<1>11. CASE Answer
  BY <1>11, Zenon DEF Answer
<1>12. CASE Ignore
  BY <1>12, Zenon DEF Ignore
<1>13. CASE UNCHANGED vars
  BY <1>13, Zenon DEF vars
<1> QED
  BY <1>1, <1>2, <1>3, <1>4, <1>5, <1>6, <1>7, <1>8, <1>9, <1>10, <1>11, <1>12, <1>13 DEF Next, Step

\* What an end of a call, and a unit that is read, do to the counters.
LEMMA PairedCounters ==
  ASSUME Counters, NEW c, NEW status, NEW written \in Nat, Paired(c, status, written)
  PROVE  encWriteNonce' \in Nat /\ encReadNonce' \in Nat
  BY DEF Counters, Paired

\* A request is sealed with numbers.
LEMMA WrittenCounter ==
  ASSUME Counters, Callings, NEW c \in Callers
  PROVE  Written(c) \in Nat
<1>1. Frames[kind[c]] \in Nat
  BY FramesAssumption DEF Callings
<1> QED
  BY <1>1 DEF Written, Sealed, Counters

LEMMA OverCounters ==
  ASSUME Counters, Read, NEW c, Over(c)
  PROVE  encWriteNonce' \in Nat /\ encReadNonce' \in Nat /\ authChallenge' \in 0..NonceMax
<1>1. CASE Retries(c)
  BY <1>1 DEF Retries, Counters, Read, Answers
<1>2. CASE Hands(c)
  BY <1>2, PairedCounters DEF Hands, Ends, Counters, Read, Answers
<1>3. CASE Fails(c)
  BY <1>3, PairedCounters DEF Fails, Ends, Counters
<1> QED
  BY <1>1, <1>2, <1>3 DEF Over

LEMMA TakeCounters ==
  ASSUME Counters, Take
  PROVE  encReadNonce' \in Nat
  BY DEF Counters, Take

\* The head of a direction is one of its units.
LEMMA Heads ==
  ASSUME Wires
  PROVE  /\ toReceiver # <<>> => Head(toReceiver) \in SentRequests
              /\ Tail(toReceiver) \in Seq(SentRequests)
         /\ toClient # <<>> => Head(toClient) \in AnswerUnits /\ Tail(toClient) \in Seq(AnswerUnits)
  BY HeadTailProperties DEF Wires

LEMMA CountersStep ==
  ASSUME Flags, Counters, Callings, Read, Wires, [Next]_vars PROVE Counters'
<1> USE DEF authVars, cryptVars, callVars, readVars, wireVars, rxVars
<1>1. ASSUME NEW c \in Callers, Call(c) PROVE Counters'
  BY <1>1 DEF Call, Counters
<1>2. ASSUME NEW c \in Callers, Lock(c) PROVE Counters'
  BY <1>2 DEF Lock, Counters
<1>3. ASSUME NEW c \in Callers, Send(c) PROVE Counters'
  <2>1. encWriteNonce' \in Nat
    BY <1>3, WrittenCounter DEF Send
  <2> QED
    BY <1>3, <2>1 DEF Send, Counters
<1>4. ASSUME NEW c \in Callers, SendFails(c) PROVE Counters'
  <2>1. encWriteNonce' \in Nat /\ encReadNonce' \in Nat
    BY <1>4, SendFailsStep, WrittenCounter, PairedCounters DEF Ends
  <2> QED
    BY <1>4, <2>1 DEF SendFails, Counters
<1>5. ASSUME NEW c \in Callers, ReadHeader(c) PROVE Counters'
  BY <1>5, TakeCounters DEF ReadHeader, Counters
<1>6. ASSUME NEW c \in Callers, ReadBody(c) PROVE Counters'
  BY <1>6, TakeCounters DEF ReadBody, Counters
<1>7. ASSUME NEW c \in Callers, ReadEnds(c) PROVE Counters'
  BY <1>7, OverStep, OverCounters DEF ReadEnds, Counters
<1>8. ASSUME NEW c \in Callers, Expire(c) PROVE Counters'
  BY <1>8, OverStep, OverCounters DEF Expire, Counters
<1>9. ASSUME NEW c \in Callers, ReadFails(c) PROVE Counters'
  BY <1>9, OverStep, OverCounters DEF ReadFails, Counters
<1>10. CASE Disconnect
  BY <1>10 DEF Disconnect, Counters
<1>11. CASE Answer
  <2>1. Head(toReceiver).frames \in Nat
    BY <1>11, Heads DEF Answer, SentRequests
  <2>2. PICK status \in {"ok", "401", "error"}, n \in Nat : Replies(Head(toReceiver), status, n)
    BY <1>11, AnswerStep DEF Counters
  <2> QED
    BY <2>1, <2>2 DEF Replies, Counters
<1>12. CASE Ignore
  <2>1. Head(toReceiver).frames \in Nat
    BY <1>12, Heads DEF Ignore, SentRequests
  <2> QED
    BY <1>12, <2>1 DEF Ignore, Counters
<1>13. CASE UNCHANGED vars
  BY <1>13 DEF vars, Counters
<1> QED
  BY <1>1, <1>2, <1>3, <1>4, <1>5, <1>6, <1>7, <1>8, <1>9, <1>10, <1>11, <1>12, <1>13 DEF Next, Step

\* The points and the holder of c.mu.
LEMMA EndsCallings ==
  ASSUME Callings, NEW c \in Callers, NEW status, NEW written,
         pc[c] \in {"sending", "header", "body"}, Ends(c, status, written)
  PROVE  /\ mu' = NoCaller /\ phase' \in {"pairing", "raw", "session"} /\ tries' = 0
         /\ pc' \in [Callers -> Points]
         /\ \A d \in Callers: pc'[d] \in {"sending", "header", "body"} <=> mu' = d
<1>1. mu = c /\ \A d \in Callers : d # c => pc[d] \notin {"sending", "header", "body"}
  BY DEF Callings
<1>2. pc'[c] = "idle" /\ \A d \in Callers : d # c => pc'[d] = pc[d]
  BY DEF Ends, Callings
<1>3. pc' \in [Callers -> Points]
  BY DEF Ends, Callings, Points
<1>4. phase' \in {"pairing", "raw", "session"}
  BY DEF Ends, Paired, Callings
<1> QED
  BY <1>1, <1>2, <1>3, <1>4, CallerAssumption DEF Ends

LEMMA OverCallings ==
  ASSUME Callings, NEW c \in Callers, pc[c] \in {"header", "body"}, Over(c), UNCHANGED authPassword,
         UNCHANGED kind
  PROVE  Callings'
<1>1. CASE Retries(c)
  BY <1>1 DEF Retries, Callings, Points
<1>2. CASE Hands(c)
  BY <1>2, EndsCallings DEF Hands, Callings
<1>3. CASE Fails(c)
  BY <1>3, EndsCallings DEF Fails, Callings
<1> QED
  BY <1>1, <1>2, <1>3 DEF Over

LEMMA CallingsStep == ASSUME Callings, Phases, [Next]_vars PROVE Callings'
<1> USE DEF authVars, cryptVars, callVars, readVars, wireVars, rxVars
<1>1. ASSUME NEW c \in Callers, Call(c) PROVE Callings'
  <2>1. pc[c] = "idle" /\ pc' = [pc EXCEPT ![c] = "waiting"]
          /\ result' = [result EXCEPT ![c] = "none"]
    BY <1>1 DEF Call
  <2>2. PICK k \in Requests(c) : kind' = [kind EXCEPT ![c] = k]
    BY <1>1 DEF Call
  <2>3. k \in Kinds
    BY <2>2 DEF Requests, Kinds
  <2> QED
    BY <1>1, <2>1, <2>2, <2>3 DEF Call, Callings, Points
<1>2. ASSUME NEW c \in Callers, Lock(c) PROVE Callings'
  BY <1>2, CallerAssumption DEF Lock, Callings, Points
<1>3. ASSUME NEW c \in Callers, Send(c) PROVE Callings'
  BY <1>3 DEF Send, Callings, Points, Phases
<1>4. ASSUME NEW c \in Callers, SendFails(c) PROVE Callings'
  <2>1. result' = [result EXCEPT ![c] = "none"]
    BY <1>4 DEF SendFails, Fail, Return
  <2> QED
    BY <1>4, <2>1, SendFailsStep, EndsCallings DEF SendFails, Callings
<1>5. ASSUME NEW c \in Callers, ReadHeader(c) PROVE Callings'
  BY <1>5, CallerAssumption DEF ReadHeader, Callings, Points
<1>6. ASSUME NEW c \in Callers, ReadBody(c) PROVE Callings'
  BY <1>6, CallerAssumption DEF ReadBody, Callings, Points
<1>7. ASSUME NEW c \in Callers, ReadEnds(c) PROVE Callings'
  BY <1>7, OverStep, OverCallings DEF ReadEnds, Callings
<1>8. ASSUME NEW c \in Callers, Expire(c) PROVE Callings'
  BY <1>8, OverStep, OverCallings DEF Expire, Callings
<1>9. ASSUME NEW c \in Callers, ReadFails(c) PROVE Callings'
  BY <1>9, OverStep, OverCallings DEF ReadFails, Callings
<1>10. CASE Disconnect
  BY <1>10, CallerAssumption DEF Disconnect, Callings, Points
<1>11. CASE Answer
  BY <1>11, CallerAssumption DEF Answer, Callings, Points
<1>12. CASE Ignore
  BY <1>12, CallerAssumption DEF Ignore, Callings, Points
<1>13. CASE UNCHANGED vars
  BY <1>13, CallerAssumption DEF vars, Callings, Points
<1> QED
  BY <1>1, <1>2, <1>3, <1>4, <1>5, <1>6, <1>7, <1>8, <1>9, <1>10, <1>11, <1>12, <1>13 DEF Next, Step

LEMMA ReadStep == ASSUME Counters, Callings, Read, Wires, [Next]_vars PROVE Read'
<1> USE DEF authVars, cryptVars, callVars, readVars, wireVars, rxVars
<1>0. NoAnswer \in Answers
  BY BoundAssumption DEF NoAnswer, Answers, Statuses
<1>1. ASSUME NEW c \in Callers, Call(c) PROVE Read'
  BY <1>1 DEF Call, Read
<1>2. ASSUME NEW c \in Callers, Lock(c) PROVE Read'
  BY <1>2 DEF Lock, Read
<1>3. ASSUME NEW c \in Callers, Send(c) PROVE Read'
  BY <1>3 DEF Send, Read
<1>4. ASSUME NEW c \in Callers, SendFails(c) PROVE Read'
  BY <1>4, <1>0, SendFailsStep DEF SendFails, Ends, Read
<1>5. ASSUME NEW c \in Callers, ReadHeader(c) PROVE Read'
  <2>1. Head(toClient) \in AnswerUnits
    BY <1>5, Heads DEF ReadHeader
  <2> QED
    BY <1>5, <2>1 DEF ReadHeader, Read, Answers, AnswerUnits, Statuses, BodyLength
<1>6. ASSUME NEW c \in Callers, ReadBody(c) PROVE Read'
  BY <1>6 DEF ReadBody, Read, Answers
<1>7. ASSUME NEW c \in Callers, ReadEnds(c) PROVE Read'
  BY <1>7, <1>0, OverStep DEF ReadEnds, Over, Retries, Hands, Fails, Ends, Read
<1>8. ASSUME NEW c \in Callers, Expire(c) PROVE Read'
  BY <1>8, <1>0, OverStep DEF Expire, Over, Retries, Hands, Fails, Ends, Read
<1>9. ASSUME NEW c \in Callers, ReadFails(c) PROVE Read'
  BY <1>9, <1>0, OverStep DEF ReadFails, Over, Retries, Hands, Fails, Ends, Read
<1>10. CASE Disconnect
  BY <1>10 DEF Disconnect, Read
<1>11. CASE Answer
  BY <1>11 DEF Answer, Read
<1>12. CASE Ignore
  BY <1>12 DEF Ignore, Read
<1>13. CASE UNCHANGED vars
  BY <1>13 DEF vars, Read
<1> QED
  BY <1>1, <1>2, <1>3, <1>4, <1>5, <1>6, <1>7, <1>8, <1>9, <1>10, <1>11, <1>12, <1>13 DEF Next, Step

LEMMA SealedFlag == ASSUME Flags, NEW c PROVE (encrypted /\ kind[c] # "raw") \in BOOLEAN
<1>1. CASE encrypted /\ kind[c] # "raw"
  <2>1. (encrypted /\ kind[c] # "raw") = TRUE
    BY <1>1
  <2> QED
    BY <2>1, Zenon
<1>2. CASE ~(encrypted /\ kind[c] # "raw")
  <2>1. (encrypted /\ kind[c] # "raw") = FALSE
    BY <1>2
  <2> QED
    BY <2>1, Zenon
<1> QED
  BY <1>1, <1>2

LEMMA AuthType == ASSUME Counters, NEW k PROVE PreemptiveAuth(k) \in Seq(1..NonceMax)
<1>1. <<>> \in Seq(1..NonceMax)
  BY EmptySeq
<1>2. ASSUME authChallenge # 0 PROVE <<authChallenge>> \in Seq(1..NonceMax)
  <2>1. authChallenge \in 1..NonceMax
    BY <1>2 DEF Counters
  <2>2. Append(<<>>, authChallenge) \in Seq(1..NonceMax)
    BY <1>1, <2>1, AppendProperties
  <2> QED
    BY <2>1
<1> QED
  BY <1>1, <1>2 DEF PreemptiveAuth

LEMMA OverAuth ==
  ASSUME Read, Phases, Wires, NEW c \in Callers, Over(c), pc[c] \in {"header", "body"},
         pc[c] = "header" => Fails(c)
  PROVE  auth' \in Seq(1..NonceMax)
<1>1. CASE Retries(c) /\ pc[c] = "body"
  <2>1. answer.nonce \in 1..NonceMax
    BY <1>1 DEF Read, Answers, Phases
  <2>2. Append(auth, answer.nonce) \in Seq(1..NonceMax)
    BY <2>1, AppendProperties DEF Wires
  <2>3. <<answer.nonce>> \in Seq(1..NonceMax)
    BY <2>1
  <2> QED
    BY <1>1, <2>2, <2>3 DEF Retries, RetryAuth
<1>2. CASE Hands(c) \/ Fails(c)
  <2>1. auth' = <<>>
    BY <1>2 DEF Hands, Fails, Ends
  <2> QED
    BY <2>1, EmptySeq
<1> QED
  BY <1>1, <1>2 DEF Over, Retries, Fails, Ends

\* The header that was read in part.
LEMMA CutUnit ==
  ASSUME NEW n \in Nat, NEW u \in AnswerUnits
  PROVE  [u EXCEPT !.status = "none", !.left = n] \in AnswerUnits
  BY DEF AnswerUnits, Statuses

LEMMA CutType ==
  ASSUME Wires, toClient # <<>>, NEW n \in {0, toClient[1].left}
  PROVE  /\ [toClient EXCEPT ![1].status = "none", ![1].left = n] \in Seq(AnswerUnits)
         /\ Len([toClient EXCEPT ![1].status = "none", ![1].left = n]) = Len(toClient)
         /\ \A i \in 1..Len(toClient) :
              LET u == [toClient EXCEPT ![1].status = "none", ![1].left = n][i] IN
              u.enc = toClient[i].enc /\ u.ctr = toClient[i].ctr
<1> DEFINE s == [toClient EXCEPT ![1].status = "none", ![1].left = n]
<1>1. /\ Len(toClient) \in Nat /\ Len(toClient) >= 1
      /\ toClient \in [1..Len(toClient) -> AnswerUnits]
  BY LenProperties, EmptySeq DEF Wires
<1>2. 1 \in 1..Len(toClient) /\ toClient[1] \in AnswerUnits
  BY <1>1
<1>3. s = [toClient EXCEPT ![1] = [toClient[1] EXCEPT !.status = "none", !.left = n]]
  BY <1>1, <1>2
<1>4. [toClient[1] EXCEPT !.status = "none", !.left = n] \in AnswerUnits
  <2>1. n \in Nat
    BY <1>2 DEF AnswerUnits
  <2> QED
    BY <1>2, <2>1, CutUnit
<1>5. s \in [1..Len(toClient) -> AnswerUnits]
  BY <1>1, <1>3, <1>4
<1>6. s \in Seq(AnswerUnits) /\ Len(s) = Len(toClient)
  <2> HIDE DEF s
  <2> QED
    BY <1>1, <1>5
<1>7. ASSUME NEW i \in 1..Len(toClient) PROVE s[i].enc = toClient[i].enc
               /\ s[i].ctr = toClient[i].ctr
  <2>1. CASE i = 1
    BY <1>1, <1>2, <1>3, <2>1 DEF AnswerUnits
  <2>2. CASE i # 1
    BY <1>1, <1>3, <2>2
  <2> QED
    BY <2>1, <2>2
<1> QED
  BY <1>6, <1>7

\* The units of an answer.
Unit(r, status, n, i) ==
  [of |-> r.cseq, part |-> IF i = 1 THEN "header" ELSE "body", status |-> status, nonce |-> nonce',
   left |-> n, enc |-> rxEncrypted, ctr |-> IF rxEncrypted THEN rxWriteNonce + i - 1 ELSE 0]

LEMMA UnitsType ==
  ASSUME Flags, Counters, Wires, toReceiver # <<>>, nonce' \in 1..NonceMax,
         NEW status \in {"ok", "401", "error"}, NEW n \in Nat
  PROVE  LET us == Units(Head(toReceiver), status, n) IN
         /\ us \in Seq(AnswerUnits) /\ Len(us) = n + 1
         /\ \A i \in 1..(n + 1) : us[i] = Unit(Head(toReceiver), status, n, i)
<1> DEFINE us == Units(Head(toReceiver), status, n)
           u(i) == Unit(Head(toReceiver), status, n, i)
<1>1. Head(toReceiver).cseq \in Nat
  BY Heads DEF SentRequests
<1>2. rxEncrypted \in BOOLEAN /\ rxWriteNonce \in Nat
  BY DEF Flags, Counters
<1>3. ASSUME NEW i \in 1..(n + 1) PROVE u(i) \in AnswerUnits
  <2>1. (IF rxEncrypted THEN rxWriteNonce + i - 1 ELSE 0) \in Nat
    BY <1>2
  <2> QED
    BY <1>1, <1>2, <2>1 DEF Unit, AnswerUnits, Statuses
<1>4. us = [i \in 1..(n + 1) |-> u(i)]
  BY DEF Unit, Units
<1>5. us \in [1..(n + 1) -> AnswerUnits] /\ \A i \in 1..(n + 1) : us[i] = u(i)
  <2> HIDE DEF u, us
  <2> QED
    BY <1>3, <1>4
<1>6. us \in Seq(AnswerUnits) /\ Len(us) = n + 1
  <2> HIDE DEF u, us
  <2> QED
    BY <1>5
<1> QED
  BY <1>5, <1>6

\* The two directions: what is sent, answered, read and lost.
LEMMA WiresStep ==
  ASSUME Flags, Counters, Callings, Phases, Read, Wires, [Next]_vars PROVE Wires'
<1> USE DEF authVars, cryptVars, callVars, readVars, wireVars, rxVars
<1>0. <<>> \in Seq(AnswerUnits) /\ <<>> \in Seq(SentRequests) /\ <<>> \in Seq(1..NonceMax)
  BY EmptySeq
<1>1. ASSUME NEW c \in Callers, Call(c) PROVE Wires'
  BY <1>1 DEF Call, Wires
<1>2. ASSUME NEW c \in Callers, Lock(c) PROVE Wires'
  <2>1. PreemptiveAuth(kind[c]) \in Seq(1..NonceMax)
    BY AuthType
  <2> QED
    BY <1>2, <2>1 DEF Lock, Wires
<1>3. ASSUME NEW c \in Callers, Send(c) PROVE Wires'
  <2> DEFINE sealed == encrypted /\ kind[c] # "raw"
             r == [cseq |-> cseq + 1, kind |-> kind[c], auth |-> auth,
                   enc |-> sealed, ctr |-> encWriteNonce, frames |-> Frames[kind[c]]]
  <2>1. sealed \in BOOLEAN
    BY SealedFlag
  <2>2. cseq + 1 \in Nat /\ kind[c] \in Kinds /\ encWriteNonce \in Nat
    BY <1>3 DEF Counters, Callings
  <2>3. Frames[kind[c]] \in Nat \ {0}
    BY <2>2, FramesAssumption
  <2>4. r \in SentRequests
    <3> HIDE DEF sealed
    <3> QED
      BY <2>1, <2>2, <2>3 DEF SentRequests, Wires
  <2>5. toReceiver' = Append(toReceiver, r)
    BY <1>3 DEF Send, Seals
  <2>6. toReceiver' \in Seq(SentRequests)
    <3> HIDE DEF r
    <3> QED
      BY <2>4, <2>5, AppendProperties DEF Wires
  <2> QED
    BY <1>3, <2>6 DEF Send, Wires
<1>4. ASSUME NEW c \in Callers, SendFails(c) PROVE Wires'
  BY <1>4, SendFailsStep, <1>0 DEF SendFails, Ends, Wires
<1>5. ASSUME NEW c \in Callers, ReadHeader(c) PROVE Wires'
  <2>1. toClient' = Tail(toClient) /\ toClient # <<>>
    BY <1>5 DEF ReadHeader, Take
  <2> QED
    BY <1>5, <2>1, Heads DEF ReadHeader, Wires
<1>6. ASSUME NEW c \in Callers, ReadBody(c) PROVE Wires'
  <2>1. toClient' = Tail(toClient) /\ toClient # <<>>
    BY <1>6 DEF ReadBody, Take
  <2> QED
    BY <1>6, <2>1, Heads DEF ReadBody, Wires
<1>7. ASSUME NEW c \in Callers, ReadEnds(c) PROVE Wires'
  BY <1>7, OverStep, OverAuth DEF ReadEnds, Wires
<1>8. ASSUME NEW c \in Callers, Expire(c) PROVE Wires'
  <2>1. toClient' \in Seq(AnswerUnits)
    <3>1. CASE UNCHANGED toClient \/ toClient' = <<>>
      BY <3>1, <1>0 DEF Wires
    <3>2. CASE ~(UNCHANGED toClient \/ toClient' = <<>>)
      BY <1>8, <3>2, CutType DEF Expire
    <3> QED
      BY <3>1, <3>2
  <2> QED
    BY <1>8, <2>1, OverStep, OverAuth DEF Wires
<1>9. ASSUME NEW c \in Callers, ReadFails(c) PROVE Wires'
  BY <1>9, OverStep, OverAuth, <1>0 DEF ReadFails, Wires
<1>10. CASE Disconnect
  BY <1>10, <1>0 DEF Disconnect, Wires
<1>11. CASE Answer
  <2>1. PICK status \in {"ok", "401", "error"}, n \in Nat : Replies(Head(toReceiver), status, n)
    BY <1>11, AnswerStep DEF Counters
  <2>2. Units(Head(toReceiver), status, n) \in Seq(AnswerUnits)
    BY <2>1, UnitsType DEF Replies
  <2>3. toClient' \in Seq(AnswerUnits)
    BY <2>1, <2>2, <1>0, ConcatProperties DEF Replies, Wires
  <2>4. toReceiver' \in Seq(SentRequests)
    BY <2>1, Heads DEF Replies
  <2> QED
    BY <2>1, <2>3, <2>4 DEF Replies, Wires, callVars
<1>12. CASE Ignore
  BY <1>12, Heads DEF Ignore, Wires
<1>13. CASE UNCHANGED vars
  BY <1>13 DEF vars, Wires
<1> QED
  BY <1>1, <1>2, <1>3, <1>4, <1>5, <1>6, <1>7, <1>8, <1>9, <1>10, <1>11, <1>12, <1>13 DEF Next, Step

-----------------------------------------------------------------------------
(* Phases: who asks for what                                               *)

\* Before there is a session only the main caller is at work.
LEMMA OnlyMain ==
  ASSUME Callings, Phases, phase # "session"
  PROVE  \A c \in Callers : pc[c] # "idle" => c = Main
  BY DEF Phases, Requests, Callings

\* An end of a call moves to a phase that its request was for.
LEMMA EndsPhases ==
  ASSUME Callings, Phases, NEW c \in Callers, NEW status, NEW written,
         pc[c] \in {"sending", "header", "body"}, Ends(c, status, written), UNCHANGED kind
  PROVE  Phases'
<1>1. kind[c] \in Requests(c)
  BY DEF Phases
<1>2. pc'[c] = "idle" /\ (\A d \in Callers : d # c => pc'[d] = pc[d])
  BY DEF Ends, Callings
<1>3. \A d \in Callers : pc'[d] \in {"idle", "waiting"}
  BY <1>2 DEF Callings, Points
<1>4. encrypted' => phase' = "session"
  <2>1. CASE encrypted
    BY <1>1, <2>1 DEF Ends, Paired, Phases, Requests
  <2>2. CASE ~encrypted
    BY <2>2 DEF Ends, Paired
  <2> QED
    BY <2>1, <2>2
<1>5. ASSUME NEW d \in Callers, pc'[d] # "idle" PROVE kind'[d] \in Requests(d)'
  <2>1. d # c /\ pc[d] # "idle" /\ kind'[d] = kind[d] /\ kind[d] \in Requests(d)
    BY <1>2, <1>5 DEF Phases
  <2>2. phase = "session"
    BY <2>1, OnlyMain, <1>1 DEF Callings, Points
  <2>3. kind[c] \in {"http", "rtsp"}
    BY <1>1, <2>2 DEF Requests
  <2>4. phase' = phase
    BY <2>3, <2>2 DEF Ends, Paired
  <2> QED
    BY <2>1, <2>4 DEF Requests
<1> QED
  BY <1>3, <1>4, <1>5 DEF Phases

LEMMA OverPhases ==
  ASSUME Callings, Phases, NEW c \in Callers, pc[c] \in {"header", "body"}, Over(c), UNCHANGED kind
  PROVE  Phases'
<1>1. CASE Retries(c)
  <2>1. /\ phase' = phase /\ encrypted' = encrypted /\ tries' = 1
        /\ pc'[c] = "sending" /\ \A d \in Callers : d # c => pc'[d] = pc[d]
    BY <1>1 DEF Retries, Callings
  <2>2. \A d \in Callers : d # c => pc[d] \in {"idle", "waiting"}
    BY DEF Callings, Points
  <2> QED
    BY <2>1, <2>2 DEF Phases, Requests
<1>2. CASE Hands(c)
  BY <1>2, EndsPhases DEF Hands
<1>3. CASE Fails(c)
  BY <1>3, EndsPhases DEF Fails
<1> QED
  BY <1>1, <1>2, <1>3 DEF Over

LEMMA PhasesStep ==
  ASSUME Flags, Callings, Read, Wires, Phases, [Next]_vars PROVE Phases'
<1> USE DEF authVars, cryptVars, callVars, readVars, wireVars, rxVars
<1>1. ASSUME NEW c \in Callers, Call(c) PROVE Phases'
  BY <1>1 DEF Call, Phases, Requests, Callings
<1>2. ASSUME NEW c \in Callers, Lock(c) PROVE Phases'
  <2>1. tries' = 0 /\ pc'[c] = "sending" /\ pc[c] = "waiting"
          /\ \A d \in Callers : d # c => pc'[d] = pc[d]
    BY <1>2 DEF Lock, Callings
  <2>2. \A d \in Callers : pc[d] \in {"idle", "waiting"}
    BY <1>2, CallerAssumption DEF Lock, Callings, Points
  <2> QED
    BY <1>2, <2>1, <2>2 DEF Lock, Phases, Requests
<1>3. ASSUME NEW c \in Callers, Send(c) PROVE Phases'
  <2>1. tries \in {0, 1} /\ tries' \in {1, 2} /\ pc'[c] = "header"
          /\ \A d \in Callers : d # c => pc'[d] = pc[d]
    BY <1>3 DEF Send, Callings, Phases
  <2>2. \A d \in Callers : d # c => pc[d] \in {"idle", "waiting"}
    BY <1>3 DEF Send, Callings, Points
  <2> QED
    BY <1>3, <2>1, <2>2 DEF Send, Phases, Requests
<1>4. ASSUME NEW c \in Callers, SendFails(c) PROVE Phases'
  BY <1>4, SendFailsStep, EndsPhases DEF SendFails
<1>5. ASSUME NEW c \in Callers, ReadHeader(c) PROVE Phases'
  <2>1. Head(toClient).nonce # 0
    BY <1>5, Heads DEF ReadHeader, AnswerUnits
  <2>2. \A d \in Callers : d # c => pc[d] \notin {"header", "body"}
    BY <1>5 DEF ReadHeader, Callings
  <2> QED
    BY <1>5, <2>1, <2>2 DEF ReadHeader, Phases, Requests, Callings
<1>6. ASSUME NEW c \in Callers, ReadBody(c) PROVE Phases'
  <2>1. answer'.nonce = answer.nonce
    BY <1>6 DEF ReadBody, Read, Answers
  <2> QED
    BY <1>6, <2>1 DEF ReadBody, Phases, Requests
<1>7. ASSUME NEW c \in Callers, ReadEnds(c) PROVE Phases'
  BY <1>7, OverStep, OverPhases DEF ReadEnds
<1>8. ASSUME NEW c \in Callers, Expire(c) PROVE Phases'
  BY <1>8, OverStep, OverPhases DEF Expire
<1>9. ASSUME NEW c \in Callers, ReadFails(c) PROVE Phases'
  BY <1>9, OverStep, OverPhases DEF ReadFails
<1>10. CASE Disconnect
  BY <1>10 DEF Disconnect, Phases, Requests, Callings
<1>11. CASE Answer
  BY <1>11 DEF Answer, Phases, Requests, Callings
<1>12. CASE Ignore
  BY <1>12 DEF Ignore, Phases, Requests, Callings
<1>13. CASE UNCHANGED vars
  BY <1>13 DEF vars, Phases, Requests, Callings
<1> QED
  BY <1>1, <1>2, <1>3, <1>4, <1>5, <1>6, <1>7, <1>8, <1>9, <1>10, <1>11, <1>12, <1>13 DEF Next, Step

-----------------------------------------------------------------------------
(* Framing: the counters of the two ends                                   *)

\* The two directions in order, and what keeps them so.
Sent(s, first, last) ==
  /\ \A i \in 1..Len(s): \A j \in 1..i: s[j].enc => s[i].enc
  /\ \A i \in 1..(Len(s) - 1): s[i].enc => s[i + 1].ctr = s[i].ctr + s[i].frames
  /\ \A i \in 1..Len(s): s[i].enc /\ (i = 1 \/ ~s[i - 1].enc) => s[i].ctr = first
  /\ IF s # <<>> /\ s[Len(s)].enc THEN s[Len(s)].ctr + s[Len(s)].frames = last ELSE first = last

Given(s, first, last) ==
  /\ \A i \in 1..Len(s): \A j \in 1..i: s[j].enc => s[i].enc
  /\ \A i \in 1..(Len(s) - 1): s[i].enc => s[i + 1].ctr = s[i].ctr + 1
  /\ \A i \in 1..Len(s): s[i].enc /\ (i = 1 \/ ~s[i - 1].enc) => s[i].ctr = first
  /\ IF s # <<>> /\ s[Len(s)].enc THEN s[Len(s)].ctr + 1 = last ELSE first = last

Requested == open => Sent(toReceiver, rxReadNonce, encWriteNonce)
Replied   == open /\ ~torn => Given(toClient, encReadNonce, rxWriteNonce)

\* Before an end seals, its counters are at 0 and all that it wrote is plain.
Plain   == ~encrypted => /\ encWriteNonce = 0 /\ encReadNonce = 0
                         /\ \A i \in 1..Len(toReceiver): ~toReceiver[i].enc
RxPlain == ~rxEncrypted => /\ rxReadNonce = 0 /\ rxWriteNonce = 0
                           /\ \A i \in 1..Len(toClient): ~toClient[i].enc

LEMMA FramingParts == Framing <=> Plain /\ RxPlain /\ Requested /\ Replied
<1>1. Numbered(toReceiver, rxReadNonce, encWriteNonce, LAMBDA r: r.frames)
        <=> Sent(toReceiver, rxReadNonce, encWriteNonce)
  BY DEF Numbered, Sent
<1>2. Numbered(toClient, encReadNonce, rxWriteNonce, LAMBDA u: 1)
        <=> Given(toClient, encReadNonce, rxWriteNonce)
  BY DEF Numbered, Given
<1> QED
  BY <1>1, <1>2 DEF Framing, Plain, RxPlain, Requested, Replied

LEMMA CountersFollow == ASSUME Wires, Framing PROVE CountersAgree
<1> SUFFICES ASSUME open, rxEncrypted, encrypted,
                    \A i \in DOMAIN toReceiver: toReceiver[i].enc,
                    \A i \in DOMAIN toClient: toClient[i].enc
             PROVE  /\ Counts(toReceiver, rxReadNonce, encWriteNonce, LAMBDA r: r.frames)
                    /\ ~torn => Counts(toClient, encReadNonce, rxWriteNonce, LAMBDA u: 1)
  BY DEF CountersAgree
<1>1. Counts(toReceiver, rxReadNonce, encWriteNonce, LAMBDA r: r.frames)
  <2>1. Sent(toReceiver, rxReadNonce, encWriteNonce)
    BY FramingParts DEF Requested
  <2>2. Len(toReceiver) \in Nat /\ DOMAIN toReceiver = 1..Len(toReceiver)
          /\ (toReceiver # <<>> => Len(toReceiver) >= 1)
    BY EmptySeq, LenProperties DEF Wires
  <2>3. toReceiver = <<>> => rxReadNonce = encWriteNonce
    BY <2>1, <2>2 DEF Sent
  <2>4. toReceiver # <<>> => toReceiver[1].ctr = rxReadNonce
          /\ toReceiver[Len(toReceiver)].ctr + toReceiver[Len(toReceiver)].frames = encWriteNonce
    BY <2>1, <2>2 DEF Sent
  <2>5. \A i \in 1..(Len(toReceiver) - 1): toReceiver[i + 1].ctr = toReceiver[i].ctr + toReceiver[i].frames
    BY <2>1, <2>2 DEF Sent
  <2> QED
    BY <2>3, <2>4, <2>5 DEF Counts
<1>2. ASSUME ~torn PROVE Counts(toClient, encReadNonce, rxWriteNonce, LAMBDA u: 1)
  <2>1. Given(toClient, encReadNonce, rxWriteNonce)
    BY <1>2, FramingParts DEF Replied
  <2>2. Len(toClient) \in Nat /\ DOMAIN toClient = 1..Len(toClient)
          /\ (toClient # <<>> => Len(toClient) >= 1)
    BY EmptySeq, LenProperties DEF Wires
  <2>3. toClient = <<>> => encReadNonce = rxWriteNonce
    BY <2>1, <2>2 DEF Given
  <2>4. toClient # <<>> => toClient[1].ctr = encReadNonce
          /\ toClient[Len(toClient)].ctr + 1 = rxWriteNonce
    BY <2>1, <2>2 DEF Given
  <2>5. \A i \in 1..(Len(toClient) - 1): toClient[i + 1].ctr = toClient[i].ctr + 1
    BY <2>1, <2>2 DEF Given
  <2> QED
    BY <2>3, <2>4, <2>5 DEF Counts
<1> QED
  BY <1>1, <1>2

\* One more request, sealed by the next counter.
LEMMA SentMore ==
  ASSUME NEW s \in Seq(SentRequests), NEW r \in SentRequests, NEW first \in Nat, NEW last \in Nat,
         Sent(s, first, last),
         r.enc => r.ctr = last,
         ~r.enc => \A i \in 1..Len(s): ~s[i].enc
  PROVE  Sent(Append(s, r), first, IF r.enc THEN last + r.frames ELSE last)
<1> DEFINE t == Append(s, r)
<1>1. /\ Len(s) \in Nat /\ Len(t) = Len(s) + 1 /\ t[Len(s) + 1] = r
      /\ \A i \in 1..Len(s): t[i] = s[i]
      /\ t # <<>> /\ (s = <<>> <=> Len(s) = 0)
  BY AppendProperties, EmptySeq, LenProperties
<1> HIDE DEF t
<1>2. ASSUME NEW i \in 1..(Len(t) - 1), t[i].enc
      PROVE  t[i + 1].ctr = t[i].ctr + t[i].frames
  <2>1. CASE i = Len(s)
    BY <1>1, <1>2, <2>1 DEF Sent
  <2>2. CASE i # Len(s)
    <3>1. i \in 1..(Len(s) - 1) /\ i \in 1..Len(s) /\ i + 1 \in 1..Len(s)
      BY <1>1, <2>2
    <3> QED
      BY <1>1, <1>2, <3>1 DEF Sent
  <2> QED
    BY <2>1, <2>2
<1>3. ASSUME NEW i \in 1..Len(t), t[i].enc, i = 1 \/ ~t[i - 1].enc
      PROVE  t[i].ctr = first
  <2>1. CASE i = Len(s) + 1
    <3>1. s = <<>> \/ ~s[Len(s)].enc
      BY <1>1, <1>3, <2>1
    <3> QED
      BY <1>1, <1>3, <2>1, <3>1 DEF Sent
  <2>2. CASE i # Len(s) + 1
    <3>1. i \in 1..Len(s) /\ (i = 1 \/ i - 1 \in 1..Len(s))
      BY <1>1, <2>2
    <3> QED
      BY <1>1, <1>3, <3>1 DEF Sent
  <2> QED
    BY <2>1, <2>2
<1>4. IF t # <<>> /\ t[Len(t)].enc
      THEN t[Len(t)].ctr + t[Len(t)].frames = IF r.enc THEN last + r.frames ELSE last
      ELSE first = IF r.enc THEN last + r.frames ELSE last
  <2>1. t[Len(t)] = r /\ t # <<>>
    BY <1>1
  <2>2. CASE r.enc
    BY <2>1, <2>2
  <2>3. CASE ~r.enc
    BY <1>1, <2>1, <2>3 DEF Sent
  <2> QED
    BY <2>2, <2>3
<1>5. ASSUME NEW i \in 1..Len(t), NEW j \in 1..i, t[j].enc
      PROVE  t[i].enc
  <2>1. CASE i = Len(s) + 1
    <3>1. CASE j = i
      BY <1>5, <3>1
    <3>2. CASE j # i
      <4>1. j \in 1..Len(s)
        BY <1>1, <2>1, <3>2
      <4> QED
        BY <1>1, <1>5, <2>1, <4>1
    <3> QED
      BY <3>1, <3>2
  <2>2. CASE i # Len(s) + 1
    <3>1. i \in 1..Len(s) /\ j \in 1..Len(s)
      BY <1>1, <2>2
    <3> QED
      BY <1>1, <1>5, <3>1 DEF Sent
  <2> QED
    BY <2>1, <2>2
<1> QED
  BY <1>2, <1>3, <1>4, <1>5 DEF Sent, t

\* The first one is opened.
LEMMA SentLess ==
  ASSUME NEW s \in Seq(SentRequests), NEW first \in Nat, NEW last \in Nat,
         s # <<>>, Sent(s, first, last)
  PROVE  /\ Sent(Tail(s), IF s[1].enc THEN first + s[1].frames ELSE first, last)
         /\ s[1].enc => s[1].ctr = first
<1> DEFINE t == Tail(s)
           next == IF s[1].enc THEN first + s[1].frames ELSE first
<1>1. /\ Len(s) \in Nat /\ Len(s) >= 1 /\ Len(t) = Len(s) - 1
      /\ \A i \in 1..Len(t): t[i] = s[i + 1]
      /\ (t = <<>> <=> Len(t) = 0)
  <2>1. Len(s) \in Nat /\ Len(s) >= 1
    BY EmptySeq, LenProperties
  <2>2. t \in Seq(SentRequests) /\ Len(t) = Len(s) - 1 /\ \A i \in 1..Len(t): t[i] = s[i + 1]
    BY <2>1
  <2> HIDE DEF t
  <2>3. t = <<>> <=> Len(t) = 0
    BY <2>2, EmptySeq
  <2> QED
    BY <2>1, <2>2, <2>3
<1>2. s[1].enc => s[1].ctr = first
  BY <1>1 DEF Sent
<1> HIDE DEF t
<1>3. ASSUME NEW i \in 1..(Len(t) - 1), t[i].enc
      PROVE  t[i + 1].ctr = t[i].ctr + t[i].frames
  <2>1. i + 1 \in 1..(Len(s) - 1) /\ i \in 1..Len(t) /\ i + 1 \in 1..Len(t)
    BY <1>1
  <2> QED
    BY <1>1, <1>3, <2>1 DEF Sent
<1>4. ASSUME NEW i \in 1..Len(t), t[i].enc, i = 1 \/ ~t[i - 1].enc
      PROVE  t[i].ctr = next
  <2>1. i + 1 \in 1..Len(s) /\ t[i] = s[i + 1]
    BY <1>1
  <2>2. CASE s[1].enc
    <3>1. i = 1
      <4> SUFFICES ASSUME i # 1 PROVE FALSE
        OBVIOUS
      <4>1. i \in 1..Len(s) /\ 1 \in 1..i /\ i - 1 \in 1..Len(t) /\ t[i - 1] = s[i]
        BY <1>1
      <4> QED
        BY <1>4, <2>2, <4>1 DEF Sent
    <3>2. 1 \in 1..(Len(s) - 1)
      BY <1>1, <3>1
    <3>3. s[2].ctr = s[1].ctr + s[1].frames
      BY <2>2, <3>2 DEF Sent
    <3> QED
      BY <1>2, <2>1, <2>2, <3>1, <3>3
  <2>3. CASE ~s[1].enc
    <3>1. i + 1 # 1 /\ ~s[i].enc
      BY <1>1, <1>4, <2>3
    <3> QED
      BY <1>4, <2>1, <2>3, <3>1 DEF Sent
  <2> QED
    BY <2>2, <2>3
<1>5. ASSUME NEW i \in 1..Len(t), NEW j \in 1..i, t[j].enc
      PROVE  t[i].enc
  <2>1. i + 1 \in 1..Len(s) /\ j + 1 \in 1..(i + 1) /\ j \in 1..Len(t)
    BY <1>1
  <2> QED
    BY <1>1, <1>5, <2>1 DEF Sent
<1>6. IF t # <<>> /\ t[Len(t)].enc THEN t[Len(t)].ctr + t[Len(t)].frames = last ELSE next = last
  <2>1. CASE t # <<>>
    <3>1. Len(t) \in 1..Len(t) /\ t[Len(t)] = s[Len(s)] /\ Len(s) \in 1..Len(s) /\ 1 \in 1..Len(s)
      BY <1>1, <2>1
    <3>2. s[1].enc => s[Len(s)].enc
      BY <3>1 DEF Sent
    <3> QED
      BY <2>1, <3>1, <3>2 DEF Sent
  <2>2. CASE t = <<>>
    <3>1. Len(s) = 1
      BY <1>1, <2>2
    <3> QED
      BY <1>2, <2>2, <3>1 DEF Sent
  <2> QED
    BY <2>1, <2>2
<1> QED
  BY <1>2, <1>3, <1>4, <1>5, <1>6 DEF Sent, t

\* The same of the answers: a unit is opened, an answer comes, a header is cut.
LEMMA GivenLess ==
  ASSUME NEW s \in Seq(AnswerUnits), NEW first \in Nat, NEW last \in Nat,
         s # <<>>, Given(s, first, last)
  PROVE  /\ Given(Tail(s), IF s[1].enc THEN first + 1 ELSE first, last)
         /\ s[1].enc => s[1].ctr = first
<1> DEFINE t == Tail(s)
           next == IF s[1].enc THEN first + 1 ELSE first
<1>1. /\ Len(s) \in Nat /\ Len(s) >= 1 /\ Len(t) = Len(s) - 1
      /\ \A i \in 1..Len(t): t[i] = s[i + 1]
      /\ (t = <<>> <=> Len(t) = 0)
  <2>1. Len(s) \in Nat /\ Len(s) >= 1
    BY EmptySeq, LenProperties
  <2>2. t \in Seq(AnswerUnits) /\ Len(t) = Len(s) - 1 /\ \A i \in 1..Len(t): t[i] = s[i + 1]
    BY <2>1
  <2> HIDE DEF t
  <2>3. t = <<>> <=> Len(t) = 0
    BY <2>2, EmptySeq
  <2> QED
    BY <2>1, <2>2, <2>3
<1>2. s[1].enc => s[1].ctr = first
  BY <1>1 DEF Given
<1> HIDE DEF t
<1>3. ASSUME NEW i \in 1..(Len(t) - 1), t[i].enc
      PROVE  t[i + 1].ctr = t[i].ctr + 1
  <2>1. i + 1 \in 1..(Len(s) - 1) /\ i \in 1..Len(t) /\ i + 1 \in 1..Len(t)
    BY <1>1
  <2> QED
    BY <1>1, <1>3, <2>1 DEF Given
<1>4. ASSUME NEW i \in 1..Len(t), t[i].enc, i = 1 \/ ~t[i - 1].enc
      PROVE  t[i].ctr = next
  <2>1. i + 1 \in 1..Len(s) /\ t[i] = s[i + 1]
    BY <1>1
  <2>2. CASE s[1].enc
    <3>1. i = 1
      <4> SUFFICES ASSUME i # 1 PROVE FALSE
        OBVIOUS
      <4>1. i \in 1..Len(s) /\ 1 \in 1..i /\ i - 1 \in 1..Len(t) /\ t[i - 1] = s[i]
        BY <1>1
      <4> QED
        BY <1>4, <2>2, <4>1 DEF Given
    <3>2. 1 \in 1..(Len(s) - 1)
      BY <1>1, <3>1
    <3>3. s[2].ctr = s[1].ctr + 1
      BY <2>2, <3>2 DEF Given
    <3> QED
      BY <1>2, <2>1, <2>2, <3>1, <3>3
  <2>3. CASE ~s[1].enc
    <3>1. i + 1 # 1 /\ ~s[i].enc
      BY <1>1, <1>4, <2>3
    <3> QED
      BY <1>4, <2>1, <2>3, <3>1 DEF Given
  <2> QED
    BY <2>2, <2>3
<1>5. ASSUME NEW i \in 1..Len(t), NEW j \in 1..i, t[j].enc
      PROVE  t[i].enc
  <2>1. i + 1 \in 1..Len(s) /\ j + 1 \in 1..(i + 1) /\ j \in 1..Len(t)
    BY <1>1
  <2> QED
    BY <1>1, <1>5, <2>1 DEF Given
<1>6. IF t # <<>> /\ t[Len(t)].enc THEN t[Len(t)].ctr + 1 = last ELSE next = last
  <2>1. CASE t # <<>>
    <3>1. Len(t) \in 1..Len(t) /\ t[Len(t)] = s[Len(s)] /\ Len(s) \in 1..Len(s) /\ 1 \in 1..Len(s)
      BY <1>1, <2>1
    <3>2. s[1].enc => s[Len(s)].enc
      BY <3>1 DEF Given
    <3> QED
      BY <2>1, <3>1, <3>2 DEF Given
  <2>2. CASE t = <<>>
    <3>1. Len(s) = 1
      BY <1>1, <2>2
    <3> QED
      BY <1>2, <2>2, <3>1 DEF Given
  <2> QED
    BY <2>1, <2>2
<1> QED
  BY <1>2, <1>3, <1>4, <1>5, <1>6 DEF Given, t

LEMMA GivenMore ==
  ASSUME NEW s \in Seq(AnswerUnits), NEW us \in Seq(AnswerUnits), NEW e \in BOOLEAN,
         NEW first \in Nat, NEW last \in Nat, NEW n \in Nat, Given(s, first, last),
         Len(us) = n + 1,
         \A i \in 1..(n + 1): us[i].enc = e /\ (e => us[i].ctr = last + i - 1),
         ~e => \A i \in 1..Len(s): ~s[i].enc
  PROVE  Given(s \o us, first, IF e THEN last + n + 1 ELSE last)
<1> DEFINE t == s \o us
<1>1. /\ Len(s) \in Nat /\ Len(t) = Len(s) + n + 1
      /\ \A i \in 1..Len(s): t[i] = s[i]
      /\ \A i \in (Len(s) + 1)..Len(t): t[i] = us[i - Len(s)]
      /\ t # <<>> /\ (s = <<>> <=> Len(s) = 0)
  <2>1. Len(s) \in Nat
    BY LenProperties
  <2>2. t \in Seq(AnswerUnits) /\ Len(t) = Len(s) + n + 1
    <3>1. t \in Seq(AnswerUnits) /\ Len(t) = Len(s) + Len(us)
      BY ConcatProperties
    <3> HIDE DEF t
    <3> QED
      BY <2>1, <3>1
  <2>3. /\ \A i \in 1..Len(s): t[i] = s[i]
        /\ \A i \in (Len(s) + 1)..Len(t): t[i] = us[i - Len(s)]
    <3>1. \A i \in 1..Len(s) + Len(us): t[i] = IF i <= Len(s) THEN s[i] ELSE us[i - Len(s)]
      BY ConcatProperties
    <3> HIDE DEF t
    <3> QED
      BY <2>1, <2>2, <3>1
  <2> HIDE DEF t
  <2>4. t # <<>> /\ (s = <<>> <=> Len(s) = 0)
    BY <2>1, <2>2, EmptySeq
  <2> QED
    BY <2>1, <2>2, <2>3, <2>4
<1> HIDE DEF t
<1>2. ASSUME NEW i \in (Len(s) + 1)..Len(t)
      PROVE  t[i].enc = e /\ (e => t[i].ctr = last + (i - Len(s)) - 1)
  <2>1. i - Len(s) \in 1..(n + 1) /\ t[i] = us[i - Len(s)]
    BY <1>1
  <2> QED
    BY <2>1
<1>3. ASSUME NEW i \in 1..(Len(t) - 1), t[i].enc
      PROVE  t[i + 1].ctr = t[i].ctr + 1
  <2>1. CASE i > Len(s)
    <3>1. i \in (Len(s) + 1)..Len(t) /\ i + 1 \in (Len(s) + 1)..Len(t)
      BY <1>1, <2>1
    <3>2. e
      BY <1>2, <1>3, <3>1
    <3>3. t[i].ctr = last + (i - Len(s)) - 1
      BY <1>2, <3>1, <3>2
    <3>4. t[i + 1].ctr = last + ((i + 1) - Len(s)) - 1
      BY <1>2, <3>1, <3>2
    <3> QED
      BY <1>1, <3>3, <3>4
  <2>2. CASE i = Len(s)
    <3>1. t[i] = s[Len(s)] /\ s # <<>> /\ i + 1 \in (Len(s) + 1)..Len(t) /\ i \in 1..Len(s)
      BY <1>1, <2>2
    <3>2. e
      BY <1>3, <3>1
    <3>3. t[i + 1].ctr = last + ((i + 1) - Len(s)) - 1
      BY <1>2, <3>1, <3>2
    <3>4. s[Len(s)].ctr + 1 = last
      BY <1>3, <3>1 DEF Given
    <3> QED
      BY <1>1, <2>2, <3>1, <3>3, <3>4
  <2>3. CASE i < Len(s)
    <3>1. i \in 1..(Len(s) - 1) /\ i \in 1..Len(s) /\ i + 1 \in 1..Len(s)
      BY <1>1, <2>3
    <3>2. t[i] = s[i] /\ t[i + 1] = s[i + 1]
      BY <1>1, <3>1
    <3>3. \A k \in 1..(Len(s) - 1): s[k].enc => s[k + 1].ctr = s[k].ctr + 1
      BY DEF Given
    <3> QED
      BY <1>3, <3>1, <3>2, <3>3
  <2> QED
    BY <1>1, <2>1, <2>2, <2>3
<1>4. ASSUME NEW i \in 1..Len(t), t[i].enc, i = 1 \/ ~t[i - 1].enc
      PROVE  t[i].ctr = first
  <2>1. CASE i > Len(s) + 1
    <3>1. i \in (Len(s) + 1)..Len(t) /\ i - 1 \in (Len(s) + 1)..Len(t) /\ i # 1
      BY <1>1, <2>1
    <3> QED
      BY <1>2, <1>4, <3>1
  <2>2. CASE i = Len(s) + 1
    <3>1. i \in (Len(s) + 1)..Len(t)
      BY <1>1, <2>2
    <3>2. e /\ t[i].ctr = last
      BY <1>1, <1>2, <1>4, <2>2, <3>1
    <3>3. s = <<>> \/ ~s[Len(s)].enc
      BY <1>1, <1>4, <2>2
    <3> QED
      BY <3>2, <3>3 DEF Given
  <2>3. CASE i < Len(s) + 1
    <3>1. i \in 1..Len(s) /\ (i = 1 \/ i - 1 \in 1..Len(s))
      BY <1>1, <2>3
    <3>2. t[i] = s[i] /\ (i # 1 => t[i - 1] = s[i - 1])
      BY <1>1, <3>1
    <3> QED
      BY <1>4, <3>1, <3>2 DEF Given
  <2>4. i \in Int /\ Len(s) \in Int
    BY <1>1
  <2> QED
    BY <2>1, <2>2, <2>3, <2>4
<1>5. ASSUME NEW i \in 1..Len(t), NEW j \in 1..i, t[j].enc
      PROVE  t[i].enc
  <2>1. CASE i \in 1..Len(s)
    <3>1. j \in 1..Len(s)
      BY <1>1, <2>1
    <3>2. t[i] = s[i] /\ t[j] = s[j]
      BY <1>1, <2>1, <3>1
    <3>3. \A k \in 1..Len(s): \A l \in 1..k: s[l].enc => s[k].enc
      BY DEF Given
    <3> QED
      BY <1>5, <2>1, <3>1, <3>2, <3>3
  <2>2. CASE i \notin 1..Len(s)
    <3>1. i \in (Len(s) + 1)..Len(t)
      BY <1>1, <2>2
    <3>2. CASE j \in 1..Len(s)
      BY <1>1, <1>2, <1>5, <3>1, <3>2
    <3>3. CASE j \notin 1..Len(s)
      <4>1. j \in (Len(s) + 1)..Len(t)
        BY <1>1, <3>3
      <4> QED
        BY <1>2, <1>5, <3>1, <4>1
    <3> QED
      BY <3>2, <3>3
  <2> QED
    BY <2>1, <2>2
<1>6. IF t # <<>> /\ t[Len(t)].enc THEN t[Len(t)].ctr + 1 = IF e THEN last + n + 1 ELSE last
                                   ELSE first = IF e THEN last + n + 1 ELSE last
  <2>1. Len(t) \in (Len(s) + 1)..Len(t) /\ t # <<>>
    BY <1>1
  <2>2. CASE e
    <3>1. t[Len(t)].enc /\ t[Len(t)].ctr = last + (Len(t) - Len(s)) - 1
      BY <1>2, <2>1, <2>2
    <3> QED
      BY <1>1, <2>1, <2>2, <3>1
  <2>3. CASE ~e
    <3>1. ~t[Len(t)].enc
      BY <1>2, <2>1, <2>3
    <3>2. s = <<>> \/ ~s[Len(s)].enc
      BY <1>1, <2>3
    <3> QED
      BY <2>3, <3>1, <3>2 DEF Given
  <2> QED
    BY <2>2, <2>3
<1> QED
  BY <1>3, <1>4, <1>5, <1>6 DEF Given, t

LEMMA GivenSame ==
  ASSUME NEW s \in Seq(AnswerUnits), NEW t \in Seq(AnswerUnits), NEW first, NEW last,
         Given(s, first, last), Len(t) = Len(s),
         \A i \in 1..Len(s): t[i].enc = s[i].enc /\ t[i].ctr = s[i].ctr
  PROVE  Given(t, first, last)
<1>1. Len(s) \in Nat /\ (s = <<>> <=> Len(s) = 0) /\ (t = <<>> <=> Len(t) = 0)
  BY LenProperties, EmptySeq
<1>2. \A i \in 1..(Len(t) - 1): t[i].enc => t[i + 1].ctr = t[i].ctr + 1
  BY <1>1 DEF Given
<1>3. \A i \in 1..Len(t): \A j \in 1..i: t[j].enc => t[i].enc
  <2> TAKE i \in 1..Len(t)
  <2> TAKE j \in 1..i
  <2>1. i \in 1..Len(s) /\ j \in 1..Len(s)
    BY <1>1
  <2> QED
    BY <2>1 DEF Given
<1>4. \A i \in 1..Len(t): t[i].enc /\ (i = 1 \/ ~t[i - 1].enc) => t[i].ctr = first
  <2> TAKE i \in 1..Len(t)
  <2>1. i \in 1..Len(s) /\ (i # 1 => i - 1 \in 1..Len(s))
    BY <1>1
  <2> QED
    BY <2>1 DEF Given
<1>5. IF t # <<>> /\ t[Len(t)].enc THEN t[Len(t)].ctr + 1 = last ELSE first = last
  <2>1. t # <<>> => Len(t) \in 1..Len(s)
    BY <1>1
  <2> QED
    BY <1>1, <2>1 DEF Given
<1> QED
  BY <1>2, <1>3, <1>4, <1>5 DEF Given

\* The end of a call that has read leaves the counters: they are at 0 when
\* pair-verify sets them to 0.
LEMMA EndsFraming ==
  ASSUME Phases, Plain, NEW c \in Callers, NEW status,
         pc[c] \in {"header", "body"}, Ends(c, status, encWriteNonce)
  PROVE  UNCHANGED <<encWriteNonce, encReadNonce>> /\ (encrypted => encrypted') /\ (open' => open)
<1>1. CASE kind[c] = "verify" /\ status = "ok"
  <2>1. ~encrypted
    BY <1>1 DEF Phases, Requests
  <2> QED
    BY <1>1, <2>1 DEF Plain, Ends, Paired
<1>2. CASE ~(kind[c] = "verify" /\ status = "ok")
  BY <1>2 DEF Ends, Paired
<1> QED
  BY <1>1, <1>2

LEMMA OverFraming ==
  ASSUME Phases, Plain, NEW c \in Callers, pc[c] \in {"header", "body"}, Over(c)
  PROVE  UNCHANGED <<encWriteNonce, encReadNonce>> /\ (encrypted => encrypted') /\ (open' => open)
BY EndsFraming DEF Over, Retries, Hands, Fails

\* What goes out is sealed as the connection is: a session has no raw requests.
LEMMA SendFraming ==
  ASSUME Flags, Counters, Callings, Phases, Wires, NEW c \in Callers, Send(c)
  PROVE  \E r \in SentRequests :
           /\ toReceiver' = Append(toReceiver, r) /\ r.enc = encrypted
           /\ r.cseq = cseq' /\ r.kind = kind[c] /\ r.auth = auth
           /\ encrypted => r.ctr = encWriteNonce
           /\ encWriteNonce' = IF r.enc THEN encWriteNonce + r.frames ELSE encWriteNonce
<1> DEFINE sealed == encrypted /\ kind[c] # "raw"
           r == [cseq |-> cseq + 1, kind |-> kind[c], auth |-> auth,
                 enc |-> sealed, ctr |-> encWriteNonce, frames |-> Frames[kind[c]]]
<1>1. sealed \in BOOLEAN
  BY SealedFlag
<1>2. cseq + 1 \in Nat /\ kind[c] \in Kinds /\ encWriteNonce \in Nat
  BY DEF Counters, Callings
<1>3. Frames[kind[c]] \in Nat \ {0}
  BY <1>2, FramesAssumption
<1>4. encrypted => kind[c] # "raw"
  BY DEF Phases, Requests, Send
<1>5. toReceiver' = Append(toReceiver, r)
  BY DEF Send, Seals
<1>6. encWriteNonce' = IF sealed THEN encWriteNonce + Frames[kind[c]] ELSE encWriteNonce
  BY DEF Send, Written, Seals, Sealed
<1>7. cseq' = cseq + 1
  BY DEF Send
<1>8. sealed = encrypted
  <2>1. CASE encrypted
    <3>1. sealed = TRUE /\ encrypted = TRUE
      BY <1>4, <2>1, Zenon DEF Flags
    <3> QED
      BY <3>1, Zenon
  <2>2. CASE ~encrypted
    <3>1. sealed = FALSE /\ encrypted = FALSE
      BY <2>2, Zenon DEF Flags
    <3> QED
      BY <3>1, Zenon
  <2> QED
    BY <2>1, <2>2
<1> HIDE DEF sealed
<1>9. r \in SentRequests
  BY <1>1, <1>2, <1>3 DEF SentRequests, Wires
<1> QED
  BY <1>5, <1>6, <1>7, <1>8, <1>9

\* What is opened is the next unit.
LEMMA TakeFraming ==
  ASSUME Counters, Wires, Plain, RxPlain, Replied, toClient # <<>>,
         Readable(Head(toClient)), Take,
         UNCHANGED <<encrypted, open, rxWriteNonce, torn, rxEncrypted>>
  PROVE  /\ Replied'
         /\ ~encrypted' => encReadNonce' = 0
         /\ ~rxEncrypted' => \A i \in 1..Len(toClient'): ~toClient'[i].enc
<1>1. toClient[1] = Head(toClient) /\ Head(toClient).enc = encrypted /\ ~torn
  BY DEF Readable
<1>2. toClient' = Tail(toClient)
  BY DEF Take
<1>3. encReadNonce' = IF toClient[1].enc THEN encReadNonce + 1 ELSE encReadNonce
  BY <1>1 DEF Take
<1>4. ASSUME open PROVE Given(toClient', encReadNonce', rxWriteNonce)
  <2>1. Given(toClient, encReadNonce, rxWriteNonce)
    BY <1>1, <1>4 DEF Replied
  <2>2. Given(Tail(toClient), IF toClient[1].enc THEN encReadNonce + 1 ELSE encReadNonce,
          rxWriteNonce)
    BY <2>1, GivenLess DEF Wires, Counters
  <2> QED
    BY <1>2, <1>3, <2>2
<1>5. Replied'
  BY <1>4 DEF Replied
<1>6. ~encrypted' => encReadNonce' = 0
  BY DEF Take, Plain
<1>7. /\ Len(Tail(toClient)) = Len(toClient) - 1 /\ Len(toClient) \in Nat
      /\ \A i \in 1..Len(Tail(toClient)) : Tail(toClient)[i] = toClient[i + 1]
  BY HeadTailProperties, LenProperties DEF Wires
<1>8. ASSUME ~rxEncrypted', NEW i \in 1..Len(toClient') PROVE ~toClient'[i].enc
  <2>1. i + 1 \in 1..Len(toClient) /\ toClient'[i] = toClient[i + 1]
    BY <1>2, <1>7
  <2> QED
    BY <1>8, <2>1 DEF RxPlain
<1> QED
  BY <1>5, <1>6, <1>8

\* An answer is sealed by the next counters, or plain after all that is plain.
LEMMA ReplyFraming ==
  ASSUME Flags, Counters, Wires, RxPlain, Replied, NEW status \in {"ok", "401", "error"},
           NEW n \in Nat,
         Replies(Head(toReceiver), status, n)
  PROVE  /\ Replied'
         /\ ~rxEncrypted' => rxWriteNonce' = 0 /\ \A i \in 1..Len(toClient'): ~toClient'[i].enc
<1> DEFINE us == Units(Head(toReceiver), status, n)
<1>1. /\ us \in Seq(AnswerUnits) /\ Len(us) = n + 1
      /\ \A i \in 1..(n + 1) : us[i].enc = rxEncrypted
                                  /\ (rxEncrypted => us[i].ctr = rxWriteNonce + i - 1)
  <2>1. toReceiver # <<>> /\ nonce' \in 1..NonceMax
    BY DEF Replies
  <2>2. /\ us \in Seq(AnswerUnits) /\ Len(us) = n + 1
        /\ \A i \in 1..(n + 1) : us[i] = Unit(Head(toReceiver), status, n, i)
    BY <2>1, UnitsType
  <2> HIDE DEF us
  <2> QED
    BY <2>2 DEF Unit
<1> HIDE DEF us
<1>2. toClient' = IF torn THEN <<>> ELSE toClient \o us
  BY DEF Replies, us
<1>3. /\ rxWriteNonce' = IF rxEncrypted THEN rxWriteNonce + n + 1 ELSE 0
      /\ rxEncrypted => rxEncrypted'
      /\ open /\ UNCHANGED <<torn, encReadNonce, open>>
  BY DEF Replies, cryptVars
<1>4. ASSUME ~torn PROVE Given(toClient', encReadNonce', rxWriteNonce')
  <2>1. Given(toClient, encReadNonce, rxWriteNonce)
    BY <1>3, <1>4 DEF Replied
  <2>2. ~rxEncrypted => \A i \in 1..Len(toClient): ~toClient[i].enc
    BY DEF RxPlain
  <2>3. Given(toClient \o us, encReadNonce, IF rxEncrypted THEN rxWriteNonce + n + 1
          ELSE rxWriteNonce)
    BY <1>1, <2>1, <2>2, GivenMore DEF Wires, Counters, Flags
  <2>4. rxWriteNonce' = IF rxEncrypted THEN rxWriteNonce + n + 1 ELSE rxWriteNonce
    BY <1>3 DEF RxPlain
  <2> QED
    BY <1>2, <1>3, <1>4, <2>3, <2>4
<1>5. ASSUME ~rxEncrypted', NEW i \in 1..Len(toClient') PROVE ~toClient'[i].enc
  <2>1. ~rxEncrypted /\ \A j \in 1..Len(toClient) : ~toClient[j].enc
    BY <1>3, <1>5 DEF RxPlain
  <2>2. CASE torn
    BY <1>2, <1>5, <2>2
  <2>3. CASE ~torn
    <3>1. /\ Len(toClient \o us) = Len(toClient) + Len(us)
          /\ \A j \in 1..Len(toClient) + Len(us): (toClient \o us)[j] =
               IF j <= Len(toClient) THEN toClient[j] ELSE us[j - Len(toClient)]
      BY <1>1, ConcatProperties DEF Wires
    <3>2. Len(toClient) \in Nat /\ toClient' = toClient \o us
      BY <1>2, <2>3, LenProperties DEF Wires
    <3>3. i \in 1..Len(toClient) + Len(us)
      BY <1>5, <3>1, <3>2
    <3>4. CASE i <= Len(toClient)
      <4>1. i \in 1..Len(toClient) /\ toClient'[i] = toClient[i]
        BY <3>1, <3>2, <3>3, <3>4
      <4> QED
        BY <2>1, <4>1
    <3>5. CASE ~(i <= Len(toClient))
      <4>1. i - Len(toClient) \in 1..(n + 1) /\ toClient'[i] = us[i - Len(toClient)]
        BY <1>1, <3>1, <3>2, <3>3, <3>5
      <4> QED
        BY <1>1, <2>1, <4>1
    <3> QED
      BY <3>4, <3>5
  <2> QED
    BY <2>2, <2>3
<1> QED
  BY <1>3, <1>4, <1>5 DEF Replied

\* A request that the receiver reads is the next one.
LEMMA HeardFraming ==
  ASSUME Counters, Wires, Plain, RxPlain, Requested, toReceiver # <<>>,
         Understood(Head(toReceiver)), toReceiver' = Tail(toReceiver),
         rxReadNonce' = IF Head(toReceiver).enc THEN rxReadNonce + Head(toReceiver).frames ELSE 0,
         UNCHANGED <<encrypted, open, encWriteNonce, encReadNonce>>, rxEncrypted => rxEncrypted'
  PROVE  Requested' /\ Plain' /\ (~rxEncrypted' => rxReadNonce' = 0)
<1>1. toReceiver[1] = Head(toReceiver) /\ Head(toReceiver).enc = rxEncrypted
  BY DEF Understood
<1>2. rxReadNonce' = IF toReceiver[1].enc THEN rxReadNonce + toReceiver[1].frames ELSE rxReadNonce
  BY <1>1 DEF RxPlain
<1>3. ASSUME open PROVE Sent(toReceiver', rxReadNonce', encWriteNonce)
  <2>1. Sent(toReceiver, rxReadNonce, encWriteNonce)
    BY <1>3 DEF Requested
  <2>2. Sent(Tail(toReceiver), IF toReceiver[1].enc THEN rxReadNonce + toReceiver[1].frames
          ELSE rxReadNonce,
             encWriteNonce)
    BY <2>1, SentLess DEF Wires, Counters
  <2> QED
    BY <1>2, <2>2
<1>4. /\ Len(Tail(toReceiver)) = Len(toReceiver) - 1 /\ Len(toReceiver) \in Nat
      /\ \A i \in 1..Len(Tail(toReceiver)) : Tail(toReceiver)[i] = toReceiver[i + 1]
  BY HeadTailProperties, LenProperties DEF Wires
<1>5. ASSUME ~encrypted, NEW i \in 1..Len(toReceiver') PROVE ~toReceiver'[i].enc
  <2>1. i + 1 \in 1..Len(toReceiver) /\ toReceiver'[i] = toReceiver[i + 1]
    BY <1>4
  <2> QED
    BY <1>5, <2>1 DEF Plain
<1>6. Plain'
  BY <1>5 DEF Plain
<1>7. ~rxEncrypted' => rxReadNonce' = 0
  BY <1>1
<1> QED
  BY <1>3, <1>6, <1>7 DEF Requested

LEMMA FramingStep ==
  ASSUME Flags, Counters, Callings, Phases, Wires, Plain, RxPlain, Requested, Replied, [Next]_vars
  PROVE  Plain' /\ RxPlain' /\ Requested' /\ Replied'
<1> USE DEF authVars, cryptVars, callVars, readVars, wireVars, rxVars
<1>1. ASSUME NEW c \in Callers, Call(c) PROVE Plain' /\ RxPlain' /\ Requested' /\ Replied'
  BY <1>1 DEF Call, Plain, RxPlain, Requested, Replied
<1>2. ASSUME NEW c \in Callers, Lock(c) PROVE Plain' /\ RxPlain' /\ Requested' /\ Replied'
  BY <1>2 DEF Lock, Plain, RxPlain, Requested, Replied
<1>3. ASSUME NEW c \in Callers, Send(c) PROVE Plain' /\ RxPlain' /\ Requested' /\ Replied'
  <2>1. PICK r \in SentRequests :
           /\ toReceiver' = Append(toReceiver, r) /\ r.enc = encrypted
           /\ encrypted => r.ctr = encWriteNonce
           /\ encWriteNonce' = IF r.enc THEN encWriteNonce + r.frames ELSE encWriteNonce
    BY <1>3, SendFraming
  <2>2. UNCHANGED <<encrypted, encReadNonce, open, toClient, torn, rxEncrypted, rxReadNonce,
                    rxWriteNonce>>
    BY <1>3 DEF Send
  <2>3. ~r.enc => \A i \in 1..Len(toReceiver): ~toReceiver[i].enc
    BY <2>1 DEF Plain
  <2>4. ASSUME open PROVE Sent(toReceiver', rxReadNonce, encWriteNonce')
    <3>1. Sent(toReceiver, rxReadNonce, encWriteNonce)
      BY <2>4 DEF Requested
    <3>2. Sent(Append(toReceiver, r), rxReadNonce, IF r.enc THEN encWriteNonce + r.frames
            ELSE encWriteNonce)
      BY <2>1, <2>3, <3>1, SentMore DEF Wires, Counters
    <3> QED
      BY <2>1, <3>2
  <2>5. ASSUME ~encrypted, NEW i \in 1..Len(toReceiver') PROVE ~toReceiver'[i].enc
    <3>1. /\ Len(toReceiver') = Len(toReceiver) + 1 /\ Len(toReceiver) \in Nat
          /\ \A j \in 1..Len(toReceiver) : toReceiver'[j] = toReceiver[j]
          /\ toReceiver'[Len(toReceiver) + 1] = r
      BY <2>1, AppendProperties, LenProperties DEF Wires
    <3>2. CASE i = Len(toReceiver) + 1
      BY <2>1, <2>5, <3>1, <3>2
    <3>3. CASE i # Len(toReceiver) + 1
      <4>1. i \in 1..Len(toReceiver)
        BY <3>1, <3>3
      <4> QED
        BY <2>5, <3>1, <4>1 DEF Plain
    <3> QED
      BY <3>2, <3>3
  <2>6. Plain'
    BY <2>1, <2>2, <2>5 DEF Plain
  <2> QED
    BY <2>2, <2>4, <2>6 DEF RxPlain, Requested, Replied
<1>4. ASSUME NEW c \in Callers, SendFails(c) PROVE Plain' /\ RxPlain' /\ Requested' /\ Replied'
  <2>1. UNCHANGED <<toReceiver, toClient, rxEncrypted, rxReadNonce, rxWriteNonce>>
    BY <1>4 DEF SendFails, wireVars, rxVars
  <2>2. ~open /\ Paired(c, "failed", Written(c))
    BY <1>4, SendFailsStep DEF Ends
  <2>3. /\ encWriteNonce' = Written(c) /\ encReadNonce' = encReadNonce
        /\ encrypted => encrypted'
        /\ ~open'
    BY <2>2 DEF Paired
  <2>4. ~encrypted => Written(c) = encWriteNonce
    BY DEF Written, Seals
  <2>5. Plain'
    BY <2>1, <2>3, <2>4 DEF Plain
  <2>6. RxPlain' /\ Requested' /\ Replied'
    BY <2>1, <2>3 DEF RxPlain, Requested, Replied
  <2> QED
    BY <2>5, <2>6
<1>5. ASSUME NEW c \in Callers, ReadHeader(c) PROVE Plain' /\ RxPlain' /\ Requested' /\ Replied'
  <2>1. Replied' /\ (~encrypted' => encReadNonce' = 0)
        /\ (~rxEncrypted' => \A i \in 1..Len(toClient'): ~toClient'[i].enc)
    BY <1>5, TakeFraming DEF ReadHeader, rxVars
  <2> QED
    BY <1>5, <2>1 DEF ReadHeader, Plain, RxPlain, Requested
<1>6. ASSUME NEW c \in Callers, ReadBody(c) PROVE Plain' /\ RxPlain' /\ Requested' /\ Replied'
  <2>1. Replied' /\ (~encrypted' => encReadNonce' = 0)
        /\ (~rxEncrypted' => \A i \in 1..Len(toClient'): ~toClient'[i].enc)
    BY <1>6, TakeFraming DEF ReadBody, rxVars
  <2> QED
    BY <1>6, <2>1 DEF ReadBody, Plain, RxPlain, Requested
<1>7. ASSUME NEW c \in Callers, ReadEnds(c) PROVE Plain' /\ RxPlain' /\ Requested' /\ Replied'
  <2>1. /\ UNCHANGED <<encWriteNonce, encReadNonce, toReceiver, rxEncrypted, rxReadNonce,
             rxWriteNonce>>
        /\ encrypted => encrypted'
        /\ open' => open
    BY <1>7, OverStep, OverFraming
  <2>2. UNCHANGED <<toClient, torn>> \/ (toClient' = <<>> /\ torn')
    BY <1>7 DEF ReadEnds
  <2> QED
    BY <2>1, <2>2 DEF Plain, RxPlain, Requested, Replied
<1>8. ASSUME NEW c \in Callers, Expire(c) PROVE Plain' /\ RxPlain' /\ Requested' /\ Replied'
  <2>1. /\ UNCHANGED <<encWriteNonce, encReadNonce, toReceiver, rxEncrypted, rxReadNonce,
             rxWriteNonce>>
        /\ encrypted => encrypted'
        /\ open' => open
    BY <1>8, OverStep, OverFraming
  <2>2. CASE UNCHANGED <<toClient, torn>> \/ (toClient' = <<>> /\ torn')
    BY <2>1, <2>2 DEF Plain, RxPlain, Requested, Replied
  <2>3. CASE ~(UNCHANGED <<toClient, torn>> \/ (toClient' = <<>> /\ torn'))
    <3>1. PICK n \in {0, toClient[1].left} :
            /\ toClient # <<>> /\ UNCHANGED torn
            /\ toClient' = [toClient EXCEPT ![1].status = "none", ![1].left = n]
      BY <1>8, <2>3 DEF Expire
    <3>2. /\ toClient' \in Seq(AnswerUnits) /\ Len(toClient') = Len(toClient)
          /\ \A i \in 1..Len(toClient) : toClient'[i].enc = toClient[i].enc
               /\ toClient'[i].ctr = toClient[i].ctr
      BY <3>1, CutType
    <3>3. ASSUME open, ~torn PROVE Given(toClient', encReadNonce, rxWriteNonce)
      BY <3>2, <3>3, GivenSame DEF Replied, Wires
    <3>4. Replied'
      BY <2>1, <3>1, <3>3 DEF Replied
    <3>5. RxPlain'
      BY <2>1, <3>2 DEF RxPlain
    <3> QED
      BY <2>1, <3>4, <3>5 DEF Plain, Requested
  <2> QED
    BY <2>2, <2>3
<1>9. ASSUME NEW c \in Callers, ReadFails(c) PROVE Plain' /\ RxPlain' /\ Requested' /\ Replied'
  <2>1. /\ UNCHANGED <<encWriteNonce, encReadNonce, toReceiver, rxEncrypted, rxReadNonce,
             rxWriteNonce>>
        /\ encrypted => encrypted'
        /\ open' => open
    BY <1>9, OverStep, OverFraming
  <2>2. UNCHANGED <<toClient, torn>> \/ (toClient' = <<>> /\ torn')
    BY <1>9 DEF ReadFails
  <2> QED
    BY <2>1, <2>2 DEF Plain, RxPlain, Requested, Replied
<1>10. CASE Disconnect
  BY <1>10 DEF Disconnect, Plain, RxPlain, Requested, Replied
<1>11. CASE Answer
  <2>1. PICK status \in {"ok", "401", "error"}, n \in Nat : Replies(Head(toReceiver), status, n)
    BY <1>11, AnswerStep DEF Counters
  <2>2. Replied' /\ (~rxEncrypted' => rxWriteNonce' = 0
          /\ \A i \in 1..Len(toClient'): ~toClient'[i].enc)
    BY <2>1, ReplyFraming
  <2>3. Requested' /\ Plain' /\ (~rxEncrypted' => rxReadNonce' = 0)
    BY <2>1, HeardFraming DEF Replies, cryptVars
  <2> QED
    BY <2>2, <2>3 DEF RxPlain
<1>12. CASE Ignore
  <2>1. /\ toReceiver # <<>> /\ Understood(Head(toReceiver)) /\ toReceiver' = Tail(toReceiver)
        /\ rxReadNonce' = IF Head(toReceiver).enc THEN rxReadNonce + Head(toReceiver).frames ELSE 0
        /\ UNCHANGED <<encrypted, open, encWriteNonce, encReadNonce, toClient, torn, rxEncrypted,
             rxWriteNonce>>
    BY <1>12 DEF Ignore, Understood
  <2>2. Requested' /\ Plain' /\ (~rxEncrypted' => rxReadNonce' = 0)
    BY <2>1, HeardFraming
  <2> QED
    BY <2>1, <2>2 DEF RxPlain, Replied
<1>13. CASE UNCHANGED vars
  BY <1>13 DEF vars, Plain, RxPlain, Requested, Replied
<1> QED
  BY <1>1, <1>2, <1>3, <1>4, <1>5, <1>6, <1>7, <1>8, <1>9, <1>10, <1>11, <1>12, <1>13 DEF Next, Step

-----------------------------------------------------------------------------
(* In time: one request at a time                                          *)

\* Alone in parts.
Clear == ~torn /\ ~garbled
Empty == ~open \/ (\A c \in Callers: pc[c] \notin {"header", "body"}) => toReceiver = <<>>
  /\ toClient = <<>>
Same  == \A i \in 1..Len(toClient): toClient[i].enc = encrypted
Awaits(c) ==
  pc[c] = "header" =>
    /\ Len(toReceiver) <= 1
    /\ toReceiver # <<>> =>
         /\ toClient = <<>> /\ toReceiver[1].cseq = cseq /\ toReceiver[1].auth = auth
         /\ toReceiver[1].kind = kind[c] /\ toReceiver[1].enc = encrypted
    /\ toClient # <<>> =>
         /\ toClient[1].part = "header" /\ toClient[1].of = cseq
         /\ Len(toClient) = toClient[1].left + 1
         /\ \A i \in 2..Len(toClient): toClient[i].part = "body"
Reads(c) ==
  pc[c] = "body" =>
    /\ toReceiver = <<>> /\ answer.of = cseq
    /\ open => Len(toClient) = answer.left
    /\ \A i \in 1..Len(toClient): toClient[i].part = "body"

LEMMA AloneParts ==
  Alone <=> (~expired => Clear /\ Empty /\ Same /\ \A c \in Callers: Awaits(c) /\ Reads(c))
BY DEF Alone, Clear, Empty, Same, Awaits, Reads

\* While one caller holds c.mu no other sends or reads.
LEMMA OthersWait ==
  ASSUME Callings, NEW c \in Callers, pc[c] \in {"sending", "header", "body"}
  PROVE  \A d \in Callers: d # c => pc[d] \in {"idle", "waiting"}
BY DEF Callings, Points

\* After a step nobody reads, or one caller does.
LEMMA Silent ==
  ASSUME Clear', toReceiver' = <<>>, toClient' = <<>>,
         \A c \in Callers: pc'[c] \notin {"header", "body"}
  PROVE  Alone'
<1>1. Same'
  BY DEF Same
<1>2. Empty' /\ \A c \in Callers: Awaits(c)' /\ Reads(c)'
  BY DEF Empty, Awaits, Reads
<1> QED
  BY <1>1, <1>2 DEF Alone, Clear, Empty, Same, Awaits, Reads

LEMMA Holding ==
  ASSUME Callings', Clear', Same', NEW c \in Callers, pc'[c] \in {"header", "body"},
         open' \/ (toReceiver' = <<>> /\ toClient' = <<>>), Awaits(c)', Reads(c)'
  PROVE  Alone'
<1>1. \A d \in Callers: d # c => pc'[d] \notin {"header", "body"}
  BY DEF Callings
<1>2. \A d \in Callers: Awaits(d)' /\ Reads(d)'
  BY <1>1 DEF Awaits, Reads
<1>3. Empty'
  BY DEF Empty
<1> QED
  BY <1>2, <1>3 DEF Alone, Clear, Empty, Same, Awaits, Reads

\* Whoever hears or is heard is the holder.
LEMMA Waiting ==
  ASSUME Callings, Alone, ~expired, toReceiver # <<>>
  PROVE  \E c \in Callers :
           /\ pc[c] = "header" /\ toClient = <<>> /\ Len(toReceiver) <= 1
           /\ toReceiver[1].cseq = cseq /\ toReceiver[1].auth = auth
           /\ toReceiver[1].kind = kind[c] /\ toReceiver[1].enc = encrypted
           /\ Awaits(c) /\ Reads(c) /\ open
<1>1. Clear /\ Empty /\ Same /\ \A c \in Callers: Awaits(c) /\ Reads(c)
  BY AloneParts
<1>2. PICK c \in Callers : pc[c] \in {"header", "body"}
  BY <1>1 DEF Empty
<1>3. pc[c] = "header" /\ open
  BY <1>1, <1>2 DEF Reads, Empty
<1>4. Awaits(c) /\ Reads(c)
  BY <1>1
<1> QED
  BY <1>3, <1>4 DEF Awaits

LEMMA OneLeft ==
  ASSUME Wires, toReceiver # <<>>, Len(toReceiver) <= 1
  PROVE  Tail(toReceiver) = <<>>
<1>1. Len(toReceiver) \in Nat /\ Len(toReceiver) # 0
  BY LenProperties, EmptySeq DEF Wires
<1>2. Tail(toReceiver) \in Seq(SentRequests) /\ Len(Tail(toReceiver)) = Len(toReceiver) - 1
  BY HeadTailProperties DEF Wires
<1>3. Len(Tail(toReceiver)) = 0
  BY <1>1, <1>2
<1> QED
  BY <1>2, <1>3, EmptySeq

\* All of an answer has been read when its caller goes on.
LEMMA AllRead ==
  ASSUME Callings, Wires, Alone, ~expired, NEW c \in Callers, ReadEnds(c)
  PROVE  toReceiver = <<>> /\ toClient = <<>>
<1>1. Clear /\ Empty /\ Reads(c) /\ pc[c] = "body" /\ answer.left = 0
  BY AloneParts DEF ReadEnds
<1>2. Len(toClient) = 0 => toClient = <<>>
  BY EmptySeq DEF Wires
<1> QED
  BY <1>1, <1>2 DEF Empty, Reads

\* In time only a closed connection makes a read fail.
LEMMA ClosedFails ==
  ASSUME Callings, Counters, Wires, Alone, Replied, ~expired, NEW c \in Callers, ReadFails(c)
  PROVE  ~open /\ toReceiver = <<>> /\ toClient = <<>> /\ UNCHANGED <<toClient, torn>>
<1>1. Clear /\ Empty /\ Same
  BY AloneParts
<1>2. ~open => toReceiver = <<>> /\ toClient = <<>>
  BY <1>1 DEF Empty
<1>3. ASSUME toClient # <<>> PROVE Readable(Head(toClient))
  <2>1. open /\ ~torn
    BY <1>1, <1>2, <1>3 DEF Clear
  <2>2. toClient[1].enc => toClient[1].ctr = encReadNonce
    BY <1>3, <2>1, GivenLess DEF Replied, Wires, Counters
  <2>3. 1 \in 1..Len(toClient) /\ toClient[1] = Head(toClient)
    BY <1>3, EmptySeq, LenProperties DEF Wires
  <2> QED
    BY <1>1, <2>1, <2>2, <2>3 DEF Same, Readable
<1>4. ~open /\ UNCHANGED <<toClient, torn>>
  BY <1>1, <1>2, <1>3 DEF ReadFails, Clear
<1> QED
  BY <1>2, <1>4

\* However the call goes on, nothing is left on the way.
LEMMA OverAlone ==
  ASSUME Callings, Alone, ~expired, NEW c \in Callers, pc[c] \in {"header", "body"}, Over(c),
         toReceiver = <<>>, toClient = <<>>, UNCHANGED <<toReceiver, toClient, torn>>
  PROVE  Alone'
<1>1. Clear
  BY AloneParts
<1>2. ~garbled' /\ pc'[c] \in {"idle", "sending"} /\ \A d \in Callers: d # c => pc'[d] = pc[d]
  BY DEF Over, Retries, Hands, Fails, Ends, Callings
<1>3. \A d \in Callers: pc'[d] \notin {"header", "body"}
  BY <1>2, OthersWait
<1>4. Clear' /\ toReceiver' = <<>> /\ toClient' = <<>>
  BY <1>1, <1>2 DEF Clear
<1> QED
  BY <1>3, <1>4, Silent

\* A lone request is the sender's own.
LEMMA SendAlone ==
  ASSUME Flags, Counters, Callings, Callings', Phases, Wires, Alone, ~expired, NEW c \in Callers,
           Send(c)
  PROVE  Alone'
<1>1. toReceiver = <<>> /\ toClient = <<>> /\ Clear
  <2>1. \A d \in Callers: pc[d] \notin {"header", "body"}
    BY OthersWait DEF Send
  <2> QED
    BY <2>1, AloneParts DEF Empty
<1>2. PICK r \in SentRequests :
        /\ toReceiver' = Append(toReceiver, r) /\ r.enc = encrypted
        /\ r.cseq = cseq' /\ r.kind = kind[c] /\ r.auth = auth
  BY SendFraming
<1>3. toReceiver' = <<r>>
  BY <1>1, <1>2
<1>4. Len(toReceiver') <= 1 /\ toReceiver'[1] = r
  BY <1>3
<1>5. pc'[c] = "header" /\ UNCHANGED <<toClient, torn, garbled, encrypted, auth, kind, open>>
        /\ open
  BY DEF Send, Callings, readVars
<1>6. Clear' /\ Same'
  BY <1>1, <1>5 DEF Clear, Same
<1>7. Awaits(c)' /\ Reads(c)'
  BY <1>1, <1>2, <1>4, <1>5 DEF Awaits, Reads
<1> QED
  BY <1>5, <1>6, <1>7, Holding

\* The answer that comes is the holder's.
LEMMA AnswerAlone ==
  ASSUME Flags, Counters, Callings, Callings', Wires, Alone, ~expired,
         NEW status \in {"ok", "401", "error"}, NEW n \in Nat, Replies(Head(toReceiver), status, n)
  PROVE  /\ Alone'
         /\ \E c \in Callers :
              /\ pc[c] = "header" /\ toClient = <<>> /\ toReceiver' = <<>>
              /\ Head(toReceiver).kind = kind[c] /\ Head(toReceiver).auth = auth
              /\ toClient'[1].status = status /\ toClient'[1].nonce = nonce' /\ toClient' # <<>>
<1>1. PICK c \in Callers :
        /\ pc[c] = "header" /\ toClient = <<>> /\ Len(toReceiver) <= 1
        /\ toReceiver[1].cseq = cseq /\ toReceiver[1].auth = auth
        /\ toReceiver[1].kind = kind[c] /\ toReceiver[1].enc = encrypted /\ open
  BY Waiting DEF Replies
<1>2. Clear
  BY AloneParts
<1> DEFINE us == Units(Head(toReceiver), status, n)
<1>3. /\ us \in Seq(AnswerUnits) /\ Len(us) = n + 1
      /\ \A i \in 1..(n + 1) : us[i] = Unit(Head(toReceiver), status, n, i)
  <2>1. toReceiver # <<>> /\ nonce' \in 1..NonceMax
    BY DEF Replies
  <2> QED
    BY <2>1, UnitsType
<1>4. toClient' = us
  <2>1. toClient' = toClient \o us
    BY <1>2 DEF Replies, Clear
  <2> HIDE DEF us
  <2>2. <<>> \o us = us
    BY <1>3, ConcatEmptySeq
  <2> QED
    BY <1>1, <2>1, <2>2
<1> HIDE DEF us
<1>5. toReceiver' = <<>>
  BY <1>1, OneLeft DEF Replies
<1>6. toReceiver[1] = Head(toReceiver) /\ Head(toReceiver).enc = rxEncrypted
  BY DEF Replies, Understood
<1>7. UNCHANGED <<pc, kind, cseq, encrypted, open, torn, garbled, auth, answer>>
  BY DEF Replies, cryptVars, callVars, readVars
<1>8. 1 \in 1..(n + 1) /\ Len(toClient') = n + 1 /\ toClient' # <<>>
  BY <1>3, <1>4, EmptySeq
<1>9. /\ toClient'[1].part = "header" /\ toClient'[1].of = cseq /\ toClient'[1].left = n
      /\ toClient'[1].status = status /\ toClient'[1].nonce = nonce'
  BY <1>1, <1>3, <1>4, <1>6, <1>8 DEF Unit
<1>10. \A i \in 2..Len(toClient'): toClient'[i].part = "body"
  <2> TAKE i \in 2..Len(toClient')
  <2>1. i \in 1..(n + 1) /\ i # 1
    BY <1>8
  <2> QED
    BY <1>3, <1>4, <2>1 DEF Unit
<1>11. Same'
  <2>1. \A i \in 1..(n + 1): toClient'[i].enc = rxEncrypted
    BY <1>3, <1>4 DEF Unit
  <2> QED
    BY <1>1, <1>6, <1>7, <1>8, <2>1 DEF Same
<1>12. Clear'
  BY <1>2, <1>7 DEF Clear
<1>13. Awaits(c)'
  <2>1. Len(toReceiver') <= 1
    BY <1>5
  <2> QED
    BY <1>5, <1>7, <1>8, <1>9, <1>10, <2>1 DEF Awaits
<1>14. pc'[c] = "header" /\ Reads(c)' /\ open'
  BY <1>1, <1>7 DEF Reads
<1>15. Alone'
  BY <1>11, <1>12, <1>13, <1>14, Holding
<1> QED
  BY <1>1, <1>5, <1>6, <1>8, <1>9, <1>15

\* What is read is the answer's header, then its body.
LEMMA HeaderAlone ==
  ASSUME Flags, Callings, Callings', Wires, Alone, ~expired, NEW c \in Callers, ReadHeader(c)
  PROVE  /\ Alone' /\ toReceiver = <<>>
         /\ pc'[c] = "body" /\ answer'.status = toClient[1].status
              /\ answer'.nonce = toClient[1].nonce
<1>1. Clear /\ Same /\ Empty /\ Awaits(c)
  BY AloneParts
<1>2. pc[c] = "header" /\ toClient # <<>> /\ open
  BY <1>1 DEF ReadHeader, Empty
<1>3. /\ toReceiver = <<>> /\ toClient[1].part = "header" /\ toClient[1].of = cseq
      /\ Len(toClient) = toClient[1].left + 1
      /\ \A i \in 2..Len(toClient): toClient[i].part = "body"
  BY <1>1, <1>2 DEF Awaits
<1>4. /\ answer' = [of |-> toClient[1].of, nonce |-> toClient[1].nonce, left |-> toClient[1].left,
                    status |-> toClient[1].status]
      /\ pc' = [pc EXCEPT ![c] = "body"] /\ UNCHANGED garbled
  BY <1>1, <1>3 DEF ReadHeader, BodyLength, Clear
<1>5. toClient' = Tail(toClient) /\ UNCHANGED <<cseq, encrypted, open, torn, toReceiver>>
  BY DEF ReadHeader, Take
<1>6. /\ Len(toClient) \in Nat /\ Len(toClient') = Len(toClient) - 1
      /\ \A i \in 1..Len(toClient') : toClient'[i] = toClient[i + 1]
  BY <1>2, <1>5, HeadTailProperties, LenProperties DEF Wires
<1>7. toClient[1].left \in Nat
  BY <1>2, Heads DEF AnswerUnits
<1>8. Same'
  BY <1>1, <1>5, <1>6 DEF Same
<1>9. pc'[c] = "body"
  BY <1>4 DEF Callings
<1>10. Reads(c)' /\ Awaits(c)'
  <2>1. \A i \in 1..Len(toClient'): toClient'[i].part = "body"
    <3> TAKE i \in 1..Len(toClient')
    <3>1. i + 1 \in 2..Len(toClient) /\ toClient'[i] = toClient[i + 1]
      BY <1>6
    <3> QED
      BY <1>3, <3>1
  <2>2. Len(toClient') = answer'.left /\ answer'.of = cseq
    BY <1>3, <1>4, <1>6, <1>7
  <2> QED
    BY <1>3, <1>5, <1>9, <2>1, <2>2 DEF Reads, Awaits
<1>11. Clear'
  BY <1>1, <1>4, <1>5 DEF Clear
<1>12. Alone'
  BY <1>2, <1>5, <1>8, <1>9, <1>10, <1>11, Holding
<1> QED
  BY <1>3, <1>4, <1>9, <1>12

LEMMA BodyAlone ==
  ASSUME Flags, Callings, Callings', Read, Wires, Alone, ~expired, NEW c \in Callers, ReadBody(c)
  PROVE  Alone' /\ toReceiver = <<>> /\ pc[c] = "body" /\ answer'.status = answer.status
           /\ answer'.nonce = answer.nonce
<1>1. Clear /\ Same /\ Empty /\ Reads(c)
  BY AloneParts
<1>2. pc[c] = "body" /\ toClient # <<>> /\ open
  BY <1>1 DEF ReadBody, Empty
<1>3. /\ toReceiver = <<>> /\ answer.of = cseq /\ Len(toClient) = answer.left
      /\ \A i \in 1..Len(toClient): toClient[i].part = "body"
  BY <1>1, <1>2 DEF Reads
<1>4. /\ answer'.of = answer.of /\ answer'.status = answer.status /\ answer'.nonce = answer.nonce
      /\ answer'.left = answer.left - 1
  BY DEF ReadBody, Read, Answers
<1>5. toClient' = Tail(toClient) /\ UNCHANGED <<cseq, encrypted, open, torn, garbled, toReceiver,
        pc>>
  BY DEF ReadBody, Take
<1>6. /\ Len(toClient) \in Nat /\ Len(toClient') = Len(toClient) - 1
      /\ \A i \in 1..Len(toClient') : toClient'[i] = toClient[i + 1]
  BY <1>2, <1>5, HeadTailProperties, LenProperties DEF Wires
<1>7. Same'
  BY <1>1, <1>5, <1>6 DEF Same
<1>8. Reads(c)' /\ Awaits(c)'
  <2>1. \A i \in 1..Len(toClient'): toClient'[i].part = "body"
    <3> TAKE i \in 1..Len(toClient')
    <3>1. i + 1 \in 1..Len(toClient) /\ toClient'[i] = toClient[i + 1]
      BY <1>6
    <3> QED
      BY <1>3, <3>1
  <2> QED
    BY <1>2, <1>3, <1>4, <1>5, <1>6, <2>1 DEF Reads, Awaits
<1>9. Clear'
  BY <1>1, <1>5 DEF Clear
<1>10. Alone'
  BY <1>2, <1>5, <1>7, <1>8, <1>9, Holding
<1> QED
  BY <1>2, <1>3, <1>4, <1>10

LEMMA AloneStep ==
  ASSUME Flags, Counters, Callings, Callings', Phases, Read, Wires, Replied, Alone, [Next]_vars
  PROVE  Alone'
<1> SUFFICES ASSUME ~expired' PROVE Alone'
  BY DEF Alone
<1> USE DEF authVars, cryptVars, callVars, readVars, wireVars, rxVars
<1>1. ASSUME NEW c \in Callers, Call(c) PROVE Alone'
  <2>1. Clear /\ Empty /\ Same /\ \A d \in Callers: Awaits(d) /\ Reads(d)
    BY <1>1, AloneParts DEF Call
  <2>2. \A d \in Callers: (pc'[d] = "header" <=> pc[d] = "header")
          /\ (pc'[d] = "body" <=> pc[d] = "body")
    BY <1>1 DEF Call, Callings
  <2>3. UNCHANGED <<torn, garbled, toReceiver, toClient, open, encrypted, cseq, answer>>
    BY <1>1 DEF Call
  <2>4. \A d \in Callers: pc[d] = "header" => auth' = auth /\ kind'[d] = kind[d]
    BY <1>1, CallerAssumption DEF Call, Callings
  <2>5. Clear' /\ Empty' /\ Same'
    BY <2>1, <2>2, <2>3 DEF Clear, Empty, Same
  <2>6. \A d \in Callers: Awaits(d)' /\ Reads(d)'
    BY <2>1, <2>2, <2>3, <2>4 DEF Awaits, Reads
  <2> QED
    BY <2>5, <2>6 DEF Alone, Clear, Empty, Same, Awaits, Reads
<1>2. ASSUME NEW c \in Callers, Lock(c) PROVE Alone'
  <2>1. Clear /\ Empty /\ Same /\ \A d \in Callers: Awaits(d) /\ Reads(d)
    BY <1>2, AloneParts DEF Lock
  <2>2. \A d \in Callers: (pc'[d] = "header" <=> pc[d] = "header")
          /\ (pc'[d] = "body" <=> pc[d] = "body")
    BY <1>2 DEF Lock, Callings
  <2>3. UNCHANGED <<torn, garbled, toReceiver, toClient, open, encrypted, cseq, answer>>
    BY <1>2 DEF Lock
  <2>4. \A d \in Callers: pc[d] = "header" => auth' = auth /\ kind'[d] = kind[d]
    BY <1>2, CallerAssumption DEF Lock, Callings
  <2>5. Clear' /\ Empty' /\ Same'
    BY <2>1, <2>2, <2>3 DEF Clear, Empty, Same
  <2>6. \A d \in Callers: Awaits(d)' /\ Reads(d)'
    BY <2>1, <2>2, <2>3, <2>4 DEF Awaits, Reads
  <2> QED
    BY <2>5, <2>6 DEF Alone, Clear, Empty, Same, Awaits, Reads
<1>3. ASSUME NEW c \in Callers, Send(c) PROVE Alone'
  <2>1. ~expired
    BY <1>3 DEF Send
  <2> QED
    BY <1>3, <2>1, SendAlone
<1>4. ASSUME NEW c \in Callers, SendFails(c) PROVE Alone'
  <2>1. ~expired /\ pc[c] = "sending" /\ ~open /\ Ends(c, "failed", Written(c))
          /\ UNCHANGED <<toReceiver, toClient, torn>>
    BY <1>4, SendFailsStep DEF SendFails, wireVars
  <2>2. Clear /\ toReceiver = <<>> /\ toClient = <<>>
    BY <2>1, AloneParts DEF Empty
  <2>3. \A d \in Callers: pc'[d] \notin {"header", "body"}
    BY <2>1, OthersWait DEF Ends, Callings
  <2>4. Clear'
    BY <2>1, <2>2 DEF Clear, Ends
  <2> QED
    BY <2>1, <2>2, <2>3, <2>4, Silent
<1>5. ASSUME NEW c \in Callers, ReadHeader(c) PROVE Alone'
  <2>1. ~expired
    BY <1>5 DEF ReadHeader
  <2> QED
    BY <1>5, <2>1, HeaderAlone
<1>6. ASSUME NEW c \in Callers, ReadBody(c) PROVE Alone'
  <2>1. ~expired
    BY <1>6 DEF ReadBody
  <2> QED
    BY <1>6, <2>1, BodyAlone
<1>7. ASSUME NEW c \in Callers, ReadEnds(c) PROVE Alone'
  <2>1. ~expired /\ UNCHANGED <<toReceiver, toClient, torn>>
    BY <1>7 DEF ReadEnds, wireVars
  <2>2. toReceiver = <<>> /\ toClient = <<>>
    BY <1>7, <2>1, AllRead
  <2> QED
    BY <1>7, <2>1, <2>2, OverStep, OverAlone
<1>8. ASSUME NEW c \in Callers, Expire(c) PROVE Alone'
  BY <1>8 DEF Expire
<1>9. ASSUME NEW c \in Callers, ReadFails(c) PROVE Alone'
  <2>1. ~expired
    BY <1>9 DEF ReadFails
  <2>2. ~open /\ toReceiver = <<>> /\ toClient = <<>> /\ UNCHANGED <<toClient, torn>>
    BY <1>9, <2>1, ClosedFails
  <2> QED
    BY <1>9, <2>1, <2>2, OverStep, OverAlone
<1>10. CASE Disconnect
  <2>1. ~expired /\ toReceiver' = <<>> /\ toClient' = <<>> /\ ~open'
    BY <1>10 DEF Disconnect
  <2>2. UNCHANGED <<torn, garbled, encrypted, cseq, answer, pc>>
    BY <1>10 DEF Disconnect, cryptVars, readVars
  <2>3. Clear /\ Empty /\ Same /\ \A d \in Callers: Awaits(d) /\ Reads(d)
    BY <2>1, AloneParts
  <2>4. Clear' /\ Empty' /\ Same'
    BY <2>1, <2>2, <2>3 DEF Clear, Empty, Same
  <2>5. \A d \in Callers: Awaits(d)' /\ Reads(d)'
    BY <2>1, <2>2, <2>3 DEF Awaits, Reads
  <2> QED
    BY <2>4, <2>5 DEF Alone, Clear, Empty, Same, Awaits, Reads
<1>11. CASE Answer
  <2>1. ~expired
    BY <1>11 DEF Answer
  <2>2. PICK status \in {"ok", "401", "error"}, n \in Nat : Replies(Head(toReceiver), status, n)
    BY <1>11, AnswerStep DEF Counters
  <2> QED
    BY <2>1, <2>2, AnswerAlone
<1>12. CASE Ignore
  <2>1. ~expired /\ toReceiver # <<>> /\ toReceiver' = Tail(toReceiver)
        /\ UNCHANGED <<torn, garbled, encrypted, cseq, answer, pc, kind, open, toClient, auth>>
    BY <1>12 DEF Ignore, readVars, cryptVars, callVars
  <2>2. PICK c \in Callers : pc[c] = "header" /\ toClient = <<>> /\ Len(toReceiver) <= 1 /\ open
    BY <2>1, Waiting
  <2>3. toReceiver' = <<>>
    BY <2>1, <2>2, OneLeft
  <2>4. Clear'
    BY <2>1, AloneParts DEF Clear
  <2>5. Same' /\ Reads(c)'
    BY <2>1, <2>2 DEF Same, Reads
  <2>6. Awaits(c)'
    <3>1. Len(toReceiver') <= 1
      BY <2>3
    <3> QED
      BY <2>1, <2>2, <2>3, <3>1 DEF Awaits
  <2> QED
    BY <2>1, <2>2, <2>4, <2>5, <2>6, Holding
<1>13. CASE UNCHANGED vars
  BY <1>13 DEF vars, Alone
<1> QED
  BY <1>1, <1>2, <1>3, <1>4, <1>5, <1>6, <1>7, <1>8, <1>9, <1>10, <1>11, <1>12, <1>13 DEF Next, Step

-----------------------------------------------------------------------------
(* The password, and whose answers are handed out                          *)

\* What holds for one password, in time, in parts.
Right == authPassword = "right" /\ ~expired
Signed(c) ==
  kind[c] = "rtsp" /\ (pc[c] = "sending" \/ (pc[c] = "header" /\ toReceiver # <<>>)) =>
    auth = IF First(c) THEN PreemptiveAuth("rtsp") ELSE <<nonce>>
Current(c) ==
  Challenge(c) =>
    /\ kind[c] = "rtsp" => First(c)
    /\ pc[c] = "header" => toClient[1].nonce = nonce
    /\ pc[c] = "body" => answer.nonce = nonce
Unchallenged == open /\ authChallenge # nonce /\ ~Challenged => challenged < nonce

LEMMA DigestParts ==
  Digests <=> (Right => Unchallenged /\ \A c \in Callers: Signed(c) /\ Current(c))
BY DEF Digests, Right, Unchallenged, Signed, Current

\* After a step nobody sends or reads; challenged says what it did.
LEMMA NobodySends ==
  ASSUME \A c \in Callers: pc'[c] \notin {"sending", "header", "body"},
         ~open' \/ authChallenge' = nonce' \/ challenged' < nonce'
  PROVE  Digests'
BY DEF Digests, Unchallenged, Signed, Current, Challenge

\* Nor does anyone but the holder.
LEMMA HolderDigests ==
  ASSUME Callings', NEW c \in Callers, pc'[c] \in {"sending", "header", "body"},
         Right' => Unchallenged' /\ Signed(c)' /\ Current(c)'
  PROVE  Digests'
<1>1. \A d \in Callers: d # c => pc'[d] \notin {"sending", "header", "body"}
  BY DEF Callings
<1>2. Right' => \A d \in Callers: Signed(d)' /\ Current(d)'
  BY <1>1 DEF Signed, Current, Challenge
<1> QED
  BY <1>2 DEF Digests, Right, Unchallenged, Signed, Current

\* Only the holder can have a challenge.
LEMMA NoChallenge ==
  ASSUME Callings, NEW c \in Callers, pc[c] \in {"sending", "header", "body"}, ~Challenge(c)
  PROVE  ~Challenged
<1>1. \A d \in Callers: d # c => pc[d] \notin {"sending", "header", "body"}
  BY DEF Callings
<1> QED
  BY <1>1 DEF Challenged, Challenge

\* With the right password a challenge is answered, never handed out.
LEMMA OverDigests ==
  ASSUME Counters, Callings, Callings', Digests, Right, ChallengedOncePerNonce, NEW c \in Callers,
         pc[c] \in {"header", "body"}, Over(c), pc[c] = "header" => Fails(c), Fails(c) => ~open,
         UNCHANGED <<authPassword, nonce, challenged, kind, expired>>
  PROVE  /\ Digests'
         /\ Hands(c) /\ kind[c] = "rtsp" => answer.status # "401"
<1>1. Unchallenged /\ Signed(c) /\ Current(c)
  BY DigestParts
<1>2. CASE Retries(c)
  <2>1. /\ pc'[c] = "sending" /\ tries' = 1 /\ authChallenge' = answer.nonce
        /\ auth' = RetryAuth(kind[c], answer.nonce)
    BY <1>2 DEF Retries, Callings
  <2>2. pc[c] = "body"
    BY <1>2 DEF Retries, Fails, Ends, Callings
  <2>3. answer.nonce = nonce
    BY <1>1, <1>2, <2>2 DEF Current, Challenge, Retries
  <2>4. Signed(c)'
    BY <2>1, <2>3 DEF Signed, First, RetryAuth
  <2>5. Current(c)'
    BY <2>1 DEF Current, Challenge
  <2>6. Unchallenged'
    BY <2>1, <2>3 DEF Unchallenged
  <2>7. Digests'
    BY <2>1, <2>4, <2>5, <2>6, HolderDigests
  <2>8. ~Hands(c)
    <3>1. pc'[c] # "idle"
      BY <2>1
    <3> QED
      BY <3>1 DEF Hands, Ends, Callings
  <2> QED
    BY <2>7, <2>8
<1>3. ASSUME Hands(c) \/ Fails(c)
      PROVE  \A d \in Callers: pc'[d] \notin {"sending", "header", "body"}
  <2>1. pc'[c] = "idle" /\ \A d \in Callers: d # c => pc'[d] = pc[d]
    BY <1>3 DEF Hands, Fails, Ends, Callings
  <2> QED
    BY <2>1, OthersWait
<1>4. CASE Hands(c) /\ ~Fails(c)
  <2>1. pc[c] = "body"
    BY <1>4
  <2>2. authPassword # "none"
    BY DEF Right
  <2>3. answer.status = "401" => ~(tries = 1 /\ kind[c] # "raw")
    BY <1>4, <2>2 DEF Hands
  <2>4. authChallenge' = authChallenge
    BY <1>4, <2>3 DEF Hands
  <2>5. kind[c] = "rtsp" => answer.status # "401"
    BY <1>1, <2>1, <2>3 DEF Current, Challenge, First
  <2>6. ~Challenged
    <3>1. \A d \in Callers: d # c => pc[d] \notin {"sending", "header", "body"}
      BY <2>1 DEF Callings
    <3>2. Challenge(c) => ~(First(c) /\ kind[c] # "raw")
      BY <2>1, <2>3 DEF Challenge, First
    <3> QED
      BY <3>1, <3>2 DEF Challenged, Challenge
  <2>7. open' => open
    BY <1>4 DEF Hands, Ends, Paired
  <2>8. ~open' \/ authChallenge' = nonce' \/ challenged' < nonce'
    BY <1>1, <2>4, <2>6, <2>7 DEF Unchallenged
  <2> QED
    BY <1>3, <1>4, <2>5, <2>8, NobodySends
<1>5. CASE Fails(c)
  <2>1. ~open'
    BY <1>5 DEF Fails, Ends, Paired
  <2>2. Digests'
    BY <1>3, <1>5, <2>1, NobodySends
  <2>3. ~Hands(c)
    <3>1. result'[c] = "none"
      BY <1>5 DEF Fails, Callings
    <3> QED
      BY <3>1 DEF Hands, Callings
  <2> QED
    BY <1>5, <2>2, <2>3
<1> QED
  BY <1>2, <1>4, <1>5 DEF Over

\* A challenge on its way, to a first request.
LEMMA AnsweredDigests ==
  ASSUME Callings', NEW c \in Callers, pc'[c] = "header", toReceiver' = <<>>, kind'[c] = "rtsp",
         toClient'[1].status = "401", toClient'[1].nonce = nonce', toClient' # <<>>,
         First(c)', challenged' <= nonce'
  PROVE  Digests' /\ ChallengedOncePerNonce'
<1>1. Challenge(c)' /\ Challenged'
  BY DEF Challenge, Challenged
<1>2. Signed(c)' /\ Current(c)'
  BY DEF Signed, Current
<1>3. Unchallenged'
  BY <1>1 DEF Unchallenged
<1>4. Digests'
  BY <1>2, <1>3, HolderDigests
<1> QED
  BY <1>4 DEF ChallengedOncePerNonce

\* The receiver challenges a first RTSP request only, and one for each nonce.
LEMMA AnswerDigests ==
  ASSUME Counters, Callings, Callings', Wires, Alone, Digests, ChallengedOncePerNonce, Right,
         toReceiver # <<>>, NEW status \in {"ok", "401", "error"}, NEW n \in Nat,
         Replies(Head(toReceiver), status, n),
         NEW c \in Callers, pc[c] = "header", toClient = <<>>, toReceiver' = <<>>,
         Head(toReceiver).kind = kind[c], Head(toReceiver).auth = auth,
         toClient'[1].status = status, toClient'[1].nonce = nonce',
         toClient' # <<>>
  PROVE  Digests' /\ ChallengedOncePerNonce'
<1> DEFINE r == Head(toReceiver)
<1>1. Unchallenged /\ Signed(c) /\ challenged <= nonce
  BY DigestParts DEF ChallengedOncePerNonce, Right
<1>2. ~Challenged
  BY NoChallenge DEF Challenge
<1>3. /\ UNCHANGED <<pc, kind, tries, open, authChallenge, authPassword, expired>> /\ open
      /\ nonce' \in {nonce, nonce + 1} /\ (nonce' = nonce + 1 => status = "ok")
      /\ status = "401" <=> Asks(r)
      /\ challenged' = challenged + IF Asks(r) /\ r.kind = "rtsp" THEN 1 ELSE 0
  BY DEF Replies, authVars, callVars
<1>4. ASSUME Asks(r), kind[c] = "rtsp" PROVE First(c) /\ authChallenge # nonce
  <2>1. auth = IF First(c) THEN PreemptiveAuth("rtsp") ELSE <<nonce>>
    BY <1>1, <1>4 DEF Signed
  <2>2. ~Authorized(r) /\ authPassword = "right"
    BY <1>4 DEF Asks, Right
  <2>3. auth # <<nonce>>
    <3> SUFFICES ASSUME auth = <<nonce>> PROVE FALSE
      OBVIOUS
    <3>1. r.auth = <<nonce>>
      OBVIOUS
    <3> HIDE DEF r
    <3>2. r.auth # <<>> /\ r.auth[1] = nonce
      BY <3>1
    <3> QED
      BY <2>2, <3>2 DEF Authorized
  <2>4. First(c)
    BY <2>1, <2>3
  <2>5. authChallenge # nonce
    BY <2>1, <2>2, <2>3, <2>4 DEF PreemptiveAuth, Counters
  <2> QED
    BY <2>4, <2>5
<1> HIDE DEF r
<1>5. CASE Asks(r) /\ kind[c] = "rtsp"
  <2>1. First(c) /\ authChallenge # nonce /\ status = "401" /\ nonce' = nonce
          /\ challenged' = challenged + 1
    <3>1. First(c) /\ authChallenge # nonce
      BY <1>4, <1>5
    <3>2. status = "401" /\ nonce' = nonce
      BY <1>3, <1>5 DEF Counters
    <3>3. challenged' = challenged + 1
      BY <1>3, <1>5 DEF r
    <3> QED
      BY <3>1, <3>2, <3>3
  <2>2. challenged < nonce
    BY <1>1, <1>2, <1>3, <2>1 DEF Unchallenged
  <2>3. challenged' <= nonce'
    BY <2>1, <2>2 DEF Counters
  <2>4. First(c)'
    BY <1>3, <2>1 DEF First
  <2> QED
    BY <1>3, <1>5, <2>1, <2>3, <2>4, AnsweredDigests
<1>6. CASE ~(Asks(r) /\ kind[c] = "rtsp")
  <2>1. challenged' = challenged
    <3>1. ~(Asks(r) /\ r.kind = "rtsp")
      BY <1>6 DEF r
    <3> QED
      BY <1>3, <3>1 DEF Counters
  <2>2. challenged' <= nonce'
    BY <1>1, <1>3, <2>1 DEF Counters
  <2>3. authChallenge' # nonce' => challenged' < nonce'
    <3>1. CASE nonce' = nonce
      BY <1>1, <1>2, <1>3, <2>1, <3>1 DEF Unchallenged
    <3>2. CASE nonce' = nonce + 1
      BY <1>1, <2>1, <3>2 DEF Counters
    <3> QED
      BY <1>3, <3>1, <3>2
  <2>4. status = "401" => kind'[c] # "rtsp" /\ nonce' = nonce
    BY <1>3, <1>6 DEF Counters
  <2>5. Signed(c)' /\ Current(c)'
    BY <1>3, <2>4 DEF Signed, Current, Challenge
  <2>6. Unchallenged'
    BY <2>3 DEF Unchallenged
  <2>7. Digests'
    BY <1>3, <2>5, <2>6, HolderDigests
  <2> QED
    BY <2>2, <2>7 DEF ChallengedOncePerNonce
<1> QED
  BY <1>5, <1>6

LEMMA DigestsStep ==
  ASSUME Counters, Callings, Callings', Flags, Read, Wires, Replied, Phases, Alone, Alone', Digests,
         ChallengedOncePerNonce, [Next]_vars
  PROVE  Digests' /\ ChallengedOncePerNonce'
<1> SUFFICES ASSUME Right' PROVE Digests' /\ ChallengedOncePerNonce'
  BY DEF Digests, ChallengedOncePerNonce, Right
<1> USE DEF authVars, cryptVars, callVars, readVars, wireVars, rxVars
<1>1. ASSUME NEW c \in Callers, Call(c) PROVE (Digests' /\ ChallengedOncePerNonce')
  <2>1. Right /\ ~expired /\ UNCHANGED <<authPassword, expired, nonce, challenged>>
    BY <1>1 DEF Call, Right
  <2>2. Unchallenged /\ (\A d \in Callers: Signed(d) /\ Current(d)) /\ ChallengedOncePerNonce'
    BY <2>1, DigestParts DEF ChallengedOncePerNonce
  <2>3. /\ \A d \in Callers: d # c => pc'[d] = pc[d] /\ kind'[d] = kind[d]
        /\ pc[c] = "idle" /\ pc'[c] = "waiting"
    BY <1>1 DEF Call, Callings
  <2>4. UNCHANGED <<toReceiver, toClient, auth, tries, answer, open, authChallenge>>
    BY <1>1 DEF Call
  <2>5. \A d \in Callers: Challenge(d)' <=> Challenge(d)
    BY <2>3, <2>4 DEF Challenge
  <2>6. Challenged' <=> Challenged
    BY <2>3, <2>4, <2>5 DEF Challenged, First, Challenge
  <2>7. \A d \in Callers: Signed(d)'
    <3> TAKE d \in Callers
    <3>1. CASE d = c
      BY <2>3, <3>1 DEF Signed
    <3>2. CASE d # c
      BY <2>1, <2>2, <2>3, <2>4, <3>2 DEF Signed, First, PreemptiveAuth
    <3> QED
      BY <3>1, <3>2
  <2>8. \A d \in Callers: Current(d)'
    <3> TAKE d \in Callers
    <3>1. CASE d = c
      BY <2>3, <3>1 DEF Current, Challenge
    <3>2. CASE d # c
      BY <2>1, <2>2, <2>3, <2>4, <3>2 DEF Current, Challenge, First
    <3> QED
      BY <3>1, <3>2
  <2>9. Unchallenged'
    BY <2>1, <2>2, <2>4, <2>6 DEF Unchallenged
  <2> QED
    BY <2>2, <2>7, <2>8, <2>9 DEF Digests, Right, Unchallenged, Signed, Current
<1>2. ASSUME NEW c \in Callers, Lock(c) PROVE (Digests' /\ ChallengedOncePerNonce')
  <2>1. Right /\ ~expired /\ UNCHANGED <<authPassword, expired, nonce, challenged>>
    BY <1>2 DEF Lock, Right
  <2>2. Unchallenged /\ (\A d \in Callers: Signed(d) /\ Current(d)) /\ ChallengedOncePerNonce'
    BY <2>1, DigestParts DEF ChallengedOncePerNonce
  <2>3. /\ auth' = PreemptiveAuth(kind[c]) /\ tries' = 0 /\ pc'[c] = "sending" /\ UNCHANGED kind
        /\ UNCHANGED <<open, authChallenge, authPassword>>
    BY <1>2 DEF Lock, Callings
  <2>4. \A d \in Callers: pc[d] \notin {"sending", "header", "body"}
    BY <1>2, CallerAssumption DEF Lock, Callings
  <2>5. ~Challenged
    BY <2>4 DEF Challenged, Challenge
  <2>7. Signed(c)'
    BY <2>3 DEF Signed, First, PreemptiveAuth
  <2>8. Current(c)'
    BY <2>3 DEF Current, Challenge, First
  <2>9. Unchallenged'
    BY <2>1, <2>2, <2>3, <2>5 DEF Unchallenged
  <2> QED
    BY <2>2, <2>3, <2>7, <2>8, <2>9, HolderDigests
<1>3. ASSUME NEW c \in Callers, Send(c) PROVE (Digests' /\ ChallengedOncePerNonce')
  <2>1. Right /\ ~expired /\ UNCHANGED <<authPassword, expired, nonce, challenged>>
    BY <1>3 DEF Send, Right
  <2>2. Unchallenged /\ (\A d \in Callers: Signed(d) /\ Current(d)) /\ ChallengedOncePerNonce'
    BY <2>1, DigestParts DEF ChallengedOncePerNonce
  <2>3. /\ UNCHANGED <<auth, kind, open, authChallenge, authPassword, toClient>>
        /\ tries' = tries + 1 /\ pc[c] = "sending" /\ pc'[c] = "header"
    BY <1>3 DEF Send, Callings
  <2>4. toClient = <<>>
    <3>1. \A d \in Callers: pc[d] \notin {"header", "body"}
      BY <2>3, OthersWait
    <3> QED
      BY <2>1, <3>1, AloneParts DEF Empty
  <2>5. ~Challenged
    BY <2>3, NoChallenge DEF Challenge
  <2>6. First(c)' <=> First(c)
    BY <2>3 DEF First, Callings
  <2>7. Signed(c)'
    BY <2>1, <2>2, <2>3, <2>6 DEF Signed, PreemptiveAuth
  <2>8. Current(c)'
    BY <2>3, <2>4 DEF Current, Challenge, First
  <2>9. Unchallenged'
    BY <2>1, <2>2, <2>3, <2>5 DEF Unchallenged
  <2> QED
    BY <2>2, <2>3, <2>7, <2>8, <2>9, HolderDigests
<1>4. ASSUME NEW c \in Callers, SendFails(c) PROVE (Digests' /\ ChallengedOncePerNonce')
  <2>1. Right /\ ~expired /\ UNCHANGED <<authPassword, expired, nonce, challenged>>
    BY <1>4 DEF SendFails, Right
  <2>2. Unchallenged /\ (\A d \in Callers: Signed(d) /\ Current(d)) /\ ChallengedOncePerNonce'
    BY <2>1, DigestParts DEF ChallengedOncePerNonce
  <2>3. pc[c] = "sending" /\ ~open /\ Ends(c, "failed", Written(c))
    BY <1>4, SendFailsStep
  <2>4. ~open'
    BY <2>3 DEF Ends, Paired
  <2>5. \A d \in Callers: pc'[d] \notin {"sending", "header", "body"}
    BY <2>3, OthersWait DEF Ends, Callings
  <2> QED
    BY <2>2, <2>4, <2>5, NobodySends
<1>5. ASSUME NEW c \in Callers, ReadHeader(c) PROVE (Digests' /\ ChallengedOncePerNonce')
  <2>1. Right /\ ~expired /\ UNCHANGED <<authPassword, expired, nonce, challenged>>
    BY <1>5 DEF ReadHeader, Right
  <2>2. Unchallenged /\ (\A d \in Callers: Signed(d) /\ Current(d)) /\ ChallengedOncePerNonce'
    BY <2>1, DigestParts DEF ChallengedOncePerNonce
  <2>3. /\ toReceiver = <<>> /\ pc'[c] = "body"
        /\ answer'.status = toClient[1].status /\ answer'.nonce = toClient[1].nonce
    BY <1>5, <2>1, HeaderAlone
  <2>4. pc[c] = "header" /\ toClient # <<>> /\ UNCHANGED <<kind, tries, open, authChallenge>>
    BY <1>5 DEF ReadHeader
  <2>5. Challenged' => Challenged
    <3>1. \A d \in Callers: d # c => pc'[d] = pc[d] /\ pc[d] \notin {"header", "body"}
      BY <1>5, <2>4, OthersWait DEF ReadHeader, Callings
    <3>2. Challenge(c)' => Challenge(c)
      BY <2>3, <2>4 DEF Challenge
    <3> QED
      BY <2>3, <2>4, <3>1, <3>2 DEF Challenged, Challenge, First
  <2>6. Challenged => Challenged'
    <3>1. \A d \in Callers: d # c => pc[d] \notin {"header", "body"}
      BY <2>4, OthersWait
    <3>2. Challenge(c) => Challenge(c)'
      BY <2>3, <2>4 DEF Challenge
    <3> QED
      BY <2>3, <2>4, <3>1, <3>2 DEF Challenged, Challenge, First
  <2>7. Signed(c)'
    BY <2>3 DEF Signed, First, PreemptiveAuth
  <2>8. Current(c)'
    BY <2>1, <2>2, <2>3, <2>4 DEF Current, Challenge, First
  <2>9. Unchallenged'
    BY <2>1, <2>2, <2>4, <2>6 DEF Unchallenged
  <2> QED
    BY <2>2, <2>3, <2>7, <2>8, <2>9, HolderDigests
<1>6. ASSUME NEW c \in Callers, ReadBody(c) PROVE (Digests' /\ ChallengedOncePerNonce')
  <2>1. Right /\ ~expired /\ UNCHANGED <<authPassword, expired, nonce, challenged>>
    BY <1>6 DEF ReadBody, Right
  <2>2. Unchallenged /\ (\A d \in Callers: Signed(d) /\ Current(d)) /\ ChallengedOncePerNonce'
    BY <2>1, DigestParts DEF ChallengedOncePerNonce
  <2>3. toReceiver = <<>> /\ pc[c] = "body" /\ answer'.status = answer.status
          /\ answer'.nonce = answer.nonce
    BY <1>6, <2>1, BodyAlone
  <2>4. UNCHANGED <<kind, tries, open, authChallenge, pc>>
    BY <1>6 DEF ReadBody
  <2>6. Challenged => Challenged'
    <3>1. \A d \in Callers: d # c => pc[d] \notin {"header", "body"}
      BY <2>3, OthersWait
    <3>2. Challenge(c) => Challenge(c)'
      BY <2>3, <2>4 DEF Challenge
    <3> QED
      BY <2>3, <2>4, <3>1, <3>2 DEF Challenged, Challenge, First
  <2>7. Signed(c)'
    BY <2>3, <2>4 DEF Signed, First, PreemptiveAuth
  <2>8. Current(c)'
    BY <2>1, <2>2, <2>3, <2>4 DEF Current, Challenge, First
  <2>9. Unchallenged'
    BY <2>1, <2>2, <2>4, <2>6 DEF Unchallenged
  <2> QED
    BY <2>2, <2>3, <2>4, <2>7, <2>8, <2>9, HolderDigests
<1>7. ASSUME NEW c \in Callers, ReadEnds(c) PROVE (Digests' /\ ChallengedOncePerNonce')
  <2>1. Right /\ ~expired /\ UNCHANGED <<authPassword, expired, nonce, challenged>>
    BY <1>7 DEF ReadEnds, Right
  <2>2. Unchallenged /\ (\A d \in Callers: Signed(d) /\ Current(d)) /\ ChallengedOncePerNonce'
    BY <2>1, DigestParts DEF ChallengedOncePerNonce
  <2>3. Over(c) /\ pc[c] \in {"header", "body"} /\ (pc[c] = "header" => Fails(c)) /\ UNCHANGED kind
    BY <1>7, OverStep
  <2>4. ~Fails(c)
    <3>1. Retries(c) \/ Hands(c)
      BY <1>7, AnsweredStep DEF ReadEnds
    <3>2. result'[c] # "none" \/ pc'[c] # "idle"
      BY <3>1 DEF Retries, Hands, Callings
    <3> QED
      BY <3>2 DEF Fails, Ends, Callings
  <2> QED
    BY <2>1, <2>2, <2>3, <2>4, OverDigests
<1>8. ASSUME NEW c \in Callers, Expire(c) PROVE (Digests' /\ ChallengedOncePerNonce')
  BY <1>8 DEF Expire, Right
<1>9. ASSUME NEW c \in Callers, ReadFails(c) PROVE (Digests' /\ ChallengedOncePerNonce')
  <2>1. Right /\ ~expired /\ UNCHANGED <<authPassword, expired, nonce, challenged>>
    BY <1>9 DEF ReadFails, Right
  <2>2. Unchallenged /\ (\A d \in Callers: Signed(d) /\ Current(d)) /\ ChallengedOncePerNonce'
    BY <2>1, DigestParts DEF ChallengedOncePerNonce
  <2>3. Over(c) /\ pc[c] \in {"header", "body"} /\ (pc[c] = "header" => Fails(c)) /\ UNCHANGED kind
    BY <1>9, OverStep
  <2>4. ~open
    BY <1>9, <2>1, ClosedFails
  <2> QED
    BY <2>1, <2>2, <2>3, <2>4, OverDigests
<1>10. CASE Disconnect
  <2>1. Right /\ ~expired /\ UNCHANGED <<authPassword, expired, nonce, challenged>>
    BY <1>10 DEF Disconnect, Right
  <2>2. Unchallenged /\ (\A d \in Callers: Signed(d) /\ Current(d)) /\ ChallengedOncePerNonce'
    BY <2>1, DigestParts DEF ChallengedOncePerNonce
  <2>3. UNCHANGED <<pc, kind, tries, auth, answer, authChallenge>> /\ toReceiver' = <<>>
                    /\ toClient' = <<>> /\ ~open'
    BY <1>10 DEF Disconnect
  <2>4. \A d \in Callers: Signed(d)'
    BY <2>1, <2>2, <2>3 DEF Signed, First, PreemptiveAuth
  <2>5. \A d \in Callers: Current(d)'
    BY <2>1, <2>2, <2>3 DEF Current, Challenge, First
  <2>6. Unchallenged'
    BY <2>3 DEF Unchallenged
  <2> QED
    BY <2>2, <2>4, <2>5, <2>6 DEF Digests, Right, Unchallenged, Signed, Current
<1>11. CASE Answer
  <2>1. Right /\ ~expired
    BY <1>11 DEF Answer, Right
  <2>2. PICK status \in {"ok", "401", "error"}, n \in Nat : Replies(Head(toReceiver), status, n)
    BY <1>11, AnswerStep DEF Counters
  <2>3. PICK c \in Callers :
          /\ pc[c] = "header" /\ toClient = <<>> /\ toReceiver' = <<>>
          /\ Head(toReceiver).kind = kind[c] /\ Head(toReceiver).auth = auth
          /\ toClient'[1].status = status /\ toClient'[1].nonce = nonce' /\ toClient' # <<>>
    BY <2>1, <2>2, AnswerAlone
  <2>4. toReceiver # <<>>
    BY <2>2 DEF Replies
  <2> QED
    BY <2>1, <2>2, <2>3, <2>4, AnswerDigests
<1>12. CASE Ignore
  <2>1. Right /\ ~expired /\ UNCHANGED <<authPassword, expired, nonce, challenged>>
    BY <1>12 DEF Ignore, Right
  <2>2. Unchallenged /\ (\A d \in Callers: Signed(d) /\ Current(d)) /\ ChallengedOncePerNonce'
    BY <2>1, DigestParts DEF ChallengedOncePerNonce
  <2>3. /\ UNCHANGED <<pc, kind, tries, auth, answer, open, authChallenge, toClient>>
        /\ toReceiver # <<>> /\ toReceiver' = Tail(toReceiver)
    BY <1>12 DEF Ignore
  <2>4. \A d \in Callers: Signed(d)'
    BY <2>1, <2>2, <2>3 DEF Signed, First, PreemptiveAuth
  <2>5. \A d \in Callers: Current(d)'
    BY <2>1, <2>2, <2>3 DEF Current, Challenge, First
  <2>6. Challenged => Challenged'
    BY <2>3 DEF Challenged, Challenge, First
  <2>7. Unchallenged'
    BY <2>1, <2>2, <2>3, <2>6 DEF Unchallenged
  <2> QED
    BY <2>2, <2>4, <2>5, <2>7 DEF Digests, Right, Unchallenged, Signed, Current
<1>13. CASE UNCHANGED vars
  BY <1>13 DEF vars, Right, Digests, ChallengedOncePerNonce, First, PreemptiveAuth, Challenge,
       Challenged
<1> QED
  BY <1>1, <1>2, <1>3, <1>4, <1>5, <1>6, <1>7, <1>8, <1>9, <1>10, <1>11, <1>12, <1>13 DEF Next, Step

\* The results of the others stay, and the caller's is none or is not yet.
LEMMA KeptResults ==
  ASSUME OwnAnswerInTime, RightPasswordAccepted, NEW c \in Callers,
         UNCHANGED <<authPassword, expired>>,
         \A d \in Callers: d # c => pc'[d] = pc[d] /\ kind'[d] = kind[d] /\ result'[d] = result[d],
         result'[c] \in {"none", result[c]}, pc'[c] # "idle" \/ result'[c] = "none"
  PROVE  OwnAnswerInTime' /\ RightPasswordAccepted'
BY DEF OwnAnswerInTime, OwnAnswer, RightPasswordAccepted

LEMMA OverResults ==
  ASSUME Counters, Callings, Callings', Alone, Digests, ChallengedOncePerNonce,
         OwnAnswerInTime, RightPasswordAccepted, NEW c \in Callers,
         pc[c] \in {"header", "body"}, Over(c), pc[c] = "header" => Fails(c),
         ~expired => (Fails(c) => ~open),
         UNCHANGED <<authPassword, nonce, challenged, kind, expired>>
  PROVE  OwnAnswerInTime' /\ RightPasswordAccepted'
<1>1. CASE Retries(c)
  <2>1. /\ \A d \in Callers: d # c => pc'[d] = pc[d] /\ kind'[d] = kind[d] /\ result'[d] = result[d]
        /\ result'[c] = result[c] /\ pc'[c] # "idle"
    BY <1>1 DEF Retries, Callings
  <2> QED
    BY <2>1, KeptResults
<1>2. CASE Fails(c)
  <2>1. /\ \A d \in Callers: d # c => pc'[d] = pc[d] /\ kind'[d] = kind[d] /\ result'[d] = result[d]
        /\ result'[c] = "none"
    BY <1>2 DEF Fails, Ends, Callings
  <2> QED
    BY <2>1, KeptResults
<1>3. CASE Hands(c) /\ ~Fails(c)
  <2>1. /\ \A d \in Callers: d # c => pc'[d] = pc[d] /\ kind'[d] = kind[d] /\ result'[d] = result[d]
        /\ result'[c] = IF answer.of # cseq \/ garbled THEN "other"
                        ELSE IF answer.status = "401" THEN "rejected" ELSE "own"
    BY <1>3 DEF Hands, Ends, Callings
  <2>2. ~expired => answer.of = cseq /\ ~garbled
    <3> SUFFICES ASSUME ~expired PROVE answer.of = cseq /\ ~garbled
      OBVIOUS
    <3>1. Clear /\ Reads(c)
      BY AloneParts
    <3> QED
      BY <1>3, <3>1 DEF Clear, Reads
  <2>3. OwnAnswerInTime'
    <3> SUFFICES ASSUME ~expired, NEW d \in Callers PROVE result'[d] # "other"
      BY DEF OwnAnswerInTime, OwnAnswer
    <3>1. CASE d = c
      BY <2>1, <2>2, <3>1
    <3>2. CASE d # c
      BY <2>1, <3>2 DEF OwnAnswerInTime, OwnAnswer
    <3> QED
      BY <3>1, <3>2
  <2>4. RightPasswordAccepted'
    <3> SUFFICES ASSUME Right, NEW d \in Callers, kind'[d] = "rtsp", pc'[d] = "idle"
                 PROVE  result'[d] # "rejected"
      BY DEF RightPasswordAccepted, Right
    <3>1. CASE d = c
      <4>1. ~expired
        BY DEF Right
      <4>2. answer.status # "401"
        BY <1>3, <3>1, <4>1, OverDigests
      <4> QED
        BY <2>1, <3>1, <4>2
    <3>2. CASE d # c
      BY <2>1, <3>2 DEF RightPasswordAccepted, Right
    <3> QED
      BY <3>1, <3>2
  <2> QED
    BY <2>3, <2>4
<1> QED
  BY <1>1, <1>2, <1>3 DEF Over

\* No caller is handed another's answer, none with the right password a 401.
LEMMA ResultsStep ==
  ASSUME Counters, Callings, Callings', Flags, Read, Wires, Replied, Phases, Alone, Digests,
         ChallengedOncePerNonce, OwnAnswerInTime, RightPasswordAccepted, [Next]_vars
  PROVE  OwnAnswerInTime' /\ RightPasswordAccepted'
<1> USE DEF authVars, cryptVars, callVars, readVars, wireVars, rxVars
<1>1. ASSUME NEW c \in Callers, Call(c) PROVE (OwnAnswerInTime' /\ RightPasswordAccepted')
  <2>1. /\ UNCHANGED <<authPassword, expired>>
        /\ \A d \in Callers: d # c => pc'[d] = pc[d] /\ kind'[d] = kind[d] /\ result'[d] = result[d]
        /\ result'[c] \in {"none", result[c]} /\ (pc'[c] # "idle" \/ result'[c] = "none")
    BY <1>1 DEF Call, Callings
  <2> QED
    BY <2>1, KeptResults
<1>2. ASSUME NEW c \in Callers, Lock(c) PROVE (OwnAnswerInTime' /\ RightPasswordAccepted')
  <2>1. /\ UNCHANGED <<authPassword, expired>>
        /\ \A d \in Callers: d # c => pc'[d] = pc[d] /\ kind'[d] = kind[d] /\ result'[d] = result[d]
        /\ result'[c] \in {"none", result[c]} /\ (pc'[c] # "idle" \/ result'[c] = "none")
    BY <1>2 DEF Lock, Callings
  <2> QED
    BY <2>1, KeptResults
<1>3. ASSUME NEW c \in Callers, Send(c) PROVE (OwnAnswerInTime' /\ RightPasswordAccepted')
  <2>1. /\ UNCHANGED <<authPassword, expired>>
        /\ \A d \in Callers: d # c => pc'[d] = pc[d] /\ kind'[d] = kind[d] /\ result'[d] = result[d]
        /\ result'[c] \in {"none", result[c]} /\ (pc'[c] # "idle" \/ result'[c] = "none")
    BY <1>3 DEF Send, Callings
  <2> QED
    BY <2>1, KeptResults
<1>4. ASSUME NEW c \in Callers, SendFails(c) PROVE (OwnAnswerInTime' /\ RightPasswordAccepted')
  <2>1. result' = [result EXCEPT ![c] = "none"] /\ Ends(c, "failed", Written(c))
          /\ UNCHANGED <<kind, authPassword, expired>>
    BY <1>4, SendFailsStep DEF SendFails, Fail, Return
  <2>2. /\ \A d \in Callers: d # c => pc'[d] = pc[d] /\ kind'[d] = kind[d] /\ result'[d] = result[d]
        /\ result'[c] = "none"
    BY <2>1 DEF Ends, Callings
  <2> QED
    BY <2>1, <2>2, KeptResults
<1>5. ASSUME NEW c \in Callers, ReadHeader(c) PROVE (OwnAnswerInTime' /\ RightPasswordAccepted')
  <2>1. /\ UNCHANGED <<authPassword, expired>>
        /\ \A d \in Callers: d # c => pc'[d] = pc[d] /\ kind'[d] = kind[d] /\ result'[d] = result[d]
        /\ result'[c] \in {"none", result[c]} /\ (pc'[c] # "idle" \/ result'[c] = "none")
    BY <1>5 DEF ReadHeader, Callings
  <2> QED
    BY <2>1, KeptResults
<1>6. ASSUME NEW c \in Callers, ReadBody(c) PROVE (OwnAnswerInTime' /\ RightPasswordAccepted')
  <2>1. /\ UNCHANGED <<authPassword, expired>>
        /\ \A d \in Callers: d # c => pc'[d] = pc[d] /\ kind'[d] = kind[d] /\ result'[d] = result[d]
        /\ result'[c] \in {"none", result[c]} /\ (pc'[c] # "idle" \/ result'[c] = "none")
    BY <1>6 DEF ReadBody, Callings
  <2> QED
    BY <2>1, KeptResults
<1>7. ASSUME NEW c \in Callers, ReadEnds(c) PROVE (OwnAnswerInTime' /\ RightPasswordAccepted')
  <2>1. /\ UNCHANGED <<authPassword, nonce, challenged, kind, expired>>
        /\ Over(c) /\ pc[c] \in {"header", "body"} /\ (pc[c] = "header" => Fails(c))
    BY <1>7, OverStep DEF ReadEnds
  <2>2. ~expired => (Fails(c) => ~open)
    <3>1. Retries(c) \/ Hands(c)
      BY <1>7, AnsweredStep DEF ReadEnds
    <3>2. result'[c] # "none" \/ pc'[c] # "idle"
      BY <3>1 DEF Retries, Hands, Callings
    <3> QED
      BY <3>2 DEF Fails, Ends, Callings
  <2> QED
    BY <2>1, <2>2, OverResults
<1>8. ASSUME NEW c \in Callers, Expire(c) PROVE (OwnAnswerInTime' /\ RightPasswordAccepted')
  BY <1>8 DEF Expire, OwnAnswerInTime, RightPasswordAccepted
<1>9. ASSUME NEW c \in Callers, ReadFails(c) PROVE (OwnAnswerInTime' /\ RightPasswordAccepted')
  <2>1. /\ UNCHANGED <<authPassword, nonce, challenged, kind, expired>>
        /\ Over(c) /\ pc[c] \in {"header", "body"} /\ (pc[c] = "header" => Fails(c))
    BY <1>9, OverStep DEF ReadFails
  <2>2. ~expired => (Fails(c) => ~open)
    BY <1>9, ClosedFails
  <2> QED
    BY <2>1, <2>2, OverResults
<1>10. CASE Disconnect
  BY <1>10 DEF Disconnect, OwnAnswerInTime, RightPasswordAccepted, OwnAnswer
<1>11. CASE Answer
  BY <1>11 DEF Answer, OwnAnswerInTime, RightPasswordAccepted, OwnAnswer
<1>12. CASE Ignore
  BY <1>12 DEF Ignore, OwnAnswerInTime, RightPasswordAccepted, OwnAnswer
<1>13. CASE UNCHANGED vars
  BY <1>13 DEF vars, OwnAnswerInTime, RightPasswordAccepted, OwnAnswer
<1> QED
  BY <1>1, <1>2, <1>3, <1>4, <1>5, <1>6, <1>7, <1>8, <1>9, <1>10, <1>11, <1>12, <1>13 DEF Next, Step

-----------------------------------------------------------------------------
(* The invariant                                                           *)

LEMMA Parts ==
  IInv <=> /\ Flags /\ Counters /\ Callings /\ Read /\ Wires
           /\ CountersAgree /\ ChallengedOncePerNonce /\ RightPasswordAccepted /\ OwnAnswerInTime
           /\ Phases /\ Plain /\ RxPlain /\ Requested /\ Replied /\ Alone /\ Digests
BY TypeParts, FramingParts DEF IInv

LEMMA InitInv == Init => IInv
<1> SUFFICES ASSUME Init PROVE IInv
  OBVIOUS
<1>1. Flags
  BY Zenon DEF Init, Flags
<1>2. Counters
  BY BoundAssumption DEF Init, Counters
<1>3. Callings
  BY CallerAssumption DEF Init, Callings, Points, Kinds
<1>4. Read
  BY BoundAssumption DEF Init, Read, Answers, NoAnswer, Statuses
<1>5. toReceiver = <<>> /\ toClient = <<>> /\ auth = <<>> /\ Len(toReceiver) = 0
        /\ Len(toClient) = 0
  BY DEF Init
<1>6. Wires
  BY <1>5, EmptySeq DEF Wires
<1>7. Phases
  BY DEF Init, Phases
<1>8. Plain /\ RxPlain /\ Requested /\ Replied
  BY <1>5 DEF Init, Plain, RxPlain, Requested, Replied, Sent, Given
<1>9. Alone
  BY <1>5 DEF Init, Alone
<1>10. Digests
  BY DEF Init, Digests, Challenge
<1>11. ChallengedOncePerNonce /\ RightPasswordAccepted /\ OwnAnswerInTime
  BY DEF Init, ChallengedOncePerNonce, RightPasswordAccepted, OwnAnswerInTime, OwnAnswer
<1>12. CountersAgree
  BY DEF Init, CountersAgree
<1> QED
  BY <1>1, <1>2, <1>3, <1>4, <1>6, <1>7, <1>8, <1>9, <1>10, <1>11, <1>12, Parts

LEMMA StepInv == IInv /\ [Next]_vars => IInv'
<1> SUFFICES ASSUME IInv, [Next]_vars PROVE IInv'
  OBVIOUS
<1>1. /\ Flags /\ Counters /\ Callings /\ Read /\ Wires
      /\ ChallengedOncePerNonce /\ RightPasswordAccepted /\ OwnAnswerInTime
      /\ Phases /\ Plain /\ RxPlain /\ Requested /\ Replied /\ Alone /\ Digests
  BY Parts
<1>2. Flags' /\ Counters' /\ Callings' /\ Read' /\ Wires' /\ Phases'
  BY <1>1, FlagsStep, CountersStep, CallingsStep, ReadStep, WiresStep, PhasesStep
<1>3. Plain' /\ RxPlain' /\ Requested' /\ Replied'
  BY <1>1, FramingStep
<1>4. Alone'
  BY <1>1, <1>2, AloneStep
<1>5. Digests' /\ ChallengedOncePerNonce'
  BY <1>1, <1>2, <1>4, DigestsStep
<1>6. OwnAnswerInTime' /\ RightPasswordAccepted'
  BY <1>1, <1>2, ResultsStep
<1>7. CountersAgree'
  <2>1. (Wires /\ Framing => CountersAgree)'
    BY CountersFollow, PTL
  <2>2. (Framing <=> Plain /\ RxPlain /\ Requested /\ Replied)'
    BY FramingParts, PTL
  <2> QED
    BY <1>2, <1>3, <2>1, <2>2
<1>8. (IInv <=> /\ Flags /\ Counters /\ Callings /\ Read /\ Wires
                /\ CountersAgree /\ ChallengedOncePerNonce /\ RightPasswordAccepted
                     /\ OwnAnswerInTime
                /\ Phases /\ Plain /\ RxPlain /\ Requested /\ Replied /\ Alone /\ Digests)'
  BY Parts, PTL
<1> QED
  BY <1>2, <1>3, <1>4, <1>5, <1>6, <1>7, <1>8

\* The inductive invariant of the connection: what the run checks for three
\* callers holds for any number of them, of requests and of nonces.
THEOREM Invariance == Spec => []IInv
  BY InitInv, StepInv, PTL DEF Spec

\* Every answer that is handed out in time is the answer to its caller's request
\* (httpRequest, rawRequest and rtspRequest compare no CSeq): c.mu is held until the
\* whole of it has been read.
THEOREM OwnAnswers == Spec => []OwnAnswerInTime
<1>1. IInv => OwnAnswerInTime
  BY DEF IInv
<1> QED
  BY <1>1, Invariance, PTL

\* The counters that seal and open the frames of both directions agree, although
\* requests fail, are repeated or stay without an answer, deadlines included.
THEOREM CountersAlwaysAgree == Spec => []CountersAgree
<1>1. IInv => CountersAgree
  BY DEF IInv
<1> QED
  BY <1>1, Invariance, PTL

\* A digest of the right password is accepted in the end: rtspRequest answers the
\* challenge that an expired nonce makes, with the nonce that the receiver has then.
THEOREM RightPasswordIsAccepted == Spec => []RightPasswordAccepted
<1>1. IInv => RightPasswordAccepted
  BY DEF IInv
<1> QED
  BY <1>1, Invariance, PTL

\* The cached challenge serves all callers: one refused request for each nonce.
THEOREM ChallengedOnce == Spec => []ChallengedOncePerNonce
<1>1. IInv => ChallengedOncePerNonce
  BY DEF IInv
<1> QED
  BY <1>1, Invariance, PTL

=============================================================================
