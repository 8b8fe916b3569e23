--------------------------- MODULE ControlChannel ---------------------------
(***************************************************************************)
(* The control connection to a receiver, internal/airplay/client.go: the   *)
(* requests of several goroutines (pairing, set-up, the feedback loop,     *)
(* mute, TEARDOWN) under the one mutex c.mu, the answers they read, digest *)
(* authentication with its cached challenge, and the HAP framing that      *)
(* pair-verify turns on.                                                   *)
(*                                                                         *)
(* A request or an answer is split into units: a header, and pieces of a   *)
(* body.  A unit is one frame of an encrypted connection, numbered by the  *)
(* counter it was sealed with.  Answers are read in the order they arrive; *)
(* nothing compares their CSeq with the request's.                         *)
(*                                                                         *)
(* The receiver is external: it answers requests in order, late or never;  *)
(* if it is protected it challenges each request without a valid digest.   *)
(* A challenge is its nonce, numbered 1, 2, ...; a nonce may expire when a *)
(* request was accepted, not between a challenge and the answer to it.     *)
(***************************************************************************)
EXTENDS Naturals, Sequences, FiniteSets

CONSTANTS Callers,    \* goroutines that issue requests
          Main,       \* the one that pairs and sets the session up
          NoCaller,
          CSeqMax,    \* bounds the requests sent, for TLC
          Frames,     \* the frames of a request of each kind
          Bodies,     \* how many pieces an answer's body has, for each status
          NonceMax    \* bounds the receiver's nonces

Kinds == {"http", "verify", "raw", "rtsp"}

ASSUME CallerAssumption == Main \in Callers /\ NoCaller \notin Callers
ASSUME FramesAssumption == Frames \in [Kinds -> Nat \ {0}]
ASSUME BodiesAssumption == Bodies \in [{"ok", "401", "error"} -> SUBSET Nat]
ASSUME BoundAssumption == CSeqMax \in Nat /\ NonceMax \in Nat \ {0}

VARIABLES
  \* AirPlayClient: c.mu; c.cseq; c.authPassword against the receiver's; the
  \* nonce of c.authChallenge, 0 for nil; c.encrypted and its counters.
  mu, cseq, authPassword, authChallenge, encrypted, encWriteNonce, encReadNonce,
  \* Whether the connection is in pairing, in raw pair-verify, or in session;
  \* whether it is open.
  phase, open,
  \* Each caller: where it stands, its kind of request, and whether its last
  \* result is no answer, the answer to its own request, that with 401, or some
  \* other answer.
  pc, kind, result,
  \* The request of mu's holder: the nonces of its Authorization headers, how
  \* often it was sent; the answer read so far and whether its header had bytes
  \* of another answer before it.
  auth, tries, answer, garbled,
  \* The two directions of the connection; torn once a frame was read in part.
  toReceiver, toClient, torn,
  \* The receiver: whether it wants the password, its valid nonce, its framing.
  protected, nonce, rxEncrypted, rxReadNonce, rxWriteNonce,
  \* History: whether a read deadline passed, and the RTSP requests challenged.
  expired, challenged

authVars   == <<authPassword, authChallenge>>
cryptVars  == <<encrypted, encWriteNonce, encReadNonce>>
callVars   == <<auth, tries>>
readVars   == <<answer, garbled>>
wireVars   == <<toReceiver, toClient, torn>>
rxVars     == <<protected, nonce, rxEncrypted, rxReadNonce, rxWriteNonce>>
vars == <<mu, cseq, authVars, cryptVars, phase, open, pc, kind, result,
          callVars, readVars, wireVars, rxVars, expired, challenged>>

NoAnswer == [of |-> 0, status |-> "none", nonce |-> 0, left |-> 0]

Init ==
  /\ mu = NoCaller /\ cseq = 0
  /\ protected \in BOOLEAN /\ nonce = 1   \* an unprotected one never asks for a password
  /\ authPassword \in IF protected THEN {"none", "right", "wrong"} ELSE {"none"}
  /\ authChallenge = 0
  /\ encrypted = FALSE /\ encWriteNonce = 0 /\ encReadNonce = 0
  /\ phase = "pairing" /\ open = TRUE
  /\ pc = [c \in Callers |-> "idle"]
  /\ kind = [c \in Callers |-> "http"]
  /\ result = [c \in Callers |-> "none"]
  /\ auth = <<>> /\ tries = 0 /\ answer = NoAnswer /\ garbled = FALSE
  /\ toReceiver = <<>> /\ toClient = <<>> /\ torn = FALSE
  /\ rxEncrypted = FALSE /\ rxReadNonce = 0 /\ rxWriteNonce = 0
  /\ expired = FALSE /\ challenged = 0

-----------------------------------------------------------------------------
\* Requests.

\* What a caller may ask for: the pairing requests are one goroutine's, before
\* there is a session; afterwards it sends /fp-setup, and all send RTSP requests.
Requests(c) ==
  CASE phase = "pairing" /\ c = Main -> {"http", "verify", "raw"}
    [] phase = "raw" /\ c = Main     -> {"raw"}
    [] phase = "session" /\ c = Main -> {"http", "rtsp"}
    [] phase = "session"             -> {"rtsp"}
    [] OTHER                         -> {}

\* The bound for TLC: there is room for the requests under way, which a
\* protected receiver may have sent twice, the pairing request before them too.
Room == LET calls == 1 + Cardinality({d \in Callers: pc[d] # "idle"}) IN
        IF protected THEN cseq + 2 * calls <= CSeqMax + 2 ELSE cseq + calls <= CSeqMax

Call(c) ==
  /\ pc[c] = "idle" /\ Room
  /\ \E k \in Requests(c): kind' = [kind EXCEPT ![c] = k]
  /\ pc' = [pc EXCEPT ![c] = "waiting"]
  /\ result' = [result EXCEPT ![c] = "none"]
  /\ UNCHANGED <<mu, cseq, authVars, cryptVars, phase, open, callVars,
                 readVars, wireVars, rxVars, expired, challenged>>

\* preemptiveAuthHeader; rawRequest has no authentication.
PreemptiveAuth(k) ==
  IF k = "raw" \/ authPassword = "none" \/ authChallenge = 0 THEN <<>> ELSE <<authChallenge>>

\* c.mu.Lock, and the header built from the cached challenge.
Lock(c) ==
  /\ pc[c] = "waiting" /\ mu = NoCaller
  /\ mu' = c
  /\ auth' = PreemptiveAuth(kind[c]) /\ tries' = 0
  /\ pc' = [pc EXCEPT ![c] = "sending"]
  /\ UNCHANGED <<cseq, authVars, cryptVars, phase, open, kind, result,
                 readVars, wireVars, rxVars, expired, challenged>>

\* Faulty: a retry reuses the counters.
SealedOnce(n) == IF tries = 0 THEN encWriteNonce + n ELSE encWriteNonce

\* The counter after a request of n frames.
Sealed(n) == encWriteNonce + n

\* The counter once c has sealed its request, which it does before it writes.
Seals(c) == encrypted /\ kind[c] # "raw"
Written(c) == IF Seals(c) THEN Sealed(Frames[kind[c]]) ELSE encWriteNonce

\* Faulty: an error returns without the unlock.
ReturnLocked(c, r) ==
  /\ mu' = IF r = "none" THEN mu ELSE NoCaller
  /\ pc' = IF r = "none" THEN pc ELSE [pc EXCEPT ![c] = "idle"]
  /\ result' = [result EXCEPT ![c] = r]
  /\ auth' = <<>> /\ tries' = 0 /\ answer' = NoAnswer /\ garbled' = FALSE

\* The end of a call with result r: c.mu is free again.
Return(c, r) ==
  /\ mu' = NoCaller
  /\ pc' = [pc EXCEPT ![c] = "idle"]
  /\ result' = [result EXCEPT ![c] = r]
  /\ auth' = <<>> /\ tries' = 0 /\ answer' = NoAnswer /\ garbled' = FALSE

\* What the pairing code makes of the result: pair-verify's last answer turns
\* the framing on, the second of raw pair-verify leaves it off, and after either has failed
\* the connection is closed and replaced.  The call has left the write counter at written.
Paired(c, status, written) ==
  LET verified == kind[c] = "verify" /\ status = "ok" IN
  /\ encrypted' = (encrypted \/ verified)
  /\ encWriteNonce' = IF verified THEN 0 ELSE written
  /\ encReadNonce' = IF verified THEN 0 ELSE encReadNonce
  /\ phase' = IF verified \/ (phase = "raw" /\ status = "ok") THEN "session"
              ELSE IF kind[c] = "raw" /\ status = "ok" THEN "raw"
              ELSE phase
  /\ open' = (open /\ (kind[c] \in {"verify", "raw"} => status = "ok"))

Fail(c, written) == Return(c, "none") /\ Paired(c, "failed", written)

\* httpRequestOnce, rawRequest and rtspRequestOnce up to the write.
Send(c) ==
  /\ pc[c] = "sending"
  /\ open
  /\ cseq' = cseq + 1 /\ encWriteNonce' = Written(c)
  /\ tries' = tries + 1
  /\ toReceiver' = Append(toReceiver,
       [cseq |-> cseq + 1, kind |-> kind[c], auth |-> auth, enc |-> Seals(c),
        ctr |-> encWriteNonce, frames |-> Frames[kind[c]]])
  /\ pc' = [pc EXCEPT ![c] = "header"]
  /\ UNCHANGED <<mu, authVars, encrypted, encReadNonce, phase, open, kind, result, auth,
                 readVars, toClient, torn, rxVars, expired, challenged>>

\* The write fails once the connection is closed: the request has its CSeq and its
\* frames are sealed by then.
SendFails(c) ==
  /\ pc[c] = "sending" /\ ~open
  /\ cseq' = cseq + 1
  /\ Fail(c, Written(c))
  /\ UNCHANGED <<authVars, kind, wireVars, rxVars, expired, challenged>>

-----------------------------------------------------------------------------
\* Answers.

\* readEncryptedFrame opens a frame with its own counter; text and frames are
\* not taken for each other.
Readable(u) == ~torn /\ u.enc = encrypted /\ (u.enc => u.ctr = encReadNonce)

\* One unit is read.
Take == /\ toClient' = Tail(toClient)
        /\ encReadNonce' = IF encrypted THEN encReadNonce + 1 ELSE encReadNonce

\* Faulty: an error's body is left.
BodyOfSuccess(u) == IF u.status = "ok" THEN u.left ELSE 0

\* How much of a body is read: an error's body too.
BodyLength(u) == u.left

\* A header, once all of it is there: pieces of a body that were left before
\* it become its first bytes, and it then has no status (parseHTTPHeader).
ReadHeader(c) ==
  /\ pc[c] = "header" /\ toClient # <<>> /\ Readable(Head(toClient))
  /\ LET u == Head(toClient) IN
     \/ /\ u.part = "body"
        /\ garbled' = TRUE
        /\ UNCHANGED <<answer, pc>>
     \/ /\ u.part = "header"
        /\ answer' = [of |-> u.of, nonce |-> u.nonce, left |-> BodyLength(u),
                      status |-> IF garbled THEN "none" ELSE u.status]
        /\ pc' = [pc EXCEPT ![c] = "body"]
        /\ UNCHANGED garbled
  /\ Take
  /\ UNCHANGED <<mu, cseq, authVars, encrypted, encWriteNonce, phase, open, kind, result,
                 callVars, toReceiver, torn, rxVars, expired, challenged>>

ReadBody(c) ==
  /\ pc[c] = "body" /\ answer.left > 0 /\ toClient # <<>> /\ Readable(Head(toClient))
  /\ answer' = [answer EXCEPT !.left = @ - 1]
  /\ Take
  /\ UNCHANGED <<mu, cseq, authVars, encrypted, encWriteNonce, phase, open, pc, kind, result,
                 callVars, garbled, toReceiver, torn, rxVars, expired, challenged>>

\* Faulty: both requests add a header.
RetryAuthAdded(k, n) == Append(auth, n)

\* The Authorization headers of the retry: rtspRequest replaces the one it has,
\* httpRequest adds another.
RetryAuth(k, n) == IF k = "rtsp" THEN <<n>> ELSE Append(auth, n)

\* digestRetryHeader keeps the nonce of the challenge.
Cached(n) == n

\* The answer that was read, whole or with its error body cut short: a first
\* 401 with a challenge is cached, and answered if there is a password.
Answered(c) ==
  LET first401 == answer.status = "401" /\ tries = 1 /\ kind[c] # "raw" IN
  /\ authChallenge' = IF first401 THEN Cached(answer.nonce) ELSE authChallenge
  /\ \/ /\ first401 /\ authPassword # "none"
        /\ pc' = [pc EXCEPT ![c] = "sending"]
        /\ auth' = RetryAuth(kind[c], answer.nonce)
        /\ answer' = NoAnswer /\ garbled' = FALSE
        /\ UNCHANGED <<mu, result, tries, cryptVars, phase, open>>
     \/ /\ ~(first401 /\ authPassword # "none")
        /\ Return(c, IF answer.of # cseq \/ garbled THEN "other"
                     ELSE IF answer.status = "401" THEN "rejected" ELSE "own")
        /\ Paired(c, answer.status, encWriteNonce)

ReadEnds(c) ==
  /\ pc[c] = "body" /\ answer.left = 0
  /\ Answered(c)
  /\ UNCHANGED <<cseq, authPassword, kind, wireVars, rxVars, expired, challenged>>

\* A read gives up: an error without a status, unless it was at an error's body.
GiveUp(c) ==
  IF pc[c] = "body" /\ answer.status # "ok"
  THEN Answered(c)
  ELSE Fail(c, encWriteNonce) /\ UNCHANGED authChallenge

\* The deadline of 30 s passes, before or within a unit.  The rest of what was
\* cut stays on the connection: the rest of a header is read as a header without
\* a status, perhaps without its length, that of a body as what a body left;
\* nothing can be opened after a part of a frame.
Expire(c) ==
  /\ pc[c] \in {"header", "body"} /\ (pc[c] = "body" => answer.left > 0)
  /\ expired' = TRUE
  /\ \/ UNCHANGED <<toClient, torn>>
     \/ /\ toClient # <<>> /\ encrypted
        /\ torn' = TRUE /\ toClient' = <<>>
     \/ /\ toClient # <<>> /\ ~encrypted /\ toClient[1].part = "header"
        /\ \E n \in {0, toClient[1].left}:
             toClient' = [toClient EXCEPT ![1].status = "none", ![1].left = n]
        /\ UNCHANGED torn
  /\ GiveUp(c)
  /\ UNCHANGED <<cseq, authPassword, kind, toReceiver, rxVars, challenged>>

\* The connection is closed, or what comes is no frame that opens.
ReadFails(c) ==
  /\ pc[c] \in {"header", "body"} /\ (pc[c] = "body" => answer.left > 0)
  /\ \/ (~open \/ torn) /\ UNCHANGED <<toClient, torn>>
     \/ /\ toClient # <<>> /\ ~Readable(Head(toClient))
        /\ torn' = TRUE /\ toClient' = <<>>
  /\ GiveUp(c)
  /\ UNCHANGED <<cseq, authPassword, kind, toReceiver, rxVars, expired, challenged>>

-----------------------------------------------------------------------------
\* The connection and the receiver (external).

\* The receiver goes away, or Close interrupts whoever uses the connection;
\* what was on its way is of no more use.
Disconnect ==
  /\ open /\ open' = FALSE
  /\ toReceiver' = <<>> /\ toClient' = <<>>
  /\ UNCHANGED <<mu, cseq, authVars, cryptVars, phase, pc, kind, result, callVars,
                 readVars, torn, rxVars, expired, challenged>>

\* A digest is valid for the receiver's nonce; of two Authorization headers it
\* reads the first.
Authorized(r) == r.auth # <<>> /\ r.auth[1] = nonce /\ authPassword = "right"

\* The units of an answer to r with n pieces of body.
Units(r, status, n) ==
  [i \in 1..(n + 1) |->
     [of |-> r.cseq, part |-> IF i = 1 THEN "header" ELSE "body", status |-> status,
      nonce |-> nonce', left |-> n, enc |-> rxEncrypted,
      ctr |-> IF rxEncrypted THEN rxWriteNonce + i - 1 ELSE 0]]

\* It can read r: the framing and the counters are those it expects.
Understood(r) == r.enc = rxEncrypted /\ (r.enc => r.ctr = rxReadNonce)

\* It challenges, accepts or refuses a request; an accepted pair-verify turns
\* its framing on.
Answer ==
  /\ open /\ toReceiver # <<>> /\ Understood(Head(toReceiver))
  /\ LET r == Head(toReceiver)
         asks == protected /\ ~Authorized(r) IN
     \E status \in IF asks THEN {"401"} ELSE {"ok", "error"}: \E n \in Bodies[status]:
       /\ nonce' \in IF protected /\ status = "ok" /\ nonce < NonceMax THEN {nonce, nonce + 1} ELSE {nonce}
       /\ challenged' = challenged + IF asks /\ r.kind = "rtsp" THEN 1 ELSE 0
       /\ toClient' = IF torn THEN <<>> ELSE toClient \o Units(r, status, n)
       /\ LET on == r.kind = "verify" /\ status = "ok" IN
          /\ rxEncrypted' = (rxEncrypted \/ on)
          /\ rxReadNonce' = IF r.enc THEN rxReadNonce + r.frames ELSE 0
          /\ rxWriteNonce' = IF rxEncrypted THEN rxWriteNonce + n + 1 ELSE 0
  /\ toReceiver' = Tail(toReceiver)
  /\ UNCHANGED <<mu, cseq, authVars, cryptVars, phase, open, pc, kind, result, callVars,
                 readVars, torn, protected, expired>>

\* It reads a request and never answers it.
Ignore ==
  /\ open /\ toReceiver # <<>> /\ Understood(Head(toReceiver))
  /\ toReceiver' = Tail(toReceiver)
  /\ rxReadNonce' = IF rxEncrypted THEN rxReadNonce + Head(toReceiver).frames ELSE 0
  /\ UNCHANGED <<mu, cseq, authVars, cryptVars, phase, open, pc, kind, result, callVars, readVars,
                 toClient, torn, protected, nonce, rxEncrypted, rxWriteNonce, expired, challenged>>

-----------------------------------------------------------------------------
Step(c) == \/ Send(c) \/ SendFails(c) \/ ReadHeader(c) \/ ReadBody(c)
           \/ ReadEnds(c) \/ Expire(c) \/ ReadFails(c)

Next == \/ \E c \in Callers: Call(c) \/ Lock(c) \/ Step(c)
        \/ Disconnect \/ Answer \/ Ignore

Spec == Init /\ [][Next]_vars

\* The goroutines run, a mutex that is released again and again is granted to
\* each that waits, and a deadline passes.  Nothing is asked of the receiver.
Fairness == WF_vars(\E c \in Callers: Step(c)) /\ \A c \in Callers: SF_vars(Lock(c))

FairSpec == Spec /\ Fairness

-----------------------------------------------------------------------------
\* Properties.

Statuses == {"none", "ok", "401", "error"}
SentRequests == [cseq : Nat, kind : Kinds, auth : Seq(1..NonceMax), enc : BOOLEAN, ctr : Nat,
                 frames : Nat \ {0}]
AnswerUnits  == [of : Nat, part : {"header", "body"}, status : Statuses, nonce : 1..NonceMax,
                 left : Nat, enc : BOOLEAN, ctr : Nat]

\* The values of the variables, and that c.mu is held by the one caller that
\* sends or reads.
TypeOK ==
  /\ mu \in Callers \cup {NoCaller} /\ cseq \in Nat
  /\ authPassword \in {"none", "right", "wrong"} /\ authChallenge \in 0..NonceMax
  /\ encrypted \in BOOLEAN /\ encWriteNonce \in Nat /\ encReadNonce \in Nat
  /\ phase \in {"pairing", "raw", "session"} /\ open \in BOOLEAN
  /\ pc \in [Callers -> {"idle", "waiting", "sending", "header", "body"}]
  /\ kind \in [Callers -> Kinds]
  /\ result \in [Callers -> {"none", "own", "rejected", "other"}]
  /\ \A c \in Callers: pc[c] \in {"sending", "header", "body"} <=> mu = c
  /\ tries \in 0..2 /\ auth \in Seq(1..NonceMax)
  /\ answer \in [of : Nat, status : Statuses, nonce : 0..NonceMax, left : Nat]
  /\ toReceiver \in Seq(SentRequests) /\ toClient \in Seq(AnswerUnits)
  /\ torn \in BOOLEAN /\ garbled \in BOOLEAN /\ expired \in BOOLEAN
  /\ protected \in BOOLEAN /\ nonce \in 1..NonceMax /\ rxEncrypted \in BOOLEAN
  /\ rxReadNonce \in Nat /\ rxWriteNonce \in Nat /\ challenged \in Nat

\* httpRequest "returns the response body": an answer handed to a caller is the
\* answer to the request it sent last.
OwnAnswer == \A c \in Callers: result[c] # "other"

\* As long as no deadline has passed, whoever shares the connection is handed
\* its own answer: every answer, refusals and first attempts included, is read
\* to its end before the next request is sent.
OwnAnswerInTime == ~expired => OwnAnswer

\* Both ends of an encrypted connection count the same frames: no counter seals
\* two frames, none is skipped, retries and failed reads included, so that what
\* is on its way opens in the order it was sent.
Counts(s, first, last, size(_)) ==
  /\ s = <<>> => first = last
  /\ s # <<>> => s[1].ctr = first /\ s[Len(s)].ctr + size(s[Len(s)]) = last
  /\ \A i \in 1..(Len(s) - 1): s[i + 1].ctr = s[i].ctr + size(s[i])
CountersAgree ==
  open /\ rxEncrypted /\ encrypted /\ (\A i \in DOMAIN toReceiver: toReceiver[i].enc)
              /\ (\A i \in DOMAIN toClient: toClient[i].enc) =>
    /\ Counts(toReceiver, rxReadNonce, encWriteNonce, LAMBDA r: r.frames)
    /\ ~torn => Counts(toClient, encReadNonce, rxWriteNonce, LAMBDA u: 1)

\* With the right password no RTSP request ends with the 401 that
\* logIfAuthRejected calls a rejected code, although nonces expire and other
\* callers' requests are challenged in between; once a deadline has passed, an
\* answer to another request can look like it.
RightPasswordAccepted ==
  authPassword = "right" /\ ~expired =>
    \A c \in Callers: kind[c] = "rtsp" /\ pc[c] = "idle" => result[c] # "rejected"

\* "A receiver that challenges one request challenges them all": with a
\* password, RTSP requests are challenged once for each nonce, not once each.
ChallengedOncePerNonce ==
  authPassword = "right" /\ ~expired => challenged <= nonce

\* What these rest on, with which they are inductive.  Each caller asks for what
\* its phase allows; only a session is encrypted.
Phases ==
  /\ encrypted => phase = "session"
  /\ \A c \in Callers: pc[c] # "idle" => kind[c] \in Requests(c)
  /\ \A c \in Callers: pc[c] = "body" => answer.nonce # 0
  /\ \A c \in Callers: /\ pc[c] = "sending" => tries \in {0, 1}
                       /\ pc[c] \in {"header", "body"} => tries \in {1, 2}

\* In each direction plain units come before sealed ones, and those are numbered
\* without a gap from the reader's counter to the writer's.
Numbered(s, first, last, size(_)) ==
  /\ \A i \in 1..Len(s): \A j \in 1..i: s[j].enc => s[i].enc
  /\ \A i \in 1..(Len(s) - 1): s[i].enc => s[i + 1].ctr = s[i].ctr + size(s[i])
  /\ \A i \in 1..Len(s): s[i].enc /\ (i = 1 \/ ~s[i - 1].enc) => s[i].ctr = first
  /\ IF s # <<>> /\ s[Len(s)].enc THEN s[Len(s)].ctr + size(s[Len(s)]) = last ELSE first = last

Framing ==
  /\ ~encrypted => /\ encWriteNonce = 0 /\ encReadNonce = 0
                   /\ \A i \in 1..Len(toReceiver): ~toReceiver[i].enc
  /\ ~rxEncrypted => /\ rxReadNonce = 0 /\ rxWriteNonce = 0
                     /\ \A i \in 1..Len(toClient): ~toClient[i].enc
  /\ open => Numbered(toReceiver, rxReadNonce, encWriteNonce, LAMBDA r: r.frames)
  /\ open /\ ~torn => Numbered(toClient, encReadNonce, rxWriteNonce, LAMBDA u: 1)

\* As long as no deadline has passed, nothing but the request of c.mu's holder, or
\* the answer to it, is on its way.
Alone ==
  ~expired =>
    /\ ~torn /\ ~garbled
    /\ ~open \/ (\A c \in Callers: pc[c] \notin {"header", "body"}) => toReceiver = <<>> /\ toClient = <<>>
    /\ \A c \in Callers:
         /\ pc[c] = "header" =>
              /\ Len(toReceiver) <= 1
              /\ toReceiver # <<>> =>
                   /\ toClient = <<>> /\ toReceiver[1].cseq = cseq /\ toReceiver[1].auth = auth
                   /\ toReceiver[1].kind = kind[c] /\ toReceiver[1].enc = encrypted
              /\ toClient # <<>> =>
                   /\ toClient[1].part = "header" /\ toClient[1].of = cseq
                   /\ Len(toClient) = toClient[1].left + 1
                   /\ \A i \in 2..Len(toClient): toClient[i].part = "body"
         /\ pc[c] = "body" =>
              /\ toReceiver = <<>> /\ answer.of = cseq
              /\ open => Len(toClient) = answer.left
              /\ \A i \in 1..Len(toClient): toClient[i].part = "body"
    /\ \A i \in 1..Len(toClient): toClient[i].enc = encrypted

\* The request that c holds c.mu for is its first, or the answer to a challenge.
First(c) == tries = IF pc[c] = "sending" THEN 0 ELSE 1

\* A challenge that is on its way to the cache.
Challenge(c) ==
  \/ pc[c] = "header" /\ toClient # <<>> /\ toClient[1].status = "401"
  \/ pc[c] = "body" /\ answer.status = "401"

Challenged == \E c \in Callers: Challenge(c) /\ First(c) /\ kind[c] # "raw"

\* With the right password a first request has the cached challenge, its retry the
\* receiver's, which has not changed since; each nonce makes for one challenge,
\* until that is in the cache.
Digests ==
  authPassword = "right" /\ ~expired =>
    /\ \A c \in Callers: kind[c] = "rtsp" /\ (pc[c] = "sending" \/ (pc[c] = "header" /\ toReceiver # <<>>)) =>
         auth = IF First(c) THEN PreemptiveAuth("rtsp") ELSE <<nonce>>
    /\ \A c \in Callers: Challenge(c) =>
         /\ kind[c] = "rtsp" => First(c)
         /\ pc[c] = "header" => toClient[1].nonce = nonce
         /\ pc[c] = "body" => answer.nonce = nonce
    /\ open /\ authChallenge # nonce /\ ~Challenged => challenged < nonce

\* The connection's counters and the cached challenge, step by step.
IInv ==
  /\ TypeOK /\ CountersAgree /\ ChallengedOncePerNonce /\ RightPasswordAccepted /\ OwnAnswerInTime
  /\ Phases /\ Framing /\ Alone /\ Digests

\* Every request returns to its caller, answered or not, although c.mu is held
\* while the answer is awaited and the receiver may say nothing.
CallsReturn == \A c \in Callers: pc[c] = "waiting" ~> pc[c] = "idle"
=============================================================================
