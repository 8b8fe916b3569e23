------------------------------ MODULE Pairing ------------------------------
(***************************************************************************)
(* How doubletake becomes a sender that the receiver knows: the pairing    *)
(* flow of cmd/doubletake/main.go, the exchanges of pairing.go with it,    *)
(* the FairPlay handshake (fairplay.go) that follows, and the credential   *)
(* store (credentials.go), a file or the keyring, over several runs.       *)
(* Any answer may be lost after the receiver has acted on the request, any *)
(* request may fail, a write may fail half done, the program may be killed *)
(* at any point, and the receiver may forget its senders.                  *)
(*                                                                         *)
(* The messages are M1, M3, M5 of pair-setup, V1, V3 of pair-verify, their *)
(* counterparts of the raw protocol, and m1, m3 of FairPlay.  Of the keys  *)
(* only their origin is kept: a secret is "setup" (from SRP) or "verify".  *)
(***************************************************************************)
EXTENDS Integers

CONSTANTS Kinds,      \* the kinds of receiver, see AllKinds
          MaxFaults,  \* bounds what goes wrong
          MaxRuns     \* bounds the runs of the program

\* "pin" advertises one-time PINs, "modern" transient pairing; "password" and
\* "tlv" advertise nothing, the first with a fixed password, the second with
\* transient pairing; "raw" speaks the raw protocol (UxPlay).
AllKinds == {"pin", "modern", "password", "tlv", "raw"}

ASSUME ConstantsAssumption == Kinds \subseteq AllKinds /\ MaxFaults \in Nat /\ MaxRuns \in Nat

VARIABLES
  kind,     \* the kind of the receiver
  paired,   \* the senders that the receiver remembers
  ever,     \* those that it has ever remembered
  pc, way,  \* where the program is, and how it tries to pair
  code,     \* whether a code was given at the start (-code)
  right,    \* whether the PIN in use is the right one
  cl,       \* the AirPlayClient
  rc,       \* the receiver's side of the connection
  keyring,  \* whether credentials are kept in the keyring, or in a file
  mem,      \* the entry of the receiver in the credential store
  file,     \* what is in the keyring, or in the file: an entry or Torn
  saved,    \* what has been there so far: a pairing, a token
  conns, runs, faults   \* counters: connections dialled, runs begun, what went wrong

farVars   == <<kind, paired, ever>>
storeVars == <<keyring, mem, file, saved>>
vars == <<farVars, pc, way, code, right, cl, rc, storeVars, conns, runs, faults>>

None  == 0
Empty == [id |-> None, key |-> None, token |-> FALSE]
Torn  == [id |-> None, key |-> None, token |-> FALSE, torn |-> TRUE]

\* NewAirPlayClient: n stands for the PairingID that is made for it.
NewClient(n) == [id |-> n, key |-> None, type |-> "screen", secret |-> "none",
                 encrypted |-> FALSE, fpKey |-> "none"]

\* What the receiver knows of a new connection: the ways to pair begun on it,
\* whether the display of a PIN was asked for, the guest (a transient sender), if any.
NewConn == [began |-> {}, asked |-> FALSE, guest |-> {}, secret |-> "none",
            encrypted |-> FALSE, fpKey |-> "none"]

Init ==
  /\ kind \in Kinds /\ paired = {} /\ ever = {}
  /\ pc = "off" /\ way = "none" /\ code = FALSE /\ right = TRUE
  /\ cl = NewClient(None) /\ rc = NewConn
  /\ keyring \in BOOLEAN /\ mem = Empty /\ file = Empty /\ saved = {}
  /\ conns = 0 /\ runs = 0 /\ faults = 0

Fault == faults < MaxFaults /\ faults' = faults + 1

-----------------------------------------------------------------------------
(* The flow of main                                                        *)

\* client.Pair with a PIN, or after the display of one was asked for.
TryPIN ==
  /\ way' = "pin"
  /\ IF code THEN pc' = "M1" ELSE pc' = "display"

\* client.Pair without a PIN.  performTransientSetupAndVerify begins with the raw
\* protocol unless transient pairing is advertised.
TryTransient ==
  /\ way' = "transient"
  /\ IF kind = "modern" THEN pc' = "M1" ELSE pc' = "rawSetup"

PINOrTransient == IF kind = "pin" THEN TryPIN ELSE TryTransient

\* Each try but that with saved credentials makes a new key pair, of the same
\* number as its connection: there is one for each connection.
Dialled(n) ==
  /\ conns' = n /\ rc' = NewConn
  /\ cl' = [NewClient(n) EXCEPT !.key = n, !.type = IF way' = "transient" THEN "transient" ELSE "screen"]

\* The program starts, with or without -pair and -code.
Start ==
  /\ pc = "off" /\ runs < MaxRuns /\ runs' = runs + 1
  /\ pc' = "dial" /\ way' \in {"pin", "none"} /\ code' \in BOOLEAN
  /\ UNCHANGED <<farVars, right, cl, rc, storeVars, conns, faults>>

\* A file that cannot be read is fatal.
LoadFails ==
  /\ pc = "dial" /\ file = Torn
  /\ pc' = "fatal"
  /\ UNCHANGED <<farVars, way, code, right, cl, rc, storeVars, conns, runs, faults>>

\* After Connect and GetInfo the store is loaded; saved credentials are tried
\* first, unless -pair is given.
Choose ==
  /\ pc = "dial" /\ file # Torn /\ mem' = file
  /\ CASE way = "pin" -> TryPIN /\ Dialled(conns + 1)
       [] way = "none" /\ file.id # None ->
            /\ way' = "saved" /\ pc' = "V1"
            /\ conns' = conns + 1 /\ rc' = NewConn
            /\ cl' = [NewClient(file.id) EXCEPT !.key = file.key]
       [] OTHER -> PINOrTransient /\ Dialled(conns + 1)
  /\ UNCHANGED <<farVars, code, right, keyring, file, saved, runs, faults>>

\* The keyring does not answer: Lookup takes it for a receiver without saved
\* credentials.
LookupFails ==
  /\ pc = "dial" /\ file # Torn /\ mem' = file
  /\ way = "none" /\ keyring /\ Fault
  /\ PINOrTransient /\ Dialled(conns + 1)
  /\ UNCHANGED <<farVars, code, right, keyring, file, saved, runs>>

\* What failed with saved credentials is tried without them, what failed without
\* a PIN with one, each on a new connection.
Reconnect ==
  /\ pc = "reconnect"
  /\ IF way = "saved" THEN PINOrTransient ELSE TryPIN
  /\ Dialled(conns + 1)
  /\ UNCHANGED <<farVars, code, right, storeVars, runs, faults>>

\* Connect or GetInfo fails: log.Fatalf.
DialFails ==
  /\ pc \in {"dial", "reconnect"} /\ Fault
  /\ pc' = "fatal"
  /\ UNCHANGED <<farVars, way, code, right, cl, rc, storeVars, conns, runs>>

-----------------------------------------------------------------------------
(* The PIN                                                                 *)

\* promptForPIN: a display that is refused, as by receivers with a fixed password,
\* is only a warning.
StartPINDisplay ==
  /\ pc = "display" /\ pc' = "prompt"
  /\ \/ kind = "pin" /\ rc' = [rc EXCEPT !.asked = TRUE] /\ UNCHANGED faults
     \/ kind # "pin" /\ UNCHANGED <<rc, faults>>
     \/ Fault /\ UNCHANGED rc
  /\ UNCHANGED <<farVars, way, code, right, cl, storeVars, conns, runs>>

\* The user types what is shown, or something else.
EnterPIN ==
  /\ pc = "prompt" /\ pc' = "M1"
  /\ \/ right' = TRUE /\ UNCHANGED faults
     \/ right' = FALSE /\ Fault
  /\ UNCHANGED <<farVars, way, code, cl, rc, storeVars, conns, runs>>

-----------------------------------------------------------------------------
(* The exchanges                                                           *)

Sender == [id |-> cl.id, key |-> cl.key]

\* Whether the receiver grants the request that pc names.
Grants ==
  [ M1 |-> \/ way = "transient" /\ kind \in {"modern", "tlv"}
           \/ way = "pin" /\ (kind = "password" \/ (kind = "pin" /\ rc.asked)),
    M3 |-> way = "transient" \/ right,
    M5 |-> way = "transient" \/ cl.type = "screen",
    V1 |-> kind # "raw",
    V3 |-> Sender \in paired \/ Sender \in rc.guest,
    rawSetup |-> kind = "raw", rawV1 |-> TRUE, rawV3 |-> TRUE,
    m1 |-> TRUE, m3 |-> TRUE ]

\* deriveStreamMasterKey, as each end does it.
\* Faulty: any secret is mixed in (issue #17).
MasterKeyOfSecret(e) == IF e.secret # "none" THEN "mixed" ELSE "raw"

MasterKey(e) == IF e.encrypted /\ e.secret # "none" THEN "mixed" ELSE "raw"

\* What the receiver does when it grants a request.
Acts ==
  /\ rc' = [rc EXCEPT
       !.began = IF pc \in {"m1", "m3"} THEN @ ELSE @ \cup {way},
       !.guest = IF pc = "M5" /\ way = "transient" THEN {Sender} ELSE @,
       !.secret = IF pc = "V3" THEN "verify" ELSE IF pc = "M5" THEN "setup" ELSE @,
       !.encrypted = @ \/ pc = "V3",
       !.fpKey = IF pc = "m3"
                 THEN IF rc.encrypted THEN "mixed" ELSE "raw" ELSE @]
  /\ IF pc = "M5" /\ way = "pin"
     THEN paired' = paired \cup {Sender} /\ ever' = ever \cup {Sender}
     ELSE UNCHANGED <<paired, ever>>
  /\ UNCHANGED kind

Granted(p) == pc = p /\ Grants[p] /\ Acts

restVars == <<way, code, right, storeVars, conns, runs, faults>>

\* M1 without and with a PIN.
PairSetupTransient ==
  way = "transient" /\ Granted("M1") /\ pc' = "M3" /\ UNCHANGED <<cl, restVars>>

PairSetup ==
  way = "pin" /\ Granted("M1") /\ pc' = "M3" /\ UNCHANGED <<cl, restVars>>

\* completeSRPExchange: the proofs of M3 and M4, then the keys of M5 and M6.
ProvePIN == Granted("M3") /\ pc' = "M5" /\ UNCHANGED <<cl, restVars>>

ExchangeKeys ==
  Granted("M5") /\ pc' = "V1" /\ cl' = [cl EXCEPT !.secret = "setup"] /\ UNCHANGED restVars

PairVerify == Granted("V1") /\ pc' = "V3" /\ UNCHANGED <<cl, restVars>>

\* The channel is encrypted from here on.  Only what was paired with a PIN is saved.
EnableEncryption ==
  /\ Granted("V3") /\ pc' = IF way = "pin" THEN "save" ELSE "m1"
  /\ cl' = [cl EXCEPT !.secret = "verify", !.encrypted = TRUE]
  /\ UNCHANGED restVars

RawPairSetup == Granted("rawSetup") /\ pc' = "rawV1" /\ UNCHANGED <<cl, restVars>>

\* The connection stays plain.
RawPairVerify ==
  /\ \/ Granted("rawV1") /\ pc' = "rawV3" /\ UNCHANGED cl
     \/ Granted("rawV3") /\ pc' = "m1" /\ cl' = [cl EXCEPT !.secret = "verify"]
  /\ UNCHANGED restVars

FairPlaySetup ==
  /\ \/ Granted("m1") /\ pc' = "m3" /\ UNCHANGED cl
     \/ Granted("m3") /\ pc' = "capture" /\ cl' = [cl EXCEPT !.fpKey = MasterKey(cl)]
  /\ UNCHANGED restVars

\* The receiver has no FairPlay, by its features or by a 404: it goes on without.
FairPlayUnsupported ==
  /\ pc \in {"m1", "m3"} /\ pc' = "capture"
  /\ UNCHANGED <<farVars, way, code, right, cl, rc, storeVars, conns, runs, faults>>

\* Faulty: no other protocol is tried after the raw one.
AfterErrorNoTLV ==
  IF pc \in {"m1", "m3"} \/ way = "pin" THEN "fatal" ELSE "reconnect"

\* Where a failed exchange leads.
AfterError ==
  IF pc = "rawSetup" THEN "M1"
  ELSE IF pc \in {"m1", "m3"} \/ way = "pin" THEN "fatal" ELSE "reconnect"

\* A request is refused, or its answer refused: an error status, an error item, a
\* proof or a signature that does not match.
Refused ==
  /\ pc \in DOMAIN Grants /\ ((~Grants[pc] /\ UNCHANGED faults) \/ Fault)
  /\ pc' = AfterError
  /\ rc' = [rc EXCEPT !.began = @ \cup {way}]
  /\ UNCHANGED <<farVars, way, code, right, cl, storeVars, conns, runs>>

\* The receiver grants the request, and the answer does not come in time.
AnswerLost ==
  /\ pc \in DOMAIN Grants /\ Grants[pc] /\ Acts /\ Fault
  /\ pc' = AfterError
  /\ UNCHANGED <<way, code, right, cl, storeVars, conns, runs>>

-----------------------------------------------------------------------------
(* The credential store                                                    *)

Fields(e) == {f \in {"pairing", "token"} : IF f = "pairing" THEN e.id # None ELSE e.token}

\* backend.Save.  The keyring takes the entry as a whole, or refuses it.  The file
\* backend changes the entry in memory; then os.WriteFile truncates the file, or
\* cannot open it.
BackendSave(e, writing, after) ==
  \/ /\ keyring /\ pc' = after /\ mem' = e /\ file' = e
     /\ saved' = saved \cup Fields(e) /\ UNCHANGED faults
  \/ keyring /\ Fault /\ pc' = after /\ UNCHANGED <<mem, file, saved>>
  \/ ~keyring /\ pc' = writing /\ mem' = e /\ file' = Torn /\ UNCHANGED <<saved, faults>>
  \/ ~keyring /\ Fault /\ pc' = after /\ mem' = e /\ UNCHANGED <<file, saved>>

\* Faulty: the entry is made anew.
SaveAnew ==
  /\ pc = "save"
  /\ BackendSave([id |-> cl.id, key |-> cl.key, token |-> FALSE], "write", "m1")
  /\ UNCHANGED <<keyring, farVars, way, code, right, cl, rc, conns, runs>>

\* Faulty: the identifier is that of the client before the reconnect.
SaveOldID ==
  /\ pc = "save"
  /\ BackendSave([mem EXCEPT !.id = 1, !.key = cl.key], "write", "m1")
  /\ UNCHANGED <<keyring, farVars, way, code, right, cl, rc, conns, runs>>

\* CredentialStore.Save: what else the entry has is kept.
Save ==
  /\ pc = "save"
  /\ BackendSave([mem EXCEPT !.id = cl.id, !.key = cl.key], "write", "m1")
  /\ UNCHANGED <<keyring, farVars, way, code, right, cl, rc, conns, runs>>

\* The portal grants the capture: with a restore token, which is saved, or without.
SaveRestoreToken ==
  /\ pc = "capture"
  /\ \/ BackendSave([mem EXCEPT !.token = TRUE], "writeToken", "streaming")
     \/ pc' = "streaming" /\ UNCHANGED <<mem, file, saved, faults>>
  /\ UNCHANGED <<keyring, farVars, way, code, right, cl, rc, conns, runs>>

AfterWrite == IF pc = "write" THEN "m1" ELSE "streaming"

\* os.WriteFile writes the entries of all receivers.
Persist ==
  /\ pc \in {"write", "writeToken"} /\ pc' = AfterWrite
  /\ file' = mem
  /\ saved' = saved \cup Fields(mem)
  /\ UNCHANGED <<farVars, way, code, right, cl, rc, keyring, mem, conns, runs, faults>>

\* The disk is full: only a warning.
PersistFails ==
  /\ pc \in {"write", "writeToken"} /\ Fault /\ pc' = AfterWrite
  /\ UNCHANGED <<farVars, way, code, right, cl, rc, storeVars, conns, runs>>

-----------------------------------------------------------------------------
(* The end of a run, and the receiver                                      *)

Off ==
  /\ pc' = "off" /\ way' = "none" /\ code' = FALSE /\ right' = TRUE
  /\ cl' = NewClient(None) /\ rc' = NewConn /\ mem' = Empty

Exit ==
  /\ pc \in {"streaming", "fatal"} /\ Off
  /\ UNCHANGED <<farVars, keyring, file, saved, conns, runs, faults>>

\* Killed: by the user, or by the program's own exit after a signal.
Killed ==
  /\ pc \notin {"off", "streaming", "fatal"} /\ Fault /\ Off
  /\ UNCHANGED <<farVars, keyring, file, saved, conns, runs>>

\* The receiver is reset between two runs.
Forget ==
  /\ pc = "off" /\ paired # {} /\ Fault /\ paired' = {}
  /\ UNCHANGED <<kind, ever, pc, way, code, right, cl, rc, storeVars, conns, runs>>

Steps ==
  \/ LoadFails \/ Choose \/ Reconnect \/ StartPINDisplay \/ EnterPIN
  \/ PairSetupTransient \/ PairSetup \/ ProvePIN \/ ExchangeKeys
  \/ PairVerify \/ EnableEncryption \/ RawPairSetup \/ RawPairVerify
  \/ FairPlaySetup \/ FairPlayUnsupported
  \/ Refused \/ Save \/ SaveRestoreToken \/ Persist

Next ==
  \/ Start \/ Steps \/ LookupFails \/ DialFails \/ AnswerLost \/ PersistFails \/ Exit \/ Killed \/ Forget

Spec == Init /\ [][Next]_vars

\* Requests have deadlines, and the user answers the prompts.
FairSpec == Spec /\ WF_vars(Steps)

-----------------------------------------------------------------------------
Senders == [id : Nat, key : Nat]
Entries == [id : Nat, key : Nat, token : BOOLEAN]
Ways    == {"none", "pin", "saved", "transient"}
Secrets == {"none", "setup", "verify"}
StreamKeys == {"none", "mixed", "raw"}

TypeOK ==
  /\ kind \in Kinds /\ paired \subseteq ever /\ ever \subseteq Senders
  /\ pc \in {"off", "fatal", "dial", "reconnect", "display", "prompt", "save", "write",
             "capture", "writeToken", "streaming"} \cup DOMAIN Grants
  /\ way \in Ways
  /\ code \in BOOLEAN /\ right \in BOOLEAN
  /\ cl \in [id : Nat, key : Nat, type : {"screen", "transient"}, secret : Secrets,
             encrypted : BOOLEAN, fpKey : StreamKeys]
  /\ rc \in [began : SUBSET Ways, asked : BOOLEAN, guest : SUBSET Senders, secret : Secrets,
             encrypted : BOOLEAN, fpKey : StreamKeys]
  /\ keyring \in BOOLEAN /\ mem \in Entries /\ file \in Entries \cup {Torn}
  /\ saved \subseteq {"pairing", "token"}
  /\ conns \in Nat /\ runs \in 0..MaxRuns /\ faults \in 0..MaxFaults

\* Saved credentials are those of a sender that the receiver has taken in with a
\* PIN, identifier and key of one pairing: neither a transient one, nor one whose
\* pairing has failed, nor halves of two.
Works(e) == e.id # None => [id |-> e.id, key |-> e.key] \in ever
CredentialsWork == Works(mem) /\ Works(file)

\* "A failed pairing exchange may leave receiver state on this socket. Start and
\* finish PIN pairing together on a clean connection" (main.go:228): a PIN is
\* shown and used on one connection, and no other exchange was begun on it.
CleanExchange ==
  "pin" \in rc.began => rc.began = {"pin"}

\* Whenever the sender uses the connection, both ends have it encrypted or both
\* plain, though the answer that says so may have been lost or the protocol
\* changed; and once streaming both have the same key for the stream.
ChannelAgrees ==
  /\ pc \in DOMAIN Grants \cup {"display", "capture", "streaming"} =>
       cl.encrypted = rc.encrypted
  /\ pc = "streaming" /\ cl.fpKey # "none" => cl.fpKey = rc.fpKey

\* What is stored is not lost by saving something else: the pairing by
\* saving a restore token, the token by pairing again.
NothingForgotten ==
  file # Torn => saved \subseteq Fields(file)

\* What each step of a run rests on: the strengthening with which the properties
\* above are inductive.  Where a connection is in use only the way that is tried
\* was begun on it, both ends have it encrypted or both plain, plain until it is
\* verified, and no stream key exists before FairPlay; a sender that is about to
\* be saved was taken in; the entry in memory has all that was ever stored.
InUse == DOMAIN Grants \cup {"display", "prompt", "save", "write", "capture", "writeToken", "streaming"}
Held ==
  /\ rc.began \subseteq {way}
  /\ pc \in {"off", "dial"} => rc.began = {}
  /\ pc \in InUse => cl.encrypted = rc.encrypted /\ cl.id # None
  /\ pc \in InUse \ {"capture", "writeToken", "streaming"} => cl.fpKey = "none"
  /\ pc \in {"display", "prompt", "M1", "M3", "M5", "V1", "V3", "rawSetup"} => ~cl.encrypted
  /\ cl.encrypted => cl.secret = "verify"
  /\ pc \in {"capture", "writeToken", "streaming"} /\ cl.fpKey # "none" => cl.fpKey = rc.fpKey
  /\ pc = "save" => way = "pin"
  /\ way = "pin" /\ pc \in {"V1", "V3", "save"} => Sender \in ever
  /\ pc \in InUse \cup {"reconnect"} => saved \subseteq Fields(mem)

IInv == TypeOK /\ CredentialsWork /\ CleanExchange /\ ChannelAgrees /\ NothingForgotten /\ Held

\* A run that nothing goes wrong in ends in streaming, whatever has gone wrong
\* before it: whether the receiver has forgotten the saved credentials, whichever
\* protocol it speaks, and whatever an earlier run left behind in it.
Ready ==
  /\ pc = "dial" /\ faults = MaxFaults /\ file # Torn
  /\ code => kind # "pin"
  /\ way = "pin" => kind \in {"pin", "password"}
Recovers == Ready ~> pc = "streaming"
=============================================================================
