--------------------------- MODULE Pairing_proofs ---------------------------
(***************************************************************************)
(* Pairing stores the credentials of nobody but a sender that was taken in *)
(* with a PIN, forgets nothing it has stored and has both ends of every    *)
(* connection in use agree, for every number of runs and of faults.        *)
(***************************************************************************)
EXTENDS Pairing, TLAPS

\* TypeOK in three parts, which different provers handle.
Flags == code \in BOOLEAN /\ right \in BOOLEAN /\ keyring \in BOOLEAN

Requests == {"M1", "M3", "M5", "V1", "V3", "rawSetup", "rawV1", "rawV3", "m1", "m3"}
Points == {"off", "fatal", "dial", "reconnect", "display", "prompt", "save", "write",
           "capture", "writeToken", "streaming"} \cup Requests

States ==
  /\ kind \in Kinds /\ paired \subseteq ever /\ ever \subseteq Senders
  /\ pc \in Points /\ way \in Ways
  /\ mem \in Entries /\ file \in Entries \cup {Torn}
  /\ saved \subseteq {"pairing", "token"}
  /\ conns \in Nat /\ runs \in 0..MaxRuns /\ faults \in 0..MaxFaults

Clients == [id : Nat, key : Nat, type : {"screen", "transient"}, secret : Secrets,
            encrypted : BOOLEAN, fpKey : StreamKeys]
Conns   == [began : SUBSET Ways, asked : BOOLEAN, guest : SUBSET Senders, secret : Secrets,
            encrypted : BOOLEAN, fpKey : StreamKeys]
Ends == cl \in Clients /\ rc \in Conns

LEMMA RequestsNamed == DOMAIN Grants = Requests /\ (DOMAIN Grants)' = Requests
  BY DEF Grants, Requests

LEMMA TypeParts == TypeOK <=> Flags /\ States /\ Ends
  BY RequestsNamed DEF TypeOK, Flags, States, Points, Ends, Clients, Conns

\* No flag gets another value than TRUE or FALSE.
LEMMA FlagsStep == ASSUME Flags, [Next]_vars PROVE Flags'
<1> USE DEF Flags, farVars, storeVars, restVars
<1>1. CASE Start BY <1>1, Zenon DEF Start
<1>2. CASE LoadFails BY <1>2, Zenon DEF LoadFails
<1>3. CASE Choose BY <1>3, Zenon DEF Choose
<1>3a. CASE LookupFails BY <1>3a, Zenon DEF LookupFails
<1>4. CASE Reconnect BY <1>4, Zenon DEF Reconnect
<1>5. CASE DialFails BY <1>5, Zenon DEF DialFails
<1>6. CASE StartPINDisplay BY <1>6, Zenon DEF StartPINDisplay
<1>7. CASE EnterPIN BY <1>7, Zenon DEF EnterPIN
<1>8. CASE PairSetupTransient BY <1>8, Zenon DEF PairSetupTransient
<1>9. CASE PairSetup BY <1>9, Zenon DEF PairSetup
<1>10. CASE ProvePIN BY <1>10, Zenon DEF ProvePIN
<1>11. CASE ExchangeKeys BY <1>11, Zenon DEF ExchangeKeys
<1>12. CASE PairVerify BY <1>12, Zenon DEF PairVerify
<1>13. CASE EnableEncryption BY <1>13, Zenon DEF EnableEncryption
<1>14. CASE RawPairSetup BY <1>14, Zenon DEF RawPairSetup
<1>15. CASE RawPairVerify BY <1>15, Zenon DEF RawPairVerify
<1>16. CASE FairPlaySetup BY <1>16, Zenon DEF FairPlaySetup
<1>17. CASE FairPlayUnsupported BY <1>17, Zenon DEF FairPlayUnsupported
<1>18. CASE Refused BY <1>18, Zenon DEF Refused
<1>19. CASE AnswerLost BY <1>19, Zenon DEF AnswerLost
<1>20. CASE Save BY <1>20, Zenon DEF Save
<1>21. CASE SaveRestoreToken BY <1>21, Zenon DEF SaveRestoreToken
<1>22. CASE Persist BY <1>22, Zenon DEF Persist
<1>23. CASE PersistFails BY <1>23, Zenon DEF PersistFails
<1>24. CASE Exit BY <1>24, Zenon DEF Exit, Off
<1>25. CASE Killed BY <1>25, Zenon DEF Killed, Off
<1>26. CASE Forget BY <1>26, Zenon DEF Forget
<1>27. CASE UNCHANGED vars BY <1>27, Zenon DEF vars
<1> QED
  BY <1>1, <1>2, <1>3, <1>3a, <1>4, <1>5, <1>6, <1>7, <1>8, <1>9, <1>10, <1>11, <1>12, <1>13,
     <1>14, <1>15, <1>16, <1>17, <1>18, <1>19, <1>20, <1>21, <1>22, <1>23, <1>24, <1>25,
     <1>26, <1>27
     DEF Next, Steps

-----------------------------------------------------------------------------
(* What the parts of the actions do                                        *)

\* A new connection: neither end has used it.
LEMMA DialledStep ==
  ASSUME conns \in Nat, Dialled(conns + 1)
  PROVE  /\ cl' \in Clients /\ rc' \in Conns /\ conns' \in Nat
         /\ cl'.id # None /\ cl'.encrypted = FALSE /\ cl'.fpKey = "none"
         /\ rc'.began = {} /\ rc'.encrypted = FALSE
<1> DEFINE n == conns + 1
<1>1. n \in Nat /\ n # 0
  OBVIOUS
<1>2. PICK t \in {"screen", "transient"} : cl' = [NewClient(n) EXCEPT !.key = n, !.type = t]
  BY DEF Dialled
<1>3. cl' = [id |-> n, key |-> n, type |-> t, secret |-> "none", encrypted |-> FALSE,
             fpKey |-> "none"]
  BY <1>2 DEF NewClient
<1>4. cl' \in Clients
  <2> HIDE DEF n
  <2> QED
    BY <1>1, <1>3 DEF Clients, Secrets, StreamKeys
<1>5. cl'.id # None /\ cl'.encrypted = FALSE /\ cl'.fpKey = "none"
  BY <1>1, <1>3 DEF None
<1> QED
  BY <1>1, <1>4, <1>5 DEF Dialled, NewConn, Conns, Secrets, StreamKeys

\* The connection of saved credentials, that keeps their identifier.
LEMMA SavedStep ==
  ASSUME file \in Entries, rc' = NewConn, cl' = [NewClient(file.id) EXCEPT !.key = file.key]
  PROVE  /\ cl' \in Clients /\ rc' \in Conns
         /\ cl'.id = file.id /\ cl'.encrypted = FALSE /\ cl'.fpKey = "none"
         /\ rc'.began = {} /\ rc'.encrypted = FALSE
  BY DEF NewClient, NewConn, Entries, Clients, Conns, Secrets, StreamKeys, None

LEMMA OffStep ==
  ASSUME Off
  PROVE  /\ cl' \in Clients /\ rc' \in Conns /\ mem' \in Entries /\ mem'.id = None
         /\ cl'.encrypted = FALSE /\ rc'.began = {} /\ pc' = "off" /\ way' = "none"
  BY DEF Off, NewClient, NewConn, Empty, Entries, Clients, Conns, Secrets, StreamKeys, None

\* A request that the receiver grants changes its side of the connection.
LEMMA ActsStep ==
  ASSUME Ends, way \in Ways, Acts
  PROVE  /\ rc' \in Conns
         /\ rc'.began \subseteq rc.began \cup {way}
         /\ pc = "V3" => rc'.encrypted = TRUE
         /\ pc # "V3" => rc'.encrypted = rc.encrypted
         /\ pc = "m3" => rc'.fpKey = IF rc.encrypted THEN "mixed" ELSE "raw"
<1> DEFINE new == [began |-> IF pc \in {"m1", "m3"} THEN rc.began ELSE rc.began \cup {way},
                   asked |-> rc.asked,
                   guest |-> IF pc = "M5" /\ way = "transient" THEN {Sender} ELSE rc.guest,
                   secret |-> IF pc = "V3" THEN "verify" ELSE IF pc = "M5" THEN "setup" ELSE rc.secret,
                   encrypted |-> rc.encrypted \/ pc = "V3",
                   fpKey |-> IF pc = "m3" THEN IF rc.encrypted THEN "mixed" ELSE "raw" ELSE rc.fpKey]
<1>1. rc' = new
  BY DEF Acts, Ends, Conns
<1>2. Sender \in Senders
  BY DEF Sender, Senders, Ends, Clients
<1>3. rc' \in Conns
  BY <1>1, <1>2 DEF Ends, Conns, Secrets, StreamKeys
<1> QED
  BY <1>1, <1>3 DEF Ends, Conns

\* The receiver remembers nobody that it has not taken in.
LEMMA TakenIn ==
  ASSUME Ends, States, Acts
  PROVE  /\ kind' = kind /\ paired' \subseteq ever' /\ ever' \subseteq Senders /\ ever \subseteq ever'
         /\ pc = "M5" /\ way = "pin" => Sender \in ever'
<1>1. Sender \in Senders
  BY DEF Sender, Senders, Ends, Clients
<1> QED
  BY <1>1 DEF Acts, States

\* What the sender keeps of the exchanges on a connection.
LEMMA ClientStep ==
  ASSUME cl \in Clients
  PROVE  /\ \A s \in Secrets : [cl EXCEPT !.secret = s] \in Clients
         /\ [cl EXCEPT !.secret = "verify", !.encrypted = TRUE] \in Clients
         /\ [cl EXCEPT !.fpKey = MasterKey(cl)] \in Clients
<1>1. ASSUME NEW s \in Secrets PROVE [cl EXCEPT !.secret = s] \in Clients
  BY <1>1 DEF Clients
<1>2. [cl EXCEPT !.secret = "verify", !.encrypted = TRUE] \in Clients
  BY DEF Clients, Secrets
<1>3. MasterKey(cl) \in StreamKeys
  BY DEF MasterKey, StreamKeys
<1>4. [cl EXCEPT !.fpKey = MasterKey(cl)] \in Clients
  BY <1>3 DEF Clients
<1> QED
  BY <1>1, <1>2, <1>4

LEMMA ClientFields ==
  ASSUME cl \in Clients
  PROVE  /\ LET e == [cl EXCEPT !.secret = "verify"]
            IN  /\ e.id = cl.id /\ e.secret = "verify"
                /\ e.encrypted = cl.encrypted /\ e.fpKey = cl.fpKey
         /\ LET e == [cl EXCEPT !.secret = "verify", !.encrypted = TRUE]
            IN  e.id = cl.id /\ e.secret = "verify" /\ e.encrypted = TRUE /\ e.fpKey = cl.fpKey
         /\ LET e == [cl EXCEPT !.fpKey = MasterKey(cl)]
            IN  /\ e.id = cl.id /\ e.secret = cl.secret
                /\ e.encrypted = cl.encrypted /\ e.fpKey = MasterKey(cl)
  BY DEF Clients

LEMMA FieldsKnown == \A e : Fields(e) \subseteq {"pairing", "token"}
  BY DEF Fields

\* The entries that are stored: the paired one, that with the token.
LEMMA EntryStep ==
  ASSUME cl \in Clients, mem \in Entries
  PROVE  /\ [mem EXCEPT !.id = cl.id, !.key = cl.key] \in Entries
         /\ [mem EXCEPT !.token = TRUE] \in Entries
         /\ file \in Entries \cup {Torn} /\ file # Torn => file \in Entries
  BY DEF Clients, Entries

\* Neither pairing again nor a token removes a field; the paired entry works if
\* its sender was taken in.
LEMMA EntryKeeps ==
  ASSUME cl \in Clients, mem \in Entries
  PROVE  /\ LET e == [mem EXCEPT !.id = cl.id, !.key = cl.key]
            IN  /\ cl.id # None => Fields(mem) \subseteq Fields(e)
                /\ Sender \in ever => Works(e)
         /\ LET e == [mem EXCEPT !.token = TRUE]
            IN  /\ Fields(mem) \subseteq Fields(e)
                /\ Works(mem) => Works(e)
<1>1. LET e == [mem EXCEPT !.id = cl.id, !.key = cl.key]
      IN  e.id = cl.id /\ e.key = cl.key /\ e.token = mem.token
  BY DEF Entries
<1>2. LET e == [mem EXCEPT !.token = TRUE]
      IN  e.id = mem.id /\ e.key = mem.key /\ e.token = TRUE
  BY DEF Entries
<1>3. \A e, f : (f.id # None => e.id # None) /\ (f.token => e.token) => Fields(f) \subseteq Fields(e)
  BY DEF Fields
<1>4. LET e == [mem EXCEPT !.id = cl.id, !.key = cl.key]
      IN  cl.id # None => Fields(mem) \subseteq Fields(e)
  BY <1>1, <1>3
<1>5. LET e == [mem EXCEPT !.token = TRUE] IN  Fields(mem) \subseteq Fields(e)
  BY <1>2, <1>3
<1> QED
  BY <1>1, <1>2, <1>4, <1>5 DEF Works, Sender

LEMMA FaultStep == ASSUME faults \in 0..MaxFaults, Fault PROVE faults' \in 0..MaxFaults
  BY ConstantsAssumption DEF Fault

-----------------------------------------------------------------------------
(* The invariant is inductive, part by part                                *)

LEMMA StatesStep == ASSUME States, Ends, [Next]_vars PROVE States'
<1> USE DEF States, Points, Requests, Ways, farVars, storeVars, restVars
<1>1. CASE Start BY <1>1, ConstantsAssumption DEF Start
<1>2. CASE LoadFails BY <1>2 DEF LoadFails
<1>3. CASE Choose BY <1>3 DEF Choose, TryPIN, TryTransient, PINOrTransient, Dialled
<1>3a. CASE LookupFails
  BY <1>3a, FaultStep DEF LookupFails, TryPIN, TryTransient, PINOrTransient, Dialled
<1>4. CASE Reconnect BY <1>4 DEF Reconnect, TryPIN, TryTransient, PINOrTransient, Dialled
<1>5. CASE DialFails BY <1>5, FaultStep DEF DialFails
<1>6. CASE StartPINDisplay BY <1>6, FaultStep DEF StartPINDisplay
<1>7. CASE EnterPIN BY <1>7, FaultStep DEF EnterPIN
<1>8. CASE PairSetupTransient BY <1>8, TakenIn DEF PairSetupTransient, Granted
<1>9. CASE PairSetup BY <1>9, TakenIn DEF PairSetup, Granted
<1>10. CASE ProvePIN BY <1>10, TakenIn DEF ProvePIN, Granted
<1>11. CASE ExchangeKeys BY <1>11, TakenIn DEF ExchangeKeys, Granted
<1>12. CASE PairVerify BY <1>12, TakenIn DEF PairVerify, Granted
<1>13. CASE EnableEncryption BY <1>13, TakenIn DEF EnableEncryption, Granted
<1>14. CASE RawPairSetup BY <1>14, TakenIn DEF RawPairSetup, Granted
<1>15. CASE RawPairVerify BY <1>15, TakenIn DEF RawPairVerify, Granted
<1>16. CASE FairPlaySetup BY <1>16, TakenIn DEF FairPlaySetup, Granted
<1>17. CASE FairPlayUnsupported BY <1>17 DEF FairPlayUnsupported
<1>18. CASE Refused BY <1>18, FaultStep DEF Refused, AfterError
<1>19. CASE AnswerLost BY <1>19, TakenIn, FaultStep DEF AnswerLost, AfterError
<1>20. CASE Save BY <1>20, FaultStep, EntryStep, FieldsKnown DEF Save, BackendSave, Ends
<1>21. CASE SaveRestoreToken BY <1>21, FaultStep, EntryStep, FieldsKnown DEF SaveRestoreToken, BackendSave, Ends
<1>22. CASE Persist BY <1>22, FieldsKnown DEF Persist, AfterWrite
<1>23. CASE PersistFails BY <1>23, FaultStep DEF PersistFails, AfterWrite
<1>24. CASE Exit BY <1>24, OffStep DEF Exit
<1>25. CASE Killed BY <1>25, OffStep, FaultStep DEF Killed
<1>26. CASE Forget BY <1>26, FaultStep DEF Forget
<1>27. CASE UNCHANGED vars BY <1>27 DEF vars
<1> QED
  BY <1>1, <1>2, <1>3, <1>3a, <1>4, <1>5, <1>6, <1>7, <1>8, <1>9, <1>10, <1>11, <1>12, <1>13,
     <1>14, <1>15, <1>16, <1>17, <1>18, <1>19, <1>20, <1>21, <1>22, <1>23, <1>24, <1>25,
     <1>26, <1>27
     DEF Next, Steps

LEMMA EndsStep == ASSUME States, Ends, [Next]_vars PROVE Ends'
<1> USE DEF Ends, farVars, storeVars, restVars
<1>0. way \in Ways /\ conns \in Nat /\ (file # Torn => file \in Entries)
  BY DEF States
<1>1. CASE Start BY <1>1 DEF Start
<1>2. CASE LoadFails BY <1>2 DEF LoadFails
<1>3. CASE Choose
  <2>1. CASE Dialled(conns + 1)
    BY <1>0, <2>1, DialledStep
  <2>2. CASE ~Dialled(conns + 1)
    BY <1>0, <1>3, <2>2, SavedStep DEF Choose
  <2> QED
    BY <2>1, <2>2
<1>3a. CASE LookupFails BY <1>3a, <1>0, DialledStep DEF LookupFails
<1>4. CASE Reconnect BY <1>4, <1>0, DialledStep DEF Reconnect
<1>5. CASE DialFails BY <1>5 DEF DialFails
<1>6. CASE StartPINDisplay BY <1>6 DEF StartPINDisplay, Conns
<1>7. CASE EnterPIN BY <1>7 DEF EnterPIN
<1>8. CASE PairSetupTransient BY <1>8, <1>0, ActsStep DEF PairSetupTransient, Granted
<1>9. CASE PairSetup BY <1>9, <1>0, ActsStep DEF PairSetup, Granted
<1>10. CASE ProvePIN BY <1>10, <1>0, ActsStep DEF ProvePIN, Granted
<1>11. CASE ExchangeKeys BY <1>11, <1>0, ActsStep, ClientStep DEF ExchangeKeys, Granted, Secrets
<1>12. CASE PairVerify BY <1>12, <1>0, ActsStep DEF PairVerify, Granted
<1>13. CASE EnableEncryption BY <1>13, <1>0, ActsStep, ClientStep DEF EnableEncryption, Granted, Secrets
<1>14. CASE RawPairSetup BY <1>14, <1>0, ActsStep DEF RawPairSetup, Granted
<1>15. CASE RawPairVerify BY <1>15, <1>0, ActsStep, ClientStep DEF RawPairVerify, Granted, Secrets
<1>16. CASE FairPlaySetup BY <1>16, <1>0, ActsStep, ClientStep DEF FairPlaySetup, Granted, Secrets
<1>17. CASE FairPlayUnsupported BY <1>17 DEF FairPlayUnsupported
<1>18. CASE Refused BY <1>18, <1>0 DEF Refused, Conns
<1>19. CASE AnswerLost BY <1>19, <1>0, ActsStep DEF AnswerLost
<1>20. CASE Save BY <1>20 DEF Save
<1>21. CASE SaveRestoreToken BY <1>21 DEF SaveRestoreToken
<1>22. CASE Persist BY <1>22 DEF Persist
<1>23. CASE PersistFails BY <1>23 DEF PersistFails
<1>24. CASE Exit BY <1>24, OffStep DEF Exit
<1>25. CASE Killed BY <1>25, OffStep DEF Killed
<1>26. CASE Forget BY <1>26 DEF Forget
<1>27. CASE UNCHANGED vars BY <1>27 DEF vars
<1> QED
  BY <1>1, <1>2, <1>3, <1>3a, <1>4, <1>5, <1>6, <1>7, <1>8, <1>9, <1>10, <1>11, <1>12, <1>13,
     <1>14, <1>15, <1>16, <1>17, <1>18, <1>19, <1>20, <1>21, <1>22, <1>23, <1>24, <1>25,
     <1>26, <1>27
     DEF Next, Steps

\* What is saved is a sender that the receiver has taken in.
Credentials ==
  /\ CredentialsWork
  /\ pc = "save" => way = "pin"
  /\ way = "pin" /\ pc \in {"V1", "V3", "save"} => Sender \in ever

LEMMA CredentialsStep == ASSUME States, Ends, Credentials, [Next]_vars PROVE Credentials'
<1> USE DEF Credentials, CredentialsWork, Works, Sender, farVars, storeVars, restVars
<1>0. ever \subseteq Senders /\ cl \in Clients /\ mem \in Entries
  BY DEF States, Ends
<1>1. CASE Start BY <1>1 DEF Start
<1>2. CASE LoadFails BY <1>2 DEF LoadFails
<1>3. CASE Choose BY <1>3, <1>0 DEF Choose, TryPIN, TryTransient, PINOrTransient, Dialled
<1>3a. CASE LookupFails
  BY <1>3a, <1>0 DEF LookupFails, TryPIN, TryTransient, PINOrTransient, Dialled
<1>4. CASE Reconnect BY <1>4 DEF Reconnect, TryPIN, TryTransient, PINOrTransient, Dialled
<1>5. CASE DialFails BY <1>5 DEF DialFails
<1>6. CASE StartPINDisplay BY <1>6 DEF StartPINDisplay
<1>7. CASE EnterPIN BY <1>7 DEF EnterPIN
<1>8. CASE PairSetupTransient BY <1>8, <1>0, TakenIn DEF PairSetupTransient, Granted
<1>9. CASE PairSetup BY <1>9, <1>0, TakenIn DEF PairSetup, Granted
<1>10. CASE ProvePIN BY <1>10, <1>0, TakenIn DEF ProvePIN, Granted
<1>11. CASE ExchangeKeys BY <1>11, <1>0, TakenIn DEF ExchangeKeys, Granted
<1>12. CASE PairVerify BY <1>12, <1>0, TakenIn DEF PairVerify, Granted
<1>13. CASE EnableEncryption BY <1>13, <1>0, TakenIn DEF EnableEncryption, Granted
<1>14. CASE RawPairSetup BY <1>14, <1>0, TakenIn DEF RawPairSetup, Granted
<1>15. CASE RawPairVerify BY <1>15, <1>0, TakenIn DEF RawPairVerify, Granted
<1>16. CASE FairPlaySetup BY <1>16, <1>0, TakenIn DEF FairPlaySetup, Granted
<1>17. CASE FairPlayUnsupported BY <1>17 DEF FairPlayUnsupported
<1>18. CASE Refused BY <1>18 DEF Refused, AfterError
<1>19. CASE AnswerLost BY <1>19, <1>0, TakenIn DEF AnswerLost, AfterError
<1>20. CASE Save
  <2> DEFINE e == [mem EXCEPT !.id = cl.id, !.key = cl.key]
  <2>1. Works(e)
    BY <1>0, <1>20, EntryKeeps DEF Save
  <2>2. mem' \in {mem, e} /\ file' \in {file, e, Torn}
    BY <1>20 DEF Save, BackendSave
  <2>3. Works(Torn)
    BY DEF Torn
  <2> HIDE DEF e
  <2> QED
    BY <1>20, <2>1, <2>2, <2>3 DEF Save, BackendSave
<1>21. CASE SaveRestoreToken
  <2> DEFINE e == [mem EXCEPT !.token = TRUE]
  <2>1. Works(e)
    BY <1>0, <1>21, EntryKeeps DEF SaveRestoreToken
  <2>2. mem' \in {mem, e} /\ file' \in {file, e, Torn}
    BY <1>21 DEF SaveRestoreToken, BackendSave
  <2>3. Works(Torn)
    BY DEF Torn
  <2> HIDE DEF e
  <2> QED
    BY <1>21, <2>1, <2>2, <2>3 DEF SaveRestoreToken, BackendSave
<1>22. CASE Persist BY <1>22 DEF Persist, AfterWrite
<1>23. CASE PersistFails BY <1>23 DEF PersistFails, AfterWrite
<1>24. CASE Exit BY <1>24, OffStep DEF Exit
<1>25. CASE Killed BY <1>25, OffStep DEF Killed
<1>26. CASE Forget BY <1>26 DEF Forget
<1>27. CASE UNCHANGED vars BY <1>27 DEF vars
<1> QED
  BY <1>1, <1>2, <1>3, <1>3a, <1>4, <1>5, <1>6, <1>7, <1>8, <1>9, <1>10, <1>11, <1>12, <1>13,
     <1>14, <1>15, <1>16, <1>17, <1>18, <1>19, <1>20, <1>21, <1>22, <1>23, <1>24, <1>25,
     <1>26, <1>27
     DEF Next, Steps

\* What was stored is in the entry in memory, and again in the file once it is written.
Kept ==
  /\ NothingForgotten
  /\ pc \in InUse \cup {"reconnect"} => saved \subseteq Fields(mem)
  /\ pc \in InUse => cl.id # None

LEMMA KeptStep == ASSUME States, Ends, Kept, [Next]_vars PROVE Kept'
<1> USE DEF Kept, NothingForgotten, InUse, Requests, farVars, storeVars, restVars
<1>0. /\ DOMAIN Grants = Requests /\ (DOMAIN Grants)' = Requests /\ conns \in Nat
      /\ cl \in Clients /\ mem \in Entries /\ (file # Torn => file \in Entries)
  BY RequestsNamed DEF States, Ends
<1> USE <1>0
<1>1. CASE Start BY <1>1 DEF Start
<1>2. CASE LoadFails BY <1>2 DEF LoadFails
<1>3. CASE Choose
  <2>1. CASE Dialled(conns + 1)
    BY <1>0, <1>3, <2>1, DialledStep DEF Choose
  <2>2. CASE ~Dialled(conns + 1)
    BY <1>0, <1>3, <2>2, SavedStep DEF Choose
  <2> QED
    BY <2>1, <2>2
<1>3a. CASE LookupFails BY <1>3a, <1>0, DialledStep DEF LookupFails
<1>4. CASE Reconnect BY <1>4, <1>0, DialledStep DEF Reconnect
<1>5. CASE DialFails BY <1>5 DEF DialFails
<1>6. CASE StartPINDisplay BY <1>6 DEF StartPINDisplay
<1>7. CASE EnterPIN BY <1>7 DEF EnterPIN
<1>8. CASE PairSetupTransient BY <1>8, <1>0 DEF PairSetupTransient, Granted
<1>9. CASE PairSetup BY <1>9, <1>0 DEF PairSetup, Granted
<1>10. CASE ProvePIN BY <1>10, <1>0 DEF ProvePIN, Granted
<1>11. CASE ExchangeKeys BY <1>11, <1>0 DEF ExchangeKeys, Granted
<1>12. CASE PairVerify BY <1>12, <1>0 DEF PairVerify, Granted
<1>13. CASE EnableEncryption BY <1>13, <1>0 DEF EnableEncryption, Granted
<1>14. CASE RawPairSetup BY <1>14, <1>0 DEF RawPairSetup, Granted
<1>15. CASE RawPairVerify
  <2>1. CASE Granted("rawV1") /\ UNCHANGED cl
    BY <1>15, <2>1, <1>0 DEF RawPairVerify, Granted
  <2>2. CASE Granted("rawV3") /\ cl' = [cl EXCEPT !.secret = "verify"]
    BY <1>15, <2>2, <1>0, ClientFields DEF RawPairVerify, Granted
  <2> QED
    BY <1>15, <2>1, <2>2 DEF RawPairVerify
<1>16. CASE FairPlaySetup
  <2>1. CASE Granted("m1") /\ UNCHANGED cl
    BY <1>16, <2>1, <1>0 DEF FairPlaySetup, Granted
  <2>2. CASE Granted("m3") /\ cl' = [cl EXCEPT !.fpKey = MasterKey(cl)]
    BY <1>16, <2>2, <1>0, ClientFields DEF FairPlaySetup, Granted
  <2> QED
    BY <1>16, <2>1, <2>2 DEF FairPlaySetup
<1>17. CASE FairPlayUnsupported BY <1>17 DEF FairPlayUnsupported
<1>18. CASE Refused BY <1>18 DEF Refused, AfterError
<1>19. CASE AnswerLost BY <1>19, <1>0 DEF AnswerLost, AfterError
<1>20. CASE Save BY <1>20, <1>0, EntryKeeps DEF Save, BackendSave
<1>21. CASE SaveRestoreToken BY <1>21, <1>0, EntryKeeps DEF SaveRestoreToken, BackendSave
<1>22. CASE Persist BY <1>22 DEF Persist, AfterWrite
<1>23. CASE PersistFails BY <1>23 DEF PersistFails, AfterWrite
<1>24. CASE Exit BY <1>24, OffStep DEF Exit
<1>25. CASE Killed BY <1>25, OffStep DEF Killed
<1>26. CASE Forget BY <1>26 DEF Forget
<1>27. CASE UNCHANGED vars BY <1>27 DEF vars
<1> QED
  BY <1>1, <1>2, <1>3, <1>3a, <1>4, <1>5, <1>6, <1>7, <1>8, <1>9, <1>10, <1>11, <1>12, <1>13,
     <1>14, <1>15, <1>16, <1>17, <1>18, <1>19, <1>20, <1>21, <1>22, <1>23, <1>24, <1>25,
     <1>26, <1>27
     DEF Next, Steps

\* Both ends of a connection in use agree, and nothing but the way that is tried was
\* begun on it.
Connected ==
  /\ CleanExchange
  /\ rc.began \subseteq {way}
  /\ pc \in {"off", "dial"} => rc.began = {}
  /\ pc \in InUse => cl.encrypted = rc.encrypted
  /\ pc \in InUse \ {"capture", "writeToken", "streaming"} => cl.fpKey = "none"
  /\ pc \in {"display", "prompt", "M1", "M3", "M5", "V1", "V3", "rawSetup"} => ~cl.encrypted
  /\ cl.encrypted => cl.secret = "verify"
  /\ pc \in {"capture", "writeToken", "streaming"} /\ cl.fpKey # "none" => cl.fpKey = rc.fpKey

LEMMA ConnectedStep == ASSUME States, Ends, Connected, [Next]_vars PROVE Connected'
<1> USE DEF Connected, CleanExchange, InUse, Requests, farVars, storeVars, restVars
<1>0. /\ DOMAIN Grants = Requests /\ (DOMAIN Grants)' = Requests /\ conns \in Nat
      /\ way \in Ways /\ Ends /\ cl \in Clients /\ rc \in Conns
      /\ (file # Torn => file \in Entries)
  BY RequestsNamed DEF States, Ends
<1> USE <1>0
<1>1. CASE Start BY <1>1 DEF Start
<1>2. CASE LoadFails BY <1>2 DEF LoadFails
<1>3. CASE Choose
  <2>1. CASE Dialled(conns + 1)
    BY <1>3, <2>1, DialledStep DEF Choose, TryPIN, TryTransient, PINOrTransient
  <2>2. CASE ~Dialled(conns + 1)
    BY <1>3, <2>2, SavedStep DEF Choose
  <2> QED
    BY <2>1, <2>2
<1>3a. CASE LookupFails
  BY <1>3a, DialledStep DEF LookupFails, TryPIN, TryTransient, PINOrTransient
<1>4. CASE Reconnect BY <1>4, DialledStep DEF Reconnect
<1>5. CASE DialFails BY <1>5 DEF DialFails
<1>6. CASE StartPINDisplay
  <2>1. rc'.began = rc.began /\ rc'.encrypted = rc.encrypted
    BY <1>6 DEF StartPINDisplay, Conns
  <2> QED
    BY <1>6, <2>1 DEF StartPINDisplay
<1>7. CASE EnterPIN BY <1>7 DEF EnterPIN
<1>8. CASE PairSetupTransient BY <1>8, ActsStep DEF PairSetupTransient, Granted
<1>9. CASE PairSetup BY <1>9, ActsStep DEF PairSetup, Granted
<1>10. CASE ProvePIN BY <1>10, ActsStep DEF ProvePIN, Granted
<1>11. CASE ExchangeKeys BY <1>11, ActsStep DEF ExchangeKeys, Granted
<1>12. CASE PairVerify BY <1>12, ActsStep DEF PairVerify, Granted
<1>13. CASE EnableEncryption
  <2>1. pc = "V3" /\ Acts /\ way' = way /\ pc' \in {"save", "m1"}
    BY <1>13 DEF EnableEncryption, Granted, restVars
  <2>2. rc'.began \subseteq rc.began \cup {way} /\ rc'.encrypted = TRUE
    BY <2>1, ActsStep
  <2>3. cl'.secret = "verify" /\ cl'.encrypted = TRUE /\ cl'.fpKey = cl.fpKey
    BY <1>13, ClientFields DEF EnableEncryption
  <2>4. cl'.fpKey = "none"
    BY <2>1, <2>3
  <2>5. rc'.began \subseteq {way'} /\ CleanExchange'
    BY <2>1, <2>2
  <2> HIDE <1>0
  <2> QED
    BY <2>1, <2>2, <2>3, <2>4, <2>5
<1>14. CASE RawPairSetup BY <1>14, ActsStep DEF RawPairSetup, Granted
<1>15. CASE RawPairVerify
  <2>1. CASE Granted("rawV1") /\ UNCHANGED cl
    BY <1>15, <2>1, ActsStep DEF RawPairVerify, Granted
  <2>2. CASE Granted("rawV3") /\ cl' = [cl EXCEPT !.secret = "verify"]
    BY <1>15, <2>2, ActsStep, ClientFields DEF RawPairVerify, Granted, MasterKey
  <2> QED
    BY <1>15, <2>1, <2>2 DEF RawPairVerify
<1>16. CASE FairPlaySetup
  <2>1. CASE Granted("m1") /\ UNCHANGED cl
    BY <1>16, <2>1, ActsStep DEF FairPlaySetup, Granted
  <2>2. CASE Granted("m3") /\ cl' = [cl EXCEPT !.fpKey = MasterKey(cl)]
    BY <1>16, <2>2, ActsStep, ClientFields DEF FairPlaySetup, Granted, MasterKey
  <2> QED
    BY <1>16, <2>1, <2>2 DEF FairPlaySetup
<1>17. CASE FairPlayUnsupported BY <1>17 DEF FairPlayUnsupported
<1>18. CASE Refused BY <1>18 DEF Refused, AfterError
<1>19. CASE AnswerLost BY <1>19, ActsStep DEF AnswerLost, AfterError
<1>20. CASE Save BY <1>20 DEF Save, BackendSave
<1>21. CASE SaveRestoreToken BY <1>21 DEF SaveRestoreToken, BackendSave
<1>22. CASE Persist BY <1>22 DEF Persist, AfterWrite
<1>23. CASE PersistFails BY <1>23 DEF PersistFails, AfterWrite
<1>24. CASE Exit BY <1>24, OffStep DEF Exit
<1>25. CASE Killed BY <1>25, OffStep DEF Killed
<1>26. CASE Forget BY <1>26 DEF Forget
<1>27. CASE UNCHANGED vars BY <1>27 DEF vars
<1> QED
  BY <1>1, <1>2, <1>3, <1>3a, <1>4, <1>5, <1>6, <1>7, <1>8, <1>9, <1>10, <1>11, <1>12, <1>13,
     <1>14, <1>15, <1>16, <1>17, <1>18, <1>19, <1>20, <1>21, <1>22, <1>23, <1>24, <1>25,
     <1>26, <1>27
     DEF Next, Steps

-----------------------------------------------------------------------------
(* The theorems                                                            *)

\* IInv in the parts that the steps above preserve.
LEMMA Parts == IInv <=> Flags /\ States /\ Ends /\ Credentials /\ Kept /\ Connected
<1>1. Connected => ChannelAgrees
  BY DEF Connected, ChannelAgrees, InUse
<1> QED
  BY <1>1, TypeParts DEF IInv, Held, Credentials, Kept, Connected

LEMMA InitInv == Init => IInv
<1> SUFFICES ASSUME Init PROVE IInv
  OBVIOUS
<1>1. Flags
  BY Zenon DEF Init, Flags
<1>2. cl = [id |-> 0, key |-> 0, type |-> "screen", secret |-> "none", encrypted |-> FALSE,
            fpKey |-> "none"]
  BY DEF Init, NewClient, None
<1>3. rc = [began |-> {}, asked |-> FALSE, guest |-> {}, secret |-> "none",
            encrypted |-> FALSE, fpKey |-> "none"]
  BY DEF Init, NewConn
<1>4. Ends
  BY <1>2, <1>3 DEF Ends, Clients, Conns, Secrets, StreamKeys
<1>5. States
  BY ConstantsAssumption DEF Init, States, Points, Ways, Entries, Empty, None
<1>6. Credentials
  BY DEF Init, Credentials, CredentialsWork, Works, Empty, None
<1>7. Kept
  BY RequestsNamed DEF Init, Kept, NothingForgotten, InUse, Requests
<1>8. Connected
  BY <1>2, <1>3, RequestsNamed DEF Init, Connected, CleanExchange, InUse, Requests
<1> QED
  BY <1>1, <1>4, <1>5, <1>6, <1>7, <1>8, Parts

LEMMA StepInv == IInv /\ [Next]_vars => IInv'
<1> SUFFICES ASSUME IInv, [Next]_vars PROVE IInv'
  OBVIOUS
<1>1. Flags /\ States /\ Ends /\ Credentials /\ Kept /\ Connected
  BY Parts
<1>2. Flags' /\ States' /\ Ends' /\ Credentials' /\ Kept' /\ Connected'
  BY <1>1, FlagsStep, StatesStep, EndsStep, CredentialsStep, KeptStep, ConnectedStep
<1>3. IInv' <=> Flags' /\ States' /\ Ends' /\ Credentials' /\ Kept' /\ Connected'
  BY Parts, PTL
<1> QED
  BY <1>2, <1>3

\* At every step of the flow of main, of the exchanges of pairing.go and of the
\* credential store, what the program holds of a receiver is what IInv says: it has
\* its type, the stored credentials are a sender's that was taken in, no exchange
\* begins on a connection that another has used.
THEOREM Invariance == Spec => []IInv
  BY InitInv, StepInv, PTL DEF Spec

\* Both ends of a connection that the sender uses have it encrypted or both plain,
\* whichever answers were lost (EncryptedConn, client.go), and once streaming they
\* have the same key for the stream (deriveStreamMasterKey).
THEOREM ChannelsAgree == Spec => []ChannelAgrees
<1>1. IInv => ChannelAgrees
  BY DEF IInv
<1> QED
  BY <1>1, Invariance, PTL

\* CredentialStore.Save keeps the token when a pairing is stored and the pairing when
\* a token is, over every number of runs, whatever write has failed before.
THEOREM NothingIsForgotten == Spec => []NothingForgotten
<1>1. IInv => NothingForgotten
  BY DEF IInv
<1> QED
  BY <1>1, Invariance, PTL

\* Neither the store nor the program ever has the credentials of a transient sender,
\* of one whose pairing failed, or halves of two pairings.
THEOREM CredentialsAreTakenIn == Spec => []CredentialsWork
<1>1. IInv => CredentialsWork
  BY DEF IInv
<1> QED
  BY <1>1, Invariance, PTL
=============================================================================
