------------------------------- MODULE Oracle -------------------------------
(***************************************************************************)
(* The oracle core: oracle.rs over keychain.rs and the write side of the   *)
(* two databases (db/in_memory.rs, db/postgres.rs).                        *)
(*                                                                         *)
(* An oracle is created from a secret seed over a database (Oracle::new)   *)
(* and then announces events (add_event) and attests to outcomes           *)
(* (complete_event).  Each of the three is a read of the database, a       *)
(* decision, and a write: two awaits with other callers in between.  With  *)
(* Postgres the callers are processes (the daemon `olivia run`, and every  *)
(* `olivia add` started beside it); with the in-memory database they are   *)
(* tasks of one process and a crash loses the database.                    *)
(*                                                                         *)
(* Cryptography is modelled by what is signed with which key: a signature  *)
(* is a record of its key and message, and it verifies when both match.    *)
(***************************************************************************)
EXTENDS FiniteSets

CONSTANTS
  Caller,     \* the oracles that share one database
  Attester,   \* the callers that complete events; every caller may add them
  Event,      \* event ids
  Nonceless,  \* the ids whose kind has no nonces (`.price` without ?n=)
  Outcome,    \* outcome values
  Report,     \* for each event the outcomes its source may ever report
  Seed,       \* secret seeds
  SeedOf,     \* the seed in the configuration of each caller
  Backend,    \* "InMemory" or "Postgres"
  CanCrash,   \* whether processes crash
  None        \* Rust's None

ASSUME OracleAssumption ==
  /\ Attester \subseteq Caller
  /\ Nonceless \subseteq Event
  /\ Report \in [Event -> SUBSET Outcome]
  /\ SeedOf \in [Caller -> Seed]
  /\ Backend \in {"InMemory", "Postgres"}
  /\ CanCrash \in BOOLEAN

-----------------------------------------------------------------------------
(* Keys, announcements and attestations.                                   *)

PublicKey == Seed \X {"announcement-key", "olivia-v1-key", "ecdsa-v1-key"}

\* KeyChain::oracle_public_keys of the key pairs KeyChain::new derives.
Keys(s) == [announcement |-> <<s, "announcement-key">>,
            olivia_v1    |-> <<s, "olivia-v1-key">>,
            ecdsa_v1     |-> <<s, "ecdsa-v1-key">>]

\* Mutant: an empty list of nonces is announced as such.
NoncesForEvent_EmptyList(s, e) == IF e \in Nonceless THEN <<>> ELSE <<s, e>>

\* The nonces of an event are a function of the seed and the event id only.
NoncesForEvent(s, e) == IF e \in Nonceless THEN None ELSE <<s, e>>

CreateAnnouncement(s, e) ==
  [id        |-> e,
   olivia_v1 |-> NoncesForEvent(s, e),
   signature |-> Keys(s).announcement]

VerifyAgainstId(ann, e, keys) ==
  ann.signature = keys.announcement /\ ann.id = e

\* The scalars derive the nonces from the seed a second time.
OliviaV1Scalars(s, e, o) ==
  [key |-> Keys(s).olivia_v1, nonces |-> <<s, e>>, outcome |-> o]

EcdsaSignOutcome(s, e, o) ==
  [key |-> Keys(s).announcement, id |-> e, outcome |-> o]


\* The olivia-v1 part is there iff the announcement that was read has it.
Attest(s, ann, e, o) ==
  [outcome   |-> o,
   olivia_v1 |-> IF ann.olivia_v1 = None THEN None ELSE OliviaV1Scalars(s, e, o),
   ecdsa_v1  |-> EcdsaSignOutcome(s, e, o)]

\* Attestation::verify_olivia_v1_attestation, by anyone who has the oracle's
\* public keys, the announcement and the attestation.
VerifyOliviaV1(keys, ann, att) ==
  ann.olivia_v1 # None =>
    /\ att.olivia_v1 # None
    /\ att.olivia_v1.key = keys.olivia_v1
    /\ att.olivia_v1.nonces = ann.olivia_v1
    /\ att.olivia_v1.outcome = att.outcome

\* Attestation::verify_ecdsa_v1_attestation.
VerifyEcdsaV1(keys, ann, att) ==
  /\ att.ecdsa_v1.key = keys.ecdsa_v1
  /\ att.ecdsa_v1.id = ann.id
  /\ att.ecdsa_v1.outcome = att.outcome

OracleKeys   == {Keys(s) : s \in Seed}
Nonces       == Seed \X Event
Scalars      == [key : PublicKey, nonces : Nonces, outcome : Outcome]
Announcement == [id : Event, olivia_v1 : Nonces \union {None},
                 signature : PublicKey]
Attestation  == [outcome   : Outcome,
                 olivia_v1 : Scalars \union {None},
                 ecdsa_v1  : [key : PublicKey, id : Event, outcome : Outcome]]

ASSUME NoneIsNothing ==
  /\ None \notin Event /\ None \notin Outcome /\ None \notin OracleKeys
  /\ None \notin Nonces /\ None \notin Scalars
  /\ None \notin Announcement /\ None \notin Attestation

\* The argument of a call: an add has no outcome.
Call == [id : Event, outcome : Outcome \union {None}]

Result == {"Ok", "AlreadyExists", "AlreadyCompleted", "OutcomeChanged",
           "EventNotExist", "DbReadErr", "DbWriteErr", "AnnouncementWasBogus"}

-----------------------------------------------------------------------------
VARIABLES
  \* the database
  public_keys,   \* the oracle's public keys, or None
  announcement,  \* per event its announcement, or None: no such row
  attestation,   \* per event its attestation, or None
  \* the callers
  pc,            \* where each caller is: before which read or write
  call,          \* the argument of the call it is in
  view,          \* the announcement complete_event has read
  linked,        \* whether its connection to the database is up
  answer,        \* what its last call returned
  \* history, for the properties only
  revealed,      \* every olivia-v1 scalar that was ever stored
  acked          \* the calls answered Ok since the database was created

db   == <<public_keys, announcement, attestation, revealed>>
own  == <<pc, call, view, linked, answer>>
vars == <<public_keys, announcement, attestation, pc, call, view, linked,
          answer, revealed, acked>>

TypeOK ==
  /\ public_keys \in OracleKeys \union {None}
  /\ announcement \in [Event -> Announcement \union {None}]
  /\ attestation \in [Event -> Attestation \union {None}]
  /\ pc \in [Caller -> {"down", "set_keys", "ready", "insert", "complete"}]
  /\ call \in [Caller -> Call \union {None}]
  /\ view \in [Caller -> Announcement \union {None}]
  /\ linked \in [Caller -> BOOLEAN]
  /\ answer \in [Caller -> [result : Result, call : Call] \union {None}]
  /\ revealed \subseteq Scalars
  /\ acked \subseteq Call

Init ==
  /\ public_keys = None
  /\ announcement = [e \in Event |-> None]
  /\ attestation = [e \in Event |-> None]
  /\ pc = [c \in Caller |-> "down"]
  /\ call = [c \in Caller |-> None]
  /\ view = [c \in Caller |-> None]
  /\ linked = [c \in Caller |-> TRUE]
  /\ answer = [c \in Caller |-> None]
  /\ revealed = {}
  /\ acked = {}

-----------------------------------------------------------------------------
(* What the callers and the databases look at before they decide.          *)

\* Mutant: any keys will do.
KeysMatch_Unchecked(s) == public_keys # None

\* Oracle::new: do the keys in the database belong to this seed?
KeysMatch(s) == public_keys = Keys(s)

\* Mutant: an attestation in the row is not noticed.
Completed_Ignored(e) == FALSE

\* The row that was read has an attestation.
Completed(e) == attestation[e] # None

\* Mutant: the slot is not looked at again.
SlotOpen_Unchecked(e) == TRUE

\* in_memory.rs looks at the slot again under its write lock; the UPDATE of
\* postgres.rs names the row and nothing else.
SlotOpen(e) == Backend = "InMemory" => attestation[e] = None

-----------------------------------------------------------------------------
(* How a call ends, or goes on to its write.                               *)

Return(c, arg, result) ==
  /\ pc' = [pc EXCEPT ![c] = "ready"]
  /\ call' = [call EXCEPT ![c] = None]
  /\ view' = [view EXCEPT ![c] = None]
  /\ answer' = [answer EXCEPT ![c] = [result |-> result, call |-> arg]]
  /\ acked' = IF result = "Ok" THEN acked \union {arg} ELSE acked

GoOn(c, arg, ann, step) ==
  /\ pc' = [pc EXCEPT ![c] = step]
  /\ call' = [call EXCEPT ![c] = arg]
  /\ view' = [view EXCEPT ![c] = ann]
  /\ answer' = [answer EXCEPT ![c] = None]
  /\ UNCHANGED acked

\* Oracle::new returns an error: the process exits, the task gives up.
GiveUp(c) ==
  /\ pc' = [pc EXCEPT ![c] = "down"]
  /\ UNCHANGED <<call, view, answer, acked>>

-----------------------------------------------------------------------------
(* The writes of the databases, as the effect of the write that caller c   *)
(* is about to make.  Each is one critical section of the in-memory lock,  *)
(* one statement or one transaction of Postgres; each is disabled when the *)
(* database refuses the write, and Refused says when that is.              *)

\* in_memory.rs overwrites the keys, postgres.rs inserts a row of `meta`.
SetPublicKeys(c) ==
  /\ pc[c] = "set_keys"
  /\ Backend = "Postgres" => public_keys = None
  /\ public_keys' = Keys(SeedOf[c])
  /\ UNCHANGED <<announcement, attestation, revealed>>

InsertEvent(c) ==
  LET e == call[c].id IN
  /\ pc[c] = "insert"
  /\ announcement[e] = None
  /\ announcement' = [announcement EXCEPT ![e] = CreateAnnouncement(SeedOf[c], e)]
  /\ UNCHANGED <<public_keys, attestation, revealed>>

CompleteEvent(c) ==
  LET e == call[c].id
      a == Attest(SeedOf[c], view[c], e, call[c].outcome)
  IN /\ pc[c] = "complete"
     /\ announcement[e] # None
     /\ SlotOpen(e)
     /\ attestation' = [attestation EXCEPT ![e] = a]
     /\ revealed' = IF a.olivia_v1 = None THEN revealed
                    ELSE revealed \union {a.olivia_v1}
     /\ UNCHANGED <<public_keys, announcement>>

Store(c) == SetPublicKeys(c) \/ InsertEvent(c) \/ CompleteEvent(c)

\* An UPDATE of a row that is not there changes nothing and is no error, but
\* rows are never deleted, so a Postgres completion always finds its row.
Refused(c) ==
  \/ pc[c] = "set_keys" /\ Backend = "Postgres" /\ public_keys # None
  \/ pc[c] = "insert" /\ announcement[call[c].id] # None
  \/ /\ pc[c] = "complete" /\ Backend = "InMemory"
     /\ announcement[call[c].id] = None \/ ~SlotOpen(call[c].id)

-----------------------------------------------------------------------------
(* Oracle::new                                                             *)

\* Read the keys in the database and compare them with the seed's.  When
\* they are another seed's, Oracle::new fails and the caller stays down.
NewRead(c) ==
  /\ pc[c] = "down"
  /\ \/ /\ public_keys = None
        /\ pc' = [pc EXCEPT ![c] = "set_keys"]
     \/ /\ public_keys # None /\ KeysMatch(SeedOf[c])
        /\ pc' = [pc EXCEPT ![c] = "ready"]
  /\ linked' = [linked EXCEPT ![c] = TRUE]
  /\ UNCHANGED <<db, call, view, answer, acked>>

NewWrite(c) ==
  /\ linked[c]
  /\ SetPublicKeys(c)
  /\ pc' = [pc EXCEPT ![c] = "ready"]
  /\ UNCHANGED <<call, view, linked, answer, acked>>

-----------------------------------------------------------------------------
(* Oracle::add_event                                                       *)

AddRead(c, e) ==
  LET arg == [id |-> e, outcome |-> None] IN
  /\ pc[c] = "ready" /\ linked[c]
  /\ \/ Completed(e) /\ Return(c, arg, "AlreadyCompleted")
     \/ /\ announcement[e] # None /\ ~Completed(e)
        /\ Return(c, arg, "AlreadyExists")
     \/ announcement[e] = None /\ GoOn(c, arg, None, "insert")
  /\ UNCHANGED <<db, linked>>

AddWrite(c) ==
  /\ linked[c]
  /\ InsertEvent(c)
  /\ Return(c, call[c], "Ok")
  /\ UNCHANGED linked

-----------------------------------------------------------------------------
(* Oracle::complete_event                                                  *)

CompleteRead(c, e, o) ==
  LET arg == [id |-> e, outcome |-> o]
      ann == announcement[e]
  IN
  /\ pc[c] = "ready" /\ linked[c]
  /\ \/ ann = None /\ Return(c, arg, "EventNotExist")
     \/ /\ Completed(e)
        /\ Return(c, arg, IF attestation[e].outcome = o
                          THEN "AlreadyCompleted" ELSE "OutcomeChanged")
     \/ /\ ann # None /\ ~Completed(e)
        /\ IF VerifyAgainstId(ann, e, Keys(SeedOf[c]))
           THEN GoOn(c, arg, ann, "complete")
           ELSE Return(c, arg, "AnnouncementWasBogus")
  /\ UNCHANGED <<db, linked>>

CompleteWrite(c) ==
  /\ linked[c]
  /\ CompleteEvent(c)
  /\ Return(c, call[c], "Ok")
  /\ UNCHANGED linked

-----------------------------------------------------------------------------
(* Errors of the database and crashes.                                     *)

WriteError(c) ==
  IF pc[c] = "set_keys" THEN GiveUp(c) ELSE Return(c, call[c], "DbWriteErr")

WriteRefused(c) ==
  /\ linked[c]
  /\ Refused(c)
  /\ WriteError(c)
  /\ UNCHANGED <<db, linked>>

\* A read fails and the call returns DbReadErr.  Only Postgres has such
\* errors; a lost connection is never opened again by the same process.
ReadFails(c, arg) ==
  /\ Backend = "Postgres" /\ pc[c] = "ready"
  /\ Return(c, arg, "DbReadErr")
  /\ linked' \in {linked, [linked EXCEPT ![c] = FALSE]}
  /\ UNCHANGED db

\* A write fails without having changed the database.
WriteFails(c) ==
  /\ Backend = "Postgres" /\ pc[c] \in {"set_keys", "insert", "complete"}
  /\ WriteError(c)
  /\ linked' \in {linked, [linked EXCEPT ![c] = FALSE]}
  /\ UNCHANGED db

\* The write commits but the connection is lost before the answer arrives.
WriteUnacknowledged(c) ==
  /\ Backend = "Postgres" /\ linked[c]
  /\ Store(c)
  /\ WriteError(c)
  /\ linked' = [linked EXCEPT ![c] = FALSE]

\* A Postgres caller is a process of its own: what it had sent may or may not
\* have been committed.  (`olivia add` also ends like this after its call.)
CrashPostgres(c) ==
  /\ CanCrash /\ Backend = "Postgres" /\ pc[c] # "down"
  /\ UNCHANGED db \/ (linked[c] /\ Store(c))
  /\ pc' = [pc EXCEPT ![c] = "down"]
  /\ call' = [call EXCEPT ![c] = None]
  /\ view' = [view EXCEPT ![c] = None]
  /\ answer' = [answer EXCEPT ![c] = None]
  /\ UNCHANGED <<linked, acked>>

\* The in-memory database goes with the process, and so does all it held;
\* what it has revealed stays known.
CrashInMemory ==
  /\ CanCrash /\ Backend = "InMemory"
  /\ public_keys' = None
  /\ announcement' = [e \in Event |-> None]
  /\ attestation' = [e \in Event |-> None]
  /\ pc' = [c \in Caller |-> "down"]
  /\ call' = [c \in Caller |-> None]
  /\ view' = [c \in Caller |-> None]
  /\ answer' = [c \in Caller |-> None]
  /\ acked' = {}
  /\ UNCHANGED <<linked, revealed>>

-----------------------------------------------------------------------------
Calls(c) ==
  {[id |-> e, outcome |-> None] : e \in Event} \union
  {a \in Call : c \in Attester /\ a.outcome \in Report[a.id]}

Next ==
  \/ \E c \in Caller :
       \/ NewRead(c) \/ NewWrite(c)
       \/ \E e \in Event : AddRead(c, e)
       \/ AddWrite(c)
       \/ /\ c \in Attester
          /\ \E e \in Event : \E o \in Report[e] : CompleteRead(c, e, o)
       \/ CompleteWrite(c)
       \/ \E arg \in Calls(c) : ReadFails(c, arg)
       \/ WriteRefused(c) \/ WriteFails(c) \/ WriteUnacknowledged(c)
       \/ CrashPostgres(c)
  \/ CrashInMemory

Spec == Init /\ [][Next]_vars

-----------------------------------------------------------------------------
(* Deployments, for the theorems: what must hold of callers that share a   *)
(* database.                                                               *)

\* Callers of one in-memory database belong to one process and one seed.
OneSeedInMemory ==
  Backend = "InMemory" => \A c, d \in Caller : SeedOf[c] = SeedOf[d]

\* The write of complete_event looks at the slot again, or at most one caller
\* can be between its read and its write.
OneWriter ==
  Backend = "Postgres" => \A c, d \in Attester : c = d

\* The database outlives the callers.
DatabaseLives ==
  Backend = "InMemory" => ~CanCrash

-----------------------------------------------------------------------------
(* Properties.                                                             *)

(* Whoever reads the oracle's public keys, an announcement and its         *)
(* attestation from the database can verify the one with the other two,    *)
(* whichever callers wrote the three and however their calls overlapped:   *)
(* the check in Oracle::new keeps every caller of one database on one seed.*)
PublishedVerifies ==
  \A e \in Event : announcement[e] # None =>
    /\ public_keys # None
    /\ VerifyAgainstId(announcement[e], e, public_keys)
    /\ attestation[e] # None =>
         VerifyOliviaV1(public_keys, announcement[e], attestation[e])

(* The same for the ecdsa-v1 half of an attestation: an attestation is     *)
(* verified before it is published (keychain.rs:86), so the signature that *)
(* is stored verifies under the ecdsa-v1 key the oracle publishes.         *)
EcdsaVerifies ==
  \A e \in Event : attestation[e] # None =>
    VerifyEcdsaV1(public_keys, announcement[e], attestation[e])

(* No nonce has ever signed two outcomes with the oracle's key, over all   *)
(* that was ever stored, crashes and restarts included: two such scalars   *)
(* give the oracle's secret key to anyone who subtracts them.              *)
NonceNeverReused ==
  \A r, s \in revealed :
    r.key = s.key /\ r.nonces = s.nonces => r.outcome = s.outcome

(* Once an event is attested to, no step changes what its attestation      *)
(* says.  It can only go as a whole, with the process that held the        *)
(* in-memory database, and then its announcement goes too.                 *)
AttestationFinal ==
  [][\A e \in Event : attestation[e] # None =>
       attestation'[e] = attestation[e] \/ announcement'[e] = None]_vars

(* What complete_event has acknowledged is what the database says ever     *)
(* after, and what add_event has acknowledged is in it: no later call,     *)
(* lost answer or restart undoes an Ok.                                    *)
AckedStays ==
  \A a \in acked :
    /\ announcement[a.id] # None
    /\ a.outcome # None => /\ attestation[a.id] # None
                           /\ attestation[a.id].outcome = a.outcome

(* The answer a caller acts on is still true when it acts on it, however   *)
(* many other calls ran in between: an event reported as there is there,   *)
(* one reported as completed is completed, with the outcome or with        *)
(* another one as the answer says, and an announcement read back from the  *)
(* database is never found bogus.                                          *)
AnswersHold ==
  \A c \in Caller : answer[c] # None =>
    LET id == answer[c].call.id
        o  == answer[c].call.outcome
        r  == answer[c].result
    IN /\ r # "AnnouncementWasBogus"
       /\ r = "AlreadyExists" => announcement[id] # None
       /\ r = "AlreadyCompleted" =>
            /\ attestation[id] # None
            /\ o # None => attestation[id].outcome = o
       /\ r = "OutcomeChanged" =>
            attestation[id] # None /\ attestation[id].outcome # o

(* The oracle and its database implement the ledger.                       *)
Announced == {e \in Event : announcement[e] # None}
Attested  == [e \in Event |-> IF attestation[e] = None THEN None
                              ELSE attestation[e].outcome]

Ledger == INSTANCE AttestationLedger
            WITH announced <- Announced, attested <- Attested

ImplementsLedger == Ledger!LedgerSpec
=============================================================================
