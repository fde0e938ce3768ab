---------------------------- MODULE OracleProofs ----------------------------
(***************************************************************************)
(* Theorems about Oracle, for any number of callers, events, outcomes and  *)
(* seeds.                                                                  *)
(***************************************************************************)
EXTENDS Oracle, TLAPS

-----------------------------------------------------------------------------
(* What the keychain makes has the right type, and tells seeds apart.      *)

(* The keys of a seed are public keys of an oracle. *)
LEMMA KeysType ==
  ASSUME NEW s \in Seed
  PROVE  Keys(s) \in OracleKeys /\ Keys(s).announcement \in PublicKey
         /\ Keys(s).olivia_v1 \in PublicKey
BY DEF Keys, OracleKeys, PublicKey

(* Two seeds with the same public keys are the same seed. *)
LEMMA KeysInjective ==
  ASSUME NEW s \in Seed, NEW t \in Seed, Keys(s) = Keys(t)
  PROVE  s = t
<1>1. Keys(s).announcement = Keys(t).announcement
  OBVIOUS
<1>2. <<s, "announcement-key">> = <<t, "announcement-key">>
  BY <1>1 DEF Keys
<1> QED BY <1>2

(* create_announcement makes an announcement of its event. *)
LEMMA CreateAnnouncementType ==
  ASSUME NEW s \in Seed, NEW e \in Event
  PROVE  CreateAnnouncement(s, e) \in Announcement
BY KeysType DEF CreateAnnouncement, NoncesForEvent, Announcement, Nonces

(* complete_event makes an attestation, whatever announcement it has read. *)
LEMMA AttestType ==
  ASSUME NEW s \in Seed, NEW ann, NEW e \in Event, NEW o \in Outcome
  PROVE  /\ Attest(s, ann, e, o) \in Attestation
         /\ Attest(s, ann, e, o).outcome = o
         /\ Attest(s, ann, e, o).olivia_v1 # None =>
              Attest(s, ann, e, o).olivia_v1 \in Scalars
<1>1. OliviaV1Scalars(s, e, o) \in Scalars
  BY KeysType DEF OliviaV1Scalars, Scalars, Nonces
<1>2. EcdsaSignOutcome(s, e, o) \in [key : PublicKey, id : Event, outcome : Outcome]
  BY KeysType DEF EcdsaSignOutcome
<1> QED BY <1>1, <1>2 DEF Attest, Attestation

-----------------------------------------------------------------------------
(* Type correctness.                                                       *)

(* A caller between its read and its write holds the argument of its call, *)
(* and only an attester is in complete_event.                              *)
InCall ==
  \A c \in Caller :
    /\ pc[c] \in {"insert", "complete"} => call[c] \in Call
    /\ pc[c] = "insert" => call[c].outcome = None
    /\ pc[c] = "complete" => /\ c \in Attester
                             /\ call[c].outcome \in Outcome
                             /\ view[c] # None

TypeInv == TypeOK /\ InCall

(* The part of the type invariant that is about the database. *)
DbTypeOK ==
  /\ public_keys \in OracleKeys \union {None}
  /\ announcement \in [Event -> Announcement \union {None}]
  /\ attestation \in [Event -> Attestation \union {None}]
  /\ revealed \subseteq Scalars

(* A call that returns leaves the caller's own state well typed. *)
LEMMA ReturnType ==
  ASSUME TypeInv, NEW c \in Caller, NEW arg \in Call, NEW r \in Result,
         Return(c, arg, r), DbTypeOK',
         linked' \in [Caller -> BOOLEAN]
  PROVE  TypeInv'
<1>1. TypeOK'
  BY DEF TypeInv, TypeOK, DbTypeOK, Return
<1>2. InCall'
  BY DEF TypeInv, TypeOK, InCall, Return
<1> QED BY <1>1, <1>2 DEF TypeInv

(* The three writes keep the database well typed. *)
LEMMA StoreType ==
  ASSUME TypeInv, NEW c \in Caller, Store(c)
  PROVE  DbTypeOK'
<1> SeedOf[c] \in Seed
  BY OracleAssumption
<1>1. CASE SetPublicKeys(c)
  BY <1>1, KeysType DEF SetPublicKeys, TypeInv, TypeOK, DbTypeOK
<1>2. CASE InsertEvent(c)
  <2>1. call[c].id \in Event
    BY <1>2 DEF InsertEvent, TypeInv, InCall, Call
  <2> QED BY <1>2, <2>1, CreateAnnouncementType DEF InsertEvent, TypeInv, TypeOK, DbTypeOK
<1>3. CASE CompleteEvent(c)
  <2>1. call[c].id \in Event /\ call[c].outcome \in Outcome
    BY <1>3 DEF CompleteEvent, TypeInv, InCall, Call
  <2> DEFINE a == Attest(SeedOf[c], view[c], call[c].id, call[c].outcome)
  <2>2. a \in Attestation /\ (a.olivia_v1 # None => a.olivia_v1 \in Scalars)
    BY <2>1, AttestType
  <2>3. /\ attestation' = [attestation EXCEPT ![call[c].id] = a]
        /\ revealed' = IF a.olivia_v1 = None THEN revealed
                       ELSE revealed \union {a.olivia_v1}
        /\ UNCHANGED <<public_keys, announcement>>
    BY <1>3 DEF CompleteEvent
  <2> HIDE DEF a
  <2> QED BY <2>2, <2>3 DEF TypeInv, TypeOK, DbTypeOK
<1> QED BY <1>1, <1>2, <1>3 DEF Store

(* Every step keeps the types. *)
LEMMA TypeStep ==
  ASSUME TypeInv, [Next]_vars
  PROVE  TypeInv'
<1> USE DEF TypeInv
<1>a. ASSUME NEW c \in Caller, WriteError(c), DbTypeOK',
             pc[c] \in {"set_keys", "insert", "complete"},
             linked' \in [Caller -> BOOLEAN]
      PROVE  TypeInv'
  <2>1. CASE GiveUp(c)
    BY <1>a, <2>1 DEF GiveUp, TypeOK, DbTypeOK, InCall
  <2>2. CASE pc[c] # "set_keys" /\ Return(c, call[c], "DbWriteErr")
    BY <1>a, <2>2, ReturnType DEF InCall, Result
  <2> QED BY <1>a, <2>1, <2>2 DEF WriteError
<1>b. UNCHANGED db => DbTypeOK'
  BY DEF TypeOK, DbTypeOK, db
<1>1. ASSUME NEW c \in Caller, NewRead(c) PROVE TypeInv'
  BY <1>1 DEF NewRead, db, TypeOK, InCall
<1>2. ASSUME NEW c \in Caller, NewWrite(c) PROVE TypeInv'
  <2>1. DbTypeOK'
    BY <1>2, StoreType DEF NewWrite, Store
  <2> QED BY <1>2, <2>1 DEF NewWrite, DbTypeOK, TypeOK, InCall
<1>3. ASSUME NEW c \in Caller, NEW e \in Event, AddRead(c, e) PROVE TypeInv'
  <2> DEFINE arg == [id |-> e, outcome |-> None]
  <2>1. arg \in Call
    BY DEF Call
  <2>2. CASE \E r \in Result : Return(c, arg, r)
    BY <1>3, <1>b, <2>1, <2>2, ReturnType DEF AddRead, TypeOK
  <2>3. CASE GoOn(c, arg, None, "insert")
    BY <1>3, <2>1, <2>3 DEF AddRead, db, GoOn, TypeOK, InCall
  <2> QED BY <1>3, <2>2, <2>3 DEF AddRead, Result
<1>4. ASSUME NEW c \in Caller, AddWrite(c) PROVE TypeInv'
  <2>1. DbTypeOK' /\ call[c] \in Call
    BY <1>4, StoreType DEF AddWrite, InsertEvent, Store, InCall
  <2> QED BY <1>4, <2>1, ReturnType DEF AddWrite, Result, TypeOK
<1>5. ASSUME NEW c \in Attester, NEW e \in Event, NEW o \in Report[e],
             CompleteRead(c, e, o)
      PROVE  TypeInv'
  <2> DEFINE arg == [id |-> e, outcome |-> o]
  <2>1. arg \in Call /\ o \in Outcome /\ c \in Caller
    BY OracleAssumption DEF Call
  <2>2. CASE \E r \in Result : Return(c, arg, r)
    BY <1>5, <1>b, <2>1, <2>2, ReturnType DEF CompleteRead, TypeOK
  <2>3. CASE announcement[e] # None /\ GoOn(c, arg, announcement[e], "complete")
    BY <1>5, <2>1, <2>3 DEF CompleteRead, db, GoOn, TypeOK, InCall
  <2> QED BY <1>5, <2>2, <2>3 DEF CompleteRead, Result
<1>6. ASSUME NEW c \in Caller, CompleteWrite(c) PROVE TypeInv'
  <2>1. DbTypeOK' /\ call[c] \in Call
    BY <1>6, StoreType DEF CompleteWrite, CompleteEvent, Store, InCall
  <2> QED BY <1>6, <2>1, ReturnType DEF CompleteWrite, Result, TypeOK
<1>7. ASSUME NEW c \in Caller, NEW arg \in Calls(c), ReadFails(c, arg) PROVE TypeInv'
  <2>1. arg \in Call
    BY DEF Calls, Call
  <2>2. linked' \in [Caller -> BOOLEAN]
    BY <1>7 DEF ReadFails, TypeOK
  <2> QED BY <1>7, <1>b, <2>1, <2>2, ReturnType DEF ReadFails, Result
<1>8. ASSUME NEW c \in Caller, WriteRefused(c) PROVE TypeInv'
  BY <1>8, <1>a, <1>b DEF WriteRefused, Refused, TypeOK
<1>9. ASSUME NEW c \in Caller, WriteFails(c) PROVE TypeInv'
  <2>1. linked' \in [Caller -> BOOLEAN]
    BY <1>9 DEF WriteFails, TypeOK
  <2> QED BY <1>9, <1>a, <1>b, <2>1 DEF WriteFails
<1>10. ASSUME NEW c \in Caller, WriteUnacknowledged(c) PROVE TypeInv'
  <2>1. linked' \in [Caller -> BOOLEAN]
    BY <1>10 DEF WriteUnacknowledged, TypeOK
  <2>2. pc[c] \in {"set_keys", "insert", "complete"}
    BY <1>10 DEF WriteUnacknowledged, Store, SetPublicKeys, InsertEvent, CompleteEvent
  <2> QED BY <1>10, <1>a, <2>1, <2>2, StoreType DEF WriteUnacknowledged
<1>11. ASSUME NEW c \in Caller, CrashPostgres(c) PROVE TypeInv'
  <2>1. DbTypeOK'
    BY <1>11, <1>b, StoreType DEF CrashPostgres
  <2> QED BY <1>11, <2>1 DEF CrashPostgres, DbTypeOK, TypeOK, InCall
<1>12. CASE CrashInMemory
  BY <1>12 DEF CrashInMemory, TypeOK, InCall
<1>13. CASE UNCHANGED vars
  BY <1>13 DEF vars, TypeOK, InCall
<1> QED
  BY <1>1, <1>2, <1>3, <1>4, <1>5, <1>6, <1>7, <1>8, <1>9, <1>10, <1>11, <1>12, <1>13,
     OracleAssumption DEF Next

(* Type correctness: every reachable state is well typed; in particular a  *)
(* caller that is about to write knows what for, and no call ever returns  *)
(* anything but the results oracle.rs declares.                            *)
THEOREM TypeCorrect == Spec => []TypeOK
<1>1. Init => TypeInv
  BY DEF Init, TypeInv, TypeOK, InCall
<1>2. TypeInv /\ [Next]_vars => TypeInv'
  BY TypeStep
<1>3. TypeInv => TypeOK
  BY DEF TypeInv
<1> QED BY <1>1, <1>2, <1>3, PTL DEF Spec

-----------------------------------------------------------------------------
(* One seed per database, so that all that is published verifies.          *)

(* A caller past Oracle::new works with the seed whose keys the database   *)
(* holds; what complete_event has read is still what the database holds;   *)
(* every announcement and attestation was made with that one seed.  The    *)
(* last two parts are about what other callers have written, which is why  *)
(* PublishedVerifies is not inductive by itself.                           *)
CallersKeepSeed ==
  \A c \in Caller : pc[c] \in {"ready", "insert", "complete"} =>
    public_keys = Keys(SeedOf[c])

ViewsHold ==
  \A c \in Caller : pc[c] = "complete" => view[c] = announcement[call[c].id]

MadeWith(s, e) ==
  /\ public_keys = Keys(s)
  /\ announcement[e] = CreateAnnouncement(s, e)
  /\ attestation[e] # None =>
       \E o \in Outcome : attestation[e] = Attest(s, announcement[e], e, o)

DbMadeWithOneSeed ==
  \A e \in Event :
    /\ announcement[e] = None => attestation[e] = None
    /\ announcement[e] # None => \E s \in Seed : MadeWith(s, e)

\* set_public_keys of the in-memory database overwrites, with the same keys.
MemoryKeepsSeed ==
  Backend = "InMemory" /\ public_keys # None =>
    \A c \in Caller : public_keys = Keys(SeedOf[c])

SeedInv == CallersKeepSeed /\ ViewsHold /\ DbMadeWithOneSeed /\ MemoryKeepsSeed

(* What a write of c leaves true of the database and of all callers, as    *)
(* they were before the write.                                             *)
LEMMA StoreKeepsSeed ==
  ASSUME TypeInv, SeedInv, OneSeedInMemory, NEW c \in Caller, Store(c)
  PROVE  /\ DbMadeWithOneSeed'
         /\ MemoryKeepsSeed'
         /\ \A d \in Caller : pc[d] \in {"ready", "insert", "complete"} =>
              public_keys' = Keys(SeedOf[d])
         /\ \A d \in Caller : pc[d] = "complete" =>
              view[d] = announcement'[call[d].id]
<1> SeedOf[c] \in Seed
  BY OracleAssumption
<1> USE DEF SeedInv
<1>0. \A s \in Seed : Keys(s) # None
  BY KeysType, NoneIsNothing
<1>1. CASE SetPublicKeys(c)
  <2>1. public_keys = None \/ Backend = "InMemory"
    BY <1>1, OracleAssumption DEF SetPublicKeys
  <2>2. CASE public_keys = None
    <3>0. MemoryKeepsSeed'
      BY <1>1 DEF SetPublicKeys, MemoryKeepsSeed, OneSeedInMemory
    <3>1. \A e \in Event : announcement[e] = None /\ attestation[e] = None
      BY <1>0, <2>2 DEF DbMadeWithOneSeed, MadeWith
    <3>2. \A d \in Caller : pc[d] \notin {"ready", "insert", "complete"}
      BY <1>0, <2>2, OracleAssumption DEF CallersKeepSeed
    <3> QED BY <1>1, <3>0, <3>1, <3>2 DEF SetPublicKeys, DbMadeWithOneSeed
  <2>3. CASE Backend = "InMemory" /\ public_keys # None
    <3>1. UNCHANGED <<public_keys, announcement, attestation>>
      BY <1>1, <2>3 DEF SetPublicKeys, MemoryKeepsSeed
    <3> QED
      BY <3>1 DEF DbMadeWithOneSeed, MadeWith, MemoryKeepsSeed, CallersKeepSeed, ViewsHold
  <2> QED BY <2>1, <2>2, <2>3
<1>2. CASE InsertEvent(c)
  <2>0. PICK e \in Event : e = call[c].id
    BY <1>2 DEF InsertEvent, TypeInv, InCall, Call
  <2>1. /\ announcement[e] = None /\ attestation[e] = None
        /\ public_keys = Keys(SeedOf[c])
    BY <1>2, <2>0 DEF InsertEvent, CallersKeepSeed, DbMadeWithOneSeed
  <2>2. /\ announcement' = [announcement EXCEPT ![e] = CreateAnnouncement(SeedOf[c], e)]
        /\ UNCHANGED <<public_keys, attestation>>
    BY <1>2, <2>0 DEF InsertEvent
  <2>3. announcement \in [Event -> Announcement \union {None}]
    BY DEF TypeInv, TypeOK
  <2>4. DbMadeWithOneSeed'
    <3>1. ASSUME NEW x \in Event, x # e
          PROVE  /\ announcement'[x] = None => attestation'[x] = None
                 /\ announcement'[x] # None => \E s \in Seed : MadeWith(s, x)'
      BY <2>2, <2>3, <3>1 DEF DbMadeWithOneSeed, MadeWith
    <3>2. announcement'[e] = CreateAnnouncement(SeedOf[c], e)
      BY <2>1, <2>2, <2>3
    <3>3. announcement'[e] # None /\ MadeWith(SeedOf[c], e)'
      BY <2>1, <2>2, <3>2, CreateAnnouncementType, NoneIsNothing DEF MadeWith
    <3> QED BY <3>1, <3>3 DEF DbMadeWithOneSeed
  <2>5. ASSUME NEW d \in Caller, pc[d] = "complete"
        PROVE  view[d] = announcement'[call[d].id]
    BY <2>1, <2>2, <2>3, <2>5 DEF ViewsHold, TypeInv, InCall
  <2> QED BY <2>2, <2>4, <2>5 DEF CallersKeepSeed, MemoryKeepsSeed
<1>3. CASE CompleteEvent(c)
  <2>0. PICK e \in Event, o \in Outcome : e = call[c].id /\ o = call[c].outcome
    BY <1>3 DEF CompleteEvent, TypeInv, InCall, Call
  <2>1. /\ announcement[e] # None /\ view[c] = announcement[e]
        /\ public_keys = Keys(SeedOf[c])
    BY <1>3, <2>0 DEF CompleteEvent, CallersKeepSeed, ViewsHold
  <2>2. /\ attestation' = [attestation EXCEPT
                             ![e] = Attest(SeedOf[c], announcement[e], e, o)]
        /\ UNCHANGED <<public_keys, announcement>>
    BY <1>3, <2>0, <2>1 DEF CompleteEvent
  <2>3. attestation \in [Event -> Attestation \union {None}]
    BY DEF TypeInv, TypeOK
  <2>4. \A s \in Seed : MadeWith(s, e) => MadeWith(s, e)'
    <3>1. attestation'[e] = Attest(SeedOf[c], announcement[e], e, o)
      BY <2>1, <2>2, <2>3
    <3> QED BY <2>1, <2>2, <3>1, KeysInjective DEF MadeWith
  <2>5. \A x \in Event : x # e => \A s \in Seed : MadeWith(s, x) => MadeWith(s, x)'
    BY <2>2, <2>3 DEF MadeWith
  <2>6. \A x \in Event : announcement[x] = None => x # e /\ attestation'[x] = None
    BY <2>1, <2>2, <2>3 DEF DbMadeWithOneSeed
  <2>7. DbMadeWithOneSeed'
    BY <2>2, <2>4, <2>5, <2>6 DEF DbMadeWithOneSeed
  <2> QED BY <2>2, <2>7 DEF CallersKeepSeed, ViewsHold, MemoryKeepsSeed
<1> QED BY <1>1, <1>2, <1>3 DEF Store

(* The seed invariant survives every step. *)
LEMMA SeedStep ==
  ASSUME TypeInv, SeedInv, OneSeedInMemory, [Next]_vars
  PROVE  SeedInv'
<1> USE DEF SeedInv
\* A step of c alone that leaves the database as it is and lets c go on as
\* far as it may: what is still to show is about c.
<1>a. ASSUME NEW c \in Caller, UNCHANGED db,
             \A d \in Caller \ {c} : pc'[d] = pc[d] /\ view'[d] = view[d] /\ call'[d] = call[d],
             pc'[c] \in {"ready", "insert", "complete"} => public_keys = Keys(SeedOf[c]),
             pc'[c] = "complete" => view'[c] = announcement[call'[c].id]
      PROVE  SeedInv'
  BY <1>a DEF db, CallersKeepSeed, ViewsHold, DbMadeWithOneSeed, MadeWith, MemoryKeepsSeed
\* A write of c after which c is not in complete_event any more.
<1>b. ASSUME NEW c \in Caller, Store(c),
             \A d \in Caller \ {c} : pc'[d] = pc[d] /\ view'[d] = view[d] /\ call'[d] = call[d],
             pc'[c] \in {"down", "ready"},
             pc'[c] = "ready" => public_keys' = Keys(SeedOf[c])
      PROVE  SeedInv'
  <2>1. CallersKeepSeed'
    BY <1>b, StoreKeepsSeed DEF CallersKeepSeed
  <2>2. ViewsHold'
    BY <1>b, StoreKeepsSeed DEF ViewsHold
  <2> QED BY <1>b, <2>1, <2>2, StoreKeepsSeed
<1>c. ASSUME NEW c \in Caller, NEW arg, NEW r, Return(c, arg, r)
      PROVE  /\ \A d \in Caller \ {c} : pc'[d] = pc[d] /\ view'[d] = view[d] /\ call'[d] = call[d]
             /\ pc'[c] = "ready"
  BY <1>c DEF Return, TypeInv, TypeOK
<1>d. ASSUME NEW c \in Caller, WriteError(c)
      PROVE  /\ \A d \in Caller \ {c} : pc'[d] = pc[d] /\ view'[d] = view[d] /\ call'[d] = call[d]
             /\ pc'[c] \in {"down", "ready"}
             /\ pc'[c] = "ready" => pc[c] # "set_keys"
  BY <1>d, <1>c DEF WriteError, GiveUp, TypeInv, TypeOK
<1>1. ASSUME NEW c \in Caller, NewRead(c) PROVE SeedInv'
  BY <1>1, <1>a DEF NewRead, KeysMatch, TypeInv, TypeOK
<1>2. ASSUME NEW c \in Caller, NewWrite(c) PROVE SeedInv'
  <2>1. Store(c) /\ public_keys' = Keys(SeedOf[c])
    BY <1>2 DEF NewWrite, Store, SetPublicKeys
  <2> QED BY <1>2, <2>1, <1>b DEF NewWrite, TypeInv, TypeOK
<1>3. ASSUME NEW c \in Caller, NEW e \in Event, AddRead(c, e) PROVE SeedInv'
  <2> DEFINE arg == [id |-> e, outcome |-> None]
  <2>1. public_keys = Keys(SeedOf[c])
    BY <1>3 DEF AddRead, CallersKeepSeed
  <2>2. CASE \E r : Return(c, arg, r)
    BY <1>3, <2>1, <2>2, <1>a, <1>c DEF AddRead
  <2>3. CASE GoOn(c, arg, None, "insert")
    BY <1>3, <2>1, <2>3, <1>a DEF AddRead, GoOn, TypeInv, TypeOK
  <2> QED BY <1>3, <2>2, <2>3 DEF AddRead
<1>4. ASSUME NEW c \in Caller, AddWrite(c) PROVE SeedInv'
  <2>1. Store(c) /\ public_keys' = Keys(SeedOf[c])
    BY <1>4 DEF AddWrite, InsertEvent, Store, CallersKeepSeed
  <2> QED BY <1>4, <2>1, <1>b, <1>c DEF AddWrite
<1>5. ASSUME NEW c \in Attester, NEW e \in Event, NEW o \in Report[e],
             CompleteRead(c, e, o)
      PROVE  SeedInv'
  <2> DEFINE arg == [id |-> e, outcome |-> o]
  <2>1. c \in Caller /\ public_keys = Keys(SeedOf[c])
    BY <1>5, OracleAssumption DEF CompleteRead, CallersKeepSeed
  <2>2. CASE \E r : Return(c, arg, r)
    BY <1>5, <2>1, <2>2, <1>a, <1>c DEF CompleteRead
  <2>3. CASE GoOn(c, arg, announcement[e], "complete")
    BY <1>5, <2>1, <2>3, <1>a DEF CompleteRead, GoOn, TypeInv, TypeOK
  <2> QED BY <1>5, <2>2, <2>3 DEF CompleteRead
<1>6. ASSUME NEW c \in Caller, CompleteWrite(c) PROVE SeedInv'
  <2>1. Store(c) /\ public_keys' = Keys(SeedOf[c])
    BY <1>6 DEF CompleteWrite, CompleteEvent, Store, CallersKeepSeed
  <2> QED BY <1>6, <2>1, <1>b, <1>c DEF CompleteWrite
<1>7. ASSUME NEW c \in Caller, NEW arg, ReadFails(c, arg) PROVE SeedInv'
  BY <1>7, <1>a, <1>c DEF ReadFails, CallersKeepSeed
<1>8. ASSUME NEW c \in Caller, UNCHANGED db, WriteError(c),
             pc[c] \in {"set_keys", "insert", "complete"}
      PROVE  SeedInv'
  BY <1>8, <1>a, <1>d DEF CallersKeepSeed
<1>9. ASSUME NEW c \in Caller, WriteUnacknowledged(c) PROVE SeedInv'
  <2>1. pc[c] # "set_keys" => public_keys' = Keys(SeedOf[c])
    BY <1>9 DEF WriteUnacknowledged, Store, SetPublicKeys, InsertEvent, CompleteEvent,
                CallersKeepSeed
  <2> QED BY <1>9, <2>1, <1>b, <1>d DEF WriteUnacknowledged
<1>10. ASSUME NEW c \in Caller, CrashPostgres(c) PROVE SeedInv'
  BY <1>10, <1>a, <1>b DEF CrashPostgres, TypeInv, TypeOK
<1>11. CASE CrashInMemory
  BY <1>11 DEF CrashInMemory, CallersKeepSeed, ViewsHold, DbMadeWithOneSeed, MemoryKeepsSeed
<1>12. CASE UNCHANGED vars
  BY <1>12 DEF vars, CallersKeepSeed, ViewsHold, DbMadeWithOneSeed, MadeWith, MemoryKeepsSeed
<1> QED
  BY <1>1, <1>2, <1>3, <1>4, <1>5, <1>6, <1>7, <1>8, <1>9, <1>10, <1>11, <1>12,
     OracleAssumption DEF Next, WriteRefused, Refused, WriteFails

(* What the database holds verifies: the seed invariant gives, for every   *)
(* event, the one seed that made its announcement and its attestation.     *)
LEMMA SeedInvVerifies ==
  ASSUME SeedInv
  PROVE  PublishedVerifies
<1> SUFFICES ASSUME NEW e \in Event, announcement[e] # None
             PROVE  /\ public_keys # None
                    /\ VerifyAgainstId(announcement[e], e, public_keys)
                    /\ attestation[e] # None =>
                         VerifyOliviaV1(public_keys, announcement[e], attestation[e])
  BY DEF PublishedVerifies
<1>1. PICK s \in Seed : MadeWith(s, e)
  BY DEF SeedInv, DbMadeWithOneSeed
<1>2. public_keys # None
  BY <1>1, KeysType, NoneIsNothing DEF MadeWith
<1>3. VerifyAgainstId(announcement[e], e, public_keys)
  BY <1>1 DEF MadeWith, VerifyAgainstId, CreateAnnouncement
<1>4. ASSUME attestation[e] # None
      PROVE  VerifyOliviaV1(public_keys, announcement[e], attestation[e])
  <2>1. PICK o \in Outcome : attestation[e] = Attest(s, announcement[e], e, o)
    BY <1>1, <1>4 DEF MadeWith
  <2>2. OliviaV1Scalars(s, e, o) # None
    BY KeysType, NoneIsNothing DEF OliviaV1Scalars, Scalars, Nonces
  <2>3. announcement[e].olivia_v1 # None => announcement[e].olivia_v1 = <<s, e>>
    BY <1>1 DEF MadeWith, CreateAnnouncement, NoncesForEvent
  <2> QED BY <1>1, <2>1, <2>2, <2>3 DEF VerifyOliviaV1, Attest, OliviaV1Scalars, MadeWith
<1> QED BY <1>2, <1>3, <1>4

(* Every announcement and attestation in the database verifies under the   *)
(* public keys in the database, whoever wrote them: on Postgres whatever   *)
(* seeds the callers are configured with, in memory when they share one.   *)
THEOREM PublishedAlwaysVerifies ==
  ASSUME OneSeedInMemory
  PROVE  Spec => []PublishedVerifies
<1>1. Init => TypeInv /\ SeedInv
  BY DEF Init, TypeInv, TypeOK, InCall, SeedInv, CallersKeepSeed, ViewsHold,
         DbMadeWithOneSeed, MemoryKeepsSeed
<1>2. TypeInv /\ SeedInv /\ [Next]_vars => (TypeInv /\ SeedInv)'
  BY TypeStep, SeedStep
<1>3. SeedInv => PublishedVerifies
  BY SeedInvVerifies
<1> QED BY <1>1, <1>2, <1>3, PTL DEF Spec

-----------------------------------------------------------------------------
(* One writer, so that what is attested to stays.                          *)

(* On Postgres nothing looks at the slot again when complete_event writes: *)
(* it must still be as it was when it was read.                            *)
SlotWaits ==
  \A c \in Caller : pc[c] = "complete" /\ Backend = "Postgres" =>
    attestation[call[c].id] = None

(* All a step does to the events in the database: nothing, or one new      *)
(* announcement, or one attestation into an empty slot.                    *)
EventsStep ==
  \/ UNCHANGED <<announcement, attestation, revealed>>
  \/ \E c \in Caller : InsertEvent(c)
  \/ \E c \in Caller : CompleteEvent(c) /\ attestation[call[c].id] = None

\* A step of the database under OneWriter is a stutter, new keys, an insertion,
\* or a completion of an event that had no attestation, or the database is lost.
LEMMA OneWriterSteps ==
  ASSUME TypeInv, SlotWaits, OneWriter, [Next]_vars
  PROVE  EventsStep \/ CrashInMemory
<1>1. ASSUME NEW c \in Caller, Store(c) PROVE EventsStep
  <2>1. CASE SetPublicKeys(c)
    BY <2>1 DEF SetPublicKeys, EventsStep
  <2>2. CASE InsertEvent(c)
    BY <2>2 DEF EventsStep
  <2>3. CASE CompleteEvent(c)
    BY <2>3, OracleAssumption DEF CompleteEvent, SlotOpen, SlotWaits, EventsStep
  <2> QED BY <1>1, <2>1, <2>2, <2>3 DEF Store
<1>2. UNCHANGED db => EventsStep
  BY DEF db, EventsStep
<1>3. CASE UNCHANGED vars
  BY <1>3 DEF vars, EventsStep
<1> QED
  BY <1>1, <1>2, <1>3, OracleAssumption
  DEF Next, NewRead, NewWrite, AddRead, AddWrite, CompleteRead, CompleteWrite,
      ReadFails, WriteRefused, WriteFails, WriteUnacknowledged, CrashPostgres, Store

(* With one attester nobody fills the slot between its read and its write. *)
LEMMA SlotWaitsStep ==
  ASSUME TypeInv, SlotWaits, OneWriter, [Next]_vars
  PROVE  SlotWaits'
<1> SUFFICES ASSUME NEW d \in Caller, pc'[d] = "complete", Backend = "Postgres"
             PROVE  attestation'[call'[d].id] = None
  BY DEF SlotWaits
<1>0. \A c1, c2 \in Attester : c1 = c2
  BY DEF OneWriter
<1>a. ASSUME NEW c \in Caller, Store(c), pc'[c] # "complete",
             (pc'[d] = pc[d] /\ call'[d] = call[d]) \/ d = c
      PROVE  attestation'[call'[d].id] = None
  <2>1. d # c /\ d \in Attester /\ attestation[call[d].id] = None
    BY <1>a DEF TypeInv, InCall, SlotWaits
  <2>2. ~CompleteEvent(c)
    BY <1>0, <2>1 DEF CompleteEvent, TypeInv, InCall
  <2> QED BY <1>a, <2>1, <2>2 DEF Store, SetPublicKeys, InsertEvent
<1>b. ASSUME NEW c \in Caller, UNCHANGED db,
             (pc'[d] = pc[d] /\ call'[d] = call[d]) \/ d = c,
             pc'[c] = "complete" => attestation[call'[c].id] = None
      PROVE  attestation'[call'[d].id] = None
  BY <1>b DEF db, SlotWaits
<1>c. ASSUME NEW c \in Caller, NEW arg, NEW r, Return(c, arg, r)
      PROVE  ((pc'[d] = pc[d] /\ call'[d] = call[d]) \/ d = c) /\ pc'[c] = "ready"
  BY <1>c DEF Return, TypeInv, TypeOK
<1>d. ASSUME NEW c \in Caller, WriteError(c)
      PROVE  ((pc'[d] = pc[d] /\ call'[d] = call[d]) \/ d = c) /\ pc'[c] # "complete"
  BY <1>c, <1>d DEF WriteError, GiveUp, TypeInv, TypeOK
<1>1. ASSUME NEW c \in Caller, NewRead(c) \/ NewWrite(c)
      PROVE  attestation'[call'[d].id] = None
  BY <1>1, <1>a, <1>b DEF NewRead, NewWrite, Store, TypeInv, TypeOK
<1>2. ASSUME NEW c \in Caller, NEW e \in Event, AddRead(c, e)
      PROVE  attestation'[call'[d].id] = None
  BY <1>2, <1>b, <1>c DEF AddRead, GoOn, TypeInv, TypeOK
<1>3. ASSUME NEW c \in Attester, NEW e \in Event, NEW o \in Report[e],
             CompleteRead(c, e, o)
      PROVE  attestation'[call'[d].id] = None
  BY <1>3, <1>b, <1>c, OracleAssumption DEF CompleteRead, GoOn, Completed, TypeInv, TypeOK
<1>4. ASSUME NEW c \in Caller, AddWrite(c) \/ CompleteWrite(c)
      PROVE  attestation'[call'[d].id] = None
  BY <1>4, <1>a, <1>c DEF AddWrite, CompleteWrite, Store
<1>5. ASSUME NEW c \in Caller, NEW arg, ReadFails(c, arg)
      PROVE  attestation'[call'[d].id] = None
  BY <1>5, <1>b, <1>c DEF ReadFails
<1>6. ASSUME NEW c \in Caller, WriteRefused(c) \/ WriteFails(c)
      PROVE  attestation'[call'[d].id] = None
  BY <1>6, <1>b, <1>d DEF WriteRefused, WriteFails
<1>7. ASSUME NEW c \in Caller, WriteUnacknowledged(c)
      PROVE  attestation'[call'[d].id] = None
  BY <1>7, <1>a, <1>d DEF WriteUnacknowledged
<1>8. ASSUME NEW c \in Caller, CrashPostgres(c)
      PROVE  attestation'[call'[d].id] = None
  BY <1>8, <1>a, <1>b DEF CrashPostgres, TypeInv, TypeOK
<1>9. CASE CrashInMemory
  BY <1>9 DEF CrashInMemory
<1>10. CASE UNCHANGED vars
  BY <1>10 DEF vars, SlotWaits
<1> QED
  BY <1>1, <1>2, <1>3, <1>4, <1>5, <1>6, <1>7, <1>8, <1>9, <1>10 DEF Next

(* An attestation in the database survives the step. *)
LEMMA FinalStep ==
  ASSUME TypeInv, EventsStep
  PROVE  \A e \in Event : attestation[e] # None => attestation'[e] = attestation[e]
<1> SUFFICES ASSUME NEW e \in Event, attestation[e] # None
             PROVE  attestation'[e] = attestation[e]
  OBVIOUS
<1> USE DEF TypeInv, TypeOK
<1>1. CASE UNCHANGED <<announcement, attestation, revealed>>
  BY <1>1
<1>2. ASSUME NEW c \in Caller, InsertEvent(c) PROVE attestation'[e] = attestation[e]
  BY <1>2 DEF InsertEvent
<1>3. ASSUME NEW c \in Caller, CompleteEvent(c), attestation[call[c].id] = None
      PROVE  attestation'[e] = attestation[e]
  BY <1>3 DEF CompleteEvent
<1> QED BY <1>1, <1>2, <1>3 DEF EventsStep

(* With one attester, or with a write that looks again, nothing ever       *)
(* changes what an event is attested to.                                   *)
THEOREM AttestationNeverChanges ==
  ASSUME OneWriter
  PROVE  Spec => AttestationFinal
<1>1. Init => TypeInv /\ SlotWaits
  BY DEF Init, TypeInv, TypeOK, InCall, SlotWaits
<1>2. TypeInv /\ SlotWaits /\ [Next]_vars => (TypeInv /\ SlotWaits)'
  BY TypeStep, SlotWaitsStep
<1>3. TypeInv /\ SlotWaits /\ [Next]_vars =>
        [\A e \in Event : attestation[e] # None =>
            attestation'[e] = attestation[e] \/ announcement'[e] = None]_vars
  BY OneWriterSteps, FinalStep DEF CrashInMemory
<1> QED BY <1>1, <1>2, <1>3, PTL DEF Spec, AttestationFinal

-----------------------------------------------------------------------------
(* The oracle implements the ledger.                                       *)

(* A completion is only ever under way for an event that has its row.      *)
LEMMA CompletionNeedsRow ==
  ASSUME TypeInv, NEW c \in Caller, CompleteEvent(c)
  PROVE  /\ call[c].id \in Event /\ call[c].outcome \in Outcome
         /\ announcement[call[c].id] # None
         /\ attestation'[call[c].id] # None
         /\ attestation'[call[c].id].outcome = call[c].outcome
         /\ \A e \in Event \ {call[c].id} : attestation'[e] = attestation[e]
         /\ UNCHANGED announcement
<1>1. call[c].id \in Event /\ call[c].outcome \in Outcome
  BY DEF CompleteEvent, TypeInv, InCall, Call
<1> DEFINE a == Attest(SeedOf[c], view[c], call[c].id, call[c].outcome)
<1>2. a # None /\ a.outcome = call[c].outcome
  BY <1>1, AttestType, OracleAssumption, NoneIsNothing
<1>3. attestation' = [attestation EXCEPT ![call[c].id] = a]
  BY DEF CompleteEvent
<1> HIDE DEF a
<1> QED BY <1>1, <1>2, <1>3 DEF CompleteEvent, TypeInv, TypeOK

(* An insertion adds the row of its event and touches no other. *)
LEMMA InsertionAddsRow ==
  ASSUME TypeInv, NEW c \in Caller, InsertEvent(c)
  PROVE  /\ call[c].id \in Event
         /\ announcement[call[c].id] = None
         /\ announcement'[call[c].id] # None
         /\ \A e \in Event \ {call[c].id} : announcement'[e] = announcement[e]
         /\ UNCHANGED attestation
<1>1. call[c].id \in Event
  BY DEF InsertEvent, TypeInv, InCall, Call
<1> DEFINE a == CreateAnnouncement(SeedOf[c], call[c].id)
<1>2. a # None
  BY <1>1, CreateAnnouncementType, OracleAssumption, NoneIsNothing
<1>3. announcement' = [announcement EXCEPT ![call[c].id] = a]
  BY DEF InsertEvent
<1> HIDE DEF a
<1> QED BY <1>1, <1>2, <1>3 DEF InsertEvent, TypeInv, TypeOK

(* Every step of the events is a step of the ledger or leaves it alone.    *)
LEMMA LedgerStep ==
  ASSUME TypeInv, EventsStep
  PROVE  [Ledger!LedgerNext]_(Ledger!ledger)
<1> USE DEF Announced, Attested
<1>1. CASE UNCHANGED <<announcement, attestation, revealed>>
  BY <1>1 DEF Ledger!ledger
<1>2. ASSUME NEW c \in Caller, InsertEvent(c)
      PROVE  \E e \in Event : Ledger!Announce(e)
  <2>1. PICK e \in Event : e = call[c].id
    BY <1>2, InsertionAddsRow
  <2>2. e \notin Announced /\ Announced' = Announced \union {e}
    BY <1>2, <2>1, InsertionAddsRow
  <2>3. UNCHANGED Attested
    BY <1>2, InsertionAddsRow
  <2> QED BY <2>2, <2>3 DEF Ledger!Announce
<1>3. ASSUME NEW c \in Caller, CompleteEvent(c), attestation[call[c].id] = None
      PROVE  \E e \in Event : \E o \in Outcome : Ledger!Attest(e, o)
  <2>1. PICK e \in Event, o \in Outcome : e = call[c].id /\ o = call[c].outcome
    BY <1>3, CompletionNeedsRow
  <2>2. e \in Announced /\ UNCHANGED Announced
    BY <1>3, <2>1, CompletionNeedsRow
  <2>3. Attested[e] = None
    BY <1>3, <2>1
  <2>4. Attested' = [Attested EXCEPT ![e] = o]
    BY <1>3, <2>1, CompletionNeedsRow
  <2> QED BY <2>2, <2>3, <2>4 DEF Ledger!Attest
<1> QED BY <1>1, <1>2, <1>3 DEF EventsStep, Ledger!LedgerNext

(* The oracle does no more than the ledger allows while the database that   *)
(* holds it lives.                                                          *)
THEOREM OracleImplementsLedger ==
  ASSUME OneWriter, DatabaseLives
  PROVE  Spec => ImplementsLedger
<1>1. Init => TypeInv /\ SlotWaits /\ Ledger!LedgerInit
  BY DEF Init, TypeInv, TypeOK, InCall, SlotWaits, Ledger!LedgerInit, Announced, Attested
<1>2. TypeInv /\ SlotWaits /\ [Next]_vars => (TypeInv /\ SlotWaits)'
  BY TypeStep, SlotWaitsStep
<1>3. TypeInv /\ SlotWaits /\ [Next]_vars => [Ledger!LedgerNext]_(Ledger!ledger)
  BY OneWriterSteps, LedgerStep DEF CrashInMemory, DatabaseLives
<1> QED BY <1>1, <1>2, <1>3, PTL DEF Spec, ImplementsLedger, Ledger!LedgerSpec

-----------------------------------------------------------------------------
(* An Ok is never undone.                                                  *)

\* A step leaves every earlier Ok true, and a new Ok is true when it is given.
LEMMA AckedStep ==
  ASSUME TypeInv, SlotWaits, OneWriter, AckedStays, [Next]_vars
  PROVE  AckedStays'
<1> SUFFICES ASSUME ~CrashInMemory PROVE AckedStays'
  BY DEF CrashInMemory, AckedStays
<1> DEFINE Kept(a) == /\ announcement[a.id] # None
                      /\ a.outcome # None =>
                           /\ attestation[a.id] # None
                           /\ attestation[a.id].outcome = a.outcome
<1>1. EventsStep
  BY OneWriterSteps
<1>2. ASSUME NEW a \in acked PROVE Kept(a)'
  <2>1. a.id \in Event /\ Kept(a)
    BY DEF AckedStays, TypeInv, TypeOK, Call
  <2>2. announcement'[a.id] # None
    BY <1>1, <2>1, InsertionAddsRow, CompletionNeedsRow DEF EventsStep
  <2> QED BY <1>1, <2>1, <2>2, FinalStep
<1>a. acked' \subseteq acked => AckedStays'
  BY <1>2 DEF AckedStays
<1>b. ASSUME NEW c \in Caller, NEW arg, NEW r, Return(c, arg, r), r # "Ok"
      PROVE  AckedStays'
  BY <1>b, <1>a DEF Return
<1>c. ASSUME NEW c \in Caller, NEW arg \in Call, Return(c, arg, "Ok"), Kept(arg)'
      PROVE  AckedStays'
  BY <1>c, <1>2 DEF Return, AckedStays
<1>3. ASSUME NEW c \in Caller, AddWrite(c) PROVE AckedStays'
  <2>1. PICK arg \in Call : arg = call[c]
    BY <1>3 DEF AddWrite, InsertEvent, TypeInv, InCall
  <2>2. arg.outcome = None
    BY <1>3, <2>1 DEF AddWrite, InsertEvent, TypeInv, InCall
  <2>3. Kept(arg)'
    BY <1>3, <2>1, <2>2, InsertionAddsRow DEF AddWrite
  <2> QED BY <1>3, <2>1, <2>3, <1>c DEF AddWrite
<1>4. ASSUME NEW c \in Caller, CompleteWrite(c) PROVE AckedStays'
  <2>1. PICK arg \in Call : arg = call[c]
    BY <1>4 DEF CompleteWrite, CompleteEvent, TypeInv, InCall
  <2>2. Kept(arg)'
    BY <1>4, <2>1, CompletionNeedsRow DEF CompleteWrite
  <2> QED BY <1>4, <2>1, <2>2, <1>c DEF CompleteWrite
<1>5. ASSUME NEW c \in Caller, WriteError(c) PROVE AckedStays'
  BY <1>5, <1>a, <1>b DEF WriteError, GiveUp
<1>6. ASSUME NEW c \in Caller, NEW arg, NEW ann, NEW step, GoOn(c, arg, ann, step)
      PROVE  AckedStays'
  BY <1>6, <1>a DEF GoOn
<1>7. CASE UNCHANGED vars
  BY <1>7, <1>a DEF vars
<1>8. ASSUME NEW c \in Caller, NEW e \in Event, NEW o,
             AddRead(c, e) \/ CompleteRead(c, e, o)
      PROVE  AckedStays'
  BY <1>8, <1>b, <1>6 DEF AddRead, CompleteRead
<1>9. ASSUME NEW c \in Caller, NEW arg,
             \/ NewRead(c) \/ NewWrite(c) \/ ReadFails(c, arg)
             \/ WriteRefused(c) \/ WriteFails(c) \/ WriteUnacknowledged(c) \/ CrashPostgres(c)
      PROVE  AckedStays'
  BY <1>9, <1>a, <1>b, <1>5 DEF NewRead, NewWrite, ReadFails, WriteRefused, WriteFails,
     WriteUnacknowledged, CrashPostgres
<1> QED
  BY <1>3, <1>4, <1>7, <1>8, <1>9 DEF Next

(* What was acknowledged stays, for any number of callers that only add.   *)
THEOREM AckedAlwaysStays ==
  ASSUME OneWriter
  PROVE  Spec => []AckedStays
<1>1. Init => TypeInv /\ SlotWaits /\ AckedStays
  BY DEF Init, TypeInv, TypeOK, InCall, SlotWaits, AckedStays
<1>2. TypeInv /\ SlotWaits /\ AckedStays /\ [Next]_vars
        => (TypeInv /\ SlotWaits /\ AckedStays)'
  BY TypeStep, SlotWaitsStep, AckedStep
<1> QED BY <1>1, <1>2, PTL DEF Spec

-----------------------------------------------------------------------------
(* No nonce is used twice.                                                 *)

(* All the scalars ever revealed are in the database now.                  *)
RevealedIsStored ==
  \A r \in revealed : \E e \in Event :
    attestation[e] # None /\ attestation[e].olivia_v1 = r

\* A step reveals only scalars that it also stores.
LEMMA RevealedStep ==
  ASSUME TypeInv, RevealedIsStored, EventsStep
  PROVE  RevealedIsStored'
<1>1. CASE UNCHANGED <<announcement, attestation, revealed>>
  BY <1>1 DEF RevealedIsStored
<1>2. ASSUME NEW c \in Caller, InsertEvent(c) PROVE RevealedIsStored'
  BY <1>2 DEF InsertEvent, RevealedIsStored
<1>3. ASSUME NEW c \in Caller, CompleteEvent(c), attestation[call[c].id] = None
      PROVE  RevealedIsStored'
  <2>1. PICK e \in Event : e = call[c].id
    BY <1>3, CompletionNeedsRow
  <2>2. \A r \in revealed' : r \in revealed \/ r = attestation'[e].olivia_v1
    BY <1>3, <2>1 DEF CompleteEvent, TypeInv, TypeOK
  <2>3. \A x \in Event : attestation[x] # None => attestation'[x] = attestation[x]
    BY <1>3, FinalStep DEF EventsStep
  <2>4. attestation'[e] # None
    BY <1>3, <2>1, CompletionNeedsRow
  <2> QED BY <2>2, <2>3, <2>4 DEF RevealedIsStored
<1> QED BY <1>1, <1>2, <1>3 DEF EventsStep

(* A stored scalar names its event, so equal nonces mean equal events.     *)
LEMMA StoredNoncesDiffer ==
  ASSUME TypeInv, SeedInv, RevealedIsStored
  PROVE  NonceNeverReused
<1>1. ASSUME NEW r \in revealed
      PROVE  \E e \in Event : \E s \in Seed :
               /\ attestation[e] # None /\ attestation[e].olivia_v1 = r
               /\ public_keys = Keys(s) /\ r.nonces = <<s, e>>
  <2>1. PICK e \in Event : attestation[e] # None /\ attestation[e].olivia_v1 = r
    BY <1>1 DEF RevealedIsStored
  <2>2. PICK s \in Seed : MadeWith(s, e)
    BY <2>1 DEF SeedInv, DbMadeWithOneSeed
  <2>3. PICK o \in Outcome : attestation[e] = Attest(s, announcement[e], e, o)
    BY <2>1, <2>2 DEF MadeWith
  <2>4. r # None
    BY NoneIsNothing DEF TypeInv, TypeOK
  <2>5. r = OliviaV1Scalars(s, e, o)
    BY <2>1, <2>3, <2>4 DEF Attest
  <2> QED BY <2>1, <2>2, <2>5 DEF OliviaV1Scalars, MadeWith
<1> SUFFICES ASSUME NEW r \in revealed, NEW q \in revealed, r.nonces = q.nonces
             PROVE  r.outcome = q.outcome
  BY DEF NonceNeverReused
<1>2. PICK e \in Event, s \in Seed :
        attestation[e].olivia_v1 = r /\ r.nonces = <<s, e>>
  BY <1>1
<1>3. PICK f \in Event, t \in Seed :
        attestation[f].olivia_v1 = q /\ q.nonces = <<t, f>>
  BY <1>1
<1>4. e = f
  <2>1. <<s, e>> = <<t, f>>
    BY <1>2, <1>3
  <2> QED BY <2>1
<1> QED BY <1>2, <1>3, <1>4

(* The secret key stays secret: no nonce ever signs two outcomes.  Both    *)
(* invariants are needed, one seed per database and one writer per slot.   *)
THEOREM NonceIsNeverReused ==
  ASSUME OneSeedInMemory, OneWriter, DatabaseLives
  PROVE  Spec => []NonceNeverReused
<1> DEFINE Inv == TypeInv /\ SeedInv /\ SlotWaits /\ RevealedIsStored
<1>1. Init => Inv
  BY DEF Init, TypeInv, TypeOK, InCall, SeedInv, CallersKeepSeed, ViewsHold,
         DbMadeWithOneSeed, MemoryKeepsSeed, SlotWaits, RevealedIsStored
<1>2. Inv /\ [Next]_vars => Inv'
  <2>1. ASSUME Inv, [Next]_vars PROVE EventsStep
    BY <2>1, OneWriterSteps DEF CrashInMemory, DatabaseLives
  <2> QED BY <2>1, TypeStep, SeedStep, SlotWaitsStep, RevealedStep
<1>3. Inv => NonceNeverReused
  BY StoredNoncesDiffer
<1> HIDE DEF Inv
<1> QED BY <1>1, <1>2, <1>3, PTL DEF Spec

-----------------------------------------------------------------------------
(* The same where the in-memory database is lost in a crash, and nobody     *)
(* remembers what was attested to: then it is the source that must not      *)
(* change its mind.                                                        *)

\* No source ever reports two outcomes of an event.
OneReport == \A e \in Event : \A o, p \in Report[e] : o = p

\* Scalars are made of what a source has reported, and say of which event.
ReportedOnly ==
  /\ \A c \in Caller : pc[c] = "complete" => call[c].outcome \in Report[call[c].id]
  /\ \A r \in revealed : r.outcome \in Report[r.nonces[2]]

\* Every step keeps to what has been reported.
LEMMA ReportedStep ==
  ASSUME TypeInv, ReportedOnly, [Next]_vars
  PROVE  ReportedOnly'
<1> USE DEF TypeInv, TypeOK
<1> DEFINE Calls1 == \A c \in Caller : pc[c] = "complete" => call[c].outcome \in Report[call[c].id]
           Scalars1 == \A r \in revealed : r.outcome \in Report[r.nonces[2]]
<1>a. ASSUME NEW c \in Caller, Store(c) PROVE Scalars1'
  <2>1. CASE SetPublicKeys(c) \/ InsertEvent(c)
    BY <2>1 DEF SetPublicKeys, InsertEvent, ReportedOnly
  <2>2. CASE CompleteEvent(c)
    <3> DEFINE s == OliviaV1Scalars(SeedOf[c], call[c].id, call[c].outcome)
    <3>1. revealed' \subseteq revealed \union {s}
      BY <2>2 DEF CompleteEvent, Attest
    <3>2. s.outcome = call[c].outcome /\ s.nonces[2] = call[c].id
      BY DEF OliviaV1Scalars
    <3>3. s.outcome \in Report[s.nonces[2]]
      BY <2>2, <3>2 DEF CompleteEvent, ReportedOnly
    <3> QED BY <3>1, <3>3 DEF ReportedOnly
  <2> QED BY <1>a, <2>1, <2>2 DEF Store
<1>b. ASSUME NEW c \in Caller, UNCHANGED revealed \/ Store(c),
             \A d \in Caller \ {c} : pc'[d] = pc[d] /\ call'[d] = call[d],
             pc'[c] = "complete" => call'[c].outcome \in Report[call'[c].id]
      PROVE  ReportedOnly'
  BY <1>a, <1>b DEF ReportedOnly
<1>c. ASSUME NEW c \in Caller, NEW arg, NEW r, Return(c, arg, r)
      PROVE  /\ \A d \in Caller \ {c} : pc'[d] = pc[d] /\ call'[d] = call[d]
             /\ pc'[c] = "ready"
  BY <1>c DEF Return
<1>d. ASSUME NEW c \in Caller, WriteError(c)
      PROVE  /\ \A d \in Caller \ {c} : pc'[d] = pc[d] /\ call'[d] = call[d]
             /\ pc'[c] # "complete"
  BY <1>c, <1>d DEF WriteError, GiveUp
<1>1. ASSUME NEW c \in Caller, NewRead(c) \/ NewWrite(c) PROVE ReportedOnly'
  BY <1>1, <1>b DEF NewRead, NewWrite, SetPublicKeys, db
<1>2. ASSUME NEW c \in Caller, NEW e \in Event, AddRead(c, e) PROVE ReportedOnly'
  BY <1>2, <1>b, <1>c DEF AddRead, GoOn, db
<1>3. ASSUME NEW c \in Attester, NEW e \in Event, NEW o \in Report[e],
             CompleteRead(c, e, o)
      PROVE  ReportedOnly'
  <2>1. c \in Caller
    BY OracleAssumption
  <2>2. CASE GoOn(c, [id |-> e, outcome |-> o], announcement[e], "complete")
    BY <1>3, <2>1, <2>2, <1>b DEF CompleteRead, GoOn, db
  <2> QED BY <1>3, <2>1, <2>2, <1>b, <1>c DEF CompleteRead, db
<1>4. ASSUME NEW c \in Caller, AddWrite(c) \/ CompleteWrite(c) PROVE ReportedOnly'
  BY <1>4, <1>b, <1>c DEF AddWrite, CompleteWrite, Store
<1>5. ASSUME NEW c \in Caller, NEW arg, ReadFails(c, arg) PROVE ReportedOnly'
  BY <1>5, <1>b, <1>c DEF ReadFails, db
<1>6. ASSUME NEW c \in Caller, WriteRefused(c) \/ WriteFails(c) PROVE ReportedOnly'
  BY <1>6, <1>b, <1>d DEF WriteRefused, WriteFails, db
<1>7. ASSUME NEW c \in Caller, WriteUnacknowledged(c) PROVE ReportedOnly'
  BY <1>7, <1>b, <1>d DEF WriteUnacknowledged
<1>8. ASSUME NEW c \in Caller, CrashPostgres(c) PROVE ReportedOnly'
  BY <1>8, <1>b DEF CrashPostgres, db
<1>9. CASE CrashInMemory
  BY <1>9 DEF CrashInMemory, ReportedOnly
<1>10. CASE UNCHANGED vars
  BY <1>10 DEF vars, ReportedOnly
<1> QED
  BY <1>1, <1>2, <1>3, <1>4, <1>5, <1>6, <1>7, <1>8, <1>9, <1>10 DEF Next

(* Where every source reports one outcome of an event, as the ticker does,  *)
(* no nonce signs two, whatever databases are lost, whatever attesters race *)
(* and whichever seeds they have.                                          *)
THEOREM OneReportNeverReuses ==
  ASSUME OneReport
  PROVE  Spec => []NonceNeverReused
<1>1. Init => TypeInv /\ ReportedOnly
  BY DEF Init, TypeInv, TypeOK, InCall, ReportedOnly
<1>2. TypeInv /\ ReportedOnly /\ [Next]_vars => (TypeInv /\ ReportedOnly)'
  BY TypeStep, ReportedStep
<1>3. TypeInv /\ ReportedOnly => NonceNeverReused
  <2> SUFFICES ASSUME TypeInv, ReportedOnly, NEW r \in revealed, NEW q \in revealed,
                      r.nonces = q.nonces
               PROVE  r.outcome = q.outcome
    BY DEF NonceNeverReused
  <2>1. r.nonces[2] \in Event
    BY DEF TypeInv, TypeOK, Scalars, Nonces
  <2> QED BY <2>1 DEF OneReport, ReportedOnly
<1> QED BY <1>1, <1>2, <1>3, PTL DEF Spec

-----------------------------------------------------------------------------
(* What a call has answered stays true.                                    *)

(* What an answer says of the database is so.                               *)
Holds(a) ==
  /\ a.result # "AnnouncementWasBogus"
  /\ a.result = "AlreadyExists" => announcement[a.call.id] # None
  /\ a.result = "AlreadyCompleted" =>
       /\ attestation[a.call.id] # None
       /\ a.call.outcome # None => attestation[a.call.id].outcome = a.call.outcome
  /\ a.result = "OutcomeChanged" =>
       attestation[a.call.id] # None /\ attestation[a.call.id].outcome # a.call.outcome

\* The answers hold one by one.
LEMMA AnswersHoldEach ==
  AnswersHold <=> \A c \in Caller : answer[c] # None => Holds(answer[c])
BY DEF AnswersHold, Holds

(* Every step leaves the answers given before it true, and gives true ones. *)
LEMMA AnswersStep ==
  ASSUME TypeInv, SeedInv, SlotWaits, OneWriter, AnswersHold, [Next]_vars
  PROVE  AnswersHold'
<1> SUFFICES ASSUME ~CrashInMemory PROVE AnswersHold'
  BY DEF CrashInMemory, AnswersHold
<1>0. EventsStep
  BY OneWriterSteps
<1>a. ASSUME NEW a, a.call \in Call, Holds(a) PROVE Holds(a)'
  <2>1. a.call.id \in Event
    BY <1>a DEF Call
  <2>2. announcement[a.call.id] # None => announcement'[a.call.id] # None
    BY <1>0, <2>1, InsertionAddsRow, CompletionNeedsRow DEF EventsStep
  <2> QED BY <1>0, <1>a, <2>1, <2>2, FinalStep DEF Holds
<1>a1. ASSUME NEW d \in Caller, answer[d] # None, answer'[d] = answer[d]
       PROVE  Holds(answer[d])'
  <2>1. PICK a : a = answer[d]
    OBVIOUS
  <2>2. a.call \in Call /\ Holds(a)
    BY <1>a1, <2>1, AnswersHoldEach DEF TypeInv, TypeOK
  <2>3. Holds(a)'
    BY <2>2, <1>a
  <2> QED BY <1>a1, <2>1, <2>3 DEF Holds
<1>b. ASSUME NEW c \in Caller, \A d \in Caller \ {c} : answer'[d] = answer[d],
             NEW a, answer'[c] = None \/ (answer'[c] = a /\ Holds(a)')
      PROVE  AnswersHold'
  <2> SUFFICES ASSUME NEW d \in Caller, answer'[d] # None
               PROVE  Holds(answer[d])'
    BY DEF AnswersHold, Holds
  <2>1. CASE d = c
    BY <1>b, <2>1 DEF Holds
  <2>2. CASE d # c
    BY <1>a1, <1>b, <2>2
  <2> QED BY <2>1, <2>2
<1>c. ASSUME NEW c \in Caller, NEW arg, NEW r, Return(c, arg, r),
             NEW a, a = [result |-> r, call |-> arg], Holds(a)'
      PROVE  AnswersHold'
  BY <1>b, <1>c DEF Return, TypeInv, TypeOK
<1>d. ASSUME NEW c \in Caller, NEW arg, NEW r, Return(c, arg, r),
             r \in {"Ok", "EventNotExist", "DbReadErr", "DbWriteErr"}
      PROVE  AnswersHold'
  <2>1. PICK a : a = [result |-> r, call |-> arg]
    OBVIOUS
  <2>2. Holds(a)'
    BY <1>d, <2>1 DEF Holds
  <2> QED BY <1>c, <1>d, <2>1, <2>2
<1>e. ASSUME UNCHANGED answer PROVE AnswersHold'
  <2> SUFFICES ASSUME NEW d \in Caller, answer'[d] # None
               PROVE  Holds(answer[d])'
    BY DEF AnswersHold, Holds
  <2> QED BY <1>a1, <1>e
<1>f. ASSUME NEW c \in Caller, NEW arg, NEW ann, NEW step, GoOn(c, arg, ann, step)
      PROVE  AnswersHold'
  BY <1>b, <1>f DEF GoOn, TypeInv, TypeOK
<1>g. ASSUME NEW c \in Caller, WriteError(c) PROVE AnswersHold'
  BY <1>d, <1>e, <1>g DEF WriteError, GiveUp
<1>1. ASSUME NEW c \in Caller, NEW e \in Event, AddRead(c, e) PROVE AnswersHold'
  <2> DEFINE arg == [id |-> e, outcome |-> None]
  <2>1. CASE Completed(e) /\ Return(c, arg, "AlreadyCompleted")
    <3>1. PICK a : a = [result |-> "AlreadyCompleted", call |-> arg]
      OBVIOUS
    <3>2. Holds(a)'
      BY <1>1, <2>1, <3>1 DEF AddRead, db, Completed, Holds
    <3> QED BY <2>1, <3>1, <3>2, <1>c
  <2>2. CASE announcement[e] # None /\ Return(c, arg, "AlreadyExists")
    <3>1. PICK a : a = [result |-> "AlreadyExists", call |-> arg]
      OBVIOUS
    <3>2. Holds(a)'
      BY <1>1, <2>2, <3>1 DEF AddRead, db, Holds
    <3> QED BY <2>2, <3>1, <3>2, <1>c
  <2>3. CASE GoOn(c, arg, None, "insert")
    BY <2>3, <1>f
  <2> QED BY <1>1, <2>1, <2>2, <2>3 DEF AddRead
<1>2. ASSUME NEW c \in Attester, NEW e \in Event, NEW o \in Report[e],
             CompleteRead(c, e, o)
      PROVE  AnswersHold'
  <2> DEFINE arg == [id |-> e, outcome |-> o]
  <2>0. c \in Caller /\ o \in Outcome /\ UNCHANGED db
    BY <1>2, OracleAssumption DEF CompleteRead
  <2>1. CASE Return(c, arg, "EventNotExist")
    BY <2>0, <2>1, <1>d
  <2>2. CASE Completed(e) /\ Return(c, arg, IF attestation[e].outcome = o
                                            THEN "AlreadyCompleted" ELSE "OutcomeChanged")
    <3> DEFINE r == IF attestation[e].outcome = o
                    THEN "AlreadyCompleted" ELSE "OutcomeChanged"
    <3>1. PICK a : a = [result |-> r, call |-> arg]
      OBVIOUS
    <3>2. Holds(a)'
      BY <2>0, <2>2, <3>1 DEF db, Completed, Holds
    <3> QED BY <2>0, <2>2, <3>1, <3>2, <1>c
  <2>3. ASSUME announcement[e] # None PROVE VerifyAgainstId(announcement[e], e, Keys(SeedOf[c]))
    <3>1. PICK s \in Seed : MadeWith(s, e)
      BY <2>3 DEF SeedInv, DbMadeWithOneSeed
    <3>2. Keys(s) = Keys(SeedOf[c])
      BY <1>2, <2>0, <3>1 DEF CompleteRead, MadeWith, SeedInv, CallersKeepSeed
    <3> QED BY <3>1, <3>2 DEF MadeWith, VerifyAgainstId, CreateAnnouncement
  <2> QED BY <1>2, <2>0, <2>1, <2>2, <2>3, <1>f DEF CompleteRead
<1>3. ASSUME NEW c \in Caller, NEW arg, ReadFails(c, arg) PROVE AnswersHold'
  BY <1>3, <1>d DEF ReadFails
<1>4. ASSUME NEW c \in Caller, CrashPostgres(c) PROVE AnswersHold'
  BY <1>4, <1>b DEF CrashPostgres, TypeInv, TypeOK
<1> QED
  BY <1>d, <1>e, <1>g, <1>1, <1>2, <1>3, <1>4, OracleAssumption
  DEF Next, NewRead, NewWrite, AddWrite, CompleteWrite, WriteRefused, WriteFails,
      WriteUnacknowledged, vars

(* A caller can act on what it was told, for any number of other callers:   *)
(* what it heard to exist or to be completed is so for as long as the       *)
(* database lives, and no announcement of its own is ever bogus to it.      *)
THEOREM AnswersAlwaysHold ==
  ASSUME OneSeedInMemory, OneWriter
  PROVE  Spec => []AnswersHold
<1> DEFINE Inv == TypeInv /\ SeedInv /\ SlotWaits /\ AnswersHold
<1>1. Init => Inv
  BY DEF Init, TypeInv, TypeOK, InCall, SeedInv, CallersKeepSeed, ViewsHold,
         DbMadeWithOneSeed, MemoryKeepsSeed, SlotWaits, AnswersHold
<1>2. Inv /\ [Next]_vars => Inv'
  BY TypeStep, SeedStep, SlotWaitsStep, AnswersStep
<1>3. Inv => AnswersHold
  OBVIOUS
<1> HIDE DEF Inv
<1> QED BY <1>1, <1>2, <1>3, PTL DEF Spec
=============================================================================
