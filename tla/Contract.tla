------------------------------ MODULE Contract ------------------------------
(***************************************************************************)
(* An event from its announcement to a contract that is settled with its   *)
(* attestation: keychain.rs, announcement.rs and attestation.rs of the     *)
(* olivia crates over the values of Outcomes, the group of Secp256k1 and   *)
(* the descriptions of Describe.                                           *)
(*                                                                         *)
(* The oracle announces one nonce per index of an outcome.  The parties of *)
(* a contract read the announcement and anticipate, for every outcome of   *)
(* every nonce, the point that its scalar will open.  The oracle reveals   *)
(* the scalars of one outcome; whoever reads them verifies them against    *)
(* the announcement.                                                       *)
(***************************************************************************)
EXTENDS Describe, Secp256k1

CONSTANTS
  AttestKey,   \* the key material of the oracle's olivia-v1 key
  NonceSeed    \* that of the event's nonces, by their index

ASSUME ContractAssumption ==
  /\ Order > 3
  /\ AttestKey \in Nat /\ AttestKey % Order # 0
  /\ DOMAIN NonceSeed = 1 .. Width
  /\ \A i \in DOMAIN NonceSeed : NonceSeed[i] \in Nat /\ NonceSeed[i] % Order # 0

\* The nonces of an event are hashes of its id and their index: no multiple of
\* one that the oracle reveals is a multiple of another.
ASSUME NoncesApart ==
  \A i, n \in 1 .. Width : \A k, j \in 1 .. 2 : i # n =>
    LET Kept(m) == KeyPairFromSecretBytes(NonceSeed[m]).secret
    IN (k * Kept(i)) % Order # (j * Kept(n)) % Order

VARIABLES
  announcement,  \* [id, descriptor, nonces] as signed and encoded, or None
  anticipated,   \* per nonce the points of its outcomes, as the parties see it
  scalars        \* the revealed scalars, or None

contractVars == <<vars, announcement, anticipated, scalars>>

-----------------------------------------------------------------------------
(* Announcing.                                                             *)

\* nonces_for_event: derived from the seed, the id and the index.
NoncesForEvent(kind) ==
  [i \in 1 .. NNonces(kind) |-> KeyPairFromSecretBytes(NonceSeed[i])]

Public(keypairs) == [i \in DOMAIN keypairs |-> keypairs[i].public]

\* EventId::descriptor.
DescriptorOf(e) ==
  LET kind == EventKind(e)
  IN IF kind.type = "price"
     THEN IF kind.digits = 0 THEN [type |-> "missing"]
                             ELSE [type |-> "digits", n |-> kind.digits]
     ELSE [type |-> "enum", outcomes |-> Descriptor(e.teams, kind)]

CreateAnnouncement(e) ==
  [id         |-> e,
   descriptor |-> DescriptorOf(e),
   nonces     |-> Public(NoncesForEvent(EventKind(e)))]

\* Decoding: the id is parsed again, there must be enough nonces, and the
\* descriptor must be that of the id.  An empty list of nonces is not sent.
Decode(encoded) ==
  LET n == Len(encoded.nonces)
  IN IF \/ TryFrom(encoded.id) \in {Invalid, Panics}
        \/ n # 0 /\ n < NNonces(EventKind(encoded.id))
        \/ DescriptorOf(encoded.id) # encoded.descriptor
     THEN Invalid ELSE encoded

\* verify_against_id, of an announcement whose signature is good.
VerifyAgainstId(encoded, e) ==
  IF Decode(encoded) # Invalid /\ encoded.id = e THEN encoded ELSE Invalid

-----------------------------------------------------------------------------
(* Attesting and verifying.                                                *)

AttestKeyPair == KeyPairFromSecretBytes(AttestKey)

\* olivia_v1_scalars_for_event_outcome; where no nonce was announced there is
\* nothing to reveal.
ScalarsForEventOutcome(kind, value) ==
  LET indexes == AttestationIndexes(kind, value)
  IN [i \in DOMAIN indexes |->
        RevealAttestScalar(AttestKeyPair, NoncesForEvent(kind)[i], indexes[i])]

\* verify_olivia_v1_attestation, of an attestation with this outcome.
VerifyOliviaV1(ann, text, revealed) ==
  LET kind  == EventKind(ann.id)
      value == TryFromIdAndOutcome(ann.id.teams, kind, text)
      indexes == AttestationIndexes(kind, value)
  IN value # Invalid /\ (ann.nonces # <<>> =>
       /\ Len(revealed) = Len(ann.nonces)
       /\ \A i \in DOMAIN indexes :
            VerifyAttestScalar(AttestKeyPair.public, ann.nonces[i], indexes[i], revealed[i]))

\* anticipate_attestations_olivia_v1, for every nonce.
Anticipate(ann) ==
  [i \in DOMAIN ann.nonces |->
     AnticipateAttestations(AttestKeyPair.public, ann.nonces[i],
                            NOutcomesForNonce(EventKind(ann.id)))]

-----------------------------------------------------------------------------
DescriptorType ==
  [type : {"missing"}] \union [type : {"digits"}, n : 1 .. Width]
    \union [type : {"enum"}, outcomes : Seq(Text)]

Announcement ==
  [id : EventId, descriptor : DescriptorType, nonces : Seq(SUBSET Scalar)]

ASSUME NoContractIsNone ==
  None \notin Announcement \union Seq(Seq(Scalar)) \union Seq(Scalar)

ContractTypeOK ==
  /\ TypeOK
  /\ announcement \in Announcement \union {None}
  /\ announcement # None => announcement.id = id
  /\ anticipated \in Seq(Seq(Scalar)) \union {None}
  /\ scalars \in Seq(Scalar) \union {None}

ContractInit == Init /\ announcement = None /\ anticipated = None /\ scalars = None

\* Oracle::add_event, of an id that could be parsed.
Announce(teams, text) ==
  /\ Receive(teams, text)
  /\ announcement' = IF parsed' = id' THEN CreateAnnouncement(id') ELSE None
  /\ UNCHANGED <<anticipated, scalars>>

\* The parties of a contract read the announcement before there is an outcome.
Read ==
  /\ announcement # None /\ anticipated = None /\ outcome = None
  /\ VerifyAgainstId(announcement, id) # Invalid
  /\ anticipated' = Anticipate(announcement)
  /\ UNCHANGED <<vars, announcement, scalars>>

\* Oracle::complete_event: the announcement is verified, and the scalars are
\* those of the outcome's value.
Complete ==
  /\ Attest
  /\ VerifyAgainstId(announcement, id) # Invalid
  /\ scalars' = ScalarsForEventOutcome(EventKind(id), outcome.value)
  /\ UNCHANGED <<announcement, anticipated>>

ContractNext ==
  \/ \E teams \in TeamTexts, text \in KindTexts : Announce(teams, text)
  \/ Read
  \/ \E type \in {"eq", "gt"}, value \in Word :
       Derive(type, value) /\ UNCHANGED <<announcement, anticipated, scalars>>
  \/ \E text \in Reports : Report(text) /\ UNCHANGED <<announcement, anticipated, scalars>>
  \/ Complete
  \/ Settle /\ UNCHANGED <<announcement, anticipated, scalars>>

ContractSpec == ContractInit /\ [][ContractNext]_contractVars

-----------------------------------------------------------------------------
(* Properties.                                                             *)

(* The scalars open the points that were anticipated for the outcome that   *)
(* is attested to, one for every nonce, and no other point of the contract: *)
(* not those of the outcomes that did not come about.                       *)
OpensOnlyAttested ==
  scalars # None /\ anticipated # None =>
    /\ Len(scalars) = Len(anticipated)
    /\ \A i, n \in DOMAIN anticipated : \A j \in DOMAIN anticipated[n] :
         scalars[i] = anticipated[n][j] <=> i = n /\ j = attested.indexes[i] + 1

(* A reader takes the published scalars for the attested outcome and for no *)
(* other, whatever it is told that the outcome was.  What it can be told is *)
(* another way to write the outcome, or another price where neither fits    *)
(* the digits; where the event has no nonces, scalars say nothing at all.   *)
AcceptsOnlyAttested ==
  scalars # None /\ announcement.nonces # <<>> =>
    \A text \in Reports :
      LET value == TryFromIdAndOutcome(id.teams, EventKind(id), text)
      IN VerifyOliviaV1(announcement, text, scalars) <=>
           /\ value # Invalid
           /\ \/ value = outcome.value
              \/ EventKind(id).type = "price" /\ \A v \in {value, outcome.value} :
                   v >= Pow2[NNonces(EventKind(id))] - 1
=============================================================================
