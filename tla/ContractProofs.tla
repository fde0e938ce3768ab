--------------------------- MODULE ContractProofs ---------------------------
(***************************************************************************)
(* Theorems about Secp256k1 and Contract, for any width of a word, any     *)
(* texts that come in, any group of prime order, any choice of the even    *)
(* points and any keys.                                                    *)
(***************************************************************************)
EXTENDS Contract, OutcomesProofs

-----------------------------------------------------------------------------
(* The attestation scheme: one key, one nonce and the index of one outcome.*)

(* The point an x-only key stands for is that of the secret that is kept:   *)
(* from_scalar_mul and new_keypair negate secrets for this.                 *)
LEMMA KeptSecret ==
  ASSUME NEW k \in NonZero
  PROVE  /\ KeyPair(k).secret \in NonZero
         /\ ToPoint(KeyPair(k).public) = KeyPair(k).secret
<1>1. Order - k \in NonZero
  BY Secp256k1Assumption DEF NonZero
<1>2. KeyPair(k).secret \in NonZero
  BY <1>1 DEF KeyPair
<1>3. KeyPair(k).secret \in XOnly(k) /\ KeyPair(k).secret \in EvenY
  BY Secp256k1Assumption DEF KeyPair, XOnly
<1>4. \A p \in XOnly(k) : p \in EvenY => p = KeyPair(k).secret
  BY Secp256k1Assumption DEF KeyPair, XOnly
<1>5. ToPoint(XOnly(k)) = KeyPair(k).secret
  BY <1>3, <1>4 DEF ToPoint
<1> QED BY <1>2, <1>5 DEF KeyPair

(* Whatever the oracle's key, the nonce and the outcome: the scalar that is *)
(* revealed verifies under the public key and the announced nonce, so the   *)
(* assertion in olivia_v1_scalars_for_event_outcome never fails.            *)
THEOREM RevealedVerifies ==
  ASSUME NEW x \in NonZero, NEW r \in NonZero, NEW index \in Nat
  PROVE  VerifyAttestScalar(KeyPair(x).public, KeyPair(r).public, index,
           RevealAttestScalar(KeyPair(x), KeyPair(r), index))
BY KeptSecret DEF VerifyAttestScalar, RevealAttestScalar

\* Numbers with one remainder are a multiple of the modulus apart.
LEMMA SameRemainder ==
  ASSUME NEW q \in Nat, q > 0, NEW a \in Nat, NEW b \in Nat, a % q = b % q
  PROVE  a - b = q * ((a \div q) - (b \div q))
<1>1. a = q * (a \div q) + (a % q) /\ a \div q \in Int
  OBVIOUS
<1>2. b = q * (b \div q) + (b % q) /\ b \div q \in Int
  OBVIOUS
<1> QED BY <1>1, <1>2

\* Two multiples of R, less than Order of them apart, have different remainders.
LEMMA OneIndexNotAbove ==
  ASSUME NEW X \in NonZero, NEW R \in NonZero,
         NEW i \in 0 .. Order - 2, NEW j \in 0 .. Order - 2,
         ((i + 1) * R + X) % Order = ((j + 1) * R + X) % Order
  PROVE  ~ i > j
<1> SUFFICES ASSUME i > j PROVE FALSE
  OBVIOUS
<1> DEFINE a == (i + 1) * R + X
           b == (j + 1) * R + X
           w == (a \div Order) - (b \div Order)
<1>1. a \in Nat /\ b \in Nat
  BY Secp256k1Assumption DEF NonZero
<1>2. a - b = (i - j) * R
  BY Secp256k1Assumption DEF NonZero
<1>3. w \in Int
  BY <1>1, Secp256k1Assumption
<1>4. (i - j) * R = Order * w
  <2> HIDE DEF a, b
  <2> QED BY <1>1, <1>2, SameRemainder, Secp256k1Assumption DEF a, b
<1> HIDE DEF w
<1>5. i - j \in NonZero
  BY Secp256k1Assumption DEF NonZero
<1>6. w \in Scalar
  <2>1. (i - j) * R > 0
    BY <1>5, Secp256k1Assumption DEF NonZero
  <2>2. (i - j) * R < Order * Order
    BY <1>5, Secp256k1Assumption DEF NonZero
  <2>3. w > 0 /\ w < Order
    BY <1>3, <1>4, <2>1, <2>2, Secp256k1Assumption
  <2> QED BY <1>3, <2>3, Secp256k1Assumption DEF Scalar
<1> QED BY <1>4, <1>5, <1>6, Secp256k1Assumption

(* A scalar that verifies for an outcome verifies for no other one: the     *)
(* attestation of an outcome opens one of the points that were anticipated, *)
(* and no other.                                                            *)
THEOREM VerifiesForOneIndex ==
  ASSUME NEW x \in NonZero, NEW r \in NonZero, NEW scalar \in Scalar,
         NEW i \in 0 .. Order - 2, NEW j \in 0 .. Order - 2,
         VerifyAttestScalar(KeyPair(x).public, KeyPair(r).public, i, scalar),
         VerifyAttestScalar(KeyPair(x).public, KeyPair(r).public, j, scalar)
  PROVE  i = j
<1> DEFINE X == KeyPair(x).secret
           R == KeyPair(r).secret
<1>1. X \in NonZero /\ R \in NonZero
  BY KeptSecret
<1>2. ((i + 1) * R + X) % Order = ((j + 1) * R + X) % Order
  BY KeptSecret DEF VerifyAttestScalar
<1> HIDE DEF X, R
<1>3. ~ i > j
  BY <1>1, <1>2, OneIndexNotAbove
<1>4. ~ j > i
  BY <1>1, <1>2, OneIndexNotAbove
<1> QED BY <1>3, <1>4

\* A number is written in one way as a multiple and a remainder.
LEMMA OneRemainder ==
  ASSUME NEW q \in Nat, q > 0, NEW m \in Int, NEW r \in 0 .. q - 1, q * m + r \in Nat
  PROVE  (q * m + r) % q = r
<1> DEFINE n == q * m + r
           w == m - (n \div q)
<1>1. n = q * (n \div q) + (n % q) /\ n \div q \in Int /\ n % q \in 0 .. q - 1
  OBVIOUS
<1>2. q * w = (n % q) - r /\ w \in Int
  <2> DEFINE d == n \div q
             e == n % q
  <2>1. q * m + r = q * d + e /\ d \in Int /\ e \in Int
    BY <1>1
  <2> HIDE DEF d, e
  <2>2. q * (m - d) = e - r
    BY <2>1
  <2> QED BY <2>1, <2>2 DEF d, e
<1>3. -q < q * w /\ q * w < q
  BY <1>1, <1>2
<1> HIDE DEF n, w
<1>4. ~(w >= 1) /\ ~(w <= -1)
  <2>1. w >= 1 => q * w >= q
    BY <1>2
  <2>2. w <= -1 => q * w <= -q
    BY <1>2
  <2> QED BY <1>2, <1>3, <2>1, <2>2
<1>5. w = 0
  BY <1>2, <1>4
<1>6. (n % q) - r = 0 /\ n % q \in Int
  BY <1>1, <1>2, <1>5
<1> QED BY <1>6 DEF n

\* The remainder may be taken before or after something is added.
LEMMA RemainderOfSum ==
  ASSUME NEW q \in Nat, q > 0, NEW a \in Nat, NEW b \in Nat
  PROVE  ((a % q) + b) % q = (a + b) % q
<1> DEFINE k == a \div q
           c == (a % q) + b
           m == c \div q
           r == c % q
<1>1. a = q * k + (a % q) /\ k \in Int /\ a % q \in Nat
  OBVIOUS
<1>2. c \in Nat /\ a + b = q * k + c
  BY <1>1
<1>3. c = q * m + r /\ m \in Int /\ r \in 0 .. q - 1
  <2> HIDE DEF c
  <2> QED BY <1>2
<1> HIDE DEF k, c, m, r
<1>4. a + b = q * (m + k) + r /\ m + k \in Int
  BY <1>1, <1>2, <1>3
<1>5. (a + b) % q = r
  <2>1. q * (m + k) + r \in Nat
    BY <1>4
  <2> QED BY <1>3, <1>4, <2>1, OneRemainder
<1> QED BY <1>5 DEF c, r

\* The points that are computed by adding the nonce once more each time.
Sums(X, R, n) == [i \in 0 .. n |-> (i * R + X) % Order]

\* One function, and no other, adds like that.
LEMMA OnlySums ==
  ASSUME NEW X \in NonZero, NEW R \in NonZero, NEW n \in Nat, NEW C
  PROVE  C = [i \in 0 .. n |-> IF i = 0 THEN X ELSE (C[i - 1] + R) % Order]
           <=> C = Sums(X, R, n)
<1> DEFINE S == Sums(X, R, n)
<1>0. Order \in Nat /\ Order > 2 /\ X \in Nat /\ R \in Nat /\ X < Order
  BY Secp256k1Assumption DEF NonZero
<1>1. S[0] = X
  BY <1>0 DEF Sums
<1>2. ASSUME NEW i \in 1 .. n PROVE S[i] = (S[i - 1] + R) % Order
  <2> DEFINE a == (i - 1) * R + X
  <2>1. a \in Nat /\ a + R = i * R + X
    BY <1>0
  <2>2. S[i - 1] = a % Order /\ S[i] = (i * R + X) % Order
    BY DEF Sums
  <2> HIDE DEF a, S
  <2>3. Order > 0
    BY <1>0
  <2>4. ((a % Order) + R) % Order = (a + R) % Order
    BY <1>0, <2>1, <2>3, RemainderOfSum, Zenon
  <2> QED BY <2>1, <2>2, <2>4
<1>3. CASE C = S
  <2> DEFINE F == [i \in 0 .. n |-> IF i = 0 THEN X ELSE (S[i - 1] + R) % Order]
  <2>1. \A i \in 0 .. n : S[i] = F[i]
    BY <1>1, <1>2
  <2>2. S = [i \in 0 .. n |-> S[i]]
    BY DEF Sums
  <2>3. S = F
    <3> HIDE DEF S
    <3> QED BY <2>1, <2>2
  <2> QED BY <1>3, <2>3
<1>4. ASSUME C = [i \in 0 .. n |-> IF i = 0 THEN X ELSE (C[i - 1] + R) % Order]
      PROVE  C = S
  <2> DEFINE T == {i \in 0 .. n : C[i] # S[i]}
  <2> HIDE DEF S
  <2>0. \A i \in 0 .. n : C[i] = IF i = 0 THEN X ELSE (C[i - 1] + R) % Order
    BY <1>4, Zenon
  <2>1. C[0] = X /\ \A i \in 1 .. n : C[i] = (C[i - 1] + R) % Order
    BY <2>0
  <2>2. CASE T # {}
    <3>0. T \subseteq Nat
      OBVIOUS
    <3>1. PICK i \in T : \A j \in T : i <= j
      <4> HIDE DEF T
      <4> QED BY <2>2, <3>0, LeastNumber, Zenon
    <3>2. i # 0
      BY <1>1, <2>1
    <3>3. i - 1 \in 0 .. n /\ i - 1 \notin T
      BY <3>1, <3>2
    <3>4. C[i] = S[i]
      BY <1>2, <2>1, <3>2, <3>3
    <3> QED BY <3>4
  <2>3. CASE T = {}
    <3>1. \A i \in 0 .. n : C[i] = S[i]
      BY <2>3
    <3>2. S = [i \in 0 .. n |-> S[i]]
      BY DEF S, Sums
    <3>3. C = [i \in 0 .. n |-> C[i]]
      BY <1>4
    <3> QED BY <3>1, <3>2, <3>3
  <2> QED BY <2>2, <2>3
<1> QED BY <1>3, <1>4

\* What anticipate_attestations computes, one addition at a time.
LEMMA AnticipatedPoints ==
  ASSUME NEW x \in NonZero, NEW r \in NonZero, NEW n \in Nat, NEW i \in 1 .. n
  PROVE  AnticipateAttestations(KeyPair(x).public, KeyPair(r).public, n)[i] =
           (i * KeyPair(r).secret + KeyPair(x).secret) % Order
<1> DEFINE X == ToPoint(KeyPair(x).public)
           R == ToPoint(KeyPair(r).public)
           Adds(C) == C = [k \in 0 .. n |-> IF k = 0 THEN X ELSE (C[k - 1] + R) % Order]
           D == CHOOSE C : Adds(C)
<1>1. X \in NonZero /\ R \in NonZero /\ X = KeyPair(x).secret /\ R = KeyPair(r).secret
  BY KeptSecret
<1>2. AnticipateAttestations(KeyPair(x).public, KeyPair(r).public, n)[i] = D[i]
  BY DEF AnticipateAttestations
<1> HIDE DEF X, R
<1>3. ASSUME NEW C PROVE Adds(C) <=> C = Sums(X, R, n)
  <2> HIDE DEF Adds, D
  <2>1. X \in NonZero /\ R \in NonZero /\ n \in Nat
    BY <1>1
  <2>2. C = [k \in 0 .. n |-> IF k = 0 THEN X ELSE (C[k - 1] + R) % Order]
          <=> C = Sums(X, R, n)
    BY <2>1, OnlySums
  <2> QED BY <2>2 DEF Adds
<1>4. D = Sums(X, R, n)
  <2> HIDE DEF Adds
  <2> QED BY <1>3
<1>5. Sums(X, R, n)[i] = (i * R + X) % Order
  BY DEF Sums
<1> HIDE DEF D
<1> QED BY <1>1, <1>2, <1>4, <1>5

(* The parties of a contract and the readers of an attestation agree: what  *)
(* verifies for an outcome opens the point that was anticipated for it, for *)
(* every key, nonce and number of outcomes.                                 *)
THEOREM AnticipatedIsVerified ==
  ASSUME NEW x \in NonZero, NEW r \in NonZero, NEW n \in Nat, NEW index \in 0 .. n - 1,
         NEW scalar \in Scalar
  PROVE  VerifyAttestScalar(KeyPair(x).public, KeyPair(r).public, index, scalar)
           <=> scalar = AnticipateAttestations(KeyPair(x).public, KeyPair(r).public, n)[index + 1]
<1>1. index + 1 \in 1 .. n
  OBVIOUS
<1> QED BY <1>1, AnticipatedPoints, KeptSecret DEF VerifyAttestScalar

(* The scalar that is revealed for an outcome opens the point that was      *)
(* anticipated for it, and none of the other points of its nonce, as long   *)
(* as there are fewer outcomes than elements of the group.                  *)
THEOREM OpensItsPointAlone ==
  ASSUME NEW x \in NonZero, NEW r \in NonZero, NEW n \in 0 .. Order - 1,
         NEW i \in 0 .. n - 1, NEW j \in 0 .. n - 1
  PROVE  RevealAttestScalar(KeyPair(x), KeyPair(r), i)
             = AnticipateAttestations(KeyPair(x).public, KeyPair(r).public, n)[j + 1]
           <=> i = j
<1> DEFINE scalar == RevealAttestScalar(KeyPair(x), KeyPair(r), i)
<1>0. Order \in Nat /\ n \in Nat /\ i \in 0 .. Order - 2 /\ j \in 0 .. Order - 2 /\ i \in Nat
  BY Secp256k1Assumption
<1>1. VerifyAttestScalar(KeyPair(x).public, KeyPair(r).public, i, scalar)
  BY <1>0, RevealedVerifies
<1>2. scalar \in Scalar
  <2>1. (i + 1) * KeyPair(r).secret + KeyPair(x).secret \in Nat
    BY <1>0, KeptSecret, Secp256k1Assumption DEF NonZero
  <2> QED BY <2>1, Secp256k1Assumption DEF RevealAttestScalar, Scalar
<1> HIDE DEF scalar
<1>3. scalar = AnticipateAttestations(KeyPair(x).public, KeyPair(r).public, n)[j + 1]
        <=> VerifyAttestScalar(KeyPair(x).public, KeyPair(r).public, j, scalar)
  BY <1>0, <1>2, AnticipatedIsVerified
<1>4. VerifyAttestScalar(KeyPair(x).public, KeyPair(r).public, j, scalar) <=> i = j
  BY <1>0, <1>1, <1>2, VerifiesForOneIndex
<1> QED BY <1>3, <1>4 DEF scalar

-----------------------------------------------------------------------------
(* What has been computed, from what and when.  Every value that is kept   *)
(* is the one that the code computes from the event's id and the reported  *)
(* outcome, and there is none of them where its step could not be taken.   *)

AsReceived == id # None => parsed = TryFrom(id)

AsDerived ==
  derived # None =>
    /\ Accepted /\ ~IsPredicate(EventKind(id))
    /\ EventKind(id).type = "price" \/ derived.value < NOutcomes(EventKind(id))
    /\ derived.id = Predicate(id, derived.type, derived.value)

AsReported ==
  outcome # None =>
    Accepted /\ outcome.value = TryFromIdAndOutcome(id.teams, EventKind(id), outcome.text)

AsAttested ==
  attested # None =>
    /\ Accepted /\ Reported
    /\ attested = [outcome |-> OutcomeString(id.teams, EventKind(id), outcome.value),
                   indexes |-> AttestationIndexes(EventKind(id), outcome.value)]

AsSettled ==
  settled # None =>
    /\ Settleable
    /\ settled = PredicateOutcome(EventKind(derived.id),
                   OutcomeString(id.teams, EventKind(id), outcome.value))

AsAnnounced == announcement = IF Accepted THEN CreateAnnouncement(id) ELSE None

AsAnticipated == anticipated # None => Accepted /\ anticipated = Anticipate(announcement)

AsRevealed ==
  scalars # None =>
    attested # None /\ scalars = ScalarsForEventOutcome(EventKind(id), outcome.value)

Computed ==
  /\ AsReceived /\ AsDerived /\ AsReported /\ AsAttested /\ AsSettled
  /\ AsAnnounced /\ AsAnticipated /\ AsRevealed

IInv == ContractTypeOK /\ Computed

-----------------------------------------------------------------------------
(* Keys, nonces, announcements and scalars.                                *)

\* The seed of the i-th nonce.
Seed(i) == NonceSeed[i] % Order

\* No key and no nonce is zero.
LEMMA SeedsAreNonZero ==
  /\ Order \in Nat /\ Order > 3
  /\ AttestKey % Order \in NonZero
  /\ \A i \in 1 .. Width : Seed(i) \in NonZero
<1>1. Order \in Nat /\ Order > 3
  BY Secp256k1Assumption, ContractAssumption
<1>2. \A k \in Nat : k % Order # 0 => k % Order \in NonZero
  BY <1>1 DEF NonZero
<1>3. AttestKey \in Nat /\ AttestKey % Order # 0
  BY ContractAssumption
<1>4. \A i \in 1 .. Width : NonceSeed[i] \in Nat /\ NonceSeed[i] % Order # 0
  BY ContractAssumption
<1> QED BY <1>1, <1>2, <1>3, <1>4 DEF Seed

\* An event that is accepted has a kind, and two teams where it needs them.
LEMMA AcceptedEvents ==
  ASSUME NEW e \in EventId, TryFrom(e) = e
  PROVE  /\ e \in EventLike /\ e.teams \in Seq(Text)
         /\ EventKind(e) \in Kind /\ EventKind(e) # Invalid
         /\ EventKind(e).type \in {"vs", "winner"} => Len(e.teams) = 2 /\ e.teams[1] # e.teams[2]
<1>1. e \in EventLike /\ e.teams \in Seq(Text) /\ e.kind \in Text
  BY TextsComeIn DEF EventId, EventLike
<1>2. TryFrom(e) \notin {Invalid, Panics}
  BY ErrorsAreNoValues
<1> QED BY <1>1, <1>2, AcceptedKinds, Zenon

\* There is a nonce of the event for every index of its outcomes.
LEMMA NoncesOfKinds ==
  ASSUME NEW kind \in Kind
  PROVE  /\ NNonces(kind) \in 0 .. Width
         /\ NoncesForEvent(kind) = [i \in 1 .. NNonces(kind) |-> KeyPair(Seed(i))]
         /\ Public(NoncesForEvent(kind)) = [i \in 1 .. NNonces(kind) |-> XOnly(Seed(i))]
         /\ Public(NoncesForEvent(kind)) \in Seq(SUBSET Scalar)
         /\ Len(Public(NoncesForEvent(kind))) = NNonces(kind)
<1>1. NNonces(kind) \in 0 .. Width
  <2>1. CASE kind.type = "price"
    BY <2>1, PricesOfKinds
  <2>2. CASE kind.type # "price"
    BY <2>2, IndexesOfOthers, WidthIsNumber
  <2> QED BY <2>1, <2>2
<1>2. PICK n \in 0 .. Width : n = NNonces(kind)
  BY <1>1
<1>3. n \in Nat /\ 1 .. n \subseteq 1 .. Width
  BY WidthIsNumber
<1>4. NoncesForEvent(kind) = [i \in 1 .. n |-> KeyPair(Seed(i))]
  BY <1>2 DEF NoncesForEvent, KeyPairFromSecretBytes, Seed
<1>5. Public(NoncesForEvent(kind)) = [i \in 1 .. n |-> XOnly(Seed(i))]
  BY <1>4 DEF Public, KeyPair
<1>6. \A i \in 1 .. n : XOnly(Seed(i)) \in SUBSET Scalar
  <2> TAKE i \in 1 .. n
  <2>1. PICK k \in NonZero : k = Seed(i)
    BY <1>3, SeedsAreNonZero
  <2>2. XOnly(k) \subseteq Scalar
    BY SeedsAreNonZero DEF XOnly, NonZero, Scalar
  <2> QED BY <2>1, <2>2
<1>7. [i \in 1 .. n |-> XOnly(Seed(i))] \in Seq(SUBSET Scalar)
      /\ Len([i \in 1 .. n |-> XOnly(Seed(i))]) = n
  BY <1>3, <1>6
<1> QED BY <1>1, <1>2, <1>4, <1>5, <1>7

\* A descriptor is of its type.
LEMMA DescriptorTypes ==
  ASSUME NEW e \in EventId, TryFrom(e) = e
  PROVE  DescriptorOf(e) \in DescriptorType
<1>1. PICK kind \in Kind, teams \in Seq(Text) :
        /\ kind = EventKind(e) /\ teams = e.teams
        /\ kind.type \in {"vs", "winner"} => Len(teams) = 2
  BY AcceptedEvents
<1>2. CASE kind.type = "price"
  <2>1. kind.digits \in 0 .. Width
    BY <1>2, PricesOfKinds
  <2>2. DescriptorOf(e) = IF kind.digits = 0 THEN [type |-> "missing"]
                                             ELSE [type |-> "digits", n |-> kind.digits]
    BY <1>1, <1>2, Zenon DEF DescriptorOf
  <2> QED BY <2>1, <2>2, WidthIsNumber DEF DescriptorType
<1>3. CASE kind.type # "price"
  <2>1. DescriptorOf(e) = [type |-> "enum", outcomes |-> Descriptor(teams, kind)]
    BY <1>1, <1>3, Zenon DEF DescriptorOf
  <2>2. Descriptor(teams, kind) \in Seq(Text)
    <3>1. CASE kind.type \in {"vs", "winner"}
      <4>1. teams[1] \in Text /\ teams[2] \in Text
        BY <1>1, <3>1, TwoOfThem, Zenon
      <4>2. Winning(teams[1]) \in Text /\ Winning(teams[2]) \in Text
        BY <4>1, WinningApart, Zenon
      <4>3. <<"draw">> \in Text
        BY Single, Tokens, Zenon DEF Text
      <4>4. <<teams[1], teams[2]>> \in Seq(Text)
        BY <4>1, Couple, Zenon
      <4>5. <<Winning(teams[1]), Winning(teams[2]), <<"draw">> >> \in Seq(Text)
        BY <4>2, <4>3, Triple, Zenon
      <4>6. kind.type = "winner" => Descriptor(teams, kind) = <<teams[1], teams[2]>>
        BY DEF Descriptor, IsPredicate
      <4>7. kind.type = "vs" =>
              Descriptor(teams, kind) = <<Winning(teams[1]), Winning(teams[2]), <<"draw">> >>
        BY DEF Descriptor, IsPredicate
      <4> QED BY <3>1, <4>4, <4>5, <4>6, <4>7, Zenon
    <3>2. CASE kind.type \in {"occur", "eq", "gt"}
      <4>1. <<"true">> \in Text /\ <<"false">> \in Text
        BY Single, Tokens, Zenon DEF Text
      <4>2. << <<"true">> >> \in Seq(Text)
        BY <4>1, Single, Zenon
      <4>3. << <<"true">>, <<"false">> >> \in Seq(Text)
        BY <4>1, Couple, Zenon
      <4>4. \/ Descriptor(teams, kind) = << <<"true">> >>
            \/ Descriptor(teams, kind) = << <<"true">>, <<"false">> >>
        BY <3>2 DEF Descriptor, IsPredicate
      <4> QED BY <4>2, <4>3, <4>4, Zenon
    <3> QED BY <1>3, <3>1, <3>2, TypesOfKinds
  <2>3. \A o \in Seq(Text) : [type |-> "enum", outcomes |-> o] \in DescriptorType
    BY DEF DescriptorType
  <2> QED BY <2>1, <2>2, <2>3, Zenon
<1> QED BY <1>2, <1>3

\* An announcement is of its type, and its nonces are those of the seeds.
LEMMA AnnouncementTypes ==
  ASSUME NEW e \in EventId, TryFrom(e) = e
  PROVE  /\ CreateAnnouncement(e) \in Announcement
         /\ CreateAnnouncement(e).id = e
         /\ CreateAnnouncement(e).descriptor = DescriptorOf(e)
         /\ CreateAnnouncement(e).nonces =
              [i \in 1 .. NNonces(EventKind(e)) |-> XOnly(Seed(i))]
<1>1. EventKind(e) \in Kind
  BY AcceptedEvents
<1>2. Public(NoncesForEvent(EventKind(e))) \in Seq(SUBSET Scalar)
  BY <1>1, NoncesOfKinds
<1>3. DescriptorOf(e) \in DescriptorType
  BY DescriptorTypes
<1>4. \A d \in DescriptorType, n \in Seq(SUBSET Scalar) :
        [id |-> e, descriptor |-> d, nonces |-> n] \in Announcement
  BY DEF Announcement
<1>5. CreateAnnouncement(e) = [id |-> e, descriptor |-> DescriptorOf(e),
                               nonces |-> Public(NoncesForEvent(EventKind(e)))]
  BY Zenon DEF CreateAnnouncement
<1>6. Public(NoncesForEvent(EventKind(e))) = [i \in 1 .. NNonces(EventKind(e)) |-> XOnly(Seed(i))]
  BY <1>1, NoncesOfKinds
<1>7. PICK d \in DescriptorType, n \in Seq(SUBSET Scalar) :
        d = DescriptorOf(e) /\ n = Public(NoncesForEvent(EventKind(e)))
  BY <1>2, <1>3, Zenon
<1>8. PICK a : a = [id |-> e, descriptor |-> d, nonces |-> n]
  OBVIOUS
<1>9. a.id = e /\ a.descriptor = d /\ a.nonces = n
  BY <1>8
<1>10. a = CreateAnnouncement(e) /\ a \in Announcement
  BY <1>4, <1>5, <1>7, <1>8, Zenon
<1> QED BY <1>6, <1>7, <1>9, <1>10, Zenon

\* The oracle's key, before and after it is negated.
Secret == AttestKey % Order

\* The key that attests is that of the seed.
LEMMA AttestKeys == AttestKeyPair = KeyPair(Secret) /\ Secret \in NonZero
<1>1. AttestKeyPair = KeyPair(Secret)
  BY DEF AttestKeyPair, KeyPairFromSecretBytes, Secret
<1> QED BY <1>1, SeedsAreNonZero DEF Secret

\* What is revealed is reduced.
LEMMA RevealedIsScalar ==
  ASSUME NEW x \in NonZero, NEW r \in NonZero, NEW index \in Nat
  PROVE  RevealAttestScalar(KeyPair(x), KeyPair(r), index) \in Scalar
<1>1. PICK X \in Nat, R \in Nat : X = KeyPair(x).secret /\ R = KeyPair(r).secret
  BY KeptSecret, SeedsAreNonZero DEF NonZero
<1>2. (index + 1) * R + X \in Nat
  <2>1. (index + 1) * R \in Nat
    OBVIOUS
  <2> QED BY <2>1
<1>3. ((index + 1) * R + X) % Order \in Scalar
  <2> PICK m \in Nat : m = (index + 1) * R + X
    BY <1>2
  <2>1. m % Order \in Scalar
    BY SeedsAreNonZero DEF Scalar
  <2> QED BY <2>1
<1> QED BY <1>1, <1>3 DEF RevealAttestScalar

\* One scalar is revealed for every nonce.
LEMMA RevealedScalars ==
  ASSUME NEW kind \in Kind, NEW value \in Word, kind.type = "price" \/ value < NOutcomes(kind)
  PROVE  /\ ScalarsForEventOutcome(kind, value) \in Seq(Scalar)
         /\ Len(ScalarsForEventOutcome(kind, value)) = NNonces(kind)
         /\ \A i \in 1 .. NNonces(kind) :
              /\ AttestationIndexes(kind, value)[i] \in 0 .. 2
              /\ ScalarsForEventOutcome(kind, value)[i] =
                   RevealAttestScalar(KeyPair(Secret), KeyPair(Seed(i)),
                                      AttestationIndexes(kind, value)[i])
<1>1. PICK n \in 0 .. Width, indexes \in Seq(0 .. 2) :
        /\ n = NNonces(kind) /\ indexes = AttestationIndexes(kind, value)
        /\ Len(indexes) = n /\ DOMAIN indexes = 1 .. n
        /\ \A i \in 1 .. n : indexes[i] \in 0 .. 2
  BY IndexesInRange, NoncesOfKinds
<1>2. n \in Nat /\ 1 .. n \subseteq 1 .. Width
  BY WidthIsNumber
<1>3. PICK nonces : nonces = NoncesForEvent(kind)
                    /\ \A i \in 1 .. n : nonces[i] = KeyPair(Seed(i))
  BY <1>1, NoncesOfKinds
<1>4. PICK scalar : scalar = [i \in 1 .. n |-> RevealAttestScalar(KeyPair(Secret), nonces[i], indexes[i])]
  OBVIOUS
<1>5. ScalarsForEventOutcome(kind, value) = scalar
  BY <1>1, <1>3, <1>4, AttestKeys DEF ScalarsForEventOutcome
<1>6. ASSUME NEW i \in 1 .. n
      PROVE  /\ scalar[i] = RevealAttestScalar(KeyPair(Secret), KeyPair(Seed(i)), indexes[i])
             /\ scalar[i] \in Scalar
  <2>1. scalar[i] = RevealAttestScalar(KeyPair(Secret), KeyPair(Seed(i)), indexes[i])
    BY <1>3, <1>4
  <2>2. Seed(i) \in NonZero /\ indexes[i] \in Nat
    BY <1>1, <1>2, SeedsAreNonZero
  <2> QED BY <2>1, <2>2, AttestKeys, RevealedIsScalar
<1>7. scalar \in Seq(Scalar) /\ Len(scalar) = n
  BY <1>2, <1>4, <1>6
<1> QED BY <1>1, <1>5, <1>6, <1>7

\* Points are anticipated for every outcome of every nonce.
LEMMA PointsOfNonce ==
  ASSUME NEW x \in NonZero, NEW r \in NonZero, NEW n \in Nat
  PROVE  LET points == AnticipateAttestations(KeyPair(x).public, KeyPair(r).public, n)
         IN /\ points \in Seq(Scalar) /\ Len(points) = n
            /\ \A j \in 1 .. n :
                 points[j] = (j * KeyPair(r).secret + KeyPair(x).secret) % Order
<1> DEFINE points == AnticipateAttestations(KeyPair(x).public, KeyPair(r).public, n)
<1>1. \A j \in 1 .. n : points[j] = (j * KeyPair(r).secret + KeyPair(x).secret) % Order
  BY AnticipatedPoints, Zenon
<1>2. points = [j \in 1 .. n |-> points[j]]
  BY DEF AnticipateAttestations
<1> HIDE DEF points
<1>3. PICK X \in Nat, R \in Nat : X = KeyPair(x).secret /\ R = KeyPair(r).secret
  BY KeptSecret, SeedsAreNonZero DEF NonZero
<1>4. \A j \in 1 .. n : points[j] \in Scalar
  <2> TAKE j \in 1 .. n
  <2>1. PICK m \in Nat : m = j * R + X
    <3>1. j * R \in Nat
      OBVIOUS
    <3> QED BY <3>1
  <2>2. m % Order \in Scalar
    BY SeedsAreNonZero DEF Scalar
  <2> QED BY <1>1, <1>3, <2>1, <2>2
<1>5. points \in Seq(Scalar) /\ Len(points) = n
  BY <1>2, <1>4
<1> QED BY <1>1, <1>5 DEF points

\* What is anticipated, nonce by nonce.
LEMMA AnticipatedScalars ==
  ASSUME NEW e \in EventId, TryFrom(e) = e, NEW kind, kind = EventKind(e)
  PROVE  /\ Anticipate(CreateAnnouncement(e)) \in Seq(Seq(Scalar))
         /\ Len(Anticipate(CreateAnnouncement(e))) = NNonces(kind)
         /\ \A i \in 1 .. NNonces(kind) :
              Anticipate(CreateAnnouncement(e))[i] =
                AnticipateAttestations(KeyPair(Secret).public, KeyPair(Seed(i)).public,
                                       NOutcomesForNonce(kind))
<1>1. kind \in Kind
  BY AcceptedEvents
<1>2. PICK n \in 0 .. Width : n = NNonces(kind)
  BY <1>1, NoncesOfKinds
<1>3. n \in Nat /\ 1 .. n \subseteq 1 .. Width
  BY WidthIsNumber
<1>4. PICK nonces : /\ nonces = CreateAnnouncement(e).nonces
                    /\ nonces = [i \in 1 .. n |-> XOnly(Seed(i))]
  BY <1>2, AnnouncementTypes
<1>5. PICK m \in 1 .. 3 : m = NOutcomesForNonce(kind)
  BY DEF NOutcomesForNonce
<1>6. CreateAnnouncement(e).id = e
  BY AnnouncementTypes
<1>7. PICK points :
        points = [i \in 1 .. n |-> AnticipateAttestations(KeyPair(Secret).public, nonces[i], m)]
  OBVIOUS
<1>8. Anticipate(CreateAnnouncement(e)) = points
  <2>1. DOMAIN nonces = 1 .. n
    BY <1>4
  <2> QED BY <1>4, <1>5, <1>6, <1>7, <2>1, AttestKeys DEF Anticipate
<1>9. ASSUME NEW i \in 1 .. n
      PROVE  /\ points[i] = AnticipateAttestations(KeyPair(Secret).public, KeyPair(Seed(i)).public, m)
             /\ points[i] \in Seq(Scalar)
  <2>1. nonces[i] = KeyPair(Seed(i)).public
    BY <1>4 DEF KeyPair
  <2>2. points[i] = AnticipateAttestations(KeyPair(Secret).public, KeyPair(Seed(i)).public, m)
    BY <1>7, <2>1
  <2>3. Seed(i) \in NonZero /\ m \in Nat
    BY <1>3, SeedsAreNonZero
  <2>4. AnticipateAttestations(KeyPair(Secret).public, KeyPair(Seed(i)).public, m) \in Seq(Scalar)
    BY <2>3, AttestKeys, PointsOfNonce
  <2> QED BY <2>2, <2>4
<1>10. points \in Seq(Seq(Scalar)) /\ Len(points) = n
  BY <1>3, <1>7, <1>9
<1> QED BY <1>2, <1>5, <1>8, <1>9, <1>10

-----------------------------------------------------------------------------
(* The invariant.                                                          *)

\* What an accepted event is, as the state has it.
LEMMA AcceptedState ==
  ASSUME IInv, Accepted
  PROVE  /\ id \in EventId /\ TryFrom(id) = id
         /\ id \in EventLike /\ id.teams \in Seq(Text)
         /\ EventKind(id) \in Kind
         /\ EventKind(id).type \in {"vs", "winner"} => Len(id.teams) = 2 /\ id.teams[1] # id.teams[2]
         /\ announcement = CreateAnnouncement(id)
<1>1. id \in EventId /\ TryFrom(id) = id
  BY Zenon DEF IInv, ContractTypeOK, TypeOK, Computed, AsReceived, Accepted
<1>2. announcement = CreateAnnouncement(id)
  BY Zenon DEF IInv, Computed, AsAnnounced
<1> QED BY <1>1, <1>2, AcceptedEvents, Zenon

\* The value of a reported outcome is one of the event's.
LEMMA ReportedState ==
  ASSUME IInv, Reported
  PROVE  /\ Accepted
         /\ outcome.value \in Word
         /\ EventKind(id).type = "price" \/ outcome.value < NOutcomes(EventKind(id))
<1>1. Accepted /\ outcome.value = TryFromIdAndOutcome(id.teams, EventKind(id), outcome.text)
      /\ outcome.value # Invalid
  BY Zenon DEF IInv, Computed, AsReported, Reported
<1>2. EventKind(id) \in Kind /\ (EventKind(id).type \in {"vs", "winner"} => Len(id.teams) = 2)
  BY <1>1, AcceptedState
<1>3. /\ outcome.value \in Word \union {Invalid}
      /\ outcome.value # Invalid => EventKind(id).type = "price"
                                    \/ outcome.value < NOutcomes(EventKind(id))
  BY <1>1, <1>2, ReadInRange, Zenon
<1> QED BY <1>1, <1>3

\* Before an event comes in there is nothing.
LEMMA NothingYet ==
  ASSUME IInv, id = None
  PROVE  /\ derived = None /\ outcome = None /\ attested = None /\ settled = None
         /\ announcement = None /\ anticipated = None /\ scalars = None
BY Zenon DEF IInv, Computed, AsDerived, AsReported, AsAttested, AsSettled, Settleable,
             AsAnnounced, AsAnticipated, AsRevealed, Accepted

\* The inductive invariant, one lemma for each action.
LEMMA InitComputed == ContractInit => IInv
BY Zenon DEF ContractInit, Init, IInv, ContractTypeOK, TypeOK, Computed, AsReceived, AsDerived,
             AsReported, AsAttested, AsSettled, AsAnnounced, AsAnticipated, AsRevealed, Accepted

LEMMA AnnounceComputed ==
  ASSUME IInv, NEW teams \in TeamTexts, NEW text \in KindTexts, Announce(teams, text)
  PROVE  IInv'
<1>1. /\ id = None /\ id' = [teams |-> teams, kind |-> text] /\ parsed' = TryFrom(id')
      /\ announcement' = IF parsed' = id' THEN CreateAnnouncement(id') ELSE None
      /\ derived' = None /\ outcome' = None /\ attested' = None /\ settled' = None
      /\ anticipated' = None /\ scalars' = None
  BY NothingYet, Zenon DEF Announce, Receive
<1>2. id' \in EventId
  BY <1>1 DEF EventId
<1>3. id' # None
  BY <1>2, NoneIsNothing, Zenon
<1>4. parsed' \in {Invalid, Panics, id'}
  BY <1>1, TryFromResults, Zenon
<1>5. parsed' = id' => announcement' \in Announcement /\ announcement'.id = id'
  BY <1>1, <1>2, AnnouncementTypes, Zenon
<1>6. parsed' # id' => announcement' = None
  BY <1>1, Zenon
<1>7. ContractTypeOK'
  BY <1>1, <1>2, <1>4, <1>5, <1>6, Zenon DEF ContractTypeOK, TypeOK
<1>8. Computed'
  BY <1>1, <1>3, Zenon DEF Computed, AsReceived, AsDerived, AsReported, AsAttested, AsSettled,
                           AsAnnounced, AsAnticipated, AsRevealed, Accepted
<1> QED BY <1>7, <1>8 DEF IInv

LEMMA ReadComputed ==
  ASSUME IInv, Read
  PROVE  IInv'
<1>1. /\ id' = id /\ parsed' = parsed /\ derived' = derived /\ outcome' = outcome
      /\ attested' = attested /\ settled' = settled
      /\ announcement' = announcement /\ scalars' = scalars
      /\ announcement # None /\ anticipated' = Anticipate(announcement)
  BY Zenon DEF Read, vars
<1>2. Accepted
  BY <1>1, Zenon DEF IInv, Computed, AsAnnounced
<1>3. anticipated' \in Seq(Seq(Scalar))
  BY <1>1, <1>2, AcceptedState, AnticipatedScalars, Zenon
<1>4. ContractTypeOK'
  BY <1>1, <1>3, Zenon DEF IInv, ContractTypeOK, TypeOK
<1>5. Computed'
  BY <1>1, <1>2, Zenon DEF IInv, Computed, AsReceived, AsDerived, AsReported, AsAttested, AsSettled,
                           Settleable, Reported, AsAnnounced, AsAnticipated, AsRevealed, Accepted
<1> QED BY <1>4, <1>5 DEF IInv

LEMMA DeriveComputed ==
  ASSUME IInv, NEW type \in {"eq", "gt"}, NEW value \in Word, Derive(type, value),
         UNCHANGED <<announcement, anticipated, scalars>>
  PROVE  IInv'
<1>1. /\ id' = id /\ parsed' = parsed /\ outcome' = outcome
      /\ attested' = attested /\ settled' = settled
      /\ announcement' = announcement /\ anticipated' = anticipated /\ scalars' = scalars
      /\ Accepted /\ derived = None /\ outcome = None /\ ~IsPredicate(EventKind(id))
      /\ value \in 0 .. NOutcomes(EventKind(id)) - 1
      /\ derived' = [id |-> Predicate(id, type, value), type |-> type, value |-> value]
  BY Zenon DEF Derive
<1>2. attested = None /\ settled = None /\ scalars = None
  BY <1>1, Zenon DEF IInv, Computed, AsAttested, Reported, AsSettled, Settleable, AsRevealed
<1>3. PICK kind \in Kind : kind = EventKind(id) /\ id \in EventLike
  BY <1>1, AcceptedState, Zenon
<1>4. EventKind(id).type = "price" \/ value < NOutcomes(EventKind(id))
  <2>1. kind.type # "price" => NOutcomes(kind) \in 1 .. 3
    BY DEF NOutcomes, NOutcomesForNonce
  <2>2. value \in Nat
    BY WordsAreNumbers
  <2>3. kind.type # "price" => value < NOutcomes(kind)
    BY <1>1, <1>3, <2>1, <2>2
  <2> QED BY <1>3, <2>3, Zenon
<1>5. Predicate(id, type, value) \in EventLike
  <2>1. kind \in PlainKind
    BY <1>1, <1>3, Kinds DEF IsPredicate
  <2>2. kind.type \in {"vs", "winner"} => Len(id.teams) = 2
    BY <1>1, <1>3, AcceptedState
  <2>3. Predicate(id, "eq", value) \in EventLike /\ Predicate(id, "gt", value) \in EventLike
    BY <1>3, <1>4, <2>1, <2>2, DerivedKinds, Zenon
  <2> QED BY <2>3
<1>6. derived' \in Derivation
  BY <1>1, <1>5 DEF Derivation, EventLike
<1>7. derived'.id = Predicate(id, type, value) /\ derived'.type = type /\ derived'.value = value
  BY <1>1
<1>8. ContractTypeOK'
  BY <1>1, <1>6, Zenon DEF IInv, ContractTypeOK, TypeOK
<1>9. Computed'
  BY <1>1, <1>2, <1>4, <1>7, Zenon DEF IInv, Computed, AsReceived, AsDerived, AsReported, AsAttested,
       AsSettled, AsAnnounced, AsAnticipated, AsRevealed, Accepted
<1> QED BY <1>8, <1>9 DEF IInv

LEMMA ReportComputed ==
  ASSUME IInv, NEW text \in Reports, Report(text),
         UNCHANGED <<announcement, anticipated, scalars>>
  PROVE  IInv'
<1>1. /\ id' = id /\ parsed' = parsed /\ derived' = derived
      /\ attested' = attested /\ settled' = settled
      /\ announcement' = announcement /\ anticipated' = anticipated /\ scalars' = scalars
      /\ Accepted /\ outcome = None
      /\ outcome' = [text |-> text, value |-> TryFromIdAndOutcome(id.teams, EventKind(id), text)]
  BY Zenon DEF Report
<1>2. attested = None /\ settled = None /\ scalars = None
  BY <1>1, Zenon DEF IInv, Computed, AsAttested, Reported, AsSettled, Settleable, AsRevealed
<1>3. TryFromIdAndOutcome(id.teams, EventKind(id), text) \in Word \union {Invalid}
  BY <1>1, AcceptedState, ReadInRange
<1>4. outcome' \in Outcome
  BY <1>1, <1>3 DEF Outcome
<1>5. /\ outcome'.text = text
      /\ outcome'.value = TryFromIdAndOutcome(id.teams, EventKind(id), text)
  BY <1>1
<1>6. ContractTypeOK'
  BY <1>1, <1>4, Zenon DEF IInv, ContractTypeOK, TypeOK
<1>7. Computed'
  BY <1>1, <1>2, <1>5, Zenon DEF IInv, Computed, AsReceived, AsDerived, AsReported, AsAttested,
       AsSettled, AsAnnounced, AsAnticipated, AsRevealed, Accepted
<1> QED BY <1>6, <1>7 DEF IInv

LEMMA CompleteComputed ==
  ASSUME IInv, Complete
  PROVE  IInv'
<1>1. /\ id' = id /\ parsed' = parsed /\ derived' = derived /\ outcome' = outcome
      /\ settled' = settled /\ announcement' = announcement /\ anticipated' = anticipated
      /\ Accepted /\ Reported /\ attested = None
      /\ attested' = [outcome |-> OutcomeString(id.teams, EventKind(id), outcome.value),
                      indexes |-> AttestationIndexes(EventKind(id), outcome.value)]
      /\ scalars' = ScalarsForEventOutcome(EventKind(id), outcome.value)
  BY Zenon DEF Complete, Attest
<1>2. settled = None
  BY <1>1, Zenon DEF IInv, Computed, AsSettled, Settleable
<1>3. PICK kind \in Kind, value \in Word :
        /\ kind = EventKind(id) /\ value = outcome.value
        /\ kind.type = "price" \/ value < NOutcomes(kind)
  BY <1>1, AcceptedState, ReportedState, Zenon
<1>4. OutcomeString(id.teams, kind, value) \in Text
  BY <1>1, <1>3, AcceptedState, OutcomeTexts
<1>5. AttestationIndexes(kind, value) \in Seq(0 .. 2)
  BY <1>3, IndexesInRange
<1>6. attested' \in Attestation
  BY <1>1, <1>3, <1>4, <1>5 DEF Attestation
<1>7. attested' # None
  BY <1>6, NoneIsNothing, Zenon
<1>8. scalars' \in Seq(Scalar)
  BY <1>1, <1>3, RevealedScalars
<1>9. ContractTypeOK'
  BY <1>1, <1>6, <1>8, Zenon DEF IInv, ContractTypeOK, TypeOK
<1>10. Computed'
  BY <1>1, <1>2, <1>7, Zenon DEF IInv, Computed, AsReceived, AsDerived, AsReported, AsAttested,
       AsSettled, AsAnnounced, AsAnticipated, AsRevealed, Accepted, Reported
<1> QED BY <1>9, <1>10 DEF IInv

LEMMA SettleComputed ==
  ASSUME IInv, Settle, UNCHANGED <<announcement, anticipated, scalars>>
  PROVE  IInv'
<1>1. /\ id' = id /\ parsed' = parsed /\ derived' = derived /\ outcome' = outcome
      /\ attested' = attested /\ announcement' = announcement
      /\ anticipated' = anticipated /\ scalars' = scalars
      /\ Settleable
      /\ settled' = PredicateOutcome(EventKind(derived.id),
                      OutcomeString(id.teams, EventKind(id), outcome.value))
  BY Zenon DEF Settle
<1>2. settled' \in {0, 1}
  BY <1>1, Zenon DEF PredicateOutcome
<1>3. ContractTypeOK'
  BY <1>1, <1>2 DEF IInv, ContractTypeOK, TypeOK
<1>4. Computed'
  BY <1>1, Zenon DEF IInv, Computed, AsReceived, AsDerived, AsReported, AsAttested,
       AsSettled, Settleable, Reported, AsAnnounced, AsAnticipated, AsRevealed, Accepted
<1> QED BY <1>3, <1>4 DEF IInv

LEMMA StutterComputed ==
  ASSUME IInv, UNCHANGED contractVars
  PROVE  IInv'
<1>1. /\ id' = id /\ parsed' = parsed /\ derived' = derived /\ outcome' = outcome
      /\ attested' = attested /\ settled' = settled /\ announcement' = announcement
      /\ anticipated' = anticipated /\ scalars' = scalars
  BY Zenon DEF contractVars, vars
<1>2. ContractTypeOK'
  BY <1>1, Zenon DEF IInv, ContractTypeOK, TypeOK
<1>3. Computed'
  BY <1>1, Zenon DEF IInv, Computed, AsReceived, AsDerived, AsReported, AsAttested,
       AsSettled, Settleable, Reported, AsAnnounced, AsAnticipated, AsRevealed, Accepted
<1> QED BY <1>2, <1>3 DEF IInv

\* It holds in every behaviour.
LEMMA AlwaysComputed == ContractSpec => []IInv
<1>1. IInv /\ [ContractNext]_contractVars => IInv'
  BY AnnounceComputed, ReadComputed, DeriveComputed, ReportComputed, CompleteComputed,
     SettleComputed, StutterComputed, Zenon DEF ContractNext
<1> QED BY <1>1, InitComputed, PTL DEF ContractSpec

-----------------------------------------------------------------------------
(* The theorems.                                                           *)

(* Everything keeps its type, and the announcement is that of the event.    *)
THEOREM ContractTypeCorrect == ContractSpec => []ContractTypeOK
<1>1. IInv => ContractTypeOK
  BY DEF IInv
<1> QED BY <1>1, AlwaysComputed, PTL

(* Whatever event has been accepted, every outcome of it is written as a    *)
(* text that is read as that outcome.                                       *)
THEOREM OutcomesAlwaysParseBack == ContractSpec => []OutcomesParseBack
<1>1. ASSUME IInv PROVE OutcomesParseBack
  <2> SUFFICES ASSUME Accepted PROVE OutcomesParseBack
    BY Zenon DEF OutcomesParseBack
  <2>1. /\ id.teams \in Seq(Text) /\ EventKind(id) \in Kind
        /\ EventKind(id).type \in {"vs", "winner"} => Len(id.teams) = 2 /\ id.teams[1] # id.teams[2]
    BY <1>1, AcceptedState, Zenon
  <2> QED BY <2>1, ParsesBack, Zenon DEF OutcomesParseBack
<1> QED BY <1>1, AlwaysComputed, PTL

(* An attestation has an index for every nonce, in the nonce's range, and a *)
(* price's digits decode to the price, however many bits a word has.        *)
THEOREM IndexesAlwaysDecode == ContractSpec => []IndexesDecode
<1>1. ASSUME IInv PROVE IndexesDecode
  <2>1. ASSUME attested # None
        PROVE  /\ EventKind(id) \in Kind /\ outcome.value \in Word
               /\ EventKind(id).type = "price" \/ outcome.value < NOutcomes(EventKind(id))
               /\ attested.indexes = AttestationIndexes(EventKind(id), outcome.value)
    <3>1. /\ Accepted /\ Reported
          /\ attested = [outcome |-> OutcomeString(id.teams, EventKind(id), outcome.value),
                         indexes |-> AttestationIndexes(EventKind(id), outcome.value)]
      BY <1>1, <2>1, Zenon DEF IInv, Computed, AsAttested
    <3>2. attested.indexes = AttestationIndexes(EventKind(id), outcome.value)
      BY <3>1
    <3> QED BY <1>1, <3>1, <3>2, AcceptedState, ReportedState, Zenon
  <2> QED BY <2>1, Decodes, Zenon
<1> QED BY <1>1, AlwaysComputed, PTL

\* A predicate that is derived, as the state has it.
LEMMA DerivedState ==
  ASSUME IInv, derived # None
  PROVE  /\ Accepted /\ id \in EventLike /\ EventKind(id) \in PlainKind
         /\ EventKind(id).type \in {"vs", "winner"} => Len(id.teams) = 2 /\ id.teams[1] # id.teams[2]
         /\ derived.value \in Word /\ derived.type \in {"eq", "gt"}
         /\ EventKind(id).type = "price" \/ derived.value < NOutcomes(EventKind(id))
         /\ derived.id = Predicate(id, derived.type, derived.value)
<1>1. /\ Accepted /\ ~IsPredicate(EventKind(id))
      /\ EventKind(id).type = "price" \/ derived.value < NOutcomes(EventKind(id))
      /\ derived.id = Predicate(id, derived.type, derived.value)
  BY Zenon DEF IInv, Computed, AsDerived
<1>2. derived \in Derivation
  BY Zenon DEF IInv, ContractTypeOK, TypeOK
<1>3. derived.value \in Word /\ derived.type \in {"eq", "gt"}
  BY <1>2 DEF Derivation
<1>4. EventKind(id) \in PlainKind
  <2>1. EventKind(id) \in Kind
    BY <1>1, AcceptedState
  <2> QED BY <1>1, <2>1, Kinds DEF IsPredicate
<1> QED BY <1>1, <1>3, <1>4, AcceptedState, Zenon

(* A predicate that is derived from an event gets an id that the parser     *)
(* accepts, as long as no team has a question mark in its name.             *)
THEOREM DerivedAlwaysAccepted == ContractSpec => []DerivedIsAccepted
<1>1. ASSUME IInv PROVE DerivedIsAccepted
  <2> SUFFICES ASSUME derived # None,
                      derived.type = "gt" => EventKind(id).type = "price",
                      \A i \in DOMAIN id.teams : "?" \notin Range(id.teams[i])
               PROVE  TryFrom(derived.id) = derived.id
    BY Zenon DEF DerivedIsAccepted
  <2>1. PICK kind \in PlainKind, value \in Word :
          /\ kind = EventKind(id) /\ value = derived.value /\ id \in EventLike
          /\ kind.type \in {"vs", "winner"} => Len(id.teams) = 2 /\ id.teams[1] # id.teams[2]
          /\ kind.type = "price" \/ value < NOutcomes(kind)
          /\ derived.id = Predicate(id, derived.type, value)
    BY <1>1, DerivedState, Zenon
  <2>2. "?" \notin Range(OutcomeString(id.teams, kind, value))
    <3>1. id.teams \in Seq(Text) /\ kind \in Kind
      BY <2>1, TextsComeIn, Kinds DEF EventLike
    <3> QED BY <2>1, <3>1, OutcomeTexts
  <2>3. TryFrom(Predicate(id, "eq", value)) = Predicate(id, "eq", value)
    BY <2>1, <2>2, DerivedAccepted, Zenon
  <2>4. kind.type = "price" => TryFrom(Predicate(id, "gt", value)) = Predicate(id, "gt", value)
    BY <2>1, DerivedAccepted, Zenon
  <2>5. derived.type = "eq" \/ derived.type = "gt"
    BY <1>1, DerivedState
  <2> QED BY <2>1, <2>3, <2>4, <2>5, Zenon
<1> QED BY <1>1, AlwaysComputed, PTL

\* A settled predicate, as the state has it.
LEMMA SettledState ==
  ASSUME IInv, settled # None
  PROVE  /\ derived # None /\ attested # None /\ Reported
         /\ TryFrom(derived.id) \notin {Invalid, Panics}
         /\ settled = PredicateOutcome(EventKind(derived.id),
                        OutcomeString(id.teams, EventKind(id), outcome.value))
BY Zenon DEF IInv, Computed, AsSettled, Settleable, AsAttested

\* What a settled predicate says of the outcome.
LEMMA SettledTruly ==
  ASSUME IInv
  PROVE  PredicateIsTrue
<1> SUFFICES ASSUME settled # None PROVE PredicateIsTrue
  BY Zenon DEF PredicateIsTrue
<1>1. derived # None /\ Reported
  BY SettledState
<1>2. PICK kind \in PlainKind, value \in Word, v \in Word, type \in {"eq", "gt"} :
        /\ kind = EventKind(id) /\ value = derived.value /\ v = outcome.value
        /\ type = derived.type /\ id \in EventLike
        /\ kind.type \in {"vs", "winner"} => Len(id.teams) = 2 /\ id.teams[1] # id.teams[2]
        /\ kind.type = "price" \/ value < NOutcomes(kind)
        /\ kind.type = "price" \/ v < NOutcomes(kind)
        /\ derived.id = Predicate(id, type, value)
  BY <1>1, DerivedState, ReportedState, Zenon
<1>3. TryFrom(Predicate(id, type, value)) \notin {Invalid, Panics}
  BY <1>2, SettledState, Zenon
<1>4. PredicateOutcome(EventKind(Predicate(id, type, value)), OutcomeString(id.teams, kind, v))
        = IF type = "eq" THEN IF v = value THEN 1 ELSE 0 ELSE IF v > value THEN 1 ELSE 0
  BY <1>2, <1>3, DerivedSettled
<1>5. settled = PredicateOutcome(EventKind(Predicate(id, type, value)),
                                 OutcomeString(id.teams, kind, v))
  BY <1>2, SettledState, Zenon
<1> QED BY <1>2, <1>4, <1>5, Zenon DEF PredicateIsTrue

(* A predicate is settled by what it says of the outcome's value.           *)
THEOREM PredicatesAlwaysTrue == ContractSpec => []PredicateIsTrue
<1>1. IInv => PredicateIsTrue
  BY SettledTruly
<1> QED BY <1>1, AlwaysComputed, PTL

-----------------------------------------------------------------------------
(* What a reader of the scalars takes them for.                            *)

\* The scalars of one outcome verify for the indexes of another exactly where
\* both have the same ones.
LEMMA VerifiedIndexes ==
  ASSUME NEW kind \in Kind, NEW v \in Word, NEW w \in Word,
         kind.type = "price" \/ v < NOutcomes(kind),
         kind.type = "price" \/ w < NOutcomes(kind)
  PROVE  (\A i \in DOMAIN AttestationIndexes(kind, w) :
            VerifyAttestScalar(KeyPair(Secret).public, XOnly(Seed(i)),
                               AttestationIndexes(kind, w)[i],
                               ScalarsForEventOutcome(kind, v)[i]))
         <=> AttestationIndexes(kind, v) = AttestationIndexes(kind, w)
<1>1. PICK n \in Nat, a \in Seq(0 .. 2), b \in Seq(0 .. 2), s \in Seq(Scalar) :
        /\ n = NNonces(kind) /\ Len(a) = n /\ Len(b) = n /\ Len(s) = n
        /\ a = AttestationIndexes(kind, v) /\ b = AttestationIndexes(kind, w)
        /\ s = ScalarsForEventOutcome(kind, v)
  BY IndexesInRange, RevealedScalars, Zenon
<1>2. n \in 0 .. Width
  BY <1>1, NoncesOfKinds
<1>3. DOMAIN a = 1 .. n /\ DOMAIN b = 1 .. n
  BY <1>1
<1>4. ASSUME NEW i \in 1 .. n
      PROVE  VerifyAttestScalar(KeyPair(Secret).public, XOnly(Seed(i)), b[i], s[i])
               <=> a[i] = b[i]
  <2>1. a[i] \in 0 .. 2 /\ b[i] \in 0 .. 2 /\ s[i] \in Scalar
    BY <1>1, <1>3
  <2>2. s[i] = RevealAttestScalar(KeyPair(Secret), KeyPair(Seed(i)), a[i])
    BY <1>1, RevealedScalars
  <2>3. PICK x \in NonZero, r \in NonZero : x = Secret /\ r = Seed(i)
    BY <1>2, AttestKeys, SeedsAreNonZero, WidthIsNumber
  <2>4. XOnly(r) = KeyPair(r).public
    BY DEF KeyPair
  <2>5. VerifyAttestScalar(KeyPair(x).public, KeyPair(r).public, a[i], s[i])
    BY <2>1, <2>2, <2>3, RevealedVerifies
  <2>6. a[i] \in 0 .. Order - 2 /\ b[i] \in 0 .. Order - 2
    BY <2>1, SeedsAreNonZero
  <2>7. VerifyAttestScalar(KeyPair(x).public, KeyPair(r).public, b[i], s[i]) => a[i] = b[i]
    BY <2>1, <2>5, <2>6, VerifiesForOneIndex
  <2> QED BY <2>3, <2>4, <2>5, <2>7
<1>5. a = b <=> \A i \in 1 .. n : a[i] = b[i]
  BY <1>1
<1>6. (\A i \in DOMAIN b : VerifyAttestScalar(KeyPair(Secret).public, XOnly(Seed(i)), b[i], s[i]))
        <=> a = b
  BY <1>3, <1>4, <1>5, Zenon
<1> QED BY <1>1, <1>6, Zenon

\* The indexes of two outcomes are the same where they are one outcome, or
\* two prices that do not fit.
LEMMA SameIndexes ==
  ASSUME NEW kind \in Kind, NEW v \in Word, NEW w \in Word
  PROVE  AttestationIndexes(kind, v) = AttestationIndexes(kind, w) <=>
           \/ w = v
           \/ kind.type = "price" /\ \A u \in {w, v} : u >= Pow2[NNonces(kind)] - 1
<1>1. CASE kind.type = "price"
  <2>1. PICK n \in 0 .. Width : n = kind.digits /\ NNonces(kind) = n
    BY <1>1, PricesOfKinds
  <2> QED BY <1>1, <2>1, IndexesTellApart
<1>2. CASE kind.type # "price"
  <2>1. AttestationIndexes(kind, v) = <<v>> /\ AttestationIndexes(kind, w) = <<w>>
    BY <1>2, IndexesOfOthers
  <2>2. <<v>>[1] = v /\ <<w>>[1] = w
    OBVIOUS
  <2> QED BY <1>2, <2>1, <2>2, Zenon
<1> QED BY <1>1, <1>2

\* An announcement with nonces, as a reader of scalars has it.
LEMMA RevealedState ==
  ASSUME IInv, scalars # None
  PROVE  /\ Accepted /\ Reported /\ id \in EventId /\ TryFrom(id) = id
         /\ announcement = CreateAnnouncement(id)
         /\ scalars = ScalarsForEventOutcome(EventKind(id), outcome.value)
         /\ attested.indexes = AttestationIndexes(EventKind(id), outcome.value)
<1>1. /\ Accepted /\ Reported /\ announcement = CreateAnnouncement(id)
      /\ scalars = ScalarsForEventOutcome(EventKind(id), outcome.value)
      /\ attested = [outcome |-> OutcomeString(id.teams, EventKind(id), outcome.value),
                     indexes |-> AttestationIndexes(EventKind(id), outcome.value)]
  BY Zenon DEF IInv, Computed, AsRevealed, AsAttested, AsAnnounced
<1>2. attested.indexes = AttestationIndexes(EventKind(id), outcome.value)
  BY <1>1
<1>3. id \in EventId \union {None} /\ id # None /\ parsed = TryFrom(id) /\ parsed = id
  BY <1>1, Zenon DEF IInv, ContractTypeOK, TypeOK, Computed, AsReceived, Accepted
<1> QED BY <1>1, <1>2, <1>3, Zenon

(* The scalars of an attestation are taken for the outcome that came about  *)
(* and for no other, whatever outcome the reader is told, in a group of any *)
(* order and for any keys (verify_olivia_v1_attestation).                   *)
THEOREM OnlyAttestedAccepted == ContractSpec => []AcceptsOnlyAttested
<1>1. ASSUME IInv PROVE AcceptsOnlyAttested
  <2> SUFFICES ASSUME scalars # None, announcement.nonces # <<>>, NEW text \in Reports
               PROVE  LET value == TryFromIdAndOutcome(id.teams, EventKind(id), text)
                      IN VerifyOliviaV1(announcement, text, scalars) <=>
                           /\ value # Invalid
                           /\ \/ value = outcome.value
                              \/ EventKind(id).type = "price" /\ \A v \in {value, outcome.value} :
                                   v >= Pow2[NNonces(EventKind(id))] - 1
    BY Zenon DEF AcceptsOnlyAttested
  <2>1. PICK kind \in Kind, v \in Word :
          /\ kind = EventKind(id) /\ v = outcome.value
          /\ kind.type = "price" \/ v < NOutcomes(kind)
          /\ kind.type \in {"vs", "winner"} => Len(id.teams) = 2
    BY <1>1, RevealedState, AcceptedState, ReportedState, Zenon
  <2>2. PICK value : value = TryFromIdAndOutcome(id.teams, kind, text)
    OBVIOUS
  <2>3. /\ value \in Word \union {Invalid}
        /\ value # Invalid => kind.type = "price" \/ value < NOutcomes(kind)
    BY <2>1, <2>2, ReadInRange, Zenon
  <2>4. /\ announcement.id = id
        /\ announcement.nonces = [i \in 1 .. NNonces(kind) |-> XOnly(Seed(i))]
        /\ Len(announcement.nonces) = NNonces(kind)
    <3>1. NNonces(kind) \in Nat
      BY NoncesOfKinds, WidthIsNumber
    <3>2. /\ announcement.id = id
          /\ announcement.nonces = [i \in 1 .. NNonces(kind) |-> XOnly(Seed(i))]
      BY <1>1, <2>1, RevealedState, AnnouncementTypes, Zenon
    <3> QED BY <3>1, <3>2
  <2>5. AttestKeyPair.public = KeyPair(Secret).public
    BY AttestKeys
  <2>6. scalars = ScalarsForEventOutcome(kind, v) /\ Len(scalars) = NNonces(kind)
    BY <1>1, <2>1, RevealedState, RevealedScalars, Zenon
  <2>7. ASSUME value # Invalid
        PROVE  (\A i \in DOMAIN AttestationIndexes(kind, value) :
                  VerifyAttestScalar(AttestKeyPair.public, announcement.nonces[i],
                                     AttestationIndexes(kind, value)[i], scalars[i]))
               <=> AttestationIndexes(kind, v) = AttestationIndexes(kind, value)
    <3>1. value \in Word /\ (kind.type = "price" \/ value < NOutcomes(kind))
      BY <2>3, <2>7, Zenon
    <3>2. DOMAIN AttestationIndexes(kind, value) = 1 .. NNonces(kind)
      BY <3>1, IndexesInRange
    <3>3. \A i \in 1 .. NNonces(kind) : announcement.nonces[i] = XOnly(Seed(i))
      BY <2>4, Zenon
    <3>4. (\A i \in DOMAIN AttestationIndexes(kind, value) :
              VerifyAttestScalar(KeyPair(Secret).public, XOnly(Seed(i)),
                                 AttestationIndexes(kind, value)[i],
                                 ScalarsForEventOutcome(kind, v)[i]))
           <=> AttestationIndexes(kind, v) = AttestationIndexes(kind, value)
      BY <2>1, <3>1, VerifiedIndexes, Zenon
    <3> QED BY <2>5, <2>6, <3>2, <3>3, <3>4
  <2>8. VerifyOliviaV1(announcement, text, scalars) <=>
          value # Invalid /\ AttestationIndexes(kind, v) = AttestationIndexes(kind, value)
    BY <2>1, <2>2, <2>4, <2>6, <2>7, Zenon DEF VerifyOliviaV1
  <2>9. value # Invalid =>
          (AttestationIndexes(kind, v) = AttestationIndexes(kind, value) <=>
             \/ value = v
             \/ kind.type = "price" /\ \A u \in {value, v} : u >= Pow2[NNonces(kind)] - 1)
    BY <2>3, SameIndexes, Zenon
  <2> QED BY <2>1, <2>2, <2>8, <2>9, Zenon
<1> QED BY <1>1, AlwaysComputed, PTL

-----------------------------------------------------------------------------
(* Which points the scalars open.                                          *)

\* A summand can be taken away on both sides of a congruence.
LEMMA SummandCancels ==
  ASSUME NEW q \in Nat, q > 0, NEW a \in Nat, NEW b \in Nat, NEW x \in Nat,
         (a + x) % q = (b + x) % q
  PROVE  a % q = b % q
<1>1. PICK w \in Int : (a + x) - (b + x) = q * w
  <2>1. a + x \in Nat /\ b + x \in Nat
    OBVIOUS
  <2>2. (a + x) - (b + x) = q * (((a + x) \div q) - ((b + x) \div q))
    BY <2>1, SameRemainder
  <2>3. ((a + x) \div q) - ((b + x) \div q) \in Int
    BY <2>1
  <2> QED BY <2>2, <2>3
<1>2. PICK d \in Int, r \in 0 .. q - 1 : b = q * d + r /\ r = b % q
  <2>1. b = q * (b \div q) + (b % q) /\ b \div q \in Int /\ b % q \in 0 .. q - 1
    OBVIOUS
  <2> QED BY <2>1
<1>3. a = q * (w + d) + r
  <2>1. q * (w + d) = q * w + q * d
    BY <1>1, <1>2
  <2> QED BY <1>1, <1>2, <2>1
<1>4. w + d \in Int
  BY <1>1, <1>2
<1>5. (q * (w + d) + r) % q = r
  BY <1>2, <1>3, <1>4, OneRemainder
<1> QED BY <1>2, <1>3, <1>5

\* A scalar that is revealed with one nonce opens no point of another.
LEMMA OpensNoOther ==
  ASSUME NEW i \in 1 .. Width, NEW n \in 1 .. Width, i # n,
         NEW index \in 0 .. 1, NEW j \in 1 .. 2
  PROVE  RevealAttestScalar(KeyPair(Secret), KeyPair(Seed(i)), index)
           # (j * KeyPair(Seed(n)).secret + KeyPair(Secret).secret) % Order
<1>1. PICK X \in Nat, R \in Nat, S \in Nat :
        X = KeyPair(Secret).secret /\ R = KeyPair(Seed(i)).secret /\ S = KeyPair(Seed(n)).secret
  BY AttestKeys, SeedsAreNonZero, KeptSecret DEF NonZero
<1>2. PICK k \in 1 .. 2 : k = index + 1
  OBVIOUS
<1>3. (k * R) % Order # (j * S) % Order
  BY <1>1, <1>2, NoncesApart DEF KeyPairFromSecretBytes, Seed
<1>4. PICK a \in Nat, b \in Nat : a = k * R /\ b = j * S
  OBVIOUS
<1>5. (a + X) % Order # (b + X) % Order
  <2>1. Order \in Nat /\ Order > 0
    BY SeedsAreNonZero
  <2>2. (a + X) % Order = (b + X) % Order => a % Order = b % Order
    BY <2>1, SummandCancels, ZenonT(60)
  <2> QED BY <1>3, <1>4, <2>2, Zenon
<1> QED BY <1>1, <1>2, <1>4, <1>5 DEF RevealAttestScalar

\* The scalars of an outcome and the points of its event.
LEMMA OpenedPoints ==
  ASSUME NEW kind \in Kind, NEW v \in Word, kind.type = "price" \/ v < NOutcomes(kind),
         NEW i \in 1 .. NNonces(kind), NEW n \in 1 .. NNonces(kind),
         NEW j \in 1 .. NOutcomesForNonce(kind)
  PROVE  ScalarsForEventOutcome(kind, v)[i]
             = AnticipateAttestations(KeyPair(Secret).public, KeyPair(Seed(n)).public,
                                      NOutcomesForNonce(kind))[j]
           <=> i = n /\ j = AttestationIndexes(kind, v)[i] + 1
<1>1. PICK m \in 1 .. 3 : m = NOutcomesForNonce(kind) /\ (NNonces(kind) # 1 => m = 2)
  <2>1. NOutcomesForNonce(kind) \in 1 .. 3
    BY DEF NOutcomesForNonce
  <2>2. NNonces(kind) # 1 => NOutcomesForNonce(kind) = 2
    BY DEF NOutcomesForNonce, NNonces
  <2> QED BY <2>1, <2>2
<1>2. NNonces(kind) \in 0 .. Width /\ Width \in Nat
  BY NoncesOfKinds, WidthIsNumber
<1>3. i \in 1 .. Width /\ n \in 1 .. Width /\ Seed(i) \in NonZero /\ Seed(n) \in NonZero
  BY <1>2, SeedsAreNonZero
<1>4. PICK index \in 0 .. m - 1 : index = AttestationIndexes(kind, v)[i]
  <2>1. AttestationIndexes(kind, v)[i] \in 0 .. 2
    BY RevealedScalars
  <2>2. AttestationIndexes(kind, v)[i] < m
    BY <1>1, IndexesInRange
  <2> QED BY <2>1, <2>2
<1>5. ScalarsForEventOutcome(kind, v)[i] =
        RevealAttestScalar(KeyPair(Secret), KeyPair(Seed(i)), index)
  BY <1>4, RevealedScalars
<1>6. j \in 1 .. m /\ j - 1 \in 0 .. m - 1 /\ (j - 1) + 1 = j /\ m \in 0 .. Order - 1
  BY <1>1, SeedsAreNonZero
<1>7. CASE i = n
  <2>1. RevealAttestScalar(KeyPair(Secret), KeyPair(Seed(i)), index)
            = AnticipateAttestations(KeyPair(Secret).public, KeyPair(Seed(i)).public, m)[(j - 1) + 1]
          <=> index = j - 1
    <3>1. PICK x \in NonZero, r \in NonZero, h \in 0 .. m - 1 :
            x = Secret /\ r = Seed(i) /\ h = j - 1
      BY <1>3, <1>6, AttestKeys
    <3>2. m \in 0 .. Order - 1 /\ h + 1 = (j - 1) + 1
      BY <1>6, <3>1
    <3>3. RevealAttestScalar(KeyPair(x), KeyPair(r), index)
              = AnticipateAttestations(KeyPair(x).public, KeyPair(r).public, m)[h + 1]
            <=> index = h
      BY <3>2, OpensItsPointAlone
    <3> QED BY <3>1, <3>3
  <2> QED BY <1>1, <1>4, <1>5, <1>6, <1>7, <2>1
<1>8. CASE i # n
  <2>1. m = 2
    BY <1>1, <1>2, <1>8
  <2>2. AnticipateAttestations(KeyPair(Secret).public, KeyPair(Seed(n)).public, m)[j]
          = (j * KeyPair(Seed(n)).secret + KeyPair(Secret).secret) % Order
    BY <1>3, <1>6, AttestKeys, AnticipatedPoints
  <2>3. index \in 0 .. 1 /\ j \in 1 .. 2
    BY <1>6, <2>1
  <2>4. RevealAttestScalar(KeyPair(Secret), KeyPair(Seed(i)), index)
          # (j * KeyPair(Seed(n)).secret + KeyPair(Secret).secret) % Order
    BY <1>3, <1>8, <2>3, OpensNoOther
  <2> QED BY <1>1, <1>5, <1>8, <2>2, <2>4
<1> QED BY <1>7, <1>8

(* The scalars of an attestation open the points that were anticipated for  *)
(* the outcome that came about, one for every nonce, and no other point of  *)
(* the contract, for any oracle whose nonces have nothing in common.        *)
THEOREM OnlyAttestedOpened == ContractSpec => []OpensOnlyAttested
<1>1. ASSUME IInv PROVE OpensOnlyAttested
  <2> SUFFICES ASSUME scalars # None, anticipated # None PROVE OpensOnlyAttested
    BY Zenon DEF OpensOnlyAttested
  <2>1. PICK kind \in Kind, v \in Word :
          /\ kind = EventKind(id) /\ v = outcome.value
          /\ kind.type = "price" \/ v < NOutcomes(kind)
    BY <1>1, RevealedState, AcceptedState, ReportedState, Zenon
  <2>2. anticipated = Anticipate(CreateAnnouncement(id))
    BY <1>1, RevealedState, Zenon DEF IInv, Computed, AsAnticipated
  <2>3. /\ anticipated \in Seq(Seq(Scalar)) /\ Len(anticipated) = NNonces(kind)
        /\ \A i \in 1 .. NNonces(kind) :
             anticipated[i] =
               AnticipateAttestations(KeyPair(Secret).public, KeyPair(Seed(i)).public,
                                      NOutcomesForNonce(kind))
    BY <1>1, <2>1, <2>2, RevealedState, AnticipatedScalars, Zenon
  <2>4. /\ scalars = ScalarsForEventOutcome(kind, v) /\ Len(scalars) = NNonces(kind)
        /\ attested.indexes = AttestationIndexes(kind, v)
    BY <1>1, <2>1, RevealedState, RevealedScalars, Zenon
  <2>5. DOMAIN anticipated = 1 .. NNonces(kind)
    BY <2>3
  <2>6. ASSUME NEW n \in 1 .. NNonces(kind)
        PROVE  DOMAIN anticipated[n] = 1 .. NOutcomesForNonce(kind)
    <3>1. Seed(n) \in NonZero /\ NOutcomesForNonce(kind) \in Nat
      <4>1. NNonces(kind) \in 0 .. Width /\ Width \in Nat
        BY NoncesOfKinds, WidthIsNumber
      <4>2. NOutcomesForNonce(kind) \in Nat
        BY DEF NOutcomesForNonce
      <4> QED BY <4>1, <4>2, SeedsAreNonZero
    <3>2. anticipated[n] \in Seq(Scalar) /\ Len(anticipated[n]) = NOutcomesForNonce(kind)
      <4>1. PICK x \in NonZero, r \in NonZero, m \in Nat :
              x = Secret /\ r = Seed(n) /\ m = NOutcomesForNonce(kind)
        BY <3>1, AttestKeys
      <4>2. PICK points : points = AnticipateAttestations(KeyPair(x).public, KeyPair(r).public, m)
        OBVIOUS
      <4>3. points \in Seq(Scalar) /\ Len(points) = m
        BY <4>2, PointsOfNonce
      <4>4. anticipated[n] = points
        BY <2>3, <4>1, <4>2
      <4> QED BY <4>1, <4>3, <4>4
    <3> QED BY <3>2
  <2>7. ASSUME NEW i \in 1 .. NNonces(kind), NEW n \in 1 .. NNonces(kind),
               NEW j \in 1 .. NOutcomesForNonce(kind)
        PROVE  scalars[i] = anticipated[n][j] <=> i = n /\ j = attested.indexes[i] + 1
    <3>1. ScalarsForEventOutcome(kind, v)[i]
              = AnticipateAttestations(KeyPair(Secret).public, KeyPair(Seed(n)).public,
                                       NOutcomesForNonce(kind))[j]
            <=> i = n /\ j = AttestationIndexes(kind, v)[i] + 1
      <4>1. kind.type = "price" \/ v < NOutcomes(kind)
        BY <2>1, Zenon
      <4> QED BY <4>1, OpenedPoints
    <3>2. anticipated[n] = AnticipateAttestations(KeyPair(Secret).public, KeyPair(Seed(n)).public,
                                                  NOutcomesForNonce(kind))
      BY <2>3, Zenon
    <3> QED BY <2>4, <3>1, <3>2
  <2>8. ASSUME NEW i \in DOMAIN anticipated, NEW n \in DOMAIN anticipated,
               NEW j \in DOMAIN anticipated[n]
        PROVE  scalars[i] = anticipated[n][j] <=> i = n /\ j = attested.indexes[i] + 1
    <3>1. i \in 1 .. NNonces(kind) /\ n \in 1 .. NNonces(kind)
      BY <2>5, Zenon
    <3>2. j \in 1 .. NOutcomesForNonce(kind)
      BY <2>6, <3>1, Zenon
    <3> QED BY <2>7, <3>1, <3>2
  <2> QED BY <2>3, <2>4, <2>8 DEF OpensOnlyAttested
<1> QED BY <1>1, AlwaysComputed, PTL

-----------------------------------------------------------------------------
(* What descriptions claim, and whether it is true.                        *)

\* When a claim is true, and when its denial is.
LEMMA DrawIsTrue ==
  ASSUME NEW teams, NEW kind, NEW v
  PROVE  /\ True(Affirm(Draw), teams, kind, v) <=> kind.type = "vs" /\ v = 2
         /\ True(Deny(Draw), teams, kind, v) <=> ~(kind.type = "vs" /\ v = 2)
<1>1. /\ Draw.claim = "draw"
      /\ Affirm(Draw).claim = Draw /\ Affirm(Draw).holds = TRUE
      /\ Deny(Draw).claim = Draw /\ Deny(Draw).holds = FALSE
  BY DEF Draw, Affirm, Deny
<1> QED BY <1>1, Zenon DEF True

\* That one team beats another is true of one outcome.
LEMMA BeatsIsTrue ==
  ASSUME NEW teams, NEW kind, NEW v, NEW a, NEW b
  PROVE  LET so == \/ v = 0 /\ a = teams[1] /\ b = teams[2]
                   \/ v = 1 /\ a = teams[2] /\ b = teams[1]
         IN /\ True(Affirm(Beats(a, b)), teams, kind, v) <=> so
            /\ True(Deny(Beats(a, b)), teams, kind, v) <=> ~so
<1>1. /\ Beats(a, b).claim = "beats" /\ Beats(a, b).winner = a /\ Beats(a, b).loser = b
      /\ "beats" # "draw"
      /\ Affirm(Beats(a, b)).claim = Beats(a, b) /\ Affirm(Beats(a, b)).holds = TRUE
      /\ Deny(Beats(a, b)).claim = Beats(a, b) /\ Deny(Beats(a, b)).holds = FALSE
  BY DEF Beats, Affirm, Deny
<1> QED BY <1>1, Zenon DEF True

\* That the outcome is a text is true where that text is written.
LEMMA IsIsTrue ==
  ASSUME NEW teams, NEW kind, NEW v, NEW text
  PROVE  /\ True(Affirm(Is(text)), teams, kind, v) <=> text = OutcomeString(teams, kind, v)
         /\ True(Deny(Is(text)), teams, kind, v) <=> text # OutcomeString(teams, kind, v)
<1>1. /\ Is(text).claim = "is" /\ Is(text).text = text /\ "is" # "draw" /\ "is" # "beats"
      /\ Affirm(Is(text)).claim = Is(text) /\ Affirm(Is(text)).holds = TRUE
      /\ Deny(Is(text)).claim = Is(text) /\ Deny(Is(text)).holds = FALSE
  BY DEF Is, Affirm, Deny
<1> QED BY <1>1, Zenon DEF True

\* That a price is above a bound is true of what is above it.
LEMMA AboveIsTrue ==
  ASSUME NEW teams, NEW kind, NEW v \in Nat, NEW bound \in Nat
  PROVE  /\ True(Affirm(Above(bound)), teams, kind, v) <=> v > bound
         /\ True(Deny(Above(bound)), teams, kind, v) <=> ~ v > bound
<1>1. /\ Above(bound).claim = "above" /\ Above(bound).bound = bound
      /\ "above" # "draw" /\ "above" # "beats" /\ "above" # "is"
      /\ Affirm(Above(bound)).claim = Above(bound) /\ Affirm(Above(bound)).holds = TRUE
      /\ Deny(Above(bound)).claim = Above(bound) /\ Deny(Above(bound)).holds = FALSE
  BY DEF Above, Affirm, Deny
<1>2. (v > bound) = TRUE \/ (v > bound) = FALSE
  OBVIOUS
<1> QED BY <1>1, <1>2, Zenon DEF True

\* Who has won can be told from what is written.
LEMMA WinnerCut ==
  ASSUME NEW S, NEW a \in Seq(S), NEW x \in S, NEW y \in S
  PROVE  SubSeq(a \o <<x, y>>, 1, Len(a \o <<x, y>>) - 2) = a
<1>1. PICK c \in Seq(S) : c = <<x, y>> /\ Len(c) = 2
  <2>1. <<x, y>> \in Seq(S) /\ Len(<<x, y>>) = 2
    OBVIOUS
  <2> QED BY <2>1, Zenon
<1>2. a \o c \in Seq(S) /\ Len(a \o c) - 2 = Len(a) /\ (\A i \in 1 .. Len(a) : (a \o c)[i] = a[i])
  BY <1>1
<1>3. SubSeq(a \o c, 1, Len(a)) = a
  BY <1>2
<1>4. SubSeq(a \o c, 1, Len(a \o c) - 2) = a
  BY <1>2, <1>3
<1> QED BY <1>1, <1>4, Zenon

\* A winner is told from the text of the outcome, without its last two tokens.
LEMMA WinnerWritten ==
  ASSUME NEW a \in Text
  PROVE  SubSeq(Winning(a), 1, Len(Winning(a)) - 2) = a
<1>1. a \in Seq(Token)
  BY DEF Text
<1>2. "_" \in Token /\ "win" \in Token
  BY Underscore, Tokens, Zenon
<1>3. SubSeq(a \o <<"_", "win">>, 1, Len(a \o <<"_", "win">>) - 2) = a
  BY <1>1, <1>2, WinnerCut, Zenon
<1> QED BY <1>3, Zenon DEF Winning

\* What is claimed of a match or a duel that has come out with u.
LEMMA MatchClaims ==
  ASSUME NEW teams \in Seq(Text), Len(teams) = 2, teams[1] # teams[2],
         NEW kind, kind.type \in {"vs", "winner"}, Nameable(teams, kind),
         NEW u \in 0 .. 2, kind.type = "winner" => u # 2
  PROVE  MatchClaim(teams, kind, OutcomeString(teams, kind, u)) =
           IF u = 2 THEN Draw ELSE IF u = 0 THEN Beats(teams[1], teams[2])
                                            ELSE Beats(teams[2], teams[1])
<1>1. PICK a \in Text, b \in Text : a = teams[1] /\ b = teams[2] /\ a # b
  BY TwoOfThem
<1>2. u = 2 \/ (u = 0 /\ teams[u + 1] = a) \/ (u = 1 /\ teams[u + 1] = b)
  BY <1>1
<1>3. 0 # 2 /\ 1 # 2 /\ 1 # 0 /\ "vs" # "winner"
  OBVIOUS
<1>4. CASE kind.type = "vs"
  <2>1. OutcomeString(teams, kind, u) = IF u = 2 THEN <<"draw">> ELSE Winning(teams[u + 1])
    BY <1>4, WrittenAs, Zenon
  <2>2. \A t \in Text : /\ Winning(t) # <<"draw">>
                        /\ SubSeq(Winning(t), 1, Len(Winning(t)) - 2) = t
    BY WinningApart, WinnerWritten, Zenon
  <2> QED BY <1>1, <1>2, <1>3, <1>4, <2>1, <2>2, Zenon DEF MatchClaim
<1>5. CASE kind.type = "winner"
  <2>1. OutcomeString(teams, kind, u) = teams[u + 1] /\ u # 2
    BY <1>5, WrittenAs
  <2>2. a # <<"draw">> /\ b # <<"draw">>
    <3>1. teams[1] \in Range(teams) /\ teams[2] \in Range(teams)
      BY DEF Range
    <3> QED BY <1>1, <1>5, <3>1, Zenon DEF Nameable
  <2> QED BY <1>1, <1>2, <1>3, <1>5, <2>1, <2>2, Zenon DEF MatchClaim
<1> QED BY <1>4, <1>5

\* What is claimed of an event that has come out with u.
PlainClaim(form, teams, kind, u) ==
  IF form = "match" /\ kind.type \in {"vs", "winner"}
  THEN MatchClaim(teams, kind, OutcomeString(teams, kind, u))
  ELSE Is(OutcomeString(teams, kind, u))

\* It is true where the event has come out with u, and denied elsewhere.
LEMMA PlainTruth ==
  ASSUME NEW form, NEW teams \in Seq(Text), NEW kind \in PlainKind,
         NEW u \in Word, NEW v \in Word,
         kind.type \in {"vs", "winner"} => Len(teams) = 2 /\ teams[1] # teams[2],
         kind.type = "price" \/ u < NOutcomes(kind),
         kind.type = "price" \/ v < NOutcomes(kind),
         Nameable(teams, kind)
  PROVE  /\ True(Affirm(PlainClaim(form, teams, kind, u)), teams, kind, v) <=> v = u
         /\ True(Deny(PlainClaim(form, teams, kind, u)), teams, kind, v) <=> v # u
<1>1. CASE form = "match" /\ kind.type \in {"vs", "winner"}
  <2>1. /\ u \in 0 .. 2 /\ v \in 0 .. 2
        /\ kind.type = "winner" => u # 2 /\ v # 2
        /\ kind.type # "winner" => kind.type = "vs"
    BY <1>1, WordsAreNumbers DEF NOutcomes, NOutcomesForNonce
  <2>2. Len(teams) = 2 /\ teams[1] # teams[2]
    BY <1>1
  <2>3. PlainClaim(form, teams, kind, u) =
          IF u = 2 THEN Draw ELSE IF u = 0 THEN Beats(teams[1], teams[2])
                                           ELSE Beats(teams[2], teams[1])
    <3>1. MatchClaim(teams, kind, OutcomeString(teams, kind, u)) =
            IF u = 2 THEN Draw ELSE IF u = 0 THEN Beats(teams[1], teams[2])
                                             ELSE Beats(teams[2], teams[1])
      BY <1>1, <2>1, <2>2, MatchClaims
    <3> QED BY <1>1, <3>1, Zenon DEF PlainClaim
  <2>4. u = 0 \/ u = 1 \/ u = 2
    BY <2>1
  <2>5. v = 0 \/ v = 1 \/ v = 2
    BY <2>1
  <2>6. 0 # 1 /\ 0 # 2 /\ 1 # 2
    OBVIOUS
  <2>7. CASE u = 2
    BY <1>1, <2>1, <2>3, <2>7, DrawIsTrue, Zenon
  <2>8. CASE u = 0
    <3>1. PlainClaim(form, teams, kind, u) = Beats(teams[1], teams[2])
      BY <2>3, <2>6, <2>8
    <3> QED BY <2>2, <2>5, <2>6, <2>8, <3>1, BeatsIsTrue
  <2>9. CASE u = 1
    <3>1. PlainClaim(form, teams, kind, u) = Beats(teams[2], teams[1])
      BY <2>3, <2>6, <2>9
    <3> QED BY <2>2, <2>5, <2>6, <2>9, <3>1, BeatsIsTrue
  <2> QED BY <2>4, <2>7, <2>8, <2>9
<1>2. CASE ~(form = "match" /\ kind.type \in {"vs", "winner"})
  <2>1. PlainClaim(form, teams, kind, u) = Is(OutcomeString(teams, kind, u))
    BY <1>2, Zenon DEF PlainClaim
  <2>2. kind \in Kind
    BY Kinds
  <2>3. OutcomeString(teams, kind, u) = OutcomeString(teams, kind, v) <=> v = u
    BY <2>2, ParsesBack, Zenon
  <2> QED BY <2>1, <2>3, IsIsTrue, Zenon
<1> QED BY <1>1, <1>2, Zenon

\* How a plain kind's outcome is described, and what it says of the one of an
\* event that is asked for another number of digits.
LEMMA PlainDescribed ==
  ASSUME NEW form, NEW teams, NEW kind \in PlainKind, NEW u
  PROVE  /\ PlainDesc(form, teams, kind, u) =
              [positive |-> Affirm(PlainClaim(form, teams, kind, u)),
               negative |-> Deny(PlainClaim(form, teams, kind, u))]
         /\ OutcomeDesc(form, teams, kind, u) = PlainDesc(form, teams, kind, u)
         /\ PlainClaim(form, teams, Inner(kind), u) = PlainClaim(form, teams, kind, u)
<1>1. kind.type \in {"vs", "winner", "occur", "price"}
  BY PlainKinds, KindFields
<1>2. kind.type # "eq" /\ kind.type # "gt"
  BY <1>1
<1>3. PlainDesc(form, teams, kind, u) =
        [positive |-> Affirm(PlainClaim(form, teams, kind, u)),
         negative |-> Deny(PlainClaim(form, teams, kind, u))]
  BY <1>2, Zenon DEF PlainDesc, PlainClaim, MaybeNegate, IsPredicate
<1>4. OutcomeDesc(form, teams, kind, u) = PlainDesc(form, teams, kind, u)
  BY <1>2, Zenon DEF OutcomeDesc
<1>5. Inner(kind).type = kind.type /\ OutcomeString(teams, Inner(kind), u) = OutcomeString(teams, kind, u)
  BY InnerKinds, InnerOutcomes, Zenon
<1>6. \A text : MatchClaim(teams, Inner(kind), text) = MatchClaim(teams, kind, text)
  BY <1>5, Zenon DEF MatchClaim
<1> QED BY <1>3, <1>4, <1>5, <1>6, Zenon DEF PlainClaim

\* A pair of statements, the other way round where what they are about is not so.
Told(claim, w) == [positive |-> IF w = 1 THEN Affirm(claim) ELSE Deny(claim),
                   negative |-> IF w = 1 THEN Deny(claim) ELSE Affirm(claim)]

\* What is attested to as false is told as a denial.
LEMMA Negated ==
  ASSUME NEW claim, NEW w \in {0, 1}, NEW text, text = (IF w = 0 THEN <<"false">> ELSE <<"true">>)
  PROVE  MaybeNegate([positive |-> Affirm(claim), negative |-> Deny(claim)], text = <<"false">>)
           = Told(claim, w)
<1>1. <<"true">> # <<"false">>
  OBVIOUS
<1>2. CASE w = 0
  <2>1. text = <<"false">> /\ w # 1
    BY <1>2
  <2>2. [positive |-> Affirm(claim), negative |-> Deny(claim)].positive = Affirm(claim)
        /\ [positive |-> Affirm(claim), negative |-> Deny(claim)].negative = Deny(claim)
    OBVIOUS
  <2> QED BY <2>1, <2>2, Zenon DEF MaybeNegate, Told
<1>3. CASE w = 1
  <2>1. text # <<"false">> /\ w # 0
    BY <1>1, <1>3
  <2> QED BY <1>3, <2>1, Zenon DEF MaybeNegate, Told
<1> QED BY <1>2, <1>3

\* What is said of a predicate that equals the outcome u of a plain kind.
LEMMA EqualityDescribed ==
  ASSUME NEW form, NEW teams, NEW k \in PlainKind, NEW t, NEW u,
         u = TryFromIdAndOutcome(teams, k, t), NEW w \in {0, 1}
  PROVE  /\ OutcomeDesc(form, teams, Eq(k, t), w) = Told(PlainClaim(form, teams, k, u), w)
         /\ Assertion(form, teams, Eq(k, t)) =
              IF form = "random" THEN None ELSE Affirm(PlainClaim(form, teams, k, u))
<1>1. PICK p : p = Eq(k, t) /\ p.type = "eq" /\ p.inner = k /\ p.target = t
  BY KindFields
<1>2. PICK claim : claim = PlainClaim(form, teams, k, u)
  OBVIOUS
<1>3. PlainDesc(form, teams, k, u) = [positive |-> Affirm(claim), negative |-> Deny(claim)]
      /\ OutcomeDesc(form, teams, k, u) = PlainDesc(form, teams, k, u)
  BY <1>2, PlainDescribed
<1>4. IsPredicate(p)
  BY <1>1 DEF IsPredicate
<1>5. OutcomeString(teams, p, w) = IF w = 0 THEN <<"false">> ELSE <<"true">>
  BY <1>4, WrittenAs, Zenon
<1>6. OutcomeDesc(form, teams, p, w) = Told(claim, w)
  <2>1. OutcomeDesc(form, teams, p, w) =
          MaybeNegate(PlainDesc(form, teams, k, u), OutcomeString(teams, p, w) = <<"false">>)
    BY <1>1, Zenon DEF OutcomeDesc
  <2>2. PICK text : text = OutcomeString(teams, p, w)
    OBVIOUS
  <2>3. MaybeNegate([positive |-> Affirm(claim), negative |-> Deny(claim)], text = <<"false">>)
          = Told(claim, w)
    BY <1>5, <2>2, Negated, Zenon
  <2> QED BY <1>3, <2>1, <2>2, <2>3, Zenon
<1>7. Assertion(form, teams, p) = IF form = "random" THEN None ELSE Affirm(claim)
  <2>1. OutcomeDesc(form, teams, k, u).positive = Affirm(claim)
    BY <1>3
  <2>2. p.type # "gt"
    BY <1>1
  <2> QED BY <1>1, <2>1, <2>2, Zenon DEF Assertion
<1> QED BY <1>1, <1>2, <1>6, <1>7, Zenon

\* What is said of a predicate that bounds a price.
LEMMA BoundDescribed ==
  ASSUME NEW form, NEW teams, NEW k, NEW b, NEW w \in {0, 1}
  PROVE  /\ OutcomeDesc(form, teams, Gt(k, b), w) = Told(Above(b), w)
         /\ Assertion(form, teams, Gt(k, b)) =
              IF form = "random" THEN None ELSE Affirm(Above(b))
<1>1. PICK p : p = Gt(k, b) /\ p.type = "gt" /\ p.bound = b
  BY KindFields
<1>2. p.type # "eq" /\ p.type # "vs" /\ p.type # "winner"
  BY <1>1
<1>3. IsPredicate(p)
  BY <1>1 DEF IsPredicate
<1>4. OutcomeString(teams, p, w) = IF w = 0 THEN <<"false">> ELSE <<"true">>
  BY <1>3, WrittenAs, Zenon
<1>5. OutcomeDesc(form, teams, p, w) = Told(Above(b), w)
  <2>1. PICK text : text = OutcomeString(teams, p, w)
    OBVIOUS
  <2>2. MaybeNegate([positive |-> Affirm(Above(b)), negative |-> Deny(Above(b))], text = <<"false">>)
          = Told(Above(b), w)
    BY <1>4, <2>1, Negated, Zenon
  <2>3. OutcomeDesc(form, teams, p, w) =
          MaybeNegate([positive |-> Affirm(Above(b)), negative |-> Deny(Above(b))],
                      IsPredicate(p) /\ text = <<"false">>)
    BY <1>1, <1>2, <2>1, Zenon DEF OutcomeDesc, PlainDesc
  <2>4. (IsPredicate(p) /\ text = <<"false">>) = (text = <<"false">>)
    BY <1>3, Zenon
  <2> QED BY <2>2, <2>3, <2>4, Zenon
<1>6. Assertion(form, teams, p) = IF form = "random" THEN None ELSE Affirm(Above(b))
  BY <1>1, Zenon DEF Assertion
<1> QED BY <1>1, <1>5, <1>6, Zenon

\* The event that a description is about, as it has come out.
LEMMA AttestedState ==
  ASSUME IInv, attested # None
  PROVE  /\ Accepted /\ Reported
         /\ id.teams \in Seq(Text) /\ EventKind(id) \in Kind
         /\ EventKind(id).type \in {"vs", "winner"} => Len(id.teams) = 2 /\ id.teams[1] # id.teams[2]
         /\ outcome.value \in Word
         /\ EventKind(id).type = "price" \/ outcome.value < NOutcomes(EventKind(id))
         /\ attested.outcome = OutcomeString(id.teams, EventKind(id), outcome.value)
         /\ ~IsPredicate(EventKind(id)) => EventKind(id) \in PlainKind
<1>1. /\ Accepted /\ Reported
      /\ attested = [outcome |-> OutcomeString(id.teams, EventKind(id), outcome.value),
                     indexes |-> AttestationIndexes(EventKind(id), outcome.value)]
  BY Zenon DEF IInv, Computed, AsAttested
<1>2. attested.outcome = OutcomeString(id.teams, EventKind(id), outcome.value)
  BY <1>1
<1>3. EventKind(id) \in Kind
  BY <1>1, AcceptedState
<1>4. ~IsPredicate(EventKind(id)) => EventKind(id) \in PlainKind
  BY <1>3, Kinds DEF IsPredicate
<1> QED BY <1>1, <1>2, <1>3, <1>4, AcceptedState, ReportedState, Zenon

\* A predicate that is settled, as its id has been read back.
LEMMA SettledKinds ==
  ASSUME IInv, settled # None
  PROVE  /\ settled \in {0, 1}
         /\ derived.type = "eq" =>
              /\ EventKind(derived.id) = Eq(Inner(EventKind(id)),
                                            OutcomeString(id.teams, EventKind(id), derived.value))
              /\ settled = 1 <=> outcome.value = derived.value
         /\ derived.type = "gt" =>
              /\ EventKind(derived.id) = Gt(Price(0), derived.value)
              /\ settled = 1 <=> outcome.value > derived.value
<1>1. PICK kind \in PlainKind, u \in Word, type \in {"eq", "gt"} :
        /\ kind = EventKind(id) /\ u = derived.value /\ type = derived.type /\ id \in EventLike
        /\ kind.type \in {"vs", "winner"} => Len(id.teams) = 2
        /\ kind.type = "price" \/ u < NOutcomes(kind)
        /\ derived.id = Predicate(id, type, u)
  BY SettledState, DerivedState, Zenon
<1>2. EventKind(Predicate(id, type, u)) # Invalid
  BY <1>1, SettledState, AcceptedByKind, Zenon
<1>3. PICK text : text = OutcomeString(id.teams, kind, u)
  OBVIOUS
<1>4. /\ type = "eq" => EventKind(derived.id) = Eq(Inner(kind), text)
      /\ type = "gt" => EventKind(derived.id) = Gt(Price(0), u)
  BY <1>1, <1>2, <1>3, DerivedKinds
<1>5. settled = IF derived.type = "eq"
                THEN IF outcome.value = derived.value THEN 1 ELSE 0
                ELSE IF outcome.value > derived.value THEN 1 ELSE 0
  BY SettledTruly, Zenon DEF PredicateIsTrue
<1>6. 1 # 0 /\ "gt" # "eq"
  OBVIOUS
<1>7. settled \in {0, 1}
  BY <1>5, Zenon
<1> QED BY <1>1, <1>3, <1>4, <1>5, <1>6, <1>7, Zenon

\* What is told of a settled predicate, and that it is so where it is settled so.
LEMMA PredicateTold ==
  ASSUME IInv, attested # None, settled # None, NEW form,
         Nameable(id.teams, EventKind(id))
  PROVE  \E claim :
           /\ OutcomeDesc(form, id.teams, EventKind(derived.id), settled) = Told(claim, settled)
           /\ Assertion(form, id.teams, EventKind(derived.id)) =
                IF form = "random" THEN None ELSE Affirm(claim)
           /\ True(Affirm(claim), id.teams, EventKind(id), outcome.value) <=> settled = 1
           /\ True(Deny(claim), id.teams, EventKind(id), outcome.value) <=> settled # 1
<1>1. PICK teams \in Seq(Text), kind \in PlainKind, u \in Word, v \in Word, w \in {0, 1} :
        /\ teams = id.teams /\ kind = EventKind(id) /\ u = derived.value
        /\ v = outcome.value /\ w = settled
        /\ kind.type \in {"vs", "winner"} => Len(teams) = 2 /\ teams[1] # teams[2]
        /\ kind.type = "price" \/ u < NOutcomes(kind)
        /\ kind.type = "price" \/ v < NOutcomes(kind)
        /\ Nameable(teams, kind)
  BY SettledState, DerivedState, AttestedState, SettledKinds, Zenon
<1>2. derived.type = "eq" \/ derived.type = "gt"
  BY SettledState, DerivedState
<1>3. CASE derived.type = "eq"
  <2>1. PICK t : t = OutcomeString(teams, kind, u)
    OBVIOUS
  <2>2. PICK k \in PlainKind : k = Inner(kind)
    BY InnerKinds
  <2>3. EventKind(derived.id) = Eq(k, t) /\ (w = 1 <=> v = u)
    BY <1>1, <1>3, <2>1, <2>2, SettledKinds, Zenon
  <2>4. u = TryFromIdAndOutcome(teams, k, t)
    <3>1. k.type = kind.type /\ k \in Kind
      BY <2>2, InnerKinds, Kinds
    <3>2. t = OutcomeString(teams, k, u) /\ (k.type = "price" \/ u < NOutcomes(k))
      BY <1>1, <2>1, <2>2, InnerOutcomes, Zenon
    <3> QED BY <1>1, <3>1, <3>2, ParsesBack, Zenon
  <2>5. PICK claim : claim = PlainClaim(form, teams, kind, u)
    OBVIOUS
  <2>6. claim = PlainClaim(form, teams, k, u)
    BY <2>2, <2>5, PlainDescribed, Zenon
  <2>7. /\ OutcomeDesc(form, teams, Eq(k, t), w) = Told(claim, w)
        /\ Assertion(form, teams, Eq(k, t)) = IF form = "random" THEN None ELSE Affirm(claim)
    BY <2>4, <2>6, EqualityDescribed
  <2>8. /\ True(Affirm(claim), teams, kind, v) <=> v = u
        /\ True(Deny(claim), teams, kind, v) <=> v # u
    BY <1>1, <2>5, PlainTruth
  <2> QED BY <1>1, <2>3, <2>7, <2>8, Zenon
<1>4. CASE derived.type = "gt"
  <2>1. EventKind(derived.id) = Gt(Price(0), u) /\ (w = 1 <=> v > u)
    BY <1>1, <1>4, SettledKinds, Zenon
  <2>2. u \in Nat /\ v \in Nat
    BY WordsAreNumbers
  <2>3. PICK claim : claim = Above(u)
    OBVIOUS
  <2>4. /\ OutcomeDesc(form, teams, Gt(Price(0), u), w) = Told(claim, w)
        /\ Assertion(form, teams, Gt(Price(0), u)) = IF form = "random" THEN None ELSE Affirm(claim)
    BY <2>3, BoundDescribed
  <2>5. /\ True(Affirm(claim), teams, kind, v) <=> v > u
        /\ True(Deny(claim), teams, kind, v) <=> ~ v > u
    BY <2>2, <2>3, AboveIsTrue, Zenon
  <2> QED BY <1>1, <2>1, <2>4, <2>5, Zenon
<1> QED BY <1>2, <1>3, <1>4

(* Whatever is attested to, descriptions of it are true and their denials   *)
(* are false; so are those of the predicate that is settled by it, and what *)
(* had been asserted of it is what it is attested for (olivia_describe's    *)
(* outcome and event_short).                                                *)
THEOREM AlwaysDescribedTruly == ContractSpec => []DescribedTruly
<1>1. ASSUME IInv PROVE DescribedTruly
  <2> SUFFICES ASSUME attested # None, NEW form \in Form, Nameable(id.teams, EventKind(id))
               PROVE  LET kind == EventKind(id)
                          true(statement) == True(statement, id.teams, kind, outcome.value)
                          fits(desc) == true(desc.positive) /\ ~true(desc.negative)
                      IN /\ ~IsPredicate(kind) =>
                              fits(OutcomeDesc(form, id.teams, kind, outcome.value))
                         /\ settled # None =>
                              LET predicate == EventKind(derived.id)
                                  assertion == Assertion(form, id.teams, predicate)
                              IN /\ fits(OutcomeDesc(form, id.teams, predicate, settled))
                                 /\ assertion # None => (settled = 1 <=> true(assertion))
    BY Zenon DEF DescribedTruly
  <2>1. PICK teams \in Seq(Text), kind \in Kind, v \in Word :
          /\ teams = id.teams /\ kind = EventKind(id) /\ v = outcome.value
          /\ kind.type \in {"vs", "winner"} => Len(teams) = 2 /\ teams[1] # teams[2]
          /\ kind.type = "price" \/ v < NOutcomes(kind)
          /\ Nameable(teams, kind)
          /\ ~IsPredicate(kind) => kind \in PlainKind
    <3>1. /\ id.teams \in Seq(Text) /\ EventKind(id) \in Kind /\ outcome.value \in Word
          /\ EventKind(id).type \in {"vs", "winner"} => Len(id.teams) = 2 /\ id.teams[1] # id.teams[2]
          /\ EventKind(id).type = "price" \/ outcome.value < NOutcomes(EventKind(id))
          /\ ~IsPredicate(EventKind(id)) => EventKind(id) \in PlainKind
      BY <1>1, AttestedState
    <3> QED BY <3>1, Zenon
  <2>2. ASSUME ~IsPredicate(kind)
        PROVE  /\ True(OutcomeDesc(form, teams, kind, v).positive, teams, kind, v)
               /\ ~True(OutcomeDesc(form, teams, kind, v).negative, teams, kind, v)
    <3>1. kind \in PlainKind
      BY <2>1, <2>2
    <3>2. PICK claim : claim = PlainClaim(form, teams, kind, v)
      OBVIOUS
    <3>3. OutcomeDesc(form, teams, kind, v) = [positive |-> Affirm(claim), negative |-> Deny(claim)]
      BY <3>1, <3>2, PlainDescribed, Zenon
    <3>4. True(Affirm(claim), teams, kind, v) /\ ~True(Deny(claim), teams, kind, v)
      BY <2>1, <3>1, <3>2, PlainTruth
    <3>5. OutcomeDesc(form, teams, kind, v).positive = Affirm(claim)
          /\ OutcomeDesc(form, teams, kind, v).negative = Deny(claim)
      BY <3>3
    <3> QED BY <3>4, <3>5, Zenon
  <2>3. ASSUME settled # None
        PROVE  LET desc == OutcomeDesc(form, teams, EventKind(derived.id), settled)
                   assertion == Assertion(form, teams, EventKind(derived.id))
               IN /\ True(desc.positive, teams, kind, v) /\ ~True(desc.negative, teams, kind, v)
                  /\ assertion # None => (settled = 1 <=> True(assertion, teams, kind, v))
    <3>1. PICK claim :
           /\ OutcomeDesc(form, teams, EventKind(derived.id), settled) = Told(claim, settled)
           /\ Assertion(form, teams, EventKind(derived.id)) =
                IF form = "random" THEN None ELSE Affirm(claim)
           /\ True(Affirm(claim), teams, kind, v) <=> settled = 1
           /\ True(Deny(claim), teams, kind, v) <=> settled # 1
      BY <1>1, <2>1, <2>3, PredicateTold, Zenon
    <3>2. /\ Told(claim, settled).positive = IF settled = 1 THEN Affirm(claim) ELSE Deny(claim)
          /\ Told(claim, settled).negative = IF settled = 1 THEN Deny(claim) ELSE Affirm(claim)
      BY DEF Told
    <3>3. True(Told(claim, settled).positive, teams, kind, v)
          /\ ~True(Told(claim, settled).negative, teams, kind, v)
      BY <3>1, <3>2, Zenon
    <3> QED BY <3>1, <3>3, Zenon
  <2> QED BY <2>1, <2>2, <2>3, Zenon
<1> QED BY <1>1, AlwaysComputed, PTL

\* What is promised of a match or a duel is what is attested to in the case.
LEMMA MatchPromises ==
  ASSUME NEW teams \in Seq(Text), Len(teams) = 2, teams[1] # teams[2],
         NEW kind \in PlainKind, NEW v \in Word, NEW form,
         kind.type = "price" \/ v < NOutcomes(kind),
         NEW p \in Promises(form, teams, kind)
  PROVE  True(p.if, teams, kind, v) <=> p.attest = OutcomeString(teams, kind, v)
<1>1. kind.type # "eq" /\ kind \in Kind
  <2>1. kind.type \in {"vs", "winner", "occur", "price"}
    BY PlainKinds, KindFields
  <2> QED BY <2>1, Kinds
<1>2. /\ kind.type \in {"vs", "winner"}
      /\ \/ p = [if |-> Affirm(Beats(teams[1], teams[2])), attest |-> OutcomeString(teams, kind, 0)]
         \/ p = [if |-> Affirm(Beats(teams[2], teams[1])), attest |-> OutcomeString(teams, kind, 1)]
         \/ kind.type = "vs" /\ p = [if |-> Affirm(Draw), attest |-> OutcomeString(teams, kind, 2)]
  BY <1>1, Zenon DEF Promises
<1>3. /\ v \in 0 .. 2 /\ 0 < NOutcomes(kind) /\ 1 < NOutcomes(kind)
      /\ kind.type = "vs" => 2 < NOutcomes(kind)
      /\ kind.type = "winner" => v # 2
  BY <1>2, WordsAreNumbers DEF NOutcomes, NOutcomesForNonce
<1>4. 0 \in Word /\ 1 \in Word /\ 2 \in Word
  BY SmallWords
<1>5. ASSUME NEW u \in Word, u < NOutcomes(kind)
      PROVE  OutcomeString(teams, kind, u) = OutcomeString(teams, kind, v) <=> v = u
  <2>1. TryFromIdAndOutcome(teams, kind, OutcomeString(teams, kind, u)) = u
    BY <1>1, <1>5, ParsesBack
  <2>2. TryFromIdAndOutcome(teams, kind, OutcomeString(teams, kind, v)) = v
    BY <1>1, ParsesBack
  <2> QED BY <2>1, <2>2, Zenon
<1>6. v = 0 \/ v = 1 \/ v = 2
  BY <1>3
<1>7. CASE p = [if |-> Affirm(Beats(teams[1], teams[2])), attest |-> OutcomeString(teams, kind, 0)]
  <2>1. p.if = Affirm(Beats(teams[1], teams[2])) /\ p.attest = OutcomeString(teams, kind, 0)
    BY <1>7
  <2>2. True(Affirm(Beats(teams[1], teams[2])), teams, kind, v) <=> v = 0
    BY <1>6, BeatsIsTrue
  <2> QED BY <1>3, <1>4, <1>5, <2>1, <2>2, Zenon
<1>8. CASE p = [if |-> Affirm(Beats(teams[2], teams[1])), attest |-> OutcomeString(teams, kind, 1)]
  <2>1. p.if = Affirm(Beats(teams[2], teams[1])) /\ p.attest = OutcomeString(teams, kind, 1)
    BY <1>8
  <2>2. True(Affirm(Beats(teams[2], teams[1])), teams, kind, v) <=> v = 1
    BY <1>6, BeatsIsTrue
  <2> QED BY <1>3, <1>4, <1>5, <2>1, <2>2, Zenon
<1>9. CASE kind.type = "vs" /\ p = [if |-> Affirm(Draw), attest |-> OutcomeString(teams, kind, 2)]
  <2>1. p.if = Affirm(Draw) /\ p.attest = OutcomeString(teams, kind, 2)
    BY <1>9
  <2>2. True(Affirm(Draw), teams, kind, v) <=> v = 2
    BY <1>9, DrawIsTrue
  <2> QED BY <1>3, <1>4, <1>5, <1>9, <2>1, <2>2, Zenon
<1> QED BY <1>2, <1>7, <1>8, <1>9

\* What is promised of a predicate is what it will be attested for in the case.
LEMMA PredicatePromises ==
  ASSUME NEW teams, NEW kind, NEW k, NEW v, NEW form, NEW claim, NEW w \in {0, 1},
         k.type \in {"eq", "gt"},
         Assertion(form, teams, k) = IF form = "random" THEN None ELSE Affirm(claim),
         True(Affirm(claim), teams, kind, v) <=> w = 1,
         True(Deny(claim), teams, kind, v) <=> w # 1,
         NEW p \in Promises(form, teams, k)
  PROVE  True(p.if, teams, kind, v) <=> p.attest = OutcomeString(teams, k, w)
<1>1. k.type # "vs" /\ k.type # "winner"
  OBVIOUS
<1>2. /\ form # "random"
      /\ \/ p = [if |-> Assertion(form, teams, k), attest |-> OutcomeString(teams, k, 1)]
         \/ p = [if |-> [Assertion(form, teams, k) EXCEPT !.holds = ~@],
                 attest |-> OutcomeString(teams, k, 0)]
  BY <1>1, Zenon DEF Promises
<1>3. Assertion(form, teams, k) = Affirm(claim)
  BY <1>2
<1>4. [Affirm(claim) EXCEPT !.holds = ~@] = Deny(claim)
  <2>1. Affirm(claim).holds = TRUE
    BY DEF Affirm
  <2>2. (~Affirm(claim).holds) = FALSE
    BY <2>1, Zenon
  <2>3. [Affirm(claim) EXCEPT !.holds = ~@] = [Affirm(claim) EXCEPT !.holds = FALSE]
    BY <2>2, Zenon
  <2>4. \A so, x : [[claim |-> claim, holds |-> so] EXCEPT !.holds = x] = [claim |-> claim, holds |-> x]
    OBVIOUS
  <2>5. [Affirm(claim) EXCEPT !.holds = FALSE] = Deny(claim)
    BY <2>4, Zenon DEF Affirm, Deny
  <2> QED BY <2>3, <2>5, Zenon
<1>5. IsPredicate(k)
  BY DEF IsPredicate
<1>6. \A u : OutcomeString(teams, k, u) = IF u = 0 THEN <<"false">> ELSE <<"true">>
  BY <1>5, WrittenAs, Zenon
<1>7. <<"false">> # <<"true">> /\ 0 # 1
  OBVIOUS
<1>8. \A u \in {0, 1} : OutcomeString(teams, k, u) = OutcomeString(teams, k, w) <=> u = w
  BY <1>6, <1>7
<1>9. CASE p = [if |-> Affirm(claim), attest |-> OutcomeString(teams, k, 1)]
  <2>1. p.if = Affirm(claim) /\ p.attest = OutcomeString(teams, k, 1)
    BY <1>9
  <2> QED BY <1>8, <2>1
<1>10. CASE p = [if |-> Deny(claim), attest |-> OutcomeString(teams, k, 0)]
  <2>1. p.if = Deny(claim) /\ p.attest = OutcomeString(teams, k, 0)
    BY <1>10
  <2> QED BY <1>8, <2>1
<1> QED BY <1>2, <1>3, <1>4, <1>9, <1>10, Zenon

(* What people are promised that the oracle will attest to, in a case, is   *)
(* what it has attested to when the case has come about, and not when it    *)
(* has not (olivia_describe's event_html).                                  *)
THEOREM PromisesAlwaysKept == ContractSpec => []PromisesKept
<1>1. ASSUME IInv PROVE PromisesKept
  <2> SUFFICES ASSUME attested # None, NEW form \in Form, Nameable(id.teams, EventKind(id))
               PROVE  LET kind == EventKind(id)
                      IN /\ \A p \in Promises(form, id.teams, kind) : ~IsPredicate(kind) =>
                              (True(p.if, id.teams, kind, outcome.value) <=> p.attest = attested.outcome)
                         /\ settled # None =>
                              LET predicate == EventKind(derived.id) IN
                              \A p \in Promises(form, id.teams, predicate) :
                                True(p.if, id.teams, kind, outcome.value) <=>
                                  p.attest = OutcomeString(id.teams, predicate, settled)
    BY Zenon DEF PromisesKept
  <2>1. PICK teams \in Seq(Text), kind \in Kind, v \in Word :
          /\ teams = id.teams /\ kind = EventKind(id) /\ v = outcome.value
          /\ kind.type \in {"vs", "winner"} => Len(teams) = 2 /\ teams[1] # teams[2]
          /\ kind.type = "price" \/ v < NOutcomes(kind)
          /\ attested.outcome = OutcomeString(teams, kind, v)
          /\ ~IsPredicate(kind) => kind \in PlainKind
    <3>1. /\ id.teams \in Seq(Text) /\ EventKind(id) \in Kind /\ outcome.value \in Word
          /\ EventKind(id).type \in {"vs", "winner"} => Len(id.teams) = 2 /\ id.teams[1] # id.teams[2]
          /\ EventKind(id).type = "price" \/ outcome.value < NOutcomes(EventKind(id))
          /\ attested.outcome = OutcomeString(id.teams, EventKind(id), outcome.value)
          /\ ~IsPredicate(EventKind(id)) => EventKind(id) \in PlainKind
      BY <1>1, AttestedState
    <3> QED BY <3>1, Zenon
  <2>2. ASSUME ~IsPredicate(kind), NEW p \in Promises(form, teams, kind)
        PROVE  True(p.if, teams, kind, v) <=> p.attest = attested.outcome
    <3>1. kind \in PlainKind /\ kind.type # "eq"
      BY <2>1, <2>2 DEF IsPredicate
    <3>2. kind.type \in {"vs", "winner"}
      BY <2>2, <3>1, Zenon DEF Promises
    <3> QED BY <2>1, <2>2, <3>1, <3>2, MatchPromises
  <2>3. ASSUME settled # None, NEW p \in Promises(form, teams, EventKind(derived.id))
        PROVE  True(p.if, teams, kind, v)
                 <=> p.attest = OutcomeString(teams, EventKind(derived.id), settled)
    <3>1. PICK claim :
           /\ Assertion(form, teams, EventKind(derived.id)) =
                IF form = "random" THEN None ELSE Affirm(claim)
           /\ True(Affirm(claim), teams, kind, v) <=> settled = 1
           /\ True(Deny(claim), teams, kind, v) <=> settled # 1
      BY <1>1, <2>1, <2>3, PredicateTold, Zenon
    <3>2. EventKind(derived.id).type \in {"eq", "gt"} /\ settled \in {0, 1}
      <4>1. derived.type = "eq" \/ derived.type = "gt"
        BY <1>1, <2>3, SettledState, DerivedState
      <4>2. settled \in {0, 1} /\ (\E k, t : EventKind(derived.id) = Eq(k, t) \/ EventKind(derived.id) = Gt(k, t))
        BY <1>1, <2>3, <4>1, SettledKinds, Zenon
      <4> QED BY <4>2, KindFields
    <3> QED BY <2>3, <3>1, <3>2, PredicatePromises
  <2> QED BY <2>1, <2>2, <2>3, Zenon
<1> QED BY <1>1, AlwaysComputed, PTL
=============================================================================
