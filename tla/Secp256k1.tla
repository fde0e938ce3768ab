----------------------------- MODULE Secp256k1 -----------------------------
(***************************************************************************)
(* The group of olivia_secp256k1, as far as attestations go: key pairs,    *)
(* one-time nonces, and scalars that are revealed, verified and            *)
(* anticipated.                                                            *)
(*                                                                         *)
(* A point is named by its discrete logarithm, so that k*G is k, adding    *)
(* points is adding modulo Order, and a point and its negation are k and   *)
(* Order - k.  Public keys and nonces are x-only: an x coordinate is       *)
(* shared by the two, and stands for the one whose y is even.              *)
(***************************************************************************)
EXTENDS Integers

CONSTANTS
  Order,  \* the order of the group, a prime
  EvenY   \* the points whose y coordinate is even

Scalar  == 0 .. Order - 1
NonZero == 1 .. Order - 1

ASSUME Secp256k1Assumption ==
  /\ Order \in Nat /\ Order > 2
  /\ EvenY \subseteq NonZero
  /\ \A k \in NonZero : k \in EvenY <=> (Order - k) \notin EvenY
  /\ \A a, b \in NonZero : \A w \in Scalar : a * b # Order * w   \* a prime

\* XOnly: what the point k has in common with its negation.
XOnly(k) == {k, Order - k}

\* XOnly::to_point
ToPoint(x) == CHOOSE k \in x : k \in EvenY

\* Mutant: the secret is kept as it came.
KeyPair_Unnegated(k) == [secret |-> k, public |-> XOnly(k)]

\* Schnorr::new_keypair and XOnly::from_scalar_mul negate the secret where
\* its point has an odd y.
KeyPair(k) ==
  [secret |-> IF k \in EvenY THEN k ELSE Order - k, public |-> XOnly(k)]

\* keypair_from_secret_bytes and nonce_keypair_from_secret_bytes.
KeyPairFromSecretBytes(bytes) == KeyPair(bytes % Order)

RevealAttestScalar(keypair, nonce, index) ==
  ((index + 1) * nonce.secret + keypair.secret) % Order

\* Mutant: any scalar the nonce can give is taken.
VerifyAttestScalar_AnyIndex(public, nonce, index, scalar) ==
  \E i \in Scalar : scalar = ((i + 1) * ToPoint(nonce) + ToPoint(public)) % Order

VerifyAttestScalar(public, nonce, index, scalar) ==
  scalar = ((index + 1) * ToPoint(nonce) + ToPoint(public)) % Order

\* One point per outcome; the nonce is added once more for each.
AnticipateAttestations(public, nonce, n) ==
  LET C[i \in 0 .. n] == IF i = 0 THEN ToPoint(public)
                                  ELSE (C[i - 1] + ToPoint(nonce)) % Order
  IN [i \in 1 .. n |-> C[i]]
=============================================================================
