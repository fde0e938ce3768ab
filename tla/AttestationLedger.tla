------------------------- MODULE AttestationLedger -------------------------
(***************************************************************************)
(* What an oracle promises to the people who rely on it, with none of the  *)
(* machinery: events are announced, an announced event is attested to at   *)
(* most once, and neither the announcement nor the attestation is ever     *)
(* withdrawn or replaced.  A contract that depends on an event stays       *)
(* secure only as long as this holds: the one-time nonce of an announced   *)
(* event may sign one outcome.                                             *)
(***************************************************************************)

CONSTANTS Event,     \* the events that may be announced
          Outcome,   \* the outcomes that may be attested to
          None       \* not an outcome: no attestation yet

VARIABLES announced, \* the set of events announced so far
          attested   \* for each event the outcome attested to, or None

ledger == <<announced, attested>>

LedgerInit ==
  /\ announced = {}
  /\ attested = [e \in Event |-> None]

Announce(e) ==
  /\ e \notin announced
  /\ announced' = announced \union {e}
  /\ UNCHANGED attested

Attest(e, o) ==
  /\ e \in announced
  /\ attested[e] = None
  /\ attested' = [attested EXCEPT ![e] = o]
  /\ UNCHANGED announced

LedgerNext ==
  \E e \in Event : Announce(e) \/ \E o \in Outcome : Attest(e, o)

LedgerSpec == LedgerInit /\ [][LedgerNext]_ledger
=============================================================================
