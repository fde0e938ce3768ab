------------------------------ MODULE Outcomes ------------------------------
(***************************************************************************)
(* What an event id and an outcome mean: parsing of event kinds and ids,   *)
(* outcome strings, the indexes an outcome is attested with, and the       *)
(* predicates derived from an event (olivia_core's event.rs, outcome.rs).  *)
(*                                                                         *)
(* The actions follow one event: its id comes in as text, a predicate of   *)
(* it may be derived, an outcome is reported as text, attested to, and the *)
(* predicate is settled by it.  Contract puts them together.               *)
(*                                                                         *)
(* A text is a sequence of tokens, cut where the parsers cut: the path's   *)
(* last name at its underscores into teams, the kind at ?, = and _.  The   *)
(* u64 of the code is a word of Width bits, 64 in the code.                *)
(***************************************************************************)
EXTENDS Integers, SequencesExt

CONSTANTS
  Width,     \* the bits of an outcome's value (64)
  Token,     \* what texts consist of
  TeamTexts, \* the last names of paths that come in, as sequences of teams
  KindTexts, \* the texts after the dot that come in
  Reports,   \* the texts of outcomes that come in
  NumberOf,  \* what a numeral parses to; several numerals may mean a number
  Decimal,   \* the numeral a number is displayed as
  Invalid,   \* a parse error
  Panics,    \* the parser panics
  None       \* Rust's None

\* The powers of two: what a bit is worth.
Pow2[n \in Nat] == IF n = 0 THEN 1 ELSE 2 * Pow2[n - 1]

Word == 0 .. Pow2[Width] - 1

Text == Seq(Token)

-----------------------------------------------------------------------------
(* Event kinds.                                                            *)

Vs       == [type |-> "vs"]
Winner   == [type |-> "winner"]
Occur    == [type |-> "occur"]
Price(n) == [type |-> "price", digits |-> n]
Eq(k, t) == [type |-> "eq", inner |-> k, target |-> t]
Gt(k, v) == [type |-> "gt", inner |-> k, bound |-> v]

PlainKind == {Vs, Winner, Occur} \union {Price(n) : n \in 0 .. Width}
BoundKind == {Gt(Price(0), v) : v \in Word}
Kind      == PlainKind \union BoundKind
               \union [type : {"eq"}, inner : PlainKind \union BoundKind, target : Text]

EventId == [teams : TeamTexts, kind : KindTexts]

ASSUME OutcomesAssumption ==
  /\ Width \in Nat /\ Width > 1
  /\ {"?", "=", "_", "win", "draw", "true", "false"} \subseteq Token
  /\ {"vs", "winner", "occur", "price", "n"} \subseteq Token
  /\ TeamTexts \subseteq Seq(Text) \ {<<>>}
  /\ KindTexts \subseteq Text /\ Reports \subseteq Text
  /\ \A v \in Word : /\ Decimal[v] \in Token \ {"?", "=", "_"}
                      /\ Decimal[v] \in DOMAIN NumberOf /\ NumberOf[Decimal[v]] = v
  /\ {Invalid, Panics} \intersect (Kind \union EventId \union Word) = {}

IsPredicate(kind) == kind.type \in {"eq", "gt"}

\* What is before and after the first sep: str::split_once, or the whole.
Cut(text, sep) ==
  LET i == SelectInSeq(text, LAMBDA t : t = sep)
  IN IF i = 0 THEN <<text>>
              ELSE <<SubSeq(text, 1, i - 1), SubSeq(text, i + 1, Len(text))>>

\* str::parse of an unsigned integer.
Number(text) ==
  IF Len(text) = 1 /\ text[1] \in DOMAIN NumberOf /\ NumberOf[text[1]] \in Word
  THEN NumberOf[text[1]] ELSE Invalid

\* What can be parsed is a plain kind, a bound on a price, or an equality on
\* either of them.
Display(kind) ==
  LET plain(k) == IF k.type # "price" THEN <<k.type>>
                  ELSE IF k.digits = 0 THEN <<"price">>
                                       ELSE <<"price", "?", "n", "=", Decimal[k.digits]>>
      bound(k) == IF k.type = "gt" THEN plain(k.inner) \o <<"_", Decimal[k.bound]>>
                                   ELSE plain(k)
  IN IF kind.type = "eq" THEN bound(kind.inner) \o <<"=">> \o kind.target ELSE bound(kind)

\* The digits of a price, from the arguments after the question mark.
Digits(args) ==
  LET arg == Cut(args, "=")
      n   == IF Len(arg) = 2 THEN Number(arg[2]) ELSE Invalid
  IN IF "&" \in Range(args) \/ arg[1] # <<"n">> \/ n \notin 1 .. Width
     THEN Invalid ELSE n

\* A kind without arguments.  Of a predicate, what it is about is parsed again:
\* there are no equality signs before the first, and no underscores either.
FromWord(name) ==
  CASE name = <<"price">>  -> Price(0)
    [] name = <<"vs">>     -> Vs
    [] name = <<"winner">> -> Winner
    [] name = <<"occur">>  -> Occur
    [] OTHER               -> Invalid

FromBound(name) ==
  LET cut   == Cut(name, "_")
      bound == Number(cut[2])
  IN IF Len(cut) = 1 THEN FromWord(name)
     ELSE IF bound = Invalid \/ FromWord(cut[1]) # Price(0) THEN Invalid
     ELSE Gt(Price(0), bound)

FromName(name) ==
  LET cut   == Cut(name, "=")
      inner == FromBound(cut[1])
  IN IF Len(cut) = 1 \/ inner = Invalid THEN inner ELSE Eq(inner, cut[2])

FromStr(text) ==
  LET cut    == Cut(text, "?")
      digits == Digits(cut[2])
  IN IF Len(cut) = 1 THEN FromName(text)
     ELSE IF cut[1] # <<"price">> \/ digits = Invalid THEN Invalid ELSE Price(digits)

\* EventId::event_kind parses the text anew whenever it is asked.
EventKind(e) == FromStr(e.kind)

NNonces(kind) == IF kind.type = "price" THEN kind.digits ELSE 1

NOutcomesForNonce(kind) ==
  CASE kind.type = "vs" -> 3 [] kind.type = "occur" -> 1 [] OTHER -> 2

NOutcomes(kind) == IF kind.type = "price" THEN Pow2[Width] - 1 ELSE NOutcomesForNonce(kind)

-----------------------------------------------------------------------------
(* Outcomes.                                                               *)

Winning(team) == team \o <<"_", "win">>

Index(tests) == IF \E i \in DOMAIN tests : tests[i]
                THEN SelectInSeq(tests, LAMBDA t : t) - 1 ELSE Invalid

\* Outcome::try_from_id_and_outcome, of an id with these teams and kind; it
\* panics where parties() does not find two teams.
TryFromIdAndOutcome(teams, kind, text) ==
  CASE kind.type = "occur" -> IF text = <<"true">> THEN 0 ELSE Invalid
    [] kind.type \in {"vs", "winner"} /\ Len(teams) < 2 -> Panics
    [] kind.type = "vs" /\ Len(teams) >= 2 ->
         Index(<<text = Winning(teams[1]), text = Winning(teams[2]), text = <<"draw">> >>)
    [] kind.type = "winner" /\ Len(teams) >= 2 ->
         Index(<<text = teams[1], text = teams[2]>>)
    [] kind.type = "price" -> Number(text)
    [] IsPredicate(kind) -> Index(<<text = <<"false">>, text = <<"true">> >>)

OutcomeString(teams, kind, value) ==
  CASE kind.type = "occur" -> <<"true">>
    [] kind.type = "vs"    -> IF value = 2 THEN <<"draw">> ELSE Winning(teams[value + 1])
    [] kind.type = "winner" -> teams[value + 1]
    [] kind.type = "price" -> <<Decimal[value]>>
    [] IsPredicate(kind)   -> IF value = 0 THEN <<"false">> ELSE <<"true">>

\* Mutant: a bit keeps its weight.
AttestationIndexes_Weighted(kind, value) ==
  IF kind.type = "price"
  THEN [i \in 1 .. kind.digits |->
          ((value \div Pow2[kind.digits - i]) % 2) * Pow2[kind.digits - i]]
  ELSE <<value>>

\* Mutant: a value beyond the digits loses its high bits.
AttestationIndexes_Unclamped(kind, value) ==
  IF kind.type = "price"
  THEN [i \in 1 .. kind.digits |-> (value \div Pow2[kind.digits - i]) % 2]
  ELSE <<value>>

\* The first digit is the most significant one.  The cap is u64::MAX shifted
\* by 64 - n, which checked_shr refuses at n = 0.
AttestationIndexes(kind, value) ==
  LET cap    == IF kind.digits = 0 THEN 0 ELSE (Pow2[Width] - 1) \div Pow2[Width - kind.digits]
      capped == IF value < cap THEN value ELSE cap
  IN IF kind.type = "price"
     THEN [i \in 1 .. kind.digits |-> (capped \div Pow2[kind.digits - i]) % 2]
     ELSE <<value>>

\* EventId::descriptor, where it is an Enum.
Descriptor(teams, kind) ==
  CASE kind.type = "winner" -> <<teams[1], teams[2]>>
    [] kind.type = "vs"     -> <<Winning(teams[1]), Winning(teams[2]), <<"draw">> >>
    [] kind.type = "occur"  -> << <<"true">> >>
    [] IsPredicate(kind)    -> << <<"true">>, <<"false">> >>

-----------------------------------------------------------------------------
(* Event ids and predicates.                                               *)

\* A predicate equals an outcome of the event it is of.
TryFromEq(e, kind) ==
  LET o == TryFromIdAndOutcome(e.teams, kind.inner, kind.target)
  IN IF o \in {Invalid, Panics} THEN o ELSE e

TryFromTeams(e) ==
  IF Len(e.teams) = 2 /\ e.teams[1] # e.teams[2] THEN e ELSE Invalid

\* Mutant: the teams of a match are not compared.
TryFrom_AnyTeams(e) ==
  LET kind == EventKind(e)
  IN IF kind = Invalid THEN Invalid
     ELSE CASE kind.type = "eq" -> TryFromEq(e, kind)
            [] kind.type \in {"vs", "winner"} -> IF Len(e.teams) = 2 THEN e ELSE Invalid
            [] OTHER -> e

\* EventId::try_from.  The teams are only looked at for the kinds themselves.
TryFrom(e) ==
  LET kind == EventKind(e)
  IN IF kind = Invalid THEN Invalid
     ELSE CASE kind.type = "eq" -> TryFromEq(e, kind)
            [] kind.type \in {"vs", "winner"} -> TryFromTeams(e)
            [] OTHER -> e

\* Mutant: a predicate of a price keeps its digits.
Predicate_Digits(e, type, value) ==
  LET kind == EventKind(e)
  IN [e EXCEPT !.kind = Display(
        IF type = "eq" THEN Eq(kind, OutcomeString(e.teams, kind, value)) ELSE Gt(kind, value))]

\* EventId::predicate puts the text together and does not check it.
Predicate(e, type, value) ==
  LET kind  == EventKind(e)
      inner == IF kind.type = "price" THEN Price(0) ELSE kind
  IN [e EXCEPT !.kind = Display(
        IF type = "eq" THEN Eq(inner, OutcomeString(e.teams, kind, value))
                       ELSE Gt(inner, value))]

\* Predicate::predicate_outcome
PredicateOutcome(kind, text) ==
  IF kind.type = "eq" THEN IF text = kind.target THEN 1 ELSE 0
                      ELSE IF Number(text) > kind.bound THEN 1 ELSE 0

-----------------------------------------------------------------------------
VARIABLES
  id,        \* the event id that has come in, or None
  parsed,    \* what EventId::try_from makes of it: itself, Invalid or Panics
  derived,   \* a predicate of it [id, type, value], or None
  outcome,   \* [text, value] as reported and parsed, or None
  attested,  \* the attestation [outcome, indexes], or None
  settled    \* the value of the outcome of the predicate, or None

vars == <<id, parsed, derived, outcome, attested, settled>>

Accepted == id # None /\ parsed = id

\* A predicate, an outcome and an attestation, as below.
Derivation  == [id : [teams : TeamTexts, kind : Text], type : {"eq", "gt"}, value : Word]
Outcome     == [text : Reports, value : Word \union {Invalid}]
Attestation == [outcome : Text, indexes : Seq(0 .. 2)]

ASSUME NoneIsNothing ==
  None \notin EventId \union Derivation \union Outcome \union Attestation \union {0, 1}

TypeOK ==
  /\ id \in EventId \union {None}
  /\ parsed \in {Invalid, Panics, id}
  /\ derived \in Derivation \union {None}
  /\ outcome \in Outcome \union {None}
  /\ attested \in Attestation \union {None}
  /\ settled \in {0, 1, None}

Init ==
  /\ id = None /\ parsed = None /\ derived = None /\ outcome = None
  /\ attested = None /\ settled = None

\* An id comes in: from the wire, an URL or the database.
Receive(teams, text) ==
  /\ id = None
  /\ id' = [teams |-> teams, kind |-> text]
  /\ parsed' = TryFrom(id')
  /\ UNCHANGED <<derived, outcome, attested, settled>>

\* Predicate::apply_to_event_id, for one of the outcomes of the event.
Derive(type, value) ==
  /\ Accepted /\ derived = None /\ outcome = None
  /\ ~IsPredicate(EventKind(id))
  /\ value \in 0 .. NOutcomes(EventKind(id)) - 1
  /\ derived' = [id |-> Predicate(id, type, value), type |-> type, value |-> value]
  /\ UNCHANGED <<id, parsed, outcome, attested, settled>>

\* WireEventOutcome becomes a StampedOutcome.
Report(text) ==
  /\ Accepted /\ outcome = None
  /\ outcome' = [text  |-> text,
                 value |-> TryFromIdAndOutcome(id.teams, EventKind(id), text)]
  /\ UNCHANGED <<id, parsed, derived, attested, settled>>

Reported == outcome # None /\ outcome.value # Invalid

Attest ==
  /\ Accepted /\ Reported /\ attested = None
  /\ attested' = [outcome |-> OutcomeString(id.teams, EventKind(id), outcome.value),
                  indexes |-> AttestationIndexes(EventKind(id), outcome.value)]
  /\ UNCHANGED <<id, parsed, derived, outcome, settled>>

\* The predicate is in the database, so its id has been read from there.
Settleable ==
  derived # None /\ TryFrom(derived.id) \notin {Invalid, Panics} /\ attested # None

\* Mutant: the outcome is compared as it was reported.
Settle_AsReported ==
  /\ Settleable /\ settled = None
  /\ settled' = PredicateOutcome(EventKind(derived.id), outcome.text)
  /\ UNCHANGED <<id, parsed, derived, outcome, attested>>

\* CompleteRelated::complete_related, for the predicate.
Settle ==
  /\ Settleable /\ settled = None
  /\ settled' = PredicateOutcome(EventKind(derived.id),
                  OutcomeString(id.teams, EventKind(id), outcome.value))
  /\ UNCHANGED <<id, parsed, derived, outcome, attested>>

-----------------------------------------------------------------------------
(* Properties.                                                             *)

(* Every outcome of an accepted event can be reported and attested to: its   *)
(* outcome string parses back to it, as verify_olivia_v1_attestation needs,  *)
(* so no two outcomes are written alike.                                     *)
OutcomesParseBack ==
  Accepted =>
    LET kind == EventKind(id) IN
    \A v \in Word : kind.type = "price" \/ v < NOutcomes(kind) =>
      TryFromIdAndOutcome(id.teams, kind, OutcomeString(id.teams, kind, v)) = v

(* There is an index for every announced nonce, each is one of the outcomes  *)
(* that were anticipated for it, and together the digits of a price decode   *)
(* to the price, or to the largest that fits (attestation_indexes).          *)
IndexesDecode ==
  LET kind    == EventKind(id)
      n       == NNonces(kind)
      largest == Pow2[n] - 1
      decoded[i \in 0 .. n] ==
        IF i = 0 THEN 0 ELSE 2 * decoded[i - 1] + attested.indexes[i]
  IN attested # None =>
       /\ Len(attested.indexes) = n
       /\ \A i \in 1 .. n : attested.indexes[i] < NOutcomesForNonce(kind)
       /\ kind.type = "price" =>
            decoded[n] = IF outcome.value <= largest THEN outcome.value ELSE largest

(* A predicate that is derived from an event gets an id that the parser      *)
(* accepts, for it is stored and read back: bounds on prices, equalities on  *)
(* any event, as long as no team has a question mark in its name, which      *)
(* cuts the kind in two.                                                     *)
DerivedIsAccepted ==
  derived # None =>
    LET bounded  == derived.type = "gt" => EventKind(id).type = "price"
        unmarked == \A i \in DOMAIN id.teams : "?" \notin Range(id.teams[i])
    IN bounded /\ unmarked => TryFrom(derived.id) = derived.id

(* A predicate is settled by what it says of the outcome's value, whichever  *)
(* way the outcome was written when it was reported and whatever text the    *)
(* predicate's id went through.                                              *)
PredicateIsTrue ==
  settled # None =>
    settled = IF derived.type = "eq"
              THEN IF outcome.value = derived.value THEN 1 ELSE 0
              ELSE IF outcome.value > derived.value THEN 1 ELSE 0
=============================================================================
