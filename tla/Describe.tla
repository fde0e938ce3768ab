------------------------------ MODULE Describe ------------------------------
(***************************************************************************)
(* What people are told about events and outcomes: olivia_describe.        *)
(*                                                                         *)
(* A description is kept as what it claims of the event's outcome, not in  *)
(* words.  Team names and competitions are looked up for display; here     *)
(* they stay as they are.                                                  *)
(***************************************************************************)
EXTENDS Outcomes

\* What the code tells paths apart by: /s/<competition>/match/<date>/<teams>,
\* /random/<time>/.., or anything else.
Form == {"match", "random", "other"}

Beats(winner, loser) == [claim |-> "beats", winner |-> winner, loser |-> loser]
Draw                 == [claim |-> "draw"]
Is(text)             == [claim |-> "is", text |-> text]
Above(bound)         == [claim |-> "above", bound |-> bound]

\* A claim, or its denial.
Affirm(claim) == [claim |-> claim, holds |-> TRUE]
Deny(claim)   == [claim |-> claim, holds |-> FALSE]

MaybeNegate(desc, negate) ==
  IF negate THEN [positive |-> desc.negative, negative |-> desc.positive] ELSE desc

\* Mutant: the two of a match are always named in the order of the path.
MatchClaim_InOrder(teams, kind, text) ==
  IF text = <<"draw">> THEN Draw ELSE Beats(teams[1], teams[2])

\* The outcome of a match or a duel, from its text; the text "draw" is looked
\* for first, whichever of them it is.
MatchClaim(teams, kind, text) ==
  LET winner == IF kind.type = "vs" THEN SubSeq(text, 1, Len(text) - 2) ELSE text
  IN IF text = <<"draw">> THEN Draw
     ELSE IF winner = teams[1] THEN Beats(teams[1], teams[2])
                               ELSE Beats(teams[2], teams[1])

\* outcome(): what it means that this outcome has come about, or not; of an
\* equality, what it means for what it is about.
PlainDesc(form, teams, kind, value) ==
  LET text  == OutcomeString(teams, kind, value)
      claim == IF form = "match" /\ kind.type \in {"vs", "winner"}
               THEN MatchClaim(teams, kind, text)
               ELSE IF kind.type = "gt" THEN Above(kind.bound) ELSE Is(text)
  IN MaybeNegate([positive |-> Affirm(claim), negative |-> Deny(claim)],
                 IsPredicate(kind) /\ text = <<"false">>)

OutcomeDesc(form, teams, kind, value) ==
  IF kind.type # "eq" THEN PlainDesc(form, teams, kind, value)
  ELSE MaybeNegate(PlainDesc(form, teams, kind.inner,
                             TryFromIdAndOutcome(teams, kind.inner, kind.target)),
                   OutcomeString(teams, kind, value) = <<"false">>)

\* event_short() of a predicate: "assertion that ..".
Assertion(form, teams, kind) ==
  IF form = "random" THEN None
  ELSE IF kind.type = "gt" THEN Affirm(Above(kind.bound))
  ELSE OutcomeDesc(form, teams, kind.inner,
                   TryFromIdAndOutcome(teams, kind.inner, kind.target)).positive

\* Mutant: the winners are listed the other way round.
Promises_Swapped(form, teams, kind) ==
  LET promise(claim, value) == [if |-> Affirm(claim), attest |-> OutcomeString(teams, kind, value)]
  IN IF form = "match" /\ kind.type \in {"vs", "winner"}
     THEN {promise(Beats(teams[2], teams[1]), 0), promise(Beats(teams[1], teams[2]), 1)}
     ELSE {}

\* event_html(): "if .. the oracle will attest ..".  Otherwise, for a match, it
\* will attest to a draw; for an equality, to "false".
Promises(form, teams, kind) ==
  LET promise(if, value) == [if |-> if, attest |-> OutcomeString(teams, kind, value)]
      whether == Assertion(form, teams, kind)
  IN CASE form = "match" /\ kind.type \in {"vs", "winner"} ->
            {promise(Affirm(Beats(teams[1], teams[2])), 0),
             promise(Affirm(Beats(teams[2], teams[1])), 1)}
            \union (IF kind.type = "vs" THEN {promise(Affirm(Draw), 2)} ELSE {})
       [] form # "random" /\ kind.type = "eq" ->
            {promise(whether, 1), promise([whether EXCEPT !.holds = ~@], 0)}
       [] OTHER -> {}

-----------------------------------------------------------------------------
\* Whether a statement is true of an event that has come out with this value.
True(statement, teams, kind, value) ==
  LET claim == statement.claim
      so == CASE claim.claim = "draw"  -> kind.type = "vs" /\ value = 2
              [] claim.claim = "beats" ->
                   \/ value = 0 /\ claim.winner = teams[1] /\ claim.loser = teams[2]
                   \/ value = 1 /\ claim.winner = teams[2] /\ claim.loser = teams[1]
              [] claim.claim = "is"    -> claim.text = OutcomeString(teams, kind, value)
              [] claim.claim = "above" -> value > claim.bound
  IN so = statement.holds

\* A duel with someone called "draw" is described as if it could be drawn.
Nameable(teams, kind) == kind.type = "winner" => <<"draw">> \notin Range(teams)

(* People are told the truth: what outcome() says of an attested outcome,   *)
(* and of the settled predicate of the event, is true of how the event came *)
(* out, and its denial false; and event_short() had asserted of a predicate *)
(* just what it is attested for.                                            *)
DescribedTruly ==
  attested # None =>
    LET kind == EventKind(id)
        true(statement) == True(statement, id.teams, kind, outcome.value)
        fits(desc) == true(desc.positive) /\ ~true(desc.negative)
    IN \A form \in Form : Nameable(id.teams, kind) =>
         /\ ~IsPredicate(kind) => fits(OutcomeDesc(form, id.teams, kind, outcome.value))
         /\ settled # None =>
              LET predicate == EventKind(derived.id)
                  assertion == Assertion(form, id.teams, predicate)
              IN /\ fits(OutcomeDesc(form, id.teams, predicate, settled))
                 /\ assertion # None => (settled = 1 <=> true(assertion))

(* event_html() promises what the oracle will attest to in every case it    *)
(* names; when the case has come about, that is what has been attested to.  *)
PromisesKept ==
  attested # None =>
    LET kind == EventKind(id) IN
    \A form \in Form : Nameable(id.teams, kind) =>
      /\ \A p \in Promises(form, id.teams, kind) : ~IsPredicate(kind) =>
           (True(p.if, id.teams, kind, outcome.value) <=> p.attest = attested.outcome)
      /\ settled # None =>
           LET predicate == EventKind(derived.id) IN
           \A p \in Promises(form, id.teams, predicate) :
             True(p.if, id.teams, kind, outcome.value) <=>
               p.attest = OutcomeString(id.teams, predicate, settled)
=============================================================================
