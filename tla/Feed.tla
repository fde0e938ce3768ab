-------------------------------- MODULE Feed --------------------------------
(***************************************************************************)
(* The external feed: events and outcomes that another program pushes onto *)
(* Redis lists, taken off by sources/redis.rs, multiplied by the predicate *)
(* and complete_related wrappers of config_impls.rs, and handled one by    *)
(* one by oracle_loop.rs, with Postgres behind it.                         *)
(*                                                                         *)
(*   list --BLPOP thread--> channel --wrapper--> oracle loop --> ledger    *)
(*                                                                         *)
(* The lists and the database outlive the daemon, everything between them  *)
(* is lost when it crashes.  The loop is the only writer, so a whole       *)
(* add_event or complete_event is one step, and what it does is what       *)
(* AttestationLedger says: module Oracle shows it in detail.               *)
(***************************************************************************)
EXTENDS Integers, Sequences, FiniteSets

CONSTANTS
  Path,       \* the paths of events
  Covers,     \* <<p, q>>: a query for path p returns the events of q
  Source,     \* the events the external program announces
  MaxValue,   \* bound: the largest outcome value
  Report,     \* the outcomes it may report
  Patient,    \* whether it waits for an event to show up in the HTTP API
              \* before it reports the outcome
  Predicated, \* the PredicateKind the event source is configured with, or None
  Filter,     \* the outcomes its OutcomeFilter selects
  MaxFaults,  \* bound: the number of failed Redis and database operations
  MaxCrashes, \* bound: the number of crashes
  Garbage,    \* an item that does not deserialize
  None        \* Rust's None

Value == 0 .. MaxValue

-----------------------------------------------------------------------------
(* Event kinds and ids.                                                    *)

Vs       == [type |-> "vs"]
Winner   == [type |-> "winner"]
Price(n) == [type |-> "price", digits |-> n]
Kind     == {Vs, Winner} \union [type : {"price"}, digits : Nat]
Eq(k, v) == [type |-> "eq", inner |-> k, target |-> v]
Gt(k, v) == [type |-> "gt", inner |-> k, target |-> v]

\* EventId::n_outcomes; u64::MAX prices are more than any value of the model.
NOutcomes(kind) ==
  CASE kind.type = "vs"     -> 3
    [] kind.type = "winner" -> 2
    [] kind.type = "price"  -> MaxValue + 3
    [] OTHER                -> 2

EqFuzzy(k, l) == (k.type = "price" /\ l.type = "price") \/ k = l

\* EventId::predicate: the predicate on outcome v of event e.
PredicateOf(e, v) ==
  LET inner == IF e.kind.type = "price" THEN Price(0) ELSE e.kind
  IN [e EXCEPT !.kind = IF Predicated = "eq" THEN Eq(inner, v) ELSE Gt(inner, v)]

\* Predicate::apply_to_event_id
ApplyToEventId(e) ==
  IF Predicated = None THEN {} ELSE {PredicateOf(e, v) : v \in Filter}

EventId == Source \union UNION {ApplyToEventId(e) : e \in Source}

Outcome == [id : EventId, value : Value]

\* Mutant: the bound itself is included.
PredicateOutcome_AtLeast(kind, value) ==
  IF kind.type = "eq" THEN IF value = kind.target THEN 1 ELSE 0
                      ELSE IF value >= kind.target THEN 1 ELSE 0

\* Predicate::predicate_outcome.  Two outcomes of an event have the same
\* outcome string only if they are the same.
PredicateOutcome(kind, value) ==
  IF kind.type = "eq" THEN IF value = kind.target THEN 1 ELSE 0
                      ELSE IF value > kind.target THEN 1 ELSE 0

ASSUME FeedAssumption ==
  /\ Covers \subseteq Path \X Path
  /\ Source \subseteq [path : Path, kind : Kind]
  /\ MaxValue \in Nat \ {0}
  /\ Report \subseteq Outcome
  /\ Patient \in BOOLEAN
  /\ Predicated \in {"eq", "gt", None}
  /\ Filter \subseteq Value
  /\ MaxFaults \in Nat /\ MaxCrashes \in Nat
  /\ None \notin Value

-----------------------------------------------------------------------------
VARIABLES
  pushed,      \* what the external program has pushed so far
  eventList,   \* the Redis list of events
  outcomeList, \* the Redis list of outcomes
  eventChan,   \* the channel from the event thread
  outcomeChan, \* the channel from the outcome thread
  derived,     \* the predicates the event wrapper is about to yield
  lookup,      \* the outcome the outcome wrapper looks up relatives of, or None
  related,     \* the outcomes the outcome wrapper is about to yield
  up,          \* whether the daemon runs
  announced,   \* the ledger in the database
  attested,
  faults,      \* how many faults there have been
  crashes      \* how many crashes there have been

redis   == <<pushed, eventList, outcomeList>>
threads == <<eventChan, outcomeChan>>
stream  == <<derived, lookup, related>>
ledger  == <<announced, attested>>
bounds  == <<faults, crashes>>
vars    == <<pushed, eventList, outcomeList, eventChan, outcomeChan, derived,
             lookup, related, up, announced, attested, faults, crashes>>

Ledger == INSTANCE AttestationLedger WITH Event <- EventId, Outcome <- Value

TypeOK ==
  /\ pushed \subseteq (Source \union Report \union {Garbage})
  /\ eventList \in Seq(Source \union {Garbage})
  /\ outcomeList \in Seq(Report)
  /\ eventChan \in Seq(Source)
  /\ outcomeChan \in Seq(Report)
  /\ derived \subseteq EventId
  /\ lookup \in Report \union {None}
  /\ related \subseteq Outcome
  /\ up \in BOOLEAN
  /\ announced \subseteq EventId
  /\ attested \in [EventId -> Value \union {None}]
  /\ faults \in 0..MaxFaults
  /\ crashes \in 0..MaxCrashes

Init ==
  /\ pushed = {}
  /\ eventList = <<>> /\ outcomeList = <<>>
  /\ eventChan = <<>> /\ outcomeChan = <<>>
  /\ derived = {} /\ lookup = None /\ related = {}
  /\ up = TRUE
  /\ Ledger!LedgerInit
  /\ faults = 0 /\ crashes = 0

-----------------------------------------------------------------------------
(* The external program.  The README has it LPUSH, to the end of the list  *)
(* that BLPOP takes from, so what waits longest is taken last.             *)

Push ==
  /\ \/ \E e \in (Source \union {Garbage}) \ pushed :
          /\ pushed' = pushed \union {e}
          /\ eventList' = <<e>> \o eventList
          /\ UNCHANGED outcomeList
     \/ \E o \in Report \ pushed :
          /\ Patient => o.id \in announced
          /\ pushed' = pushed \union {o}
          /\ outcomeList' = <<o>> \o outcomeList
          /\ UNCHANGED eventList
  /\ UNCHANGED <<threads, stream, up, ledger, bounds>>

-----------------------------------------------------------------------------
(* The threads of redis.rs                                                 *)

\* Mutants: garbage is passed on; garbage ends the thread.
PopEvent_Unparsed ==
  /\ up /\ eventList # <<>>
  /\ eventList' = Tail(eventList)
  /\ eventChan' = Append(eventChan, Head(eventList))
  /\ UNCHANGED <<pushed, outcomeList, outcomeChan, stream, up, ledger, bounds>>

PopEvent_Stops ==
  /\ up /\ eventList # <<>>
  /\ Head(eventList) # Garbage
  /\ eventList' = Tail(eventList)
  /\ eventChan' = Append(eventChan, Head(eventList))
  /\ UNCHANGED <<pushed, outcomeList, outcomeChan, stream, up, ledger, bounds>>

\* BLPOP, deserialize, send; what does not deserialize is logged.
PopEvent ==
  /\ up /\ eventList # <<>>
  /\ eventList' = Tail(eventList)
  /\ eventChan' = IF Head(eventList) = Garbage THEN eventChan
                  ELSE Append(eventChan, Head(eventList))
  /\ UNCHANGED <<pushed, outcomeList, outcomeChan, stream, up, ledger, bounds>>

PopOutcome ==
  /\ up /\ outcomeList # <<>>
  /\ outcomeList' = Tail(outcomeList)
  /\ outcomeChan' = Append(outcomeChan, Head(outcomeList))
  /\ UNCHANGED <<pushed, eventList, eventChan, stream, up, ledger, bounds>>

\* Redis has removed the item but the connection is lost before it arrives;
\* the thread connects again and goes on with the next one.
PopLost ==
  /\ faults < MaxFaults /\ up
  /\ \/ eventList # <<>> /\ eventList' = Tail(eventList) /\ UNCHANGED outcomeList
     \/ outcomeList # <<>> /\ outcomeList' = Tail(outcomeList) /\ UNCHANGED eventList
  /\ faults' = faults + 1
  /\ UNCHANGED <<pushed, threads, stream, up, ledger, crashes>>

-----------------------------------------------------------------------------
(* What the loop does with an item: it calls the oracle, which refuses     *)
(* what is there already or has no event to belong to, and logs a failure. *)

AddEvent(e) == IF e \in announced THEN UNCHANGED ledger ELSE Ledger!Announce(e)

CompleteEvent(o) ==
  IF o.id \in announced /\ attested[o.id] = None
  THEN Ledger!Attest(o.id, o.value) ELSE UNCHANGED ledger

\* A database error: nobody tries again.
DbError == faults < MaxFaults /\ faults' = faults + 1 /\ UNCHANGED ledger

Handle(Call) == (Call /\ UNCHANGED faults) \/ DbError

-----------------------------------------------------------------------------
(* The event wrapper: each event, and then its predicates.                 *)

TakeEvent ==
  /\ up /\ derived = {} /\ eventChan # <<>>
  /\ Handle(AddEvent(Head(eventChan)))
  /\ eventChan' = Tail(eventChan)
  /\ derived' = ApplyToEventId(Head(eventChan))
  /\ UNCHANGED <<redis, outcomeChan, lookup, related, up, crashes>>

TakePredicate ==
  /\ up
  /\ \E e \in derived : Handle(AddEvent(e)) /\ derived' = derived \ {e}
  /\ UNCHANGED <<redis, threads, lookup, related, up, crashes>>

-----------------------------------------------------------------------------
(* The outcome wrapper: each outcome, and then what follows from it for    *)
(* the other events of its path, whatever became of the outcome itself.    *)

\* Mutant: the outcome itself is not yielded.
TakeOutcome_NotYielded ==
  /\ up /\ lookup = None /\ related = {} /\ outcomeChan # <<>>
  /\ outcomeChan' = Tail(outcomeChan)
  /\ lookup' = Head(outcomeChan)
  /\ UNCHANGED <<redis, eventChan, derived, related, up, ledger, bounds>>

TakeOutcome ==
  /\ up /\ lookup = None /\ related = {} /\ outcomeChan # <<>>
  /\ Handle(CompleteEvent(Head(outcomeChan)))
  /\ outcomeChan' = Tail(outcomeChan)
  /\ lookup' = Head(outcomeChan)
  /\ UNCHANGED <<redis, eventChan, derived, related, up, crashes>>

\* Mutant: the inner kind is compared with its digits.
CompleteRelated_Strict(o) ==
  {r \in Outcome :
     /\ NOutcomes(o.id.kind) >= 3
     /\ r.id \in announced /\ <<o.id.path, r.id.path>> \in Covers
     /\ r.id.kind.type \in {"eq", "gt"}
     /\ r.id.kind.inner = o.id.kind
     /\ r.value = PredicateOutcome(r.id.kind, o.value)}

\* CompleteRelated::complete_related.  A price also completes itself again.
CompleteRelated(o) ==
  {r \in Outcome :
     /\ NOutcomes(o.id.kind) >= 3
     /\ r.id \in announced /\ <<o.id.path, r.id.path>> \in Covers
     /\ \/ /\ r.id.kind.type \in {"eq", "gt"}
           /\ EqFuzzy(r.id.kind.inner, o.id.kind)
           /\ r.value = PredicateOutcome(r.id.kind, o.value)
        \/ /\ r.id.kind.type = "price" /\ o.id.kind.type = "price"
           /\ r.value = o.value}

LookUp ==
  /\ up /\ lookup # None
  /\ \/ related' = CompleteRelated(lookup) /\ UNCHANGED faults
     \/ related' = {} /\ faults < MaxFaults /\ faults' = faults + 1
  /\ lookup' = None
  /\ UNCHANGED <<redis, threads, derived, up, ledger, crashes>>

TakeRelated ==
  /\ up
  /\ \E o \in related : Handle(CompleteEvent(o)) /\ related' = related \ {o}
  /\ UNCHANGED <<redis, threads, derived, lookup, up, crashes>>

-----------------------------------------------------------------------------
Crash ==
  /\ up /\ crashes < MaxCrashes
  /\ up' = FALSE
  /\ eventChan' = <<>> /\ outcomeChan' = <<>>
  /\ derived' = {} /\ lookup' = None /\ related' = {}
  /\ crashes' = crashes + 1
  /\ UNCHANGED <<redis, ledger, faults>>

Start ==
  /\ ~up /\ up' = TRUE
  /\ UNCHANGED <<redis, threads, stream, ledger, bounds>>

Next ==
  \/ Push \/ PopEvent \/ PopOutcome \/ PopLost
  \/ TakeEvent \/ TakePredicate \/ TakeOutcome \/ LookUp \/ TakeRelated
  \/ Crash \/ Start

\* The threads and the runtime go on, and whoever runs the daemon starts it
\* again; nothing makes the external program push.
Fairness ==
  /\ WF_vars(PopEvent) /\ WF_vars(PopOutcome)
  /\ WF_vars(TakeEvent) /\ WF_vars(TakePredicate)
  /\ WF_vars(TakeOutcome) /\ WF_vars(LookUp) /\ WF_vars(TakeRelated)
  /\ WF_vars(Start)

Spec == Init /\ [][Next]_vars /\ Fairness

-----------------------------------------------------------------------------
(* Deployments, for the theorems: what must hold of the external program   *)
(* and of the paths it uses.                                               *)

\* It reports on the events it announces, and leaves predicates alone.
ReportsOnSource == \A o \in Report : o.id \in Source

\* It makes up its mind once: about an event, and about the price at a path.
ReportsAgree ==
  \A o, q \in Report :
    o.id.path = q.id.path /\ EqFuzzy(o.id.kind, q.id.kind) => o.value = q.value

\* No event's path lies below another's.
PathsApart == \A c \in Covers : c[1] = c[2]

\* It reports after the event is announced, and no operation fails.
Undisturbed == Patient /\ MaxFaults = 0

-----------------------------------------------------------------------------
(* Properties.                                                             *)

IsPredicate(e) == e.kind.type \in {"eq", "gt"}

\* b is the event, of p's own path, that predicate p is a predicate of.
Decides(b, p) ==
  b.path = p.path /\ ~IsPredicate(b) /\ IsPredicate(p) /\ EqFuzzy(p.kind.inner, b.kind)

\* What predicate p says when the outcome of its event is v.
Truth(p, v) == IF p.kind.type = "eq" THEN v = p.kind.target ELSE v > p.kind.target

(* "If we have the outcome for the event we also have it for the predicated *)
(* event" (complete_related.rs:29), never another one: the attestations of  *)
(* an event and of its predicates agree, and so do those of two prices that *)
(* differ only in their digits.                                             *)
RelatedAgree ==
  \A b, e \in EventId : attested[b] # None /\ attested[e] # None =>
    /\ Decides(b, e) => (attested[e] = 1 <=> Truth(e, attested[b]))
    /\ b.path = e.path /\ b.kind.type = "price" /\ e.kind.type = "price" =>
         attested[b] = attested[e]

(* A predicate is never attested to unless the event it is about is: the    *)
(* wrapper yields the event's own outcome first.  This needs the database   *)
(* not to fail and an external program that waits for the event, else the   *)
(* event's outcome may be refused and its predicates' accepted.             *)
EventBeforePredicate ==
  \A p \in EventId : IsPredicate(p) /\ attested[p] # None =>
    \E b \in announced : Decides(b, p) /\ attested[b] # None

(* Whatever the external program has pushed is announced in the end, and    *)
(* so are all its predicates: garbage in the list and repeated events hold  *)
(* up nothing.                                                              *)
FeedAnnounced ==
  \A e \in Source :
    e \in pushed ~> e \in announced /\ ApplyToEventId(e) \subseteq announced

\* An outcome of event b is on its way.
OutcomeComing(b) ==
  \E i \in 1 .. Len(outcomeList) : outcomeList[i].id = b

(* An outcome that arrives when the event and its predicates are announced  *)
(* settles all of them, whichever of two contradicting outcomes is first.   *)
(* Events with two outcomes are left out, as complete_related leaves them   *)
(* out (complete_related.rs:11): their predicates are announced and never   *)
(* settled.                                                                 *)
PredicatesSettled ==
  \A b \in Source : \A p \in ApplyToEventId(b) :
    (/\ {b, p} \subseteq announced /\ OutcomeComing(b)
     /\ NOutcomes(b.kind) >= 3)
      ~> (attested[b] # None /\ attested[p] # None)
=============================================================================
