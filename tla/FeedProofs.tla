----------------------------- MODULE FeedProofs -----------------------------
(***************************************************************************)
(* Theorems about Feed, for any events, outcomes, predicates, faults and   *)
(* crashes.                                                                *)
(***************************************************************************)
EXTENDS Feed, TLAPS

-----------------------------------------------------------------------------
(* Events, predicates and what the loop does with them.                    *)

(* What the external program announces is no predicate. *)
LEMMA SourceKinds ==
  ASSUME NEW e \in Source
  PROVE  e \in EventId /\ ~IsPredicate(e)
BY FeedAssumption DEF EventId, IsPredicate, Kind, Vs, Winner

(* The predicates the wrapper derives from an event are event ids. *)
LEMMA DerivedAreEvents ==
  ASSUME NEW e \in Source
  PROVE  ApplyToEventId(e) \subseteq EventId
BY DEF EventId

(* Adding an event announces it or changes nothing. *)
LEMMA AddHandled ==
  ASSUME TypeOK, NEW e \in EventId, Handle(AddEvent(e))
  PROVE  /\ announced' \in {announced, announced \union {e}}
         /\ attested' = attested
         /\ faults' \in 0 .. MaxFaults
         /\ MaxFaults = 0 => e \in announced'
<1>1. CASE AddEvent(e) /\ UNCHANGED faults
  BY <1>1 DEF AddEvent, ledger, Ledger!Announce, TypeOK
<1>2. CASE DbError
  BY <1>2, FeedAssumption DEF DbError, ledger, TypeOK
<1> QED BY <1>1, <1>2 DEF Handle

(* An outcome is accepted for an event that has none yet, or nothing changes. *)
LEMMA CompleteHandled ==
  ASSUME TypeOK, NEW o \in Outcome, Handle(CompleteEvent(o))
  PROVE  /\ announced' = announced
         /\ \/ attested' = attested
            \/ /\ o.id \in announced /\ attested[o.id] = None
               /\ attested' = [attested EXCEPT ![o.id] = o.value]
         /\ faults' \in 0 .. MaxFaults
         /\ MaxFaults = 0 /\ o.id \in announced => attested'[o.id] # None
<1> o.id \in EventId /\ o.value \in Value
  BY DEF Outcome
<1>1. CASE CompleteEvent(o) /\ UNCHANGED faults
  BY <1>1, FeedAssumption DEF CompleteEvent, ledger, Ledger!Attest, TypeOK
<1>2. CASE DbError
  BY <1>2, FeedAssumption DEF DbError, ledger, TypeOK
<1> QED BY <1>1, <1>2 DEF Handle

-----------------------------------------------------------------------------
(* Type correctness.                                                       *)

(* Every step keeps the types. *)
LEMMA TypeStep ==
  ASSUME TypeOK, [Next]_vars
  PROVE  TypeOK'
<1> USE DEF TypeOK, redis, threads, stream, ledger, bounds
<1>s. ASSUME NEW S, NEW q \in Seq(S)
      PROVE  /\ q # <<>> => Head(q) \in S /\ Tail(q) \in Seq(S)
             /\ \A x \in S : <<x>> \o q \in Seq(S) /\ Append(q, x) \in Seq(S)
             /\ <<>> \in Seq(S)
  OBVIOUS
<1>1. CASE Push
  <2>1. CASE \E e \in (Source \union {Garbage}) \ pushed :
               /\ pushed' = pushed \union {e} /\ eventList' = <<e>> \o eventList
               /\ UNCHANGED outcomeList
    <3>1. eventList' \in Seq(Source \union {Garbage})
      BY <2>1, <1>s
    <3> QED BY <1>1, <2>1, <3>1 DEF Push
  <2>2. CASE \E o \in Report \ pushed :
               /\ pushed' = pushed \union {o} /\ outcomeList' = <<o>> \o outcomeList
               /\ UNCHANGED eventList
    <3>1. outcomeList' \in Seq(Report)
      BY <2>2, <1>s
    <3> QED BY <1>1, <2>2, <3>1 DEF Push
  <2> QED BY <1>1, <2>1, <2>2 DEF Push
<1>2. CASE PopEvent
  <2>1. Head(eventList) \in Source \union {Garbage}
    BY <1>2 DEF PopEvent
  <2> QED BY <1>2, <2>1 DEF PopEvent
<1>3. CASE PopOutcome
  BY <1>3 DEF PopOutcome
<1>4. CASE PopLost
  <2>1. /\ eventList # <<>> => Tail(eventList) \in Seq(Source \union {Garbage})
        /\ outcomeList # <<>> => Tail(outcomeList) \in Seq(Report)
    BY <1>s
  <2>2. faults' \in 0 .. MaxFaults
    BY <1>4, FeedAssumption DEF PopLost
  <2> QED BY <1>4, <2>1, <2>2 DEF PopLost
<1>5. CASE TakeEvent
  <2>1. Head(eventChan) \in Source
    BY <1>5 DEF TakeEvent
  <2>2. Head(eventChan) \in EventId /\ ApplyToEventId(Head(eventChan)) \subseteq EventId
    BY <2>1, SourceKinds, DerivedAreEvents
  <2>3. announced' \subseteq EventId /\ attested' = attested /\ faults' \in 0 .. MaxFaults
    BY <1>5, <2>2, AddHandled DEF TakeEvent
  <2> QED BY <1>5, <2>2, <2>3 DEF TakeEvent
<1>6. CASE TakePredicate
  <2>1. PICK e \in derived : Handle(AddEvent(e)) /\ derived' = derived \ {e}
    BY <1>6 DEF TakePredicate
  <2>2. announced' \subseteq EventId /\ attested' = attested /\ faults' \in 0 .. MaxFaults
    BY <2>1, AddHandled
  <2> QED BY <1>6, <2>1, <2>2 DEF TakePredicate
<1>a. ASSUME NEW o \in Outcome, Handle(CompleteEvent(o))
      PROVE  /\ announced' \subseteq EventId
             /\ attested' \in [EventId -> Value \union {None}]
             /\ faults' \in 0 .. MaxFaults
  BY <1>a, CompleteHandled DEF Outcome
<1>7. CASE TakeOutcome
  <2>1. Head(outcomeChan) \in Report
    BY <1>7 DEF TakeOutcome
  <2>2. Head(outcomeChan) \in Outcome
    BY <2>1, FeedAssumption
  <2> QED BY <1>7, <1>a, <2>1, <2>2 DEF TakeOutcome
<1>8. CASE LookUp
  <2>1. related' \subseteq Outcome
    BY <1>8 DEF LookUp, CompleteRelated
  <2>2. faults' \in 0 .. MaxFaults
    BY <1>8, FeedAssumption DEF LookUp
  <2> QED BY <1>8, <2>1, <2>2 DEF LookUp
<1>9. CASE TakeRelated
  <2>1. PICK o \in related : Handle(CompleteEvent(o)) /\ related' = related \ {o}
    BY <1>9 DEF TakeRelated
  <2> QED BY <1>9, <1>a, <2>1 DEF TakeRelated
<1>10. CASE Crash
  <2>1. eventChan' \in Seq(Source) /\ outcomeChan' \in Seq(Report)
    BY <1>10, <1>s DEF Crash
  <2>2. crashes' \in 0 .. MaxCrashes
    BY <1>10, FeedAssumption DEF Crash
  <2> QED BY <1>10, <2>1, <2>2 DEF Crash
<1>11. CASE Start
  BY <1>11 DEF Start
<1>12. CASE UNCHANGED vars
  BY <1>12 DEF vars
<1> QED
  BY <1>1, <1>2, <1>3, <1>4, <1>5, <1>6, <1>7, <1>8, <1>9, <1>10, <1>11, <1>12 DEF Next

(* The state of the feed always has its type. *)
THEOREM FeedTypeCorrect == Spec => []TypeOK
<1>1. Init => TypeOK
  BY FeedAssumption DEF Init, TypeOK, Ledger!LedgerInit
<1> QED BY <1>1, TypeStep, PTL DEF Spec

-----------------------------------------------------------------------------
(* The feed under faults and crashes implements the ledger.                *)

(* Every step announces one event, attests to one, or does neither. *)
LEMMA LedgerStep ==
  ASSUME TypeOK, [Next]_vars
  PROVE  [Ledger!LedgerNext]_ledger
<1> USE DEF redis, threads, stream, bounds
<1>a. ASSUME NEW e \in EventId, Handle(AddEvent(e)) PROVE [Ledger!LedgerNext]_ledger
  BY <1>a DEF Handle, AddEvent, DbError, Ledger!LedgerNext
<1>b. ASSUME NEW o \in Outcome, Handle(CompleteEvent(o)) PROVE [Ledger!LedgerNext]_ledger
  <2>1. o.id \in EventId /\ o.value \in Value
    BY DEF Outcome
  <2> QED BY <1>b, <2>1 DEF Handle, CompleteEvent, DbError, Ledger!LedgerNext
<1>1. CASE TakeEvent
  <2>1. Head(eventChan) \in Source
    BY <1>1 DEF TakeEvent, TypeOK
  <2> QED BY <1>1, <1>a, <2>1, SourceKinds DEF TakeEvent
<1>2. CASE TakePredicate
  BY <1>2, <1>a DEF TakePredicate, TypeOK
<1>3. CASE TakeOutcome
  <2>1. Head(outcomeChan) \in Outcome
    BY <1>3, FeedAssumption DEF TakeOutcome, TypeOK
  <2> QED BY <1>3, <1>b, <2>1 DEF TakeOutcome
<1>4. CASE TakeRelated
  BY <1>4, <1>b DEF TakeRelated, TypeOK
<1>5. CASE Push \/ PopEvent \/ PopOutcome \/ PopLost \/ LookUp \/ Crash \/ Start
           \/ UNCHANGED vars
  BY <1>5 DEF Push, PopEvent, PopOutcome, PopLost, LookUp, Crash, Start, vars, ledger
<1> QED BY <1>1, <1>2, <1>3, <1>4, <1>5 DEF Next

(* Whatever is pushed, lost or repeated, and however often the daemon       *)
(* crashes, an event is attested to once and never withdrawn.               *)
THEOREM FeedImplementsLedger == Spec => Ledger!LedgerSpec
<1>1. Init => Ledger!LedgerInit
  BY DEF Init
<1> QED
  BY <1>1, LedgerStep, FeedTypeCorrect, PTL DEF Spec, Ledger!LedgerSpec, Ledger!ledger, ledger

-----------------------------------------------------------------------------
(* Attestations of an event and of its predicates agree.                   *)

\* Outcome o is a reported one, or what follows from one at the same path.
FollowsFrom(o, r) ==
  /\ r.id.path = o.id.path
  /\ IF IsPredicate(o.id)
     THEN EqFuzzy(o.id.kind.inner, r.id.kind) /\ o.value = PredicateOutcome(o.id.kind, r.value)
     ELSE EqFuzzy(o.id.kind, r.id.kind) /\ o.value = r.value

Reported(o) == \E r \in Report : FollowsFrom(o, r)

(* Whatever is attested to, or on its way to be, follows from some report.  *)
AllReported ==
  /\ \A o \in related : Reported(o)
  /\ \A e \in EventId : attested[e] # None => Reported([id |-> e, value |-> attested[e]])

\* Price kinds are all alike and every other kind only like itself.
LEMMA EqFuzzyJoins ==
  ASSUME NEW k, NEW l, NEW m, EqFuzzy(k, l), EqFuzzy(k, m)
  PROVE  EqFuzzy(l, m)
BY DEF EqFuzzy

\* A report is about no predicate, and follows from itself.
LEMMA ReportsAreReported ==
  ASSUME ReportsOnSource, NEW o \in Report
  PROVE  o \in Outcome /\ ~IsPredicate(o.id) /\ Reported(o)
<1>1. o \in Outcome /\ ~IsPredicate(o.id)
  BY FeedAssumption, SourceKinds DEF ReportsOnSource
<1>2. FollowsFrom(o, o)
  BY <1>1 DEF FollowsFrom, EqFuzzy
<1> QED BY <1>1, <1>2 DEF Reported

(* complete_related yields only what follows from the outcome it was given. *)
LEMMA CompleteRelatedFollows ==
  ASSUME PathsApart, NEW o \in Report, NEW r \in CompleteRelated(o)
  PROVE  FollowsFrom(r, o)
<1>1. r.id.path = o.id.path
  <2>1. <<o.id.path, r.id.path>> \in Covers
    BY DEF CompleteRelated
  <2> QED BY <2>1 DEF PathsApart
<1>2. CASE r.id.kind.type \in {"eq", "gt"}
  BY <1>1, <1>2 DEF CompleteRelated, FollowsFrom, IsPredicate
<1>3. CASE r.id.kind.type \notin {"eq", "gt"}
  BY <1>1, <1>3 DEF CompleteRelated, FollowsFrom, IsPredicate, EqFuzzy
<1> QED BY <1>2, <1>3

\* A step attests to nothing but what was on its way.
LEMMA AllReportedStep ==
  ASSUME ReportsOnSource, PathsApart, TypeOK, AllReported, [Next]_vars
  PROVE  AllReported'
<1> USE DEF redis, threads, stream, ledger, bounds
<1>a. ASSUME NEW o \in Outcome, Reported(o), Handle(CompleteEvent(o)), related' \subseteq related
      PROVE  AllReported'
  <2>1. o.id \in EventId /\ o = [id |-> o.id, value |-> o.value]
    BY DEF Outcome
  <2>2. ASSUME NEW e \in EventId, attested'[e] # None
        PROVE  Reported([id |-> e, value |-> attested'[e]])
    <3>1. attested'[e] = attested[e] \/ (e = o.id /\ attested'[e] = o.value)
      BY <1>a, <2>1, CompleteHandled DEF TypeOK
    <3> QED BY <1>a, <2>1, <2>2, <3>1 DEF AllReported
  <2> QED BY <1>a, <2>2 DEF AllReported
<1>b. ASSUME UNCHANGED attested, \A o \in related' : Reported(o)
      PROVE  AllReported'
  BY <1>b DEF AllReported
<1>1. CASE TakeOutcome
  <2>1. Head(outcomeChan) \in Report
    BY <1>1 DEF TakeOutcome, TypeOK
  <2> QED BY <1>1, <1>a, <2>1, ReportsAreReported DEF TakeOutcome
<1>2. CASE TakeRelated
  <2>1. PICK o \in related : Handle(CompleteEvent(o)) /\ related' = related \ {o}
    BY <1>2 DEF TakeRelated
  <2>2. o \in Outcome /\ Reported(o)
    BY DEF TypeOK, AllReported
  <2> QED BY <1>a, <2>1, <2>2
<1>3. CASE LookUp
  <2>1. ASSUME related' = CompleteRelated(lookup), NEW r \in related' PROVE Reported(r)
    <3>1. lookup \in Report
      BY <1>3 DEF LookUp, TypeOK
    <3> QED BY <2>1, <3>1, CompleteRelatedFollows DEF Reported
  <2> QED BY <1>3, <1>b, <2>1 DEF LookUp
<1>4. CASE TakeEvent \/ TakePredicate
  <2>1. UNCHANGED attested
    <3>1. ASSUME NEW e, Handle(AddEvent(e)) PROVE UNCHANGED attested
      BY <3>1 DEF Handle, AddEvent, DbError, Ledger!Announce
    <3> QED BY <1>4, <3>1 DEF TakeEvent, TakePredicate
  <2> QED BY <1>4, <1>b, <2>1 DEF TakeEvent, TakePredicate, AllReported
<1>5. CASE Push \/ PopEvent \/ PopOutcome \/ PopLost \/ Crash \/ Start \/ UNCHANGED vars
  BY <1>5, <1>b DEF Push, PopEvent, PopOutcome, PopLost, Crash, Start, vars, AllReported
<1> QED BY <1>1, <1>2, <1>3, <1>4, <1>5 DEF Next

\* Reports that agree make what follows from them agree.
LEMMA ReportedAgree ==
  ASSUME ReportsAgree, AllReported
  PROVE  RelatedAgree
<1> SUFFICES ASSUME NEW b \in EventId, NEW e \in EventId,
                    attested[b] # None, attested[e] # None
             PROVE  /\ Decides(b, e) => (attested[e] = 1 <=> Truth(e, attested[b]))
                    /\ b.path = e.path /\ b.kind.type = "price" /\ e.kind.type = "price" =>
                         attested[b] = attested[e]
  BY DEF RelatedAgree
<1>1. PICK r \in Report : FollowsFrom([id |-> b, value |-> attested[b]], r)
  BY DEF AllReported, Reported
<1>2. PICK q \in Report : FollowsFrom([id |-> e, value |-> attested[e]], q)
  BY DEF AllReported, Reported
<1>3. ASSUME Decides(b, e)
      PROVE  attested[e] = 1 <=> Truth(e, attested[b])
  <2>1. EqFuzzy(q.id.kind, r.id.kind) /\ q.id.path = r.id.path
    <3>1. EqFuzzy(e.kind.inner, b.kind) /\ EqFuzzy(b.kind, r.id.kind)
      BY <1>1, <1>3 DEF Decides, FollowsFrom
    <3>2. EqFuzzy(e.kind.inner, q.id.kind)
      BY <1>2, <1>3 DEF Decides, FollowsFrom
    <3>3. EqFuzzy(b.kind, q.id.kind)
      BY <3>1, <3>2, EqFuzzyJoins
    <3> QED BY <1>1, <1>2, <1>3, <3>1, <3>3, EqFuzzyJoins DEF Decides, FollowsFrom
  <2>2. q.value = attested[b]
    BY <1>1, <1>3, <2>1 DEF ReportsAgree, Decides, FollowsFrom
  <2>3. attested[e] = PredicateOutcome(e.kind, attested[b])
    BY <1>2, <1>3, <2>2 DEF Decides, FollowsFrom
  <2> QED BY <2>3 DEF PredicateOutcome, Truth
<1>4. ASSUME b.path = e.path, b.kind.type = "price", e.kind.type = "price"
      PROVE  attested[b] = attested[e]
  <2>1. attested[b] = r.value /\ r.id.kind.type = "price" /\ r.id.path = b.path
    BY <1>1, <1>4 DEF FollowsFrom, IsPredicate, EqFuzzy
  <2>2. attested[e] = q.value /\ q.id.kind.type = "price" /\ q.id.path = e.path
    BY <1>2, <1>4 DEF FollowsFrom, IsPredicate, EqFuzzy
  <2> QED BY <1>4, <2>1, <2>2 DEF ReportsAgree, EqFuzzy
<1> QED BY <1>3, <1>4

(* "If we have the outcome for the event we also have it for the predicated *)
(* event", never another one: for any events and predicates, and any number *)
(* of lost items, failed writes and crashes, where the external program     *)
(* does not contradict itself and no event's path lies below another's.     *)
THEOREM RelatedAlwaysAgree ==
  ASSUME ReportsOnSource, ReportsAgree, PathsApart
  PROVE  Spec => []RelatedAgree
<1>1. Init => TypeOK /\ AllReported
  BY FeedAssumption DEF Init, TypeOK, AllReported, Ledger!LedgerInit
<1>2. TypeOK /\ AllReported /\ [Next]_vars => (TypeOK /\ AllReported)'
  BY TypeStep, AllReportedStep
<1>3. AllReported => RelatedAgree
  BY ReportedAgree
<1> QED BY <1>1, <1>2, <1>3, PTL DEF Spec

-----------------------------------------------------------------------------
(* A predicate is attested to after its event.                             *)

\* The event that p is a predicate of is attested to.
EventDecided(p) == \E b \in announced : Decides(b, p) /\ attested[b] # None

\* The outcomes that the loop will not refuse for want of an event.
Expected == {o \in Report : o.id \in announced}

(* What is under way is about announced events; when relatives of an       *)
(* outcome are looked up its event has been attested to.                   *)
EventsFirst ==
  /\ outcomeList \in Seq(Expected) /\ outcomeChan \in Seq(Expected)
  /\ lookup # None => lookup.id \in announced /\ attested[lookup.id] # None
  /\ \A o \in related : IsPredicate(o.id) => EventDecided(o.id)
  /\ EventBeforePredicate

\* Nothing that is announced or attested to is taken back.
LEMMA LedgerGrows ==
  ASSUME TypeOK, [Next]_vars
  PROVE  /\ announced \subseteq announced'
         /\ \A e \in EventId : attested[e] # None => attested'[e] = attested[e]
<1>1. [Ledger!LedgerNext]_ledger
  BY LedgerStep
<1>2. CASE UNCHANGED ledger
  BY <1>2 DEF ledger
<1>3. ASSUME NEW e \in EventId, Ledger!Announce(e)
      PROVE  announced \subseteq announced' /\ UNCHANGED attested
  BY <1>3 DEF Ledger!Announce
<1>4. ASSUME NEW e \in EventId, NEW v \in Value, Ledger!Attest(e, v)
      PROVE  /\ UNCHANGED announced
             /\ \A f \in EventId : attested[f] # None => attested'[f] = attested[f]
  BY <1>4 DEF Ledger!Attest, TypeOK
<1> QED BY <1>1, <1>2, <1>3, <1>4 DEF Ledger!LedgerNext

\* A relative of an outcome of an attested event may be attested to.
LEMMA CompleteRelatedDecided ==
  ASSUME ReportsOnSource, PathsApart, NEW o \in Report,
         o.id \in announced, attested[o.id] # None,
         NEW r \in CompleteRelated(o), IsPredicate(r.id)
  PROVE  EventDecided(r.id)
<1>1. ~IsPredicate(o.id) /\ FollowsFrom(r, o)
  BY ReportsAreReported, CompleteRelatedFollows
<1> QED BY <1>1 DEF FollowsFrom, Decides, EventDecided

\* Every step keeps the order of events and predicates.
LEMMA EventsFirstStep ==
  ASSUME ReportsOnSource, PathsApart, Undisturbed, TypeOK, EventsFirst, [Next]_vars
  PROVE  EventsFirst'
<1> USE DEF redis, threads, stream, bounds
<1>0. TypeOK'
  BY TypeStep
<1>g. /\ announced \subseteq announced'
      /\ \A e \in EventId : attested[e] # None => attested'[e] # None
  BY LedgerGrows, FeedAssumption DEF TypeOK
<1>s. ASSUME NEW S, NEW q \in Seq(S)
      PROVE  /\ q # <<>> => Head(q) \in S /\ Tail(q) \in Seq(S)
             /\ \A x \in S : <<x>> \o q \in Seq(S) /\ Append(q, x) \in Seq(S)
             /\ <<>> \in Seq(S)
             /\ \A T : S \subseteq T => q \in Seq(T)
  OBVIOUS
<1>e. Expected \subseteq Expected'
  BY <1>g DEF Expected
<1>d. ASSUME NEW p, EventDecided(p) PROVE EventDecided(p)'
  BY <1>d, <1>g DEF EventDecided, TypeOK
<1>q. /\ outcomeList \in Seq(Expected') /\ outcomeChan \in Seq(Expected')
      /\ outcomeList # <<>> => /\ Tail(outcomeList) \in Seq(Expected')
                               /\ Head(outcomeList) \in Expected'
      /\ outcomeChan # <<>> => /\ Tail(outcomeChan) \in Seq(Expected')
                               /\ Head(outcomeChan) \in Expected
  <2>1. outcomeList \in Seq(Expected) /\ outcomeChan \in Seq(Expected)
    BY DEF EventsFirst
  <2>2. outcomeList \in Seq(Expected') /\ outcomeChan \in Seq(Expected')
    BY <1>e, <1>s, <2>1
  <2> QED BY <1>s, <2>1, <2>2
<1>a. ASSUME outcomeList' \in Seq(Expected'), outcomeChan' \in Seq(Expected'),
             lookup' # None => lookup'.id \in announced' /\ attested'[lookup'.id] # None,
             \A o \in related' : IsPredicate(o.id) => EventDecided(o.id),
             \A e \in EventId : attested'[e] # attested[e] /\ IsPredicate(e)
                                  => EventDecided(e)
      PROVE  EventsFirst'
  <2>1. \A o \in related' : IsPredicate(o.id) => EventDecided(o.id)'
    BY <1>a, <1>d
  <2>2. ASSUME NEW e \in EventId, IsPredicate(e), attested'[e] # None
        PROVE  EventDecided(e)'
    <3>1. EventDecided(e)
      BY <1>a, <2>2 DEF EventsFirst, EventBeforePredicate, EventDecided
    <3> QED BY <3>1, <1>d
  <2>3. EventBeforePredicate'
    BY <2>2 DEF EventBeforePredicate, EventDecided
  <2> QED BY <1>a, <2>1, <2>3 DEF EventsFirst
<1>b. lookup # None => lookup.id \in announced' /\ attested'[lookup.id] # None
  <2>1. lookup # None => lookup.id \in EventId
    BY FeedAssumption DEF TypeOK, Outcome
  <2> QED BY <1>g, <2>1 DEF EventsFirst
<1>c. \A o \in related : IsPredicate(o.id) => EventDecided(o.id)
  BY DEF EventsFirst
<1>1. CASE Push
  <2>1. outcomeList' \in Seq(Expected')
    <3>1. ASSUME NEW o \in Report, Patient => o.id \in announced,
                 outcomeList' = <<o>> \o outcomeList
          PROVE  outcomeList' \in Seq(Expected')
      <4>1. o \in Expected'
        BY <3>1, <1>g DEF Undisturbed, Expected
      <4> QED BY <3>1, <4>1, <1>q, <1>s
    <3> QED BY <1>1, <1>q, <3>1 DEF Push
  <2> QED BY <1>1, <1>a, <1>b, <1>c, <1>q, <2>1 DEF Push, ledger
<1>2. CASE PopOutcome
  <2>1. outcomeList' \in Seq(Expected') /\ outcomeChan' \in Seq(Expected')
    BY <1>2, <1>q, <1>s DEF PopOutcome
  <2> QED BY <1>2, <1>a, <1>b, <1>c, <2>1 DEF PopOutcome, ledger
<1>3. CASE TakeOutcome
  <2> DEFINE o == Head(outcomeChan)
  <2>1. o \in Report /\ o.id \in announced
    BY <1>3, <1>q DEF TakeOutcome, Expected
  <2>2. o \in Outcome /\ ~IsPredicate(o.id)
    BY <2>1, ReportsAreReported
  <2>3. Handle(CompleteEvent(o))
    BY <1>3 DEF TakeOutcome
  <2>4. /\ announced' = announced /\ attested'[o.id] # None
        /\ \A e \in EventId : attested'[e] # attested[e] => e = o.id
    BY <2>1, <2>2, <2>3, CompleteHandled DEF Undisturbed, TypeOK
  <2> QED BY <1>3, <1>a, <1>c, <1>q, <2>1, <2>2, <2>4 DEF TakeOutcome
<1>4. CASE LookUp
  <2>1. related' = CompleteRelated(lookup) /\ lookup \in Report
    BY <1>4, FeedAssumption DEF LookUp, Undisturbed, TypeOK
  <2>2. \A r \in related' : IsPredicate(r.id) => EventDecided(r.id)
    BY <1>4, <2>1, CompleteRelatedDecided DEF LookUp, EventsFirst
  <2> QED BY <1>4, <1>a, <1>q, <2>2 DEF LookUp, ledger
<1>5. CASE TakeRelated
  <2>1. PICK o \in related : Handle(CompleteEvent(o)) /\ related' = related \ {o}
    BY <1>5 DEF TakeRelated
  <2>2. \A e \in EventId : attested'[e] # attested[e] => e = o.id
    <3>1. o \in Outcome
      BY DEF TypeOK
    <3> QED BY <2>1, <3>1, CompleteHandled DEF TypeOK
  <2> QED BY <1>5, <1>a, <1>b, <1>c, <1>q, <2>1, <2>2 DEF TakeRelated
<1>6. CASE TakeEvent \/ TakePredicate
  <2>1. ASSUME NEW e, Handle(AddEvent(e)) PROVE UNCHANGED attested
    BY <2>1 DEF Handle, AddEvent, DbError, ledger, Ledger!Announce
  <2>2. UNCHANGED <<attested, outcomeList, outcomeChan, lookup, related>>
    BY <1>6, <2>1 DEF TakeEvent, TakePredicate
  <2> QED BY <1>a, <1>b, <1>c, <1>q, <2>2
<1>7. CASE Crash
  <2>1. <<>> \in Seq(Expected')
    BY <1>s, <1>q
  <2> QED BY <1>7, <1>a, <1>q, <2>1 DEF Crash, ledger
<1>8. CASE PopLost
  BY <1>8, FeedAssumption DEF PopLost, Undisturbed, TypeOK
<1>9. CASE PopEvent \/ Start \/ UNCHANGED vars
  BY <1>9, <1>a, <1>b, <1>c, <1>q DEF PopEvent, Start, vars, ledger
<1> QED BY <1>1, <1>2, <1>3, <1>4, <1>5, <1>6, <1>7, <1>8, <1>9 DEF Next

(* A predicate is never attested to unless its event is, for any events,    *)
(* predicates and crashes: Undisturbed says what else it takes.             *)
THEOREM EventAlwaysBeforePredicate ==
  ASSUME ReportsOnSource, PathsApart, Undisturbed
  PROVE  Spec => []EventBeforePredicate
<1>1. Init => TypeOK /\ EventsFirst
  BY FeedAssumption DEF Init, TypeOK, EventsFirst, EventBeforePredicate, Ledger!LedgerInit
<1>2. TypeOK /\ EventsFirst /\ [Next]_vars => (TypeOK /\ EventsFirst)'
  BY TypeStep, EventsFirstStep
<1>3. EventsFirst => EventBeforePredicate
  BY DEF EventsFirst
<1> QED BY <1>1, <1>2, <1>3, PTL DEF Spec
=============================================================================
