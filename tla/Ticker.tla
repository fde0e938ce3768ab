------------------------------- MODULE Ticker -------------------------------
(***************************************************************************)
(* The time ticker, with the predicate and complete-related wrappers of    *)
(* its streams: sources/ticker.rs and config_impls.rs under oracle_loop.rs. *)
(*                                                                         *)
(* A daemon runs one task, the oracle loop.  It polls an event stream,     *)
(* which announces the next time event when the look-ahead reaches it, and *)
(* an outcome stream, which attests to the earliest event that has no      *)
(* attestation when its time has come.  A stream hands its item to the     *)
(* loop and waits to be told whether processing it failed.  The loop does  *)
(* one item at a time, and polls the streams only between items, but a     *)
(* query a stream has sent may be answered while the loop is busy.         *)
(*                                                                         *)
(* The event source may follow each event by predicates of it, and the     *)
(* outcome source each outcome by those of the predicates.  The wrappers   *)
(* yield these between the items of the stream they wrap, with nobody to   *)
(* be told how they went.                                                  *)
(*                                                                         *)
(* An event is named by its time slot (Path::from_dt), a predicate by its  *)
(* slot and the predicate.  Both streams ask the database for events of    *)
(* the ticker's kind, so they do not see the predicates.  The outcomes of  *)
(* the two OutcomeCreators are functions of the event id, so only whether  *)
(* an event is attested to is kept.  Sleeping for so many seconds is       *)
(* sleeping until woken.                                                   *)
(***************************************************************************)
EXTENDS Integers, FiniteSets, Sequences

CONSTANTS
  Daemon,       \* the `olivia run` processes that share the database
  Interval,     \* the interval of the ticker
  LookAhead,    \* how far ahead of its time an event is announced
  InitialTime,  \* the configured initial_time, or None: when it is started
  Predicates,   \* the predicates of an event that are announced after it, in
                \* their order; <<>> where neither wrapper is configured
  Backend,      \* "InMemory" or "Postgres"
  MaxTime,      \* bound: the clock stops here
  MaxFaults,    \* bound: the number of failed reads and writes
  MaxCrashes,   \* bound: the number of crashes
  QueriesFail,  \* whether the streams' own queries may fail
  Addable,      \* the <<slot, time>> that `olivia add event` may add
  None          \* Rust's None

Slot      == 0 .. (MaxTime + LookAhead)
Predicate == {Predicates[i] : i \in DOMAIN Predicates}

ASSUME TickerAssumption ==
  /\ Interval \in Nat \ {0} /\ LookAhead \in Nat /\ MaxTime \in Nat
  /\ MaxFaults \in Nat /\ MaxCrashes \in Nat
  /\ InitialTime \in Slot \union {None}
  /\ Backend \in {"InMemory", "Postgres"}
  /\ QueriesFail \in BOOLEAN
  /\ Addable \subseteq Slot \X (Slot \union {None})
  /\ Predicates \in Seq(Predicate)
  /\ IsFiniteSet(Daemon)
  /\ Backend = "InMemory" => /\ \A c, d \in Daemon : c = d
                             /\ MaxFaults = 0 /\ ~QueriesFail /\ Addable = {}

VARIABLES
  now,       \* the clock, the same for all daemons
  row,       \* the database: per slot its event, or None
  up,        \* per daemon: "down", "up", or "panicked" (the loop's task died)
  initial,   \* per daemon: its initial_time
  events,    \* per daemon: its TimeEventStream
  outcomes,  \* per daemon: its TimeOutcomeStream
  predicate, \* the database: per slot and predicate "absent", "open" or "attested"
  derived,   \* per daemon: the <<slot, predicate>> still to be announced
  lookup,    \* per daemon: the slot whose related events are to be looked up
  related,   \* per daemon: the <<slot, predicate>> still to be attested to
  job,       \* per daemon: the item the loop is processing, or None
  added,     \* history: the slots that were added from the command line
  faults,    \* how many faults there have been
  crashes    \* how many crashes there have been

wrappers == <<predicate, derived, lookup, related>>

vars == <<now, row, up, initial, events, outcomes, job, added, faults, crashes, wrappers>>

\* An event of the database: its expected_outcome_time may be missing.
Row == [time : Slot \union {None}, attested : BOOLEAN]

ASSUME NoneIsNothing == None \notin Int \union Predicate \union Row

\* A stream is about to query, waits until its slot is due, has handed its
\* item to the loop, sleeps before it tries again, or has ended.
Stream == [pc   : {"query", "wait", "yielded", "asleep", "ended"},
           slot : Nat \union {None},   \* the event it is concerned with
           due  : Int]                 \* when it will hand it to the loop

Fresh == [pc |-> "query", slot |-> None, due |-> 0]

\* The loop is before the read or the write of add_event or complete_event.
\* It is at the predicate `of`, or at the event itself.
Job == [op : {"add", "complete"}, slot : Slot, of : Predicate \union {None},
        step : {"read", "write"}]

TypeOK ==
  /\ now \in 0..MaxTime
  /\ row \in [Slot -> Row \union {None}]
  /\ up \in [Daemon -> {"down", "up", "panicked"}]
  /\ initial \in [Daemon -> Slot \union {None}]
  /\ events \in [Daemon -> Stream]
  /\ outcomes \in [Daemon -> Stream]
  /\ job \in [Daemon -> Job \union {None}]
  /\ predicate \in [Slot \X Predicate -> {"absent", "open", "attested"}]
  /\ derived \in [Daemon -> Seq(Slot \X Predicate)]
  /\ lookup \in [Daemon -> Slot \union {None}]
  /\ related \in [Daemon -> SUBSET (Slot \X Predicate)]
  /\ added \subseteq Slot
  /\ faults \in 0..MaxFaults
  /\ crashes \in 0..MaxCrashes

Init ==
  /\ now = 0
  /\ row = [s \in Slot |-> None]
  /\ up = [d \in Daemon |-> "down"]
  /\ initial = [d \in Daemon |-> None]
  /\ events = [d \in Daemon |-> Fresh]
  /\ outcomes = [d \in Daemon |-> Fresh]
  /\ job = [d \in Daemon |-> None]
  /\ predicate = [p \in Slot \X Predicate |-> "absent"]
  /\ derived = [d \in Daemon |-> <<>>]
  /\ lookup = [d \in Daemon |-> None]
  /\ related = [d \in Daemon |-> {}]
  /\ added = {}
  /\ faults = 0
  /\ crashes = 0

Tick ==
  /\ now < MaxTime
  /\ now' = now + 1
  /\ UNCHANGED <<row, up, initial, events, outcomes, job, added, faults, crashes, wrappers>>

-----------------------------------------------------------------------------
(* query_event: the first event of the database in the order asked for.    *)
(* Events without a time come first or last as the database sorts them:    *)
(* Rust's None is less than every Some, Postgres' NULL is more than every  *)
(* value.  Events of equal time come in any order.                         *)

Before(s, t) ==
  LET a == row[s].time
      b == row[t].time
  IN IF a # None /\ b # None THEN a < b
     ELSE IF Backend = "InMemory" THEN a = None /\ b # None
                                  ELSE a # None /\ b = None

\* Mutant: only events without an attestation are looked at.
Latest_Unattested ==
  LET found == {s \in Slot : row[s] # None /\ ~row[s].attested}
  IN {s \in found : \A t \in found : ~Before(s, t)}

Latest ==
  LET found == {s \in Slot : row[s] # None}
  IN {s \in found : \A t \in found : ~Before(s, t)}

\* Mutant: the order is forgotten.
Earliest_Unordered == {s \in Slot : row[s] # None /\ ~row[s].attested}

Earliest ==
  LET found == {s \in Slot : row[s] # None /\ ~row[s].attested}
  IN {s \in found : \A t \in found : ~Before(t, s)}

-----------------------------------------------------------------------------
(* TimeEventStream                                                         *)

\* Mutant: the look-ahead is counted from the event that was found.
Upcoming_FromFound(s) ==
  [pc |-> "wait", slot |-> s - Interval - LookAhead, due |-> s - LookAhead]

\* Mutant: the interval is one too short.
Upcoming_Short(s) ==
  [pc |-> "wait", slot |-> s - 1, due |-> s - 1 - LookAhead]

\* Hand over event s when the look-ahead has reached it.
Upcoming(s) == [pc |-> "wait", slot |-> s, due |-> s - LookAhead]

\* The stream's query finds the latest event, and the next one is an interval
\* later; on an empty database the initial event is added at once.  An event
\* without a time panics the task ("time events always have this").
EventQuery(d) ==
  /\ up[d] = "up" /\ events[d].pc = "query" /\ derived[d] = <<>>
  /\ \/ /\ Latest = {}
        /\ events' = [events EXCEPT ![d] =
                        [pc |-> "wait", slot |-> initial[d], due |-> 0]]
        /\ UNCHANGED up
     \/ \E s \in Latest :
          IF row[s].time = None
          THEN up' = [up EXCEPT ![d] = "panicked"] /\ UNCHANGED events
          ELSE /\ events' = [events EXCEPT ![d] = Upcoming(row[s].time + Interval)]
               /\ UNCHANGED up
  /\ UNCHANGED <<now, row, initial, outcomes, job, added, faults, crashes, wrappers>>

\* A failed query ends the stream: it emits no more events.
EventQueryFails(d) ==
  /\ QueriesFail /\ faults < MaxFaults
  /\ up[d] = "up" /\ events[d].pc = "query" /\ derived[d] = <<>>
  /\ events' = [events EXCEPT ![d].pc = "ended"]
  /\ faults' = faults + 1
  /\ UNCHANGED <<now, row, up, initial, outcomes, job, added, crashes, wrappers>>

-----------------------------------------------------------------------------
(* TimeOutcomeStream                                                       *)

\* Mutant: the time of the event is not waited for.
Ripe_Now(s) == [pc |-> "wait", slot |-> s, due |-> now]

\* Hand over the outcome of event s at its time.
Ripe(s) == [pc |-> "wait", slot |-> s, due |-> row[s].time]

\* The wrapper has dealt with the last outcome and polls the stream again.
Followed(d) == lookup[d] = None /\ related[d] = {}

\* The loop is still at an item of the outcome stream.
Completing(d) == job[d] # None /\ job[d].op = "complete"

\* Mutant: the stream ends when there is nothing to attest to.
OutcomeQuery_Ends(d) ==
  /\ up[d] = "up" /\ outcomes[d].pc = "query" /\ Followed(d)
  /\ \/ /\ Earliest = {}
        /\ outcomes' = [outcomes EXCEPT ![d].pc = "ended"]
     \/ \E s \in Earliest : outcomes' = [outcomes EXCEPT ![d] = Ripe(s)]
  /\ UNCHANGED <<now, row, up, initial, events, job, added, faults, crashes, wrappers>>

OutcomeQuery(d) ==
  /\ up[d] = "up" /\ outcomes[d].pc = "query" /\ Followed(d)
  /\ \/ /\ Earliest = {}
        /\ outcomes' = [outcomes EXCEPT ![d].pc = "asleep"]
        /\ UNCHANGED up
     \/ \E s \in Earliest :
          IF row[s].time = None
          THEN up' = [up EXCEPT ![d] = "panicked"] /\ UNCHANGED outcomes
          ELSE outcomes' = [outcomes EXCEPT ![d] = Ripe(s)] /\ UNCHANGED up
  /\ UNCHANGED <<now, row, initial, events, job, added, faults, crashes, wrappers>>

\* Here a failed query is tried again after a while.
OutcomeQueryFails(d) ==
  /\ QueriesFail /\ faults < MaxFaults
  /\ up[d] = "up" /\ outcomes[d].pc = "query" /\ Followed(d)
  /\ outcomes' = [outcomes EXCEPT ![d].pc = "asleep"]
  /\ faults' = faults + 1
  /\ UNCHANGED <<now, row, up, initial, events, job, added, crashes, wrappers>>

-----------------------------------------------------------------------------
(* What the two streams have in common: waking, and handing over.          *)

WakeEvents(d) ==
  /\ up[d] = "up" /\ events[d].pc = "asleep"
  /\ events' = [events EXCEPT ![d] = Fresh]
  /\ UNCHANGED <<now, row, up, initial, outcomes, job, added, faults, crashes, wrappers>>

WakeOutcomes(d) ==
  /\ up[d] = "up" /\ outcomes[d].pc = "asleep"
  /\ outcomes' = [outcomes EXCEPT ![d] = Fresh]
  /\ UNCHANGED <<now, row, up, initial, events, job, added, faults, crashes, wrappers>>

\* Mutant: the item is handed over without delay.
Due_AtOnce(stream) == stream.pc = "wait"

\* delay_until has passed.
Due(stream) == stream.pc = "wait" /\ stream.due <= now

JobAt(op, slot, of) == [op |-> op, slot |-> slot, of |-> of, step |-> "read"]

\* Mutant: the last outcome of the filter gets no predicate.
Derive_ButLast(slot) == [i \in 1 .. Len(Predicates) - 1 |-> <<slot, Predicates[i]>>]

\* Predicate::apply_to_event_id
Derive(slot) == [i \in DOMAIN Predicates |-> <<slot, Predicates[i]>>]

\* The loop is between items and takes one from a stream that has one.
TakeEvent(d) ==
  /\ up[d] = "up" /\ job[d] = None /\ Due(events[d]) /\ derived[d] = <<>>
  /\ job' = [job EXCEPT ![d] = JobAt("add", events[d].slot, None)]
  /\ events' = [events EXCEPT ![d].pc = "yielded"]
  /\ derived' = [derived EXCEPT ![d] = Derive(events[d].slot)]
  /\ UNCHANGED <<now, row, up, initial, outcomes, added, faults, crashes,
                 predicate, lookup, related>>

TakeOutcome(d) ==
  /\ up[d] = "up" /\ job[d] = None /\ Due(outcomes[d])
  /\ job' = [job EXCEPT ![d] = JobAt("complete", outcomes[d].slot, None)]
  /\ outcomes' = [outcomes EXCEPT ![d].pc = "yielded"]
  /\ lookup' = [lookup EXCEPT ![d] = IF Predicates = <<>> THEN None ELSE outcomes[d].slot]
  /\ UNCHANGED <<now, row, up, initial, events, added, faults, crashes,
                 predicate, derived, related>>

-----------------------------------------------------------------------------
(* The wrappers.  Their items are announced and attested to whatever became *)
(* of the item they follow.                                                 *)

TakeDerived(d) ==
  /\ up[d] = "up" /\ job[d] = None /\ derived[d] # <<>>
  /\ LET next == Head(derived[d])
     IN job' = [job EXCEPT ![d] = JobAt("add", next[1], next[2])]
  /\ derived' = [derived EXCEPT ![d] = Tail(@)]
  /\ UNCHANGED <<now, row, up, initial, events, outcomes, added, faults, crashes,
                 predicate, lookup, related>>

\* complete_related asks for the events of the slot when the loop comes back
\* for more; those that are not announced yet are not found.
LookUpRelated(d) ==
  /\ up[d] = "up" /\ lookup[d] # None
  /\ ~Completing(d)
  /\ lookup' = [lookup EXCEPT ![d] = None]
  /\ related' = [related EXCEPT ![d] =
                   {p \in {lookup[d]} \X Predicate : predicate[p] # "absent"}]
  /\ UNCHANGED <<now, row, up, initial, events, outcomes, job, added, faults, crashes,
                 predicate, derived>>

\* A failed query is logged, and nothing follows the outcome.
LookUpFails(d) ==
  /\ QueriesFail /\ faults < MaxFaults
  /\ up[d] = "up" /\ lookup[d] # None
  /\ ~Completing(d)
  /\ lookup' = [lookup EXCEPT ![d] = None]
  /\ faults' = faults + 1
  /\ UNCHANGED <<now, row, up, initial, events, outcomes, job, added, crashes,
                 predicate, derived, related>>

TakeRelated(d) ==
  /\ up[d] = "up" /\ job[d] = None
  /\ \E next \in related[d] :
       /\ job' = [job EXCEPT ![d] = JobAt("complete", next[1], next[2])]
       /\ related' = [related EXCEPT ![d] = @ \ {next}]
  /\ UNCHANGED <<now, row, up, initial, events, outcomes, added, faults, crashes,
                 predicate, derived, lookup>>

-----------------------------------------------------------------------------
(* The loop: add_event and complete_event, then the processed_notifier.    *)


\* The stream that yielded the item starts over, after a pause if processing
\* it failed.
Notify(stream, failed) ==
  IF failed THEN [stream EXCEPT !.pc = "asleep"] ELSE Fresh

Processed(d, failed) ==
  /\ job' = [job EXCEPT ![d] = None]
  /\ IF job[d].of # None THEN UNCHANGED <<events, outcomes>>
     ELSE IF job[d].op = "add"
     THEN events' = [events EXCEPT ![d] = Notify(@, failed)] /\ UNCHANGED outcomes
     ELSE outcomes' = [outcomes EXCEPT ![d] = Notify(@, failed)] /\ UNCHANGED events

Busy(d, op, step) ==
  up[d] = "up" /\ job[d] # None /\ job[d].op = op /\ job[d].step = step

\* What the database has of an event or a predicate.
Stored(slot, of) ==
  IF of # None THEN predicate[<<slot, of>>]
  ELSE IF row[slot] = None THEN "absent"
  ELSE IF row[slot].attested THEN "attested" ELSE "open"

\* The read: the job goes on to its write or ends in an error.
LoopRead(d) ==
  /\ \E op \in {"add", "complete"} :
       /\ Busy(d, op, "read")
       /\ IF Stored(job[d].slot, job[d].of) = (IF op = "add" THEN "absent" ELSE "open")
          THEN job' = [job EXCEPT ![d].step = "write"] /\ UNCHANGED <<events, outcomes>>
          ELSE Processed(d, TRUE)
  /\ UNCHANGED <<now, row, up, initial, added, faults, crashes, wrappers>>

Store(slot, of, time, state) ==
  IF of # None THEN predicate' = [predicate EXCEPT ![<<slot, of>>] = state] /\ UNCHANGED row
  ELSE /\ row' = [row EXCEPT ![slot] = [time |-> time, attested |-> state = "attested"]]
       /\ UNCHANGED predicate

\* The effect of the write on the database; an insert over an existing row is
\* refused, and so is a second attestation by the in-memory database.
Insert(d) ==
  /\ Busy(d, "add", "write")
  /\ Stored(job[d].slot, job[d].of) = "absent"
  /\ Store(job[d].slot, job[d].of, job[d].slot, "open")

Complete(d) ==
  /\ Busy(d, "complete", "write")
  /\ Backend = "InMemory" => Stored(job[d].slot, job[d].of) = "open"
  /\ Store(job[d].slot, job[d].of, IF job[d].of = None THEN row[job[d].slot].time ELSE None,
           "attested")

LoopWrite(d) ==
  /\ Insert(d) \/ Complete(d)
  /\ Processed(d, FALSE)
  /\ UNCHANGED <<now, up, initial, added, faults, crashes, derived, lookup, related>>

LoopWriteRefused(d) ==
  /\ Busy(d, "add", "write")
  /\ Stored(job[d].slot, job[d].of) # "absent"
  /\ Processed(d, TRUE)
  /\ UNCHANGED <<now, row, up, initial, added, faults, crashes, wrappers>>

\* A read or a write of the handler fails; the write may yet have committed.
LoopFails(d) ==
  /\ faults < MaxFaults
  /\ up[d] = "up" /\ job[d] # None
  /\ UNCHANGED <<row, predicate>> \/ Insert(d) \/ Complete(d)
  /\ faults' = faults + 1
  /\ Processed(d, TRUE)
  /\ UNCHANGED <<now, up, initial, added, crashes, derived, lookup, related>>

-----------------------------------------------------------------------------
(* Starting, crashing, and the command line beside the daemon.             *)

Start(d) ==
  /\ up[d] = "down"
  /\ up' = [up EXCEPT ![d] = "up"]
  /\ initial' = [initial EXCEPT ![d] = IF InitialTime = None THEN now ELSE InitialTime]
  /\ UNCHANGED <<now, row, events, outcomes, job, added, faults, crashes, wrappers>>

\* The write under way may have been committed.  The in-memory database is
\* lost with the process, and so is what the wrappers were going to yield.
Crash(d) ==
  /\ crashes < MaxCrashes
  /\ up[d] # "down"
  /\ IF Backend = "InMemory"
     THEN /\ row' = [s \in Slot |-> None]
          /\ predicate' = [p \in Slot \X Predicate |-> "absent"]
     ELSE UNCHANGED <<row, predicate>> \/ Insert(d) \/ Complete(d)
  /\ up' = [up EXCEPT ![d] = "down"]
  /\ events' = [events EXCEPT ![d] = Fresh]
  /\ outcomes' = [outcomes EXCEPT ![d] = Fresh]
  /\ job' = [job EXCEPT ![d] = None]
  /\ derived' = [derived EXCEPT ![d] = <<>>]
  /\ lookup' = [lookup EXCEPT ![d] = None]
  /\ related' = [related EXCEPT ![d] = {}]
  /\ crashes' = crashes + 1
  /\ UNCHANGED <<now, initial, added, faults>>

\* `olivia add event <id> [expected_outcome_time]`: any id, any time or none.
CommandLineAdd(s, time) ==
  /\ <<s, time>> \in Addable
  /\ row[s] = None
  /\ row' = [row EXCEPT ![s] = [time |-> time, attested |-> FALSE]]
  /\ added' = added \union {s}
  /\ UNCHANGED <<now, up, initial, events, outcomes, job, faults, crashes, wrappers>>

-----------------------------------------------------------------------------
LoopStep(d) == LoopRead(d) \/ LoopWrite(d) \/ LoopWriteRefused(d)

Next ==
  \/ Tick
  \/ \E d \in Daemon :
       \/ Start(d) \/ Crash(d)
       \/ EventQuery(d) \/ EventQueryFails(d)
       \/ OutcomeQuery(d) \/ OutcomeQueryFails(d)
       \/ WakeEvents(d) \/ WakeOutcomes(d)
       \/ TakeEvent(d) \/ TakeOutcome(d)
       \/ TakeDerived(d) \/ LookUpRelated(d) \/ LookUpFails(d) \/ TakeRelated(d)
       \/ LoopStep(d) \/ LoopFails(d)
  \/ \E s \in Slot, time \in Slot \union {None} : CommandLineAdd(s, time)

\* The runtime polls what is ready, the clock goes on, and whoever runs the
\* daemon starts it again.  Of two streams that are ready select! takes either
\* at random, so an event stream that is ready again and again does not keep
\* the loop from an outcome for ever.  Nothing makes a daemon fail or crash.
Fairness ==
  /\ WF_vars(Tick)
  /\ \A d \in Daemon :
       /\ WF_vars(Start(d))
       /\ WF_vars(EventQuery(d)) /\ WF_vars(OutcomeQuery(d))
       /\ WF_vars(WakeEvents(d)) /\ WF_vars(WakeOutcomes(d))
       /\ WF_vars(TakeEvent(d)) /\ SF_vars(TakeOutcome(d))
       /\ WF_vars(TakeDerived(d)) /\ WF_vars(LookUpRelated(d)) /\ WF_vars(TakeRelated(d))
       /\ WF_vars(LoopStep(d))

Spec == Init /\ [][Next]_vars /\ Fairness

-----------------------------------------------------------------------------
(* Deployments, for the theorems.                                          *)

\* One daemon serves the database.
OneDaemon == \A c, d \in Daemon : c = d

\* What is added from the command line has the time its id says, or none.
AddedOnTime == \A a \in Addable : a[2] \in {a[1], None}

\* Nobody adds events of the ticker from the command line.
NobodyAdds == Addable = {}

\* No daemon crashes or is stopped.
NobodyCrashes == MaxCrashes = 0

-----------------------------------------------------------------------------
(* Properties.                                                             *)

Exists(s)   == row[s] # None
Attested(s) == row[s] # None /\ row[s].attested

(* The announced events form one unbroken series across failures, restarts  *)
(* and a second daemon, for the next event is computed from what the        *)
(* database holds, never from what the stream remembers: every event has    *)
(* the one an interval before it, but for the first.  Daemons that find the *)
(* database empty at the same time, and were started at different times,    *)
(* each announce a first one.  Events from the command line need not fit.   *)
Unbroken ==
  added = {} =>
    Cardinality({s \in Slot : Exists(s) /\ ~(s >= Interval /\ Exists(s - Interval))})
      <= Cardinality({initial[d] : d \in Daemon} \ {None})

(* Events are attested to in the order of their times.                     *)
InOrder ==
  added = {} =>
    \A s, t \in Slot : Exists(s) /\ s < t /\ Attested(t) => Attested(s)

(* No event is attested to before its time has come, and the daemons       *)
(* announce none, except for the initial one, before the look-ahead        *)
(* reaches it.                                                             *)
NotEarly ==
  \A s \in Slot :
    /\ Attested(s) => row[s].time <= now
    /\ Exists(s) => \/ s - LookAhead <= now \/ s \in added
                    \/ \A t \in Slot \ added : Exists(t) => s <= t

(* "time events always have this": no event on a ticker's path is without  *)
(* an expected outcome time, so that no query can panic the oracle loop.   *)
NeverPanics == \A d \in Daemon : up[d] # "panicked"

(* The series goes on: an event is followed by one that is no more than an  *)
(* interval later once the look-ahead reaches that, whatever reads and      *)
(* writes of the loop failed and however often it crashed in between ("will *)
(* try again").  What can stop it: that the event stream's own query failed *)
(* in every daemon, or that someone has added an event from the command     *)
(* line, either a later one, from which it goes on, or one under another    *)
(* time than its id says, for then it may be the next one again and again.  *)
TicksContinue ==
  \A s \in Slot : s + Interval \in Slot =>
    (Exists(s) /\ now >= s + Interval - LookAhead
       ~> \/ \E t \in s + 1 .. s + Interval : Exists(t)
          \/ \E t \in added : t > s + Interval \/ row[t].time # t
          \/ \A d \in Daemon : events[d].pc = "ended")

(* Every event is attested to once its time has come: those from the       *)
(* command line too, also when they are added after their time, while the  *)
(* outcome stream already waits for a later one, or when the event stream  *)
(* comes upon them again and again.  (Where the clock of the model stops   *)
(* the outcome streams may be left waiting for what is beyond.)            *)
TicksAttested ==
  \A s \in Slot :
    Exists(s) /\ row[s].time # None /\ now >= row[s].time
      ~> Attested(s) \/ \A d \in Daemon : outcomes[d].pc = "wait" /\ outcomes[d].due > MaxTime

Quiet == faults = 0 /\ crashes = 0

(* Every event is followed by all of its predicates, and a predicate that    *)
(* has been announced before the outcome of its event is looked up is        *)
(* attested to as well, unless the daemon crashes or a read or write fails   *)
(* in between: the streams are told of failures and come back to the events, *)
(* but nobody comes back to what the wrappers yield.                         *)
PredicatesFollow ==
  \A p \in Slot \X Predicate :
    /\ Exists(p[1]) ~> predicate[p] # "absent" \/ p[1] \in added \/ ~Quiet
    /\ predicate[p] = "open" /\ ~Attested(p[1]) /\ Exists(p[1]) /\ now >= p[1]
         ~> predicate[p] = "attested" \/ ~Quiet

(* A predicate is not attested to before its event has been announced and    *)
(* its time has come, also where the attestation of the event itself failed  *)
(* and has to be tried again.                                                *)
PredicatesInTime ==
  \A p \in Slot \X Predicate : predicate[p] = "attested" => Exists(p[1]) /\ p[1] <= now
=============================================================================
