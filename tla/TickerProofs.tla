---------------------------- MODULE TickerProofs ----------------------------
(***************************************************************************)
(* Theorems about Ticker, for any interval, look-ahead and predicates, any *)
(* number of slots, failures and crashes.                                  *)
(***************************************************************************)
EXTENDS Ticker, LeastNumbers, TLAPS

-----------------------------------------------------------------------------
(* The inductive invariants.                                               *)

\* The event of slot s has a time, and it has come.
Ripened(s) ==
  s \in Slot /\ row[s] # None /\ row[s].time \in Slot /\ row[s].time <= now

(* What the streams, the wrappers and the loop of a daemon hold in their    *)
(* hands is in the database, and what is being completed has ripened.       *)
InHand(d) ==
  /\ up[d] = "up" => initial[d] \in Slot
  /\ events[d].pc = "wait" =>
       /\ events[d].slot \in Nat
       /\ events[d].slot \in Slot \/ events[d].due = events[d].slot - LookAhead
  /\ outcomes[d].pc = "wait" =>
       /\ outcomes[d].slot \in Slot /\ outcomes[d].due \in Slot
       /\ row[outcomes[d].slot] # None /\ row[outcomes[d].slot].time = outcomes[d].due
  /\ lookup[d] # None => Ripened(lookup[d])
  /\ \A p \in related[d] : Ripened(p[1])
  /\ Completing(d) => Ripened(job[d].slot)

Matured ==
  /\ \A s \in Slot : Attested(s) => Ripened(s)
  /\ \A p \in Slot \X Predicate : predicate[p] = "attested" => Ripened(p[1])

TickerInv == TypeOK /\ Matured /\ \A d \in Daemon : InHand(d)

\* The loop of d is at an event, not at one of its predicates.
Adding(d) == job[d] # None /\ job[d].op = "add" /\ job[d].of = None

\* The slots that the event stream of d is about to announce.
Pending(d) ==
  (IF events[d].pc = "wait" THEN {events[d].slot} ELSE {})
    \union (IF Adding(d) THEN {job[d].slot} ELSE {})

\* The slots that the daemons have announced.
Series == {s \in Slot \ added : Exists(s)}

(* Series: a single daemon appends to the series, never before the          *)
(* look-ahead unless it begins it.                                          *)
SeriesInv ==
  /\ \A s \in Series : row[s].time = s
  /\ \A s \in Series : s - LookAhead <= now \/ \A t \in Series : s <= t
  /\ \A d \in Daemon :
       /\ Adding(d) => events[d].pc = "yielded"
       /\ \A q \in Pending(d) : \A s \in Series : s < q
       /\ events[d].pc = "wait" =>
            Series = {} \/ events[d].due = events[d].slot - LookAhead
       /\ Adding(d) => Series = {} \/ job[d].slot - LookAhead <= now

\* Slot s begins a series.
Begins(s) == Exists(s) /\ ~(s >= Interval /\ Exists(s - Interval))

(* Unbroken: the next event is an interval after one that is there.         *)
UnbrokenInv ==
  added = {} =>
    /\ \A s, t \in Slot : Begins(s) /\ Begins(t) => s = t
    /\ Series # {} => \E d \in Daemon : initial[d] # None
    /\ \A d \in Daemon : \A q \in Pending(d) :
         Series = {} \/ (q >= Interval /\ q - Interval \in Series)

\* The loop is at an event only when its stream is waiting to be told of it.
Yielding == \A d \in Daemon : Adding(d) => events[d].pc = "yielded"

(* Several daemons, and nobody else who adds events: the first event is the *)
(* configured one, or one whose time has come when a daemon was started.    *)
EarlyInv ==
  /\ added = {}
  /\ \A d \in Daemon : initial[d] # None =>
       IF InitialTime = None THEN initial[d] <= now ELSE initial[d] = InitialTime
  /\ \A s \in Series : /\ row[s].time = s
                       /\ s - LookAhead <= now \/ s = InitialTime
                       /\ InitialTime # None => InitialTime <= s
  /\ \A d \in Daemon :
       /\ \A q \in Pending(d) : InitialTime # None => InitialTime <= q
       /\ events[d].pc = "wait" => \/ events[d].due = events[d].slot - LookAhead
                                   \/ events[d].slot - LookAhead <= now
                                   \/ events[d].slot = InitialTime
       /\ Adding(d) => job[d].slot - LookAhead <= now \/ job[d].slot = InitialTime

(* Several daemons that never crash: each series begins where one of them   *)
(* does.                                                                    *)
BeginsInv ==
  /\ \A d \in Daemon : initial[d] # None => up[d] # "down"
  /\ \A s \in Series : row[s].time = s
  /\ added = {} =>
       /\ \A s \in Slot : Begins(s) => \E d \in Daemon : initial[d] = s
       /\ \A d \in Daemon : \A q \in Pending(d) :
            q = initial[d] \/ (q >= Interval /\ q - Interval \in Series)

\* The slots whose outcome the daemon is about to attest to.
Awaited(d) ==
  {s \in Slot : \/ outcomes[d].pc = "wait" /\ outcomes[d].slot = s
                \/ Completing(d) /\ job[d].of = None /\ job[d].slot = s}

(* All that comes before the outcome that is awaited has been attested to.  *)
OrderInv ==
  added = {} =>
    /\ InOrder
    /\ \A d \in Daemon : \A s \in Awaited(d) : \A t \in Series : t < s => Attested(t)

-----------------------------------------------------------------------------
(* What the helpers of the steps do.                                       *)

\* The clock's slots are numbers, and every tick up to the look-ahead is one.
LEMMA SlotsAreNumbers ==
  /\ Slot \subseteq Nat /\ None \notin Slot
  /\ \A n \in Nat, t \in 0 .. MaxTime : n - LookAhead <= t => n \in Slot
BY TickerAssumption, NoneIsNothing DEF Slot

\* An event's predicates, in their order.
LEMMA DeriveType ==
  ASSUME NEW s \in Slot
  PROVE  Derive(s) \in Seq(Slot \X Predicate)
<1>1. DOMAIN Predicates = 1 .. Len(Predicates) /\ Len(Predicates) \in Nat
  BY TickerAssumption
<1>2. \A i \in DOMAIN Predicates : Predicates[i] \in Predicate
  BY DEF Predicate
<1> QED BY <1>1, <1>2 DEF Derive

\* The loop goes back to its streams; of these one has been told.
LEMMA ProcessedEffect ==
  ASSUME TypeOK, NEW d \in Daemon, NEW failed \in BOOLEAN, job[d] # None,
         Processed(d, failed)
  PROVE  /\ job' \in [Daemon -> Job \union {None}] /\ job' = [job EXCEPT ![d] = None]
         /\ events' \in [Daemon -> Stream] /\ outcomes' \in [Daemon -> Stream]
         /\ \A c \in Daemon \ {d} : events'[c] = events[c] /\ outcomes'[c] = outcomes[c]
         /\ events'[d] = events[d] \/ events'[d].pc # "wait"
         /\ outcomes'[d] = outcomes[d] \/ outcomes'[d].pc # "wait"
<1>1. Fresh \in Stream /\ Fresh.pc = "query"
  BY DEF Fresh, Stream
<1>2. ASSUME NEW stream \in Stream
      PROVE  Notify(stream, failed) \in Stream /\ Notify(stream, failed).pc # "wait"
  BY <1>1 DEF Notify, Stream
<1>3. events[d] \in Stream /\ outcomes[d] \in Stream
  BY DEF TypeOK
<1>4. CASE UNCHANGED <<events, outcomes>>
  BY <1>4 DEF Processed, TypeOK
<1>5. CASE events' = [events EXCEPT ![d] = Notify(@, failed)] /\ UNCHANGED outcomes
  BY <1>2, <1>3, <1>5 DEF Processed, TypeOK
<1>6. CASE outcomes' = [outcomes EXCEPT ![d] = Notify(@, failed)] /\ UNCHANGED events
  BY <1>2, <1>3, <1>6 DEF Processed, TypeOK
<1> QED BY <1>4, <1>5, <1>6 DEF Processed

\* The rows that are there stay, with their times and attestations.
RowsStay ==
  \A s \in Slot : row[s] # None =>
    /\ row'[s] # None /\ row'[s].time = row[s].time
    /\ row[s].attested => row'[s].attested

\* A write adds the event or the predicate the loop is at, or attests to it.
LEMMA WriteEffect ==
  ASSUME TypeOK, NEW d \in Daemon, InHand(d), Insert(d) \/ Complete(d)
  PROVE  /\ job[d] \in Job
         /\ row' \in [Slot -> Row \union {None}]
         /\ predicate' \in [Slot \X Predicate -> {"absent", "open", "attested"}]
         /\ RowsStay
         /\ \A s \in Slot : row[s] = None /\ row'[s] # None =>
              /\ Adding(d) /\ s = job[d].slot
              /\ row'[s].time = s /\ ~row'[s].attested
         /\ \A s \in Slot : row[s] # None /\ row'[s] # None /\ ~row[s].attested
                              /\ row'[s].attested =>
              Completing(d) /\ job[d].of = None /\ s = job[d].slot
         /\ \A p \in Slot \X Predicate :
              predicate[p] # "attested" /\ predicate'[p] = "attested" =>
                Completing(d) /\ p[1] = job[d].slot
<1> DEFINE s == job[d].slot
           of == job[d].of
<1>1. job[d] \in Job /\ s \in Slot /\ of \in Predicate \union {None}
  BY DEF Insert, Complete, Busy, TypeOK, Job
<1>2. CASE of # None
  <2>1. PICK state \in {"open", "attested"} :
          /\ predicate' = [predicate EXCEPT ![<<s, of>>] = state] /\ UNCHANGED row
          /\ state = "attested" => Completing(d)
    BY <1>1, <1>2 DEF Insert, Complete, Busy, Store, Completing
  <2>2. <<s, of>> \in Slot \X Predicate
    BY <1>1, <1>2
  <2> QED BY <1>1, <1>2, <2>1, <2>2 DEF TypeOK, RowsStay
<1>3. CASE of = None /\ Insert(d)
  <2>1. row[s] = None /\ UNCHANGED predicate
        /\ row' = [row EXCEPT ![s] = [time |-> s, attested |-> FALSE]]
    BY <1>1, <1>3 DEF Insert, Store, Stored, TypeOK
  <2>2. [time |-> s, attested |-> FALSE] \in Row /\ None \notin Row
    BY <1>1, NoneIsNothing DEF Row
  <2> QED BY <1>1, <1>3, <2>1, <2>2 DEF Insert, Busy, TypeOK, RowsStay, Adding
<1>4. CASE of = None /\ Complete(d)
  <2>1. Completing(d) /\ row[s] # None /\ row[s].time \in Slot
    BY <1>4 DEF Complete, Busy, Completing, InHand, Ripened
  <2>2. row' = [row EXCEPT ![s] = [time |-> row[s].time, attested |-> TRUE]]
        /\ UNCHANGED predicate
    BY <1>4 DEF Complete, Store
  <2>3. [time |-> row[s].time, attested |-> TRUE] \in Row
    BY <2>1 DEF Row
  <2>4. None \notin Row
    BY NoneIsNothing
  <2> QED BY <1>1, <1>4, <2>1, <2>2, <2>3, <2>4 DEF TypeOK, RowsStay
<1> QED BY <1>2, <1>3, <1>4

-----------------------------------------------------------------------------
(* Type correctness.                                                       *)

\* Every step keeps the types.
LEMMA TypeStep ==
  ASSUME TickerInv, [Next]_vars
  PROVE  TypeOK'
<1> USE DEF TickerInv, wrappers
<1>0. TypeOK
  OBVIOUS
<1>n. Slot \subseteq Nat /\ Interval \in Nat /\ LookAhead \in Nat
  BY SlotsAreNumbers, TickerAssumption
<1>f. Fresh \in Stream
  BY DEF Fresh, Stream
<1>p. ASSUME NEW stream \in [Daemon -> Stream], NEW d \in Daemon,
             NEW pc \in {"ended", "asleep", "yielded"}
      PROVE  [stream EXCEPT ![d].pc = pc] \in [Daemon -> Stream]
  BY DEF Stream
<1>m. faults \in 0 .. MaxFaults /\ (faults < MaxFaults => faults + 1 \in 0 .. MaxFaults)
  BY TickerAssumption DEF TypeOK
<1>1. CASE Tick
  BY <1>1, TickerAssumption DEF Tick, TypeOK
<1>2. ASSUME NEW d \in Daemon, Start(d) PROVE TypeOK'
  <2>1. initial'[d] \in Slot \union {None}
    BY <1>2, TickerAssumption DEF Start, TypeOK, Slot
  <2> QED BY <1>2, <2>1 DEF Start, TypeOK
<1>3. ASSUME NEW d \in Daemon, Crash(d) PROVE TypeOK'
  <2>1. /\ row' \in [Slot -> Row \union {None}]
        /\ predicate' \in [Slot \X Predicate -> {"absent", "open", "attested"}]
    <3>1. CASE Backend = "InMemory"
      BY <1>3, <3>1 DEF Crash
    <3>2. CASE Backend # "InMemory"
      BY <1>3, <3>2, WriteEffect DEF Crash, TypeOK
    <3> QED BY <3>1, <3>2
  <2>2. /\ derived' \in [Daemon -> Seq(Slot \X Predicate)]
        /\ related' \in [Daemon -> SUBSET (Slot \X Predicate)]
        /\ lookup' \in [Daemon -> Slot \union {None}]
    BY <1>3 DEF Crash, TypeOK
  <2>3. crashes' \in 0 .. MaxCrashes
    BY <1>3, TickerAssumption DEF Crash, TypeOK
  <2> QED BY <1>3, <1>f, <2>1, <2>2, <2>3 DEF Crash, TypeOK
<1>4. ASSUME NEW d \in Daemon, EventQuery(d) PROVE TypeOK'
  <2>2. events' \in [Daemon -> Stream]
    <3>1. CASE events' = [events EXCEPT ![d] =
                            [pc |-> "wait", slot |-> initial[d], due |-> 0]]
      <4>1. initial[d] \in Nat
        BY <1>4, <1>n DEF EventQuery, InHand
      <4> QED BY <3>1, <4>1 DEF TypeOK, Stream
    <3>2. ASSUME NEW s \in Latest, row[s].time # None,
                 events' = [events EXCEPT ![d] = Upcoming(row[s].time + Interval)]
          PROVE  events' \in [Daemon -> Stream]
      <4>1. row[s].time \in Slot
        BY <3>2 DEF Latest, TypeOK, Row
      <4>2. Upcoming(row[s].time + Interval) \in Stream
        <5>1. row[s].time \in Nat
          BY <1>n, <4>1
        <5> QED BY <1>n, <5>1 DEF Upcoming, Stream
      <4> QED BY <3>2, <4>2 DEF TypeOK
    <3> QED BY <1>4, <3>1, <3>2 DEF EventQuery, TypeOK
  <2>3. up' \in [Daemon -> {"down", "up", "panicked"}]
    <3>1. up' \in {up, [up EXCEPT ![d] = "panicked"]}
      BY <1>4 DEF EventQuery
    <3>2. up \in [Daemon -> {"down", "up", "panicked"}]
      BY <1>0 DEF TypeOK
    <3> QED BY <3>1, <3>2
  <2> QED BY <1>4, <2>2, <2>3 DEF EventQuery, TypeOK
<1>5. ASSUME NEW d \in Daemon, OutcomeQuery(d) PROVE TypeOK'
  <2>1. outcomes' \in [Daemon -> Stream]
    <3>1. ASSUME NEW s \in Earliest, row[s].time # None,
                 outcomes' = [outcomes EXCEPT ![d] = Ripe(s)]
          PROVE  outcomes' \in [Daemon -> Stream]
      <4>1. s \in Slot /\ row[s].time \in Slot
        BY <3>1 DEF Earliest, TypeOK, Row
      <4>2. Ripe(s) \in Stream
        <5>1. s \in Nat /\ row[s].time \in Nat
          BY <1>n, <4>1
        <5> QED BY <5>1 DEF Ripe, Stream
      <4> QED BY <3>1, <4>2 DEF TypeOK
    <3>2. [outcomes EXCEPT ![d].pc = "asleep"] \in [Daemon -> Stream]
      BY <1>p DEF TypeOK
    <3> QED BY <1>5, <3>1, <3>2 DEF OutcomeQuery, TypeOK
  <2>2. up' \in [Daemon -> {"down", "up", "panicked"}]
    <3>1. up' \in {up, [up EXCEPT ![d] = "panicked"]}
      BY <1>5 DEF OutcomeQuery
    <3>2. up \in [Daemon -> {"down", "up", "panicked"}]
      BY <1>0 DEF TypeOK
    <3> QED BY <3>1, <3>2
  <2> QED BY <1>5, <2>1, <2>2 DEF OutcomeQuery, TypeOK
<1>6. ASSUME NEW d \in Daemon,
             EventQueryFails(d) \/ OutcomeQueryFails(d) \/ WakeEvents(d) \/ WakeOutcomes(d)
      PROVE  TypeOK'
  <2>1. CASE EventQueryFails(d)
    BY <1>m, <1>p, <2>1 DEF EventQueryFails, TypeOK
  <2>2. CASE OutcomeQueryFails(d)
    BY <1>m, <1>p, <2>2 DEF OutcomeQueryFails, TypeOK
  <2>3. CASE WakeEvents(d) \/ WakeOutcomes(d)
    BY <1>f, <2>3 DEF WakeEvents, WakeOutcomes, TypeOK
  <2> QED BY <1>6, <2>1, <2>2, <2>3
<1>j. ASSUME NEW op \in {"add", "complete"}, NEW s \in Slot, NEW of \in Predicate \union {None}
      PROVE  JobAt(op, s, of) \in Job
  BY DEF JobAt, Job
<1>7. ASSUME NEW d \in Daemon, TakeEvent(d) PROVE TypeOK'
  <2>1. events[d].slot \in Slot
    <3>1. CASE events[d].due = events[d].slot - LookAhead /\ events[d].slot \in Nat
      BY <1>7, <3>1, SlotsAreNumbers DEF TakeEvent, Due, TypeOK
    <3> QED BY <1>7, <3>1 DEF TakeEvent, Due, InHand
  <2>2. events' \in [Daemon -> Stream]
    BY <1>7, <1>p DEF TakeEvent, TypeOK
  <2>3. Derive(events[d].slot) \in Seq(Slot \X Predicate)
    BY <2>1, DeriveType
  <2>4. JobAt("add", events[d].slot, None) \in Job
    BY <1>j, <2>1
  <2> QED BY <1>7, <2>2, <2>3, <2>4 DEF TakeEvent, TypeOK
<1>8. ASSUME NEW d \in Daemon, TakeOutcome(d) PROVE TypeOK'
  <2>1. outcomes[d].slot \in Slot
    BY <1>8 DEF TakeOutcome, Due, InHand
  <2>2. outcomes' \in [Daemon -> Stream]
    BY <1>8, <1>p DEF TakeOutcome, TypeOK
  <2>3. JobAt("complete", outcomes[d].slot, None) \in Job
    BY <1>j, <2>1
  <2> QED BY <1>8, <2>1, <2>2, <2>3 DEF TakeOutcome, TypeOK
<1>9. ASSUME NEW d \in Daemon, TakeDerived(d) PROVE TypeOK'
  <2>1. Head(derived[d]) \in Slot \X Predicate /\ Tail(derived[d]) \in Seq(Slot \X Predicate)
    BY <1>9 DEF TakeDerived, TypeOK
  <2>2. JobAt("add", Head(derived[d])[1], Head(derived[d])[2]) \in Job
    BY <1>j, <2>1
  <2> QED BY <1>9, <2>1, <2>2 DEF TakeDerived, TypeOK
<1>10. ASSUME NEW d \in Daemon, LookUpRelated(d) \/ LookUpFails(d) PROVE TypeOK'
  <2>1. related' \in [Daemon -> SUBSET (Slot \X Predicate)]
    <3>1. lookup[d] \in Slot
      BY <1>10 DEF LookUpRelated, LookUpFails, TypeOK
    <3>2. {p \in {lookup[d]} \X Predicate : predicate[p] # "absent"}
            \subseteq Slot \X Predicate
      BY <3>1
    <3>3. related \in [Daemon -> SUBSET (Slot \X Predicate)]
      BY <1>0 DEF TypeOK
    <3>4. related' = related \/ related' = [related EXCEPT ![d] =
            {p \in {lookup[d]} \X Predicate : predicate[p] # "absent"}]
      BY <1>10 DEF LookUpRelated, LookUpFails
    <3> QED BY <3>2, <3>3, <3>4
  <2>2. faults' \in 0 .. MaxFaults
    BY <1>10, <1>m DEF LookUpRelated, LookUpFails
  <2> QED BY <1>10, <2>1, <2>2 DEF LookUpRelated, LookUpFails, TypeOK
<1>11. ASSUME NEW d \in Daemon, TakeRelated(d) PROVE TypeOK'
  <2>1. PICK next \in related[d] :
          /\ job' = [job EXCEPT ![d] = JobAt("complete", next[1], next[2])]
          /\ related' = [related EXCEPT ![d] = @ \ {next}]
    BY <1>11 DEF TakeRelated
  <2>2. next \in Slot \X Predicate
    BY <2>1 DEF TypeOK
  <2>3. JobAt("complete", next[1], next[2]) \in Job
    BY <1>j, <2>2
  <2> QED BY <1>11, <2>1, <2>3 DEF TakeRelated, TypeOK
<1>12. ASSUME NEW d \in Daemon, LoopRead(d) PROVE TypeOK'
  <2>1. CASE job' = [job EXCEPT ![d].step = "write"] /\ UNCHANGED <<events, outcomes>>
    <3>1. job[d] \in Job
      BY <1>12 DEF LoopRead, Busy, TypeOK
    <3>2. [job[d] EXCEPT !.step = "write"] \in Job
      BY <3>1 DEF Job
    <3> QED BY <1>12, <2>1, <3>2 DEF LoopRead, TypeOK
  <2>2. CASE Processed(d, TRUE)
    <3>1. job[d] # None
      BY <1>12 DEF LoopRead, Busy
    <3> QED BY <1>12, <2>2, <3>1, ProcessedEffect DEF LoopRead, TypeOK
  <2> QED BY <1>12, <2>1, <2>2 DEF LoopRead
<1>13. ASSUME NEW d \in Daemon, LoopWrite(d) \/ LoopWriteRefused(d) \/ LoopFails(d)
       PROVE  TypeOK'
  <2>1. /\ row' \in [Slot -> Row \union {None}]
        /\ predicate' \in [Slot \X Predicate -> {"absent", "open", "attested"}]
    BY <1>13, WriteEffect DEF LoopWrite, LoopWriteRefused, LoopFails, TypeOK
  <2>2. job[d] # None /\ \E failed \in BOOLEAN : Processed(d, failed)
    BY <1>13 DEF LoopWrite, LoopWriteRefused, LoopFails, Insert, Complete, Busy
  <2>3. faults' \in 0 .. MaxFaults
    BY <1>13, <1>m DEF LoopWrite, LoopWriteRefused, LoopFails
  <2>4. /\ job' \in [Daemon -> Job \union {None}]
        /\ events' \in [Daemon -> Stream] /\ outcomes' \in [Daemon -> Stream]
    BY <2>2, ProcessedEffect
  <2>5. UNCHANGED <<now, up, initial, added, crashes, derived, lookup, related>>
    BY <1>13 DEF LoopWrite, LoopWriteRefused, LoopFails
  <2> QED BY <2>1, <2>3, <2>4, <2>5 DEF TypeOK
<1>14. ASSUME NEW s \in Slot, NEW time \in Slot \union {None}, CommandLineAdd(s, time)
       PROVE  TypeOK'
  <2>1. [time |-> time, attested |-> FALSE] \in Row
    BY DEF Row
  <2> QED BY <1>14, <2>1 DEF CommandLineAdd, TypeOK
<1>15. CASE UNCHANGED vars
  BY <1>15 DEF vars, TypeOK
<1> QED
  BY <1>1, <1>2, <1>3, <1>4, <1>5, <1>6, <1>7, <1>8, <1>9, <1>10, <1>11, <1>12, <1>13,
     <1>14, <1>15
  DEF Next, LoopStep

-----------------------------------------------------------------------------
(* What the daemons hold in their hands.                                   *)

\* The part of daemon d is as it was.
Untouched(d) ==
  /\ up'[d] = up[d] /\ initial'[d] = initial[d]
  /\ events'[d] = events[d] /\ outcomes'[d] = outcomes[d] /\ job'[d] = job[d]
  /\ lookup'[d] = lookup[d] /\ related'[d] = related[d]

\* A time that has come stays past.
LEMMA RipenedStays ==
  ASSUME TypeOK, RowsStay, now' \in Nat, now <= now'
  PROVE  \A s \in Slot : row[s] # None /\ row[s].time \in Slot /\ row[s].time <= now =>
           row'[s] # None /\ row'[s].time \in Slot /\ row'[s].time <= now'
<1> SUFFICES ASSUME NEW s \in Slot, row[s] # None, row[s].time \in Slot, row[s].time <= now
             PROVE  row'[s] # None /\ row'[s].time \in Slot /\ row'[s].time <= now'
  OBVIOUS
<1>1. row'[s] # None /\ row'[s].time = row[s].time
  BY DEF RowsStay
<1>2. PICK t \in Nat : t = row[s].time
  BY SlotsAreNumbers
<1> QED BY <1>1, <1>2 DEF TypeOK

\* What daemon d holds stays true while others go on.
LEMMA InHandKept ==
  ASSUME TypeOK, NEW d \in Daemon, InHand(d), RowsStay, now' \in Nat, now <= now',
         Untouched(d)
  PROVE  InHand(d)'
<1>1. lookup[d] # None => Ripened(lookup[d])'
  BY RipenedStays DEF InHand, Untouched, Ripened
<1>2. \A p \in related'[d] : Ripened(p[1])'
  BY RipenedStays DEF InHand, Untouched, Ripened
<1>3. Completing(d)' => Ripened(job[d].slot)'
  BY RipenedStays DEF InHand, Untouched, Ripened, Completing
<1>4. outcomes[d].pc = "wait" =>
       /\ outcomes[d].slot \in Slot /\ outcomes[d].due \in Slot
       /\ row'[outcomes[d].slot] # None /\ row'[outcomes[d].slot].time = outcomes[d].due
  BY DEF InHand, RowsStay
<1> QED BY <1>1, <1>2, <1>3, <1>4 DEF InHand, Untouched, Ripened, Completing

\* What daemon d holds is in the database after a step of its own.
LEMMA InHandStep ==
  ASSUME TickerInv, [Next]_vars
  PROVE  \A c \in Daemon : InHand(c)'
<1> SUFFICES ASSUME NEW c \in Daemon PROVE InHand(c)'
  OBVIOUS
<1> USE DEF wrappers
<1>0. TypeOK /\ InHand(c) /\ now \in Nat
  BY DEF TickerInv, TypeOK
<1>k. ASSUME RowsStay, now' \in Nat, now <= now', Untouched(c) PROVE InHand(c)'
  BY <1>0, <1>k, InHandKept
<1>u. ASSUME UNCHANGED row PROVE RowsStay
  BY <1>u DEF RowsStay
<1>1. CASE Tick
  BY <1>0, <1>1, <1>k, <1>u DEF Tick, Untouched
<1>2. ASSUME NEW d \in Daemon, Start(d) PROVE InHand(c)'
  <2>1. CASE c = d
    <3>1. initial'[d] \in Slot
      BY <1>0, <1>2, TickerAssumption, SlotsAreNumbers DEF Start, TypeOK, Slot
    <3> QED BY <1>0, <1>2, <2>1, <3>1 DEF Start, InHand, Ripened, Completing, TypeOK
  <2> QED BY <1>0, <1>2, <1>k, <1>u, <2>1 DEF Start, Untouched, TypeOK
<1>3. ASSUME NEW d \in Daemon, Crash(d) PROVE InHand(c)'
  <2>1. CASE c = d
    BY <1>0, <1>3, <2>1 DEF Crash, InHand, Fresh, Completing, TypeOK
  <2>2. CASE c # d
    <3>1. Backend # "InMemory"
      BY <2>2, TickerAssumption
    <3>2. RowsStay
      BY <1>3, <1>u, <3>1, WriteEffect DEF Crash, TickerInv
    <3> QED BY <1>0, <1>3, <1>k, <2>2, <3>2 DEF Crash, Untouched, TypeOK
  <2> QED BY <2>1, <2>2
<1>4. ASSUME NEW d \in Daemon, EventQuery(d) PROVE InHand(c)'
  <2>1. CASE c = d
    <3>1. events'[d].pc = "wait" =>
            /\ events'[d].slot \in Nat
            /\ events'[d].slot \in Slot \/ events'[d].due = events'[d].slot - LookAhead
      <4>1. CASE events' = [events EXCEPT ![d] =
                              [pc |-> "wait", slot |-> initial[d], due |-> 0]]
        BY <1>0, <1>4, <2>1, <4>1, SlotsAreNumbers DEF EventQuery, InHand, TypeOK
      <4>2. ASSUME NEW s \in Latest, row[s].time # None,
                   events' = [events EXCEPT ![d] = Upcoming(row[s].time + Interval)]
            PROVE  /\ events'[d].slot \in Nat
                   /\ events'[d].due = events'[d].slot - LookAhead
        <5>1. row[s].time \in Nat
          BY <1>0, <4>2, SlotsAreNumbers DEF Latest, TypeOK, Row
        <5>2. PICK n : n = row[s].time + Interval
          OBVIOUS
        <5>3. n \in Nat
          BY <5>1, <5>2, TickerAssumption
        <5>4. events'[d] = Upcoming(n)
          BY <1>0, <4>2, <5>2 DEF TypeOK
        <5>5. events'[d].slot = n /\ events'[d].due = n - LookAhead
          BY <5>4 DEF Upcoming
        <5> QED BY <5>3, <5>5
      <4>3. CASE UNCHANGED events
        BY <1>0, <2>1, <4>3 DEF InHand
      <4> QED BY <1>4, <4>1, <4>2, <4>3 DEF EventQuery
    <3>2. up[d] = "up" /\ UNCHANGED <<now, row, initial, outcomes, job, lookup, related>>
      BY <1>4 DEF EventQuery
    <3> QED BY <1>0, <2>1, <3>1, <3>2 DEF InHand, Ripened, Completing
  <2> QED BY <1>0, <1>4, <1>k, <1>u, <2>1 DEF EventQuery, Untouched, TypeOK
<1>5. ASSUME NEW d \in Daemon, OutcomeQuery(d) PROVE InHand(c)'
  <2>1. CASE c = d
    <3>1. outcomes'[d].pc = "wait" =>
            /\ outcomes'[d].slot \in Slot /\ outcomes'[d].due \in Slot
            /\ row[outcomes'[d].slot] # None
            /\ row[outcomes'[d].slot].time = outcomes'[d].due
      <4>1. ASSUME NEW s \in Earliest, row[s].time # None,
                   outcomes' = [outcomes EXCEPT ![d] = Ripe(s)]
            PROVE  /\ outcomes'[d].slot = s /\ outcomes'[d].due = row[s].time
                   /\ s \in Slot /\ row[s] # None /\ row[s].time \in Slot
        BY <1>0, <4>1 DEF Ripe, Earliest, TypeOK, Row
      <4>2. CASE outcomes' = [outcomes EXCEPT ![d].pc = "asleep"]
        BY <1>0, <4>2 DEF TypeOK, Stream
      <4>3. CASE UNCHANGED outcomes
        BY <1>0, <2>1, <4>3 DEF InHand
      <4> QED BY <1>5, <4>1, <4>2, <4>3 DEF OutcomeQuery
    <3> QED BY <1>0, <1>5, <2>1, <3>1 DEF OutcomeQuery, InHand, Ripened, Completing, TypeOK
  <2> QED BY <1>0, <1>5, <1>k, <1>u, <2>1 DEF OutcomeQuery, Untouched, TypeOK
<1>6. ASSUME NEW d \in Daemon,
             EventQueryFails(d) \/ OutcomeQueryFails(d) \/ WakeEvents(d) \/ WakeOutcomes(d)
      PROVE  InHand(c)'
  <2>1. CASE EventQueryFails(d)
    BY <1>0, <2>1 DEF EventQueryFails, InHand, Ripened, Completing, TypeOK, Stream
  <2>2. CASE OutcomeQueryFails(d)
    BY <1>0, <2>2 DEF OutcomeQueryFails, InHand, Ripened, Completing, TypeOK, Stream
  <2>3. CASE WakeEvents(d)
    BY <1>0, <2>3 DEF WakeEvents, Fresh, InHand, Ripened, Completing, TypeOK
  <2>4. CASE WakeOutcomes(d)
    BY <1>0, <2>4 DEF WakeOutcomes, Fresh, InHand, Ripened, Completing, TypeOK
  <2> QED BY <1>6, <2>1, <2>2, <2>3, <2>4
<1>7. ASSUME NEW d \in Daemon, TakeEvent(d) PROVE InHand(c)'
  BY <1>0, <1>7 DEF TakeEvent, JobAt, InHand, Ripened, Completing, TypeOK, Stream
<1>8. ASSUME NEW d \in Daemon, TakeOutcome(d) PROVE InHand(c)'
  <2>1. CASE c = d
    <3>1. Ripened(outcomes[d].slot)
      BY <1>0, <1>8, <2>1 DEF TakeOutcome, Due, InHand, Ripened
    <3> QED BY <1>0, <1>8, <2>1, <3>1
            DEF TakeOutcome, JobAt, InHand, Ripened, Completing, TypeOK, Stream
  <2> QED BY <1>0, <1>8, <1>k, <1>u, <2>1 DEF TakeOutcome, Untouched, TypeOK
<1>9. ASSUME NEW d \in Daemon, TakeDerived(d) PROVE InHand(c)'
  BY <1>0, <1>9 DEF TakeDerived, JobAt, InHand, Ripened, Completing, TypeOK
<1>10. ASSUME NEW d \in Daemon, LookUpRelated(d) \/ LookUpFails(d) PROVE InHand(c)'
  BY <1>0, <1>10 DEF LookUpRelated, LookUpFails, InHand, Ripened, Completing, TypeOK
<1>11. ASSUME NEW d \in Daemon, TakeRelated(d) PROVE InHand(c)'
  BY <1>0, <1>11 DEF TakeRelated, JobAt, InHand, Ripened, Completing, TypeOK
<1>p. ASSUME NEW d \in Daemon, NEW failed \in BOOLEAN, job[d] # None, Processed(d, failed),
             RowsStay, UNCHANGED <<now, up, initial, lookup, related>>
      PROVE  InHand(c)'
  <2>1. /\ job' = [job EXCEPT ![d] = None]
        /\ \A e \in Daemon \ {d} : events'[e] = events[e] /\ outcomes'[e] = outcomes[e]
        /\ events'[d] = events[d] \/ events'[d].pc # "wait"
        /\ outcomes'[d] = outcomes[d] \/ outcomes'[d].pc # "wait"
    BY <1>0, <1>p, ProcessedEffect
  <2>2. CASE c = d
    <3>1. (lookup[d] # None => Ripened(lookup[d])') /\ \A q \in related[d] : Ripened(q[1])'
      BY <1>0, <1>p, <2>2, RipenedStays DEF InHand, Ripened
    <3>2. outcomes[d].pc = "wait" =>
            row'[outcomes[d].slot] # None /\ row'[outcomes[d].slot].time = outcomes[d].due
      BY <1>0, <1>p, <2>2 DEF InHand, RowsStay
    <3>3. ~Completing(d)'
      BY <1>0, <2>1 DEF Completing, TypeOK
    <3> QED BY <1>0, <1>p, <2>1, <2>2, <3>1, <3>2, <3>3 DEF InHand, Ripened
  <2>3. CASE c # d
    <3>1. Untouched(c)
      BY <1>0, <1>p, <2>1, <2>3 DEF Untouched, TypeOK
    <3>2. now' \in Nat /\ now <= now'
      BY <1>0, <1>p
    <3> QED BY <1>p, <1>k, <3>1, <3>2
  <2> QED BY <2>2, <2>3
<1>12. ASSUME NEW d \in Daemon, LoopRead(d) PROVE InHand(c)'
  <2>1. CASE job' = [job EXCEPT ![d].step = "write"] /\ UNCHANGED <<events, outcomes>>
    <3>1. job[d] # None /\ job[d] \in Job
      BY <1>0, <1>12 DEF LoopRead, Busy, TypeOK
    <3>2. job'[d].op = job[d].op /\ job'[d].slot = job[d].slot
      BY <1>0, <2>1, <3>1 DEF TypeOK, Job
    <3>3. Completing(c)' => Completing(c) /\ job'[c].slot = job[c].slot
      BY <1>0, <2>1, <3>1, <3>2 DEF Completing, TypeOK
    <3> QED BY <1>0, <1>12, <2>1, <3>3 DEF LoopRead, InHand, Ripened
  <2>2. CASE Processed(d, TRUE)
    BY <1>12, <1>p, <1>u, <2>2 DEF LoopRead, Busy
  <2> QED BY <1>12, <2>1, <2>2 DEF LoopRead
<1>13. ASSUME NEW d \in Daemon, LoopWrite(d) \/ LoopWriteRefused(d) \/ LoopFails(d)
       PROVE  InHand(c)'
  <2>1. RowsStay
    BY <1>13, <1>u, WriteEffect DEF LoopWrite, LoopWriteRefused, LoopFails, TickerInv
  <2>2. job[d] # None /\ \E failed \in BOOLEAN : Processed(d, failed)
    BY <1>13 DEF LoopWrite, LoopWriteRefused, LoopFails, Insert, Complete, Busy
  <2>3. UNCHANGED <<now, up, initial, lookup, related>>
    BY <1>13 DEF LoopWrite, LoopWriteRefused, LoopFails
  <2> QED BY <1>p, <2>1, <2>2, <2>3
<1>14. ASSUME NEW s \in Slot, NEW time \in Slot \union {None}, CommandLineAdd(s, time)
       PROVE  InHand(c)'
  <2>1. RowsStay
    BY <1>0, <1>14 DEF CommandLineAdd, RowsStay, TypeOK
  <2> QED BY <1>0, <1>14, <1>k, <2>1 DEF CommandLineAdd, Untouched
<1>15. CASE UNCHANGED vars
  BY <1>0, <1>15, <1>k, <1>u DEF vars, Untouched
<1> QED
  BY <1>1, <1>2, <1>3, <1>4, <1>5, <1>6, <1>7, <1>8, <1>9, <1>10, <1>11, <1>12, <1>13,
     <1>14, <1>15
  DEF Next, LoopStep

-----------------------------------------------------------------------------
(* What happens to the database.                                           *)

\* The database is lost with the only daemon that uses it.
Lost ==
  /\ \A s \in Slot : row'[s] = None
  /\ \A p \in Slot \X Predicate : predicate'[p] = "absent"

\* The write of daemon d is the end of its job, and nothing else is added.
Written(d) ==
  /\ Insert(d) \/ Complete(d)
  /\ job' = [job EXCEPT ![d] = None]
  /\ events'[d] = events[d] \/ events'[d].pc # "wait"
  /\ UNCHANGED <<initial, added>>

\* A step loses the database, writes one item of a daemon, adds an event from
\* the command line, or leaves the database alone.
LEMMA DatabaseSteps ==
  ASSUME TickerInv, [Next]_vars
  PROVE  /\ now \in Nat /\ now' \in Nat /\ now <= now'
         /\ \/ \E d \in Daemon : Crash(d) /\ Lost /\ Backend = "InMemory"
            \/ \E d \in Daemon : Written(d)
            \/ \E s \in Slot, time \in Slot \union {None} : CommandLineAdd(s, time)
            \/ UNCHANGED <<row, predicate, added>>
<1> USE DEF wrappers
<1>0. TypeOK /\ now \in Nat
  BY DEF TickerInv, TypeOK
<1>1. CASE Tick
  BY <1>0, <1>1 DEF Tick
<1>2. ASSUME NEW d \in Daemon, Crash(d)
      PROVE  /\ UNCHANGED now
             /\ \/ Crash(d) /\ Lost /\ Backend = "InMemory"
                \/ Written(d)
                \/ UNCHANGED <<row, predicate, added>>
  BY <1>0, <1>2 DEF Crash, Lost, Written, Fresh, TypeOK
<1>3. ASSUME NEW d \in Daemon, LoopWrite(d) \/ LoopFails(d)
      PROVE  /\ UNCHANGED now
             /\ Written(d) \/ UNCHANGED <<row, predicate, added>>
  <2>1. PICK failed \in BOOLEAN : Processed(d, failed)
    BY <1>3 DEF LoopWrite, LoopFails
  <2>2. job[d] # None
    BY <1>3 DEF LoopWrite, LoopFails, Insert, Complete, Busy
  <2>3. job' = [job EXCEPT ![d] = None] /\ (events'[d] = events[d] \/ events'[d].pc # "wait")
    BY <1>0, <2>1, <2>2, ProcessedEffect
  <2> QED BY <1>3, <2>3 DEF LoopWrite, LoopFails, Written
<1>4. ASSUME NEW s \in Slot, NEW time \in Slot \union {None}, CommandLineAdd(s, time)
      PROVE  UNCHANGED now
  BY <1>4 DEF CommandLineAdd
<1>5. ASSUME NEW d \in Daemon,
             \/ Start(d) \/ EventQuery(d) \/ EventQueryFails(d)
             \/ OutcomeQuery(d) \/ OutcomeQueryFails(d) \/ WakeEvents(d) \/ WakeOutcomes(d)
             \/ TakeEvent(d) \/ TakeOutcome(d) \/ TakeDerived(d) \/ LookUpRelated(d)
             \/ LookUpFails(d) \/ TakeRelated(d) \/ LoopRead(d) \/ LoopWriteRefused(d)
      PROVE  UNCHANGED <<now, row, predicate, added>>
  BY <1>5
  DEF Start, EventQuery, EventQueryFails, OutcomeQuery, OutcomeQueryFails, WakeEvents,
      WakeOutcomes, TakeEvent, TakeOutcome, TakeDerived, LookUpRelated, LookUpFails,
      TakeRelated, LoopRead, LoopWriteRefused
<1>6. CASE UNCHANGED vars
  BY <1>0, <1>6 DEF vars
<1> QED BY <1>0, <1>1, <1>2, <1>3, <1>4, <1>5, <1>6 DEF Next, LoopStep

\* What is attested to has ripened.
LEMMA MaturedStep ==
  ASSUME TickerInv, [Next]_vars
  PROVE  Matured'
<1>0. TypeOK /\ now' \in Nat /\ now <= now'
  BY DatabaseSteps DEF TickerInv
<1>a. ASSUME RowsStay,
             \A s \in Slot : row'[s] # None /\ row'[s].attested => Attested(s) \/ Ripened(s),
             \A p \in Slot \X Predicate :
               predicate'[p] = "attested" => predicate[p] = "attested" \/ Ripened(p[1])
      PROVE  Matured'
  BY <1>0, <1>a, RipenedStays DEF TickerInv, Matured, Attested, Ripened
<1>1. CASE Lost
  BY <1>1 DEF Lost, Matured, Attested
<1>2. ASSUME NEW d \in Daemon, Insert(d) \/ Complete(d) PROVE Matured'
  <2>1. InHand(d)
    BY DEF TickerInv
  <2>2. Completing(d) => Ripened(job[d].slot)
    BY <2>1 DEF InHand
  <2>3. ASSUME NEW s \in Slot, row'[s] # None, row'[s].attested
        PROVE  Attested(s) \/ Ripened(s)
    BY <1>0, <1>2, <2>1, <2>2, <2>3, WriteEffect DEF Attested
  <2>4. ASSUME NEW p \in Slot \X Predicate, predicate'[p] = "attested"
        PROVE  predicate[p] = "attested" \/ Ripened(p[1])
    BY <1>0, <1>2, <2>1, <2>2, <2>4, WriteEffect
  <2> QED BY <1>0, <1>2, <1>a, <2>1, <2>3, <2>4, WriteEffect
<1>3. ASSUME NEW s \in Slot, NEW time \in Slot \union {None}, CommandLineAdd(s, time)
      PROVE  Matured'
  BY <1>0, <1>3, <1>a DEF CommandLineAdd, RowsStay, Attested, TypeOK, wrappers
<1>4. CASE UNCHANGED <<row, predicate>>
  BY <1>4, <1>a DEF RowsStay, Attested
<1> QED BY <1>1, <1>2, <1>3, <1>4, DatabaseSteps DEF Written

\* The invariants hold at first, and every step keeps them.
LEMMA TickerInvHolds == Spec => []TickerInv
<1>1. Init => TickerInv
  <2> SUFFICES ASSUME Init PROVE TickerInv
    OBVIOUS
  <2>1. TypeOK
    BY TickerAssumption DEF Init, TypeOK, Fresh, Stream
  <2>2. Matured /\ \A d \in Daemon : InHand(d)
    BY DEF Init, Matured, Attested, InHand, Fresh, Completing
  <2> QED BY <2>1, <2>2 DEF TickerInv
<1>2. TickerInv /\ [Next]_vars => TickerInv'
  BY TypeStep, MaturedStep, InHandStep DEF TickerInv
<1> QED BY <1>1, <1>2, PTL DEF Spec

(* The state of the ticker always has its type: no step of it makes sense   *)
(* of an event, an item or a time that is not there.                        *)
THEOREM TickerTypeCorrect == Spec => []TypeOK
<1>1. TickerInv => TypeOK
  BY DEF TickerInv
<1> QED BY <1>1, TickerInvHolds, PTL

-----------------------------------------------------------------------------
(* Predicates wait for the time of their event.                            *)

\* An event's expected time, if it has one, is what its id says.
RowsOnTime == \A s \in Slot : row[s] # None => row[s].time \in {s, None}

\* The daemons and who else adds events keep to it.
LEMMA RowsOnTimeStep ==
  ASSUME AddedOnTime, TickerInv, RowsOnTime, [Next]_vars
  PROVE  RowsOnTime'
<1>0. TypeOK
  BY DEF TickerInv
<1>1. CASE Lost
  BY <1>1 DEF Lost, RowsOnTime
<1>2. ASSUME NEW d \in Daemon, Insert(d) \/ Complete(d) PROVE RowsOnTime'
  <2>1. ASSUME NEW s \in Slot, row'[s] # None PROVE row'[s].time \in {s, None}
    BY <1>0, <1>2, <2>1, WriteEffect DEF TickerInv, RowsStay, RowsOnTime
  <2> QED BY <2>1 DEF RowsOnTime
<1>3. ASSUME NEW s \in Slot, NEW time \in Slot \union {None}, CommandLineAdd(s, time)
      PROVE  RowsOnTime'
  <2>1. time \in {s, None}
    BY <1>3 DEF CommandLineAdd, AddedOnTime
  <2> QED BY <1>0, <1>3, <2>1 DEF CommandLineAdd, RowsOnTime, TypeOK
<1>4. CASE UNCHANGED row
  BY <1>4 DEF RowsOnTime
<1> QED BY <1>1, <1>2, <1>3, <1>4, DatabaseSteps DEF Written

(* No predicate is attested to before its event is announced and its time   *)
(* has come, for any number of daemons, failures and crashes and any        *)
(* predicates, unless somebody announces an event of the ticker under       *)
(* another time than its id says.                                           *)
THEOREM PredicatesAlwaysInTime ==
  ASSUME AddedOnTime
  PROVE  Spec => []PredicatesInTime
<1>1. Init => RowsOnTime
  BY DEF Init, RowsOnTime
<1>2. TickerInv /\ RowsOnTime /\ [Next]_vars => RowsOnTime'
  BY RowsOnTimeStep
<1>3. TickerInv /\ RowsOnTime => PredicatesInTime
  BY SlotsAreNumbers
  DEF TickerInv, Matured, Ripened, RowsOnTime, PredicatesInTime, Exists
<1> QED BY <1>1, <1>2, <1>3, TickerInvHolds, PTL DEF Spec

-----------------------------------------------------------------------------
(* The series.  First what a step does to the item the event stream is at, *)
(* and to the series.                                                      *)

\* The event stream of d and its item are as they were, or are done with.
StreamKept(d) ==
  /\ events'[d].pc = "wait" => events'[d] = events[d]
  /\ Adding(d)' => /\ Adding(d) /\ job'[d].slot = job[d].slot
                   /\ events'[d].pc = events[d].pc

\* Only its query and the loop move an event stream on.
LEMMA StreamSteps ==
  ASSUME TickerInv, NEW c \in Daemon, Adding(c) => events[c].pc = "yielded", [Next]_vars
  PROVE  StreamKept(c) \/ EventQuery(c) \/ TakeEvent(c)
<1> USE DEF wrappers
<1>0. TypeOK
  BY DEF TickerInv
<1>u. ASSUME events'[c] = events[c], job'[c] = job[c] PROVE StreamKept(c)
  BY <1>u DEF StreamKept, Adding
<1>n. ASSUME job'[c] = None, events'[c] = events[c] \/ events'[c].pc # "wait"
      PROVE  StreamKept(c)
  BY <1>n DEF StreamKept, Adding
<1>1. ASSUME NEW d \in Daemon, Start(d) \/ OutcomeQuery(d) \/ OutcomeQueryFails(d)
               \/ WakeOutcomes(d) \/ LookUpRelated(d) \/ LookUpFails(d)
      PROVE  StreamKept(c)
  BY <1>1, <1>u
  DEF Start, OutcomeQuery, OutcomeQueryFails, WakeOutcomes, LookUpRelated, LookUpFails
<1>2. ASSUME NEW d \in Daemon, Crash(d) PROVE StreamKept(c)
  BY <1>0, <1>2, <1>n, <1>u DEF Crash, Fresh, TypeOK
<1>3. ASSUME NEW d \in Daemon, EventQuery(d) \/ TakeEvent(d), c # d PROVE StreamKept(c)
  BY <1>0, <1>3, <1>u DEF EventQuery, TakeEvent, TypeOK
<1>4. ASSUME NEW d \in Daemon, EventQueryFails(d) \/ WakeEvents(d) PROVE StreamKept(c)
  <2>1. CASE c = d
    BY <1>0, <1>4, <2>1 DEF EventQueryFails, WakeEvents, Fresh, StreamKept, Adding, TypeOK, Stream
  <2> QED BY <1>0, <1>4, <1>u, <2>1 DEF EventQueryFails, WakeEvents, TypeOK
<1>5. ASSUME NEW d \in Daemon, TakeOutcome(d) \/ TakeDerived(d) \/ TakeRelated(d)
      PROVE  StreamKept(c)
  <2>1. UNCHANGED events /\ \A e \in Daemon \ {d} : job'[e] = job[e]
    BY <1>0, <1>5 DEF TakeOutcome, TakeDerived, TakeRelated, TypeOK
  <2>2. ~Adding(d)'
    <3>1. CASE TakeOutcome(d)
      BY <1>0, <3>1 DEF TakeOutcome, JobAt, Adding, TypeOK
    <3>2. CASE TakeRelated(d)
      BY <1>0, <3>2 DEF TakeRelated, JobAt, Adding, TypeOK
    <3>3. CASE TakeDerived(d)
      <4>1. Head(derived[d]) \in Slot \X Predicate
        BY <1>0, <3>3 DEF TakeDerived, TypeOK
      <4>2. Head(derived[d])[2] # None
        BY <4>1, NoneIsNothing
      <4> QED BY <1>0, <3>3, <4>2 DEF TakeDerived, JobAt, Adding, TypeOK
    <3> QED BY <1>5, <3>1, <3>2, <3>3
  <2>3. CASE c = d
    BY <2>1, <2>2, <2>3 DEF StreamKept
  <2> QED BY <1>u, <2>1, <2>3
<1>6. ASSUME NEW d \in Daemon, LoopRead(d), ~Processed(d, TRUE) PROVE StreamKept(c)
  <2>1. job' = [job EXCEPT ![d].step = "write"] /\ UNCHANGED events
    BY <1>6 DEF LoopRead
  <2>2. job[d] # None /\ job[d] \in Job
    BY <1>0, <1>6 DEF LoopRead, Busy, TypeOK
  <2>3. /\ job'[d].op = job[d].op /\ job'[d].of = job[d].of /\ job'[d].slot = job[d].slot
        /\ \A e \in Daemon \ {d} : job'[e] = job[e]
    BY <1>0, <2>1, <2>2 DEF TypeOK, Job
  <2> QED BY <2>1, <2>2, <2>3 DEF StreamKept, Adding
<1>7. ASSUME NEW d \in Daemon, NEW failed \in BOOLEAN, job[d] # None, Processed(d, failed)
      PROVE  StreamKept(c)
  <2>1. /\ job' = [job EXCEPT ![d] = None]
        /\ \A e \in Daemon \ {d} : events'[e] = events[e]
        /\ events'[d] = events[d] \/ events'[d].pc # "wait"
    BY <1>0, <1>7, ProcessedEffect
  <2> QED BY <1>0, <1>n, <1>u, <2>1 DEF TypeOK
<1>8. ASSUME NEW d \in Daemon,
             LoopRead(d) \/ LoopWrite(d) \/ LoopWriteRefused(d) \/ LoopFails(d)
      PROVE  StreamKept(c)
  <2>1. job[d] # None
    BY <1>8 DEF LoopRead, LoopWrite, LoopWriteRefused, LoopFails, Insert, Complete, Busy
  <2>2. CASE LoopRead(d)
    BY <1>6, <1>7, <2>1, <2>2
  <2>3. CASE ~LoopRead(d)
    BY <1>7, <1>8, <2>1, <2>3 DEF LoopWrite, LoopWriteRefused, LoopFails
  <2> QED BY <2>2, <2>3
<1>9. CASE UNCHANGED vars \/ Tick
           \/ \E s \in Slot, time \in Slot \union {None} : CommandLineAdd(s, time)
  BY <1>9, <1>u DEF vars, Tick, CommandLineAdd
<1> QED
  BY <1>1, <1>2, <1>3, <1>4, <1>5, <1>8, <1>9 DEF Next, LoopStep

\* Daemon d announces the next event of the series, and is done with it.
Appends(d) ==
  /\ Adding(d) /\ job[d].slot \in Slot \ added
  /\ Series' = Series \union {job[d].slot} /\ row'[job[d].slot].time = job[d].slot
  /\ ~Adding(d)' /\ (events'[d] = events[d] \/ events'[d].pc # "wait")
  /\ up[d] = "up" /\ UNCHANGED <<initial, added>>

\* The events that are there keep their times and attestations, unless they
\* are lost, and the series grows by one event at most.
LEMMA SeriesSteps ==
  ASSUME TickerInv, [Next]_vars
  PROVE  \/ Lost /\ \E d \in Daemon : Crash(d) /\ Backend = "InMemory"
         \/ RowsStay /\ Series' = Series
         \/ RowsStay /\ \E d \in Daemon : Appends(d)
<1>0. TypeOK
  BY DEF TickerInv
<1>1. ASSUME NEW d \in Daemon, Written(d)
      PROVE  RowsStay /\ (Series' = Series \/ Appends(d))
  <2>1. InHand(d) /\ RowsStay
    BY <1>0, <1>1, WriteEffect DEF TickerInv, Written
  <2>2. Series \subseteq Series'
    BY <1>1, <2>1 DEF RowsStay, Series, Exists, Written
  <2>3. ASSUME NEW s \in Series', s \notin Series
        PROVE  Adding(d) /\ s = job[d].slot /\ row'[s].time = s
    <3>1. s \in Slot /\ row[s] = None /\ row'[s] # None
      BY <1>1, <2>3 DEF Series, Exists, Written
    <3> QED BY <1>0, <1>1, <2>1, <3>1, WriteEffect DEF Written
  <2>4. CASE Series' # Series
    <3>1. PICK s \in Series' : s \notin Series
      BY <2>2, <2>4
    <3>2. s \in Slot \ added
      BY <1>1, <3>1 DEF Series, Written
    <3>3. Series' = Series \union {job[d].slot}
      BY <2>2, <2>3, <3>1
    <3>4. ~Adding(d)'
      BY <1>0, <1>1 DEF Written, Adding, TypeOK
    <3>5. up[d] = "up"
      BY <1>1 DEF Written, Insert, Complete, Busy
    <3> QED BY <1>1, <2>1, <2>3, <3>1, <3>2, <3>3, <3>4, <3>5 DEF Written, Appends
  <2> QED BY <2>1, <2>4
<1>2. ASSUME NEW s \in Slot, NEW time \in Slot \union {None}, CommandLineAdd(s, time)
      PROVE  RowsStay /\ Series' = Series
  BY <1>0, <1>2 DEF CommandLineAdd, RowsStay, Series, Exists, TypeOK
<1>3. CASE UNCHANGED <<row, predicate, added>>
  BY <1>3 DEF RowsStay, Series, Exists
<1> QED BY <1>1, <1>2, <1>3, DatabaseSteps

\* Nothing is taken off the list of what was added from the command line.
LEMMA AddedGrows ==
  ASSUME TickerInv, [Next]_vars
  PROVE  added \subseteq added'
<1>1. ASSUME NEW d \in Daemon, Crash(d) PROVE UNCHANGED added
  BY <1>1 DEF Crash
<1> QED BY <1>1, DatabaseSteps DEF Written, CommandLineAdd

\* A query for the latest event finds one wherever there is an event.
LEMMA LatestExists ==
  ASSUME TypeOK, NEW s \in Slot, row[s] # None
  PROVE  Latest # {}
<1> DEFINE found == {t \in Slot : row[t] # None}
           Timed == {t \in found : row[t].time # None}
           End == MaxTime + LookAhead
           Left == {End - row[t].time : t \in Timed}
<1>1. Latest = {t \in found : \A u \in found : ~Before(t, u)} /\ s \in found
  BY DEF Latest
<1>2. \A t \in Timed : row[t].time \in Nat /\ row[t].time <= End
  BY TickerAssumption DEF TypeOK, Row, Slot
<1>3. End \in Nat
  BY TickerAssumption
<1> HIDE DEF found, End
<1>4. CASE Timed = {}
  <2>1. \A u \in found : ~Before(s, u)
    BY <1>1, <1>4 DEF Before
  <2> QED BY <1>1, <2>1
<1>5. ASSUME Backend # "InMemory", NEW u \in found, row[u].time = None
      PROVE  Latest # {}
  <2>1. \A t \in found : ~Before(u, t)
    BY <1>5 DEF Before
  <2> QED BY <1>1, <1>5, <2>1
<1>6. CASE Timed # {} /\ (Backend = "InMemory" \/ Timed = found)
  <2>1. Left \subseteq Nat /\ Left # {}
    <3>1. \A t \in Timed : End - row[t].time \in Nat
      BY <1>2, <1>3
    <3> QED BY <1>6, <3>1
  <2>2. PICK x \in Left : \A y \in Left : x <= y
    BY <2>1, LeastNumber
  <2>3. PICK t \in Timed : x = End - row[t].time
    BY <2>2
  <2>4. ASSUME NEW u \in found PROVE ~Before(t, u)
    <3>1. CASE u \in Timed
      <4>1. x <= End - row[u].time
        BY <2>2, <3>1
      <4>2. ~(row[t].time < row[u].time)
        BY <1>2, <1>3, <2>3, <3>1, <4>1
      <4> QED BY <2>3, <3>1, <4>2 DEF Before
    <3>2. CASE u \notin Timed
      BY <1>6, <2>3, <3>2 DEF Before
    <3> QED BY <3>1, <3>2
  <2> QED BY <1>1, <2>4
<1> QED BY <1>4, <1>5, <1>6

\* A single daemon keeps the series.
LEMMA SeriesInvStep ==
  ASSUME OneDaemon, TickerInv, SeriesInv, [Next]_vars
  PROVE  SeriesInv'
<1>0. TypeOK /\ Series \subseteq Nat /\ LookAhead \in Nat /\ Interval \in Nat \ {0}
      /\ now \in Nat /\ now' \in Nat /\ now <= now'
  BY SlotsAreNumbers, DatabaseSteps, TickerAssumption DEF TickerInv, Series
<1>1. ASSUME NEW d \in Daemon, RowsStay, Appends(d) PROVE SeriesInv'
  <2> DEFINE q == job[d].slot
  <2>1. q \in Nat /\ Series' = Series \union {q} /\ row'[q].time = q
    BY <1>1, SlotsAreNumbers DEF Appends
  <2>2. \A s \in Series : s < q
    BY <1>1 DEF Appends, SeriesInv, Pending
  <2>3. Series = {} \/ q - LookAhead <= now
    BY <1>1 DEF Appends, SeriesInv
  <2>4. \A s \in Series' : row'[s].time = s
    BY <1>1, <2>1 DEF RowsStay, Series, Exists, SeriesInv
  <2>5. \A s \in Series' : s - LookAhead <= now' \/ \A t \in Series' : s <= t
    <3>1. ASSUME NEW s \in Series
          PROVE  s - LookAhead <= now' \/ \A t \in Series' : s <= t
      <4>1. s - LookAhead <= now \/ \A t \in Series : s <= t
        BY DEF SeriesInv
      <4> QED BY <1>0, <2>1, <2>2, <4>1
    <3>2. q - LookAhead <= now' \/ \A t \in Series' : q <= t
      BY <1>0, <2>1, <2>3
    <3> QED BY <2>1, <3>1, <3>2
  <2>6. \A c \in Daemon : ~Adding(c)' /\ events'[c].pc # "wait"
    <3>1. events[d].pc = "yielded"
      BY <1>1 DEF Appends, SeriesInv
    <3> QED BY <1>1, <3>1 DEF Appends, OneDaemon
  <2> HIDE DEF q
  <2> QED BY <2>4, <2>5, <2>6 DEF SeriesInv, Pending
<1>2. ASSUME NEW d \in Daemon, Crash(d), Lost PROVE SeriesInv'
  <2>1. Series' = {}
    BY <1>2 DEF Lost, Series, Exists
  <2>2. \A c \in Daemon : ~Adding(c)'
    BY <1>0, <1>2 DEF Crash, Adding, OneDaemon, TypeOK
  <2> QED BY <2>1, <2>2 DEF SeriesInv
<1>3. ASSUME RowsStay, Series' = Series PROVE SeriesInv'
  <2>1. \A s \in Series' : row'[s].time = s
    BY <1>3 DEF RowsStay, Series, Exists, SeriesInv
  <2>2. \A s \in Series' : s - LookAhead <= now' \/ \A t \in Series' : s <= t
    BY <1>0, <1>3 DEF SeriesInv
  <2>3. ASSUME NEW d \in Daemon
        PROVE  /\ Adding(d)' => events'[d].pc = "yielded"
               /\ \A q \in Pending(d)' : \A s \in Series' : s < q
               /\ events'[d].pc = "wait" =>
                    Series' = {} \/ events'[d].due = events'[d].slot - LookAhead
               /\ Adding(d)' => Series' = {} \/ job'[d].slot - LookAhead <= now'
    <3>1. CASE StreamKept(d)
      <4>1. Pending(d)' \subseteq Pending(d)
        BY <3>1 DEF StreamKept, Pending
      <4>2. Adding(d)' => events'[d].pc = "yielded"
        BY <3>1 DEF StreamKept, SeriesInv
      <4>3. events'[d].pc = "wait" =>
              Series' = {} \/ events'[d].due = events'[d].slot - LookAhead
        BY <1>3, <3>1 DEF StreamKept, SeriesInv
      <4>4. ASSUME Adding(d)', Series # {} PROVE job'[d].slot - LookAhead <= now'
        <5>1. job[d].slot \in Nat /\ job'[d].slot = job[d].slot
          BY <1>0, <3>1, <4>4, SlotsAreNumbers DEF StreamKept, Adding, TypeOK, Job
        <5>2. job[d].slot - LookAhead <= now
          BY <3>1, <4>4 DEF StreamKept, SeriesInv
        <5> QED BY <1>0, <5>1, <5>2
      <4>5. \A q \in Pending(d) : \A s \in Series : s < q
        BY DEF SeriesInv
      <4> QED BY <1>3, <4>1, <4>2, <4>3, <4>4, <4>5
    <3>2. CASE EventQuery(d)
      <4>1. ~Adding(d)'
        BY <3>2 DEF EventQuery, SeriesInv, Adding
      <4>2. CASE Latest = {}
        <5>1. Series = {}
          BY <1>0, <4>2, LatestExists DEF Series, Exists
        <5> QED BY <1>3, <4>1, <5>1
      <4>3. ASSUME NEW s \in Latest, row[s].time # None,
                   events' = [events EXCEPT ![d] = Upcoming(row[s].time + Interval)]
            PROVE  /\ Pending(d)' = {row[s].time + Interval}
                   /\ events'[d].due = events'[d].slot - LookAhead
                   /\ \A t \in Series : t < row[s].time + Interval
        <5>1. events'[d] = Upcoming(row[s].time + Interval)
          BY <1>0, <4>3 DEF TypeOK
        <5>2. Pending(d)' = {row[s].time + Interval}
          BY <4>1, <5>1 DEF Pending, Upcoming
        <5>3. row[s].time \in Nat
          BY <1>0, <4>3, SlotsAreNumbers DEF Latest, TypeOK, Row
        <5>4. ASSUME NEW t \in Series PROVE t < row[s].time + Interval
          <6>1. row[t].time = t /\ t # None /\ ~Before(s, t)
            BY <4>3, SlotsAreNumbers DEF Latest, Series, Exists, SeriesInv
          <6>2. ~(row[s].time < t)
            BY <4>3, <6>1 DEF Before
          <6> QED BY <1>0, <5>3, <6>2
        <5> QED BY <5>1, <5>2, <5>4 DEF Upcoming
      <4>4. CASE UNCHANGED events
        <5>1. events'[d].pc = "query" /\ Pending(d)' = {}
          BY <3>2, <4>1, <4>4 DEF EventQuery, Pending
        <5> QED BY <4>1, <5>1
      <4> QED BY <1>3, <3>2, <4>1, <4>2, <4>3, <4>4 DEF EventQuery
    <3>3. CASE TakeEvent(d)
      <4>1. events[d].pc = "wait" /\ events[d].due <= now /\ UNCHANGED now
        BY <3>3 DEF TakeEvent, Due
      <4>2. events'[d].pc = "yielded" /\ job'[d] = JobAt("add", events[d].slot, None)
        BY <1>0, <3>3 DEF TakeEvent, TypeOK, Stream
      <4>3. Pending(d)' \subseteq {events[d].slot} /\ job'[d].slot = events[d].slot
        BY <4>2 DEF Pending, JobAt
      <4>4. \A s \in Series : s < events[d].slot
        BY <4>1 DEF SeriesInv, Pending
      <4>5. Series = {} \/ events[d].due = events[d].slot - LookAhead
        BY <4>1 DEF SeriesInv
      <4> QED BY <1>3, <4>1, <4>2, <4>3, <4>4, <4>5
    <3> QED BY <3>1, <3>2, <3>3, StreamSteps DEF SeriesInv
  <2> QED BY <2>1, <2>2, <2>3 DEF SeriesInv
<1> QED BY <1>1, <1>2, <1>3, SeriesSteps

\* There is no series at first, and nothing pending.
LEMMA SeriesInvHolds ==
  ASSUME OneDaemon
  PROVE  Spec => []SeriesInv
<1>1. Init => SeriesInv
  BY DEF Init, SeriesInv, Series, Exists, Pending, Adding, Fresh
<1>2. TickerInv /\ SeriesInv /\ [Next]_vars => SeriesInv'
  BY SeriesInvStep
<1> QED BY <1>1, <1>2, TickerInvHolds, PTL DEF Spec

(* No event is attested to before its time, and one daemon announces none   *)
(* before the look-ahead reaches it except for the first, whatever it finds *)
(* in the database: events from the command line at any slot, with any time *)
(* or none, failures and crashes.                                           *)
THEOREM NeverEarly ==
  ASSUME OneDaemon
  PROVE  Spec => []NotEarly
<1>1. TickerInv /\ SeriesInv => NotEarly
  BY DEF TickerInv, Matured, Ripened, SeriesInv, Series, NotEarly
<1> QED BY <1>1, TickerInvHolds, SeriesInvHolds, PTL

-----------------------------------------------------------------------------
(* The order of the attestations.                                          *)

\* What the outcome stream of d and the loop are at is as it was, or done with.
OutcomesKept(d) ==
  /\ outcomes'[d].pc = "wait" => outcomes'[d] = outcomes[d]
  /\ Completing(d)' /\ job'[d].of = None =>
       \/ Completing(d) /\ job[d].of = None /\ job'[d].slot = job[d].slot
       \/ outcomes[d].pc = "wait" /\ job'[d].slot = outcomes[d].slot

\* Only its query gives an outcome stream another event.
LEMMA OutcomesSteps ==
  ASSUME TickerInv, NEW c \in Daemon, [Next]_vars
  PROVE  OutcomesKept(c) \/ OutcomeQuery(c)
<1> USE DEF wrappers
<1>0. TypeOK
  BY DEF TickerInv
<1>u. ASSUME outcomes'[c] = outcomes[c], job'[c] = job[c] PROVE OutcomesKept(c)
  BY <1>u DEF OutcomesKept, Completing
<1>n. ASSUME job'[c] = None, outcomes'[c] = outcomes[c] \/ outcomes'[c].pc # "wait"
      PROVE  OutcomesKept(c)
  BY <1>n DEF OutcomesKept, Completing
<1>1. ASSUME NEW d \in Daemon, Start(d) \/ EventQuery(d) \/ EventQueryFails(d)
               \/ WakeEvents(d) \/ LookUpRelated(d) \/ LookUpFails(d)
      PROVE  OutcomesKept(c)
  BY <1>1, <1>u
  DEF Start, EventQuery, EventQueryFails, WakeEvents, LookUpRelated, LookUpFails
<1>2. ASSUME NEW d \in Daemon, Crash(d) PROVE OutcomesKept(c)
  BY <1>0, <1>2, <1>n, <1>u DEF Crash, Fresh, TypeOK
<1>3. ASSUME NEW d \in Daemon, OutcomeQuery(d) \/ TakeOutcome(d), c # d
      PROVE  OutcomesKept(c)
  BY <1>0, <1>3, <1>u DEF OutcomeQuery, TakeOutcome, TypeOK
<1>4. ASSUME NEW d \in Daemon, OutcomeQueryFails(d) \/ WakeOutcomes(d)
      PROVE  OutcomesKept(c)
  <2>1. CASE c = d
    <3>1. outcomes'[d].pc # "wait" /\ UNCHANGED job
      BY <1>0, <1>4 DEF OutcomeQueryFails, WakeOutcomes, Fresh, TypeOK, Stream
    <3> QED BY <2>1, <3>1 DEF OutcomesKept, Completing
  <2> QED BY <1>0, <1>4, <1>u, <2>1 DEF OutcomeQueryFails, WakeOutcomes, TypeOK
<1>5. ASSUME NEW d \in Daemon, TakeOutcome(d), c = d PROVE OutcomesKept(c)
  <2>1. outcomes[d].pc = "wait" /\ outcomes'[d].pc = "yielded"
    BY <1>0, <1>5 DEF TakeOutcome, Due, TypeOK, Stream
  <2>2. job'[d].slot = outcomes[d].slot
    BY <1>0, <1>5 DEF TakeOutcome, JobAt, TypeOK
  <2> QED BY <1>5, <2>1, <2>2 DEF OutcomesKept
<1>6. ASSUME NEW d \in Daemon, TakeEvent(d) \/ TakeDerived(d) \/ TakeRelated(d)
      PROVE  OutcomesKept(c)
  <2>1. UNCHANGED outcomes /\ \A e \in Daemon \ {d} : job'[e] = job[e]
    BY <1>0, <1>6 DEF TakeEvent, TakeDerived, TakeRelated, TypeOK
  <2>2. ~(Completing(d)' /\ job'[d].of = None)
    <3>1. CASE TakeEvent(d)
      BY <1>0, <3>1 DEF TakeEvent, JobAt, Completing, TypeOK
    <3>2. CASE TakeDerived(d)
      BY <1>0, <3>2 DEF TakeDerived, JobAt, Completing, TypeOK
    <3>3. CASE TakeRelated(d)
      <4>1. PICK next \in related[d] :
              job' = [job EXCEPT ![d] = JobAt("complete", next[1], next[2])]
        BY <3>3 DEF TakeRelated
      <4>2. next \in Slot \X Predicate
        BY <1>0, <4>1 DEF TypeOK
      <4>3. next[2] # None
        BY <4>2, NoneIsNothing
      <4> QED BY <1>0, <4>1, <4>3 DEF JobAt, TypeOK
    <3> QED BY <1>6, <3>1, <3>2, <3>3
  <2>3. CASE c = d
    BY <2>1, <2>2, <2>3 DEF OutcomesKept
  <2> QED BY <1>u, <2>1, <2>3
<1>7. ASSUME NEW d \in Daemon, LoopRead(d), ~Processed(d, TRUE) PROVE OutcomesKept(c)
  <2>1. job' = [job EXCEPT ![d].step = "write"] /\ UNCHANGED outcomes
    BY <1>7 DEF LoopRead
  <2>2. job[d] # None /\ job[d] \in Job
    BY <1>0, <1>7 DEF LoopRead, Busy, TypeOK
  <2>3. /\ job'[d].op = job[d].op /\ job'[d].of = job[d].of /\ job'[d].slot = job[d].slot
        /\ \A e \in Daemon \ {d} : job'[e] = job[e]
    BY <1>0, <2>1, <2>2 DEF TypeOK, Job
  <2> QED BY <2>1, <2>2, <2>3 DEF OutcomesKept, Completing
<1>8. ASSUME NEW d \in Daemon, NEW failed \in BOOLEAN, job[d] # None, Processed(d, failed)
      PROVE  OutcomesKept(c)
  <2>1. /\ job' = [job EXCEPT ![d] = None]
        /\ \A e \in Daemon \ {d} : outcomes'[e] = outcomes[e]
        /\ outcomes'[d] = outcomes[d] \/ outcomes'[d].pc # "wait"
    BY <1>0, <1>8, ProcessedEffect
  <2> QED BY <1>0, <1>n, <1>u, <2>1 DEF TypeOK
<1>9. ASSUME NEW d \in Daemon,
             LoopRead(d) \/ LoopWrite(d) \/ LoopWriteRefused(d) \/ LoopFails(d)
      PROVE  OutcomesKept(c)
  <2>1. job[d] # None
    BY <1>9 DEF LoopRead, LoopWrite, LoopWriteRefused, LoopFails, Insert, Complete, Busy
  <2>2. CASE LoopRead(d)
    BY <1>7, <1>8, <2>1, <2>2
  <2>3. CASE ~LoopRead(d)
    BY <1>8, <1>9, <2>1, <2>3 DEF LoopWrite, LoopWriteRefused, LoopFails
  <2> QED BY <2>2, <2>3
<1>10. CASE UNCHANGED vars \/ Tick
            \/ \E s \in Slot, time \in Slot \union {None} : CommandLineAdd(s, time)
  BY <1>10, <1>u DEF vars, Tick, CommandLineAdd
<1> QED
  BY <1>1, <1>2, <1>3, <1>4, <1>5, <1>6, <1>9, <1>10 DEF Next, LoopStep

\* An event is attested to by the daemon that was about to.
LEMMA AttestSteps ==
  ASSUME TickerInv, [Next]_vars, NEW s \in Slot, Attested(s)'
  PROVE  Attested(s) \/ \E d \in Daemon : s \in Awaited(d)
<1>0. TypeOK
  BY DEF TickerInv
<1>1. CASE Lost
  BY <1>1 DEF Lost, Attested
<1>2. ASSUME NEW d \in Daemon, Insert(d) \/ Complete(d), ~Attested(s)
      PROVE  s \in Awaited(d)
  <2>1. InHand(d) /\ row'[s] # None /\ row'[s].attested
    BY DEF TickerInv, Attested
  <2>2. row[s] # None /\ ~row[s].attested
    BY <1>0, <1>2, <2>1, WriteEffect DEF Attested
  <2> QED BY <1>0, <1>2, <2>1, <2>2, WriteEffect DEF Awaited
<1>3. ASSUME NEW t \in Slot, NEW time \in Slot \union {None}, CommandLineAdd(t, time)
      PROVE  Attested(s)
  BY <1>0, <1>3 DEF CommandLineAdd, Attested, TypeOK
<1>4. CASE UNCHANGED row
  BY <1>4 DEF Attested
<1> QED BY <1>1, <1>2, <1>3, <1>4, DatabaseSteps DEF Written

\* A single daemon keeps to the order.
LEMMA OrderInvStep ==
  ASSUME OneDaemon, TickerInv, SeriesInv, OrderInv, [Next]_vars
  PROVE  OrderInv'
<1> SUFFICES ASSUME added' = {} PROVE (/\ InOrder
                                       /\ \A d \in Daemon : \A s \in Awaited(d) :
                                            \A t \in Series : t < s => Attested(t))'
  BY DEF OrderInv
<1>0. TypeOK /\ added = {} /\ Slot \subseteq Nat
  BY AddedGrows, SlotsAreNumbers DEF TickerInv
<1>a. Series = {s \in Slot : Exists(s)} /\ Series' = {s \in Slot : Exists(s)'}
  BY <1>0 DEF Series
<1>o. /\ \A s, t \in Series : s < t /\ Attested(t) => Attested(s)
      /\ \A d \in Daemon : \A s \in Awaited(d) : \A t \in Series : t < s => Attested(t)
  BY <1>0, <1>a DEF OrderInv, InOrder
<1>r. /\ \A s \in Slot : Attested(s) => s \in Series
      /\ \A d \in Daemon : \A s \in Awaited(d) : s \in Series
  <2>1. \A s \in Slot : Attested(s) => s \in Series
    BY <1>a DEF Attested, Exists
  <2>2. ASSUME NEW d \in Daemon, NEW s \in Awaited(d) PROVE s \in Series
    BY <1>a, <2>2 DEF Awaited, Exists, TickerInv, InHand, Ripened
  <2> QED BY <2>1, <2>2
<1>1. CASE Lost
  <2>1. Series' = {}
    BY <1>1, <1>a DEF Lost, Exists
  <2> QED BY <1>a, <2>1 DEF InOrder
<1>2. ASSUME RowsStay, Series' = Series \/ \E d \in Daemon : Appends(d)
      PROVE  (/\ InOrder
              /\ \A d \in Daemon : \A s \in Awaited(d) :
                   \A t \in Series : t < s => Attested(t))'
  <2>1. \A s \in Slot : Attested(s) => Attested(s)'
    BY <1>2 DEF RowsStay, Attested
  <2>2. ASSUME NEW s \in Series', s \notin Series
        PROVE  \A t \in Series : t < s
    BY <1>2, <2>2 DEF Appends, SeriesInv, Pending
  <2>3. ASSUME NEW s \in Series, NEW t \in Series', t < s PROVE t \in Series
    BY <1>0, <1>a, <2>2, <2>3
  <2>4. ASSUME NEW s \in Slot, NEW t \in Slot, Exists(s)', s < t, Attested(t)'
        PROVE  Attested(s)'
    <3>1. Attested(t) \/ \E d \in Daemon : t \in Awaited(d)
      BY <2>4, AttestSteps
    <3>2. t \in Series
      BY <1>r, <3>1
    <3>3. s \in Series
      BY <1>a, <2>3, <2>4, <3>2
    <3> QED BY <1>o, <2>1, <2>4, <3>1, <3>2, <3>3
  <2>5. ASSUME NEW d \in Daemon, NEW s \in Awaited(d)', NEW t \in Series', t < s
        PROVE  Attested(t)'
    <3>1. CASE s \in Awaited(d)
      <4>1. s \in Series
        BY <1>r, <3>1
      <4>2. t \in Series
        BY <2>3, <2>5, <4>1
      <4> QED BY <1>a, <1>o, <2>1, <2>5, <3>1, <4>2
    <3>2. CASE OutcomesKept(d)
      <4>1. s \in Awaited(d)
        BY <2>5, <3>2 DEF OutcomesKept, Awaited
      <4> QED BY <3>1, <4>1
    <3>3. CASE OutcomeQuery(d) /\ s \notin Awaited(d)
      <4>1. outcomes'[d].pc = "wait" /\ outcomes'[d].slot = s /\ UNCHANGED <<row, job>>
        BY <2>5, <3>3 DEF OutcomeQuery, Awaited, Completing
      <4>2. outcomes'[d] # outcomes[d]
        BY <3>3, <4>1 DEF OutcomeQuery
      <4>3. PICK e \in Earliest : outcomes' = [outcomes EXCEPT ![d] = Ripe(e)]
        BY <1>0, <3>3, <4>1, <4>2 DEF OutcomeQuery, TypeOK, Stream
      <4>4. e = s
        BY <1>0, <4>1, <4>3 DEF Ripe, TypeOK
      <4>5. s \in Series /\ t \in Series
        <5>1. s \in Series
          BY <1>a, <4>3, <4>4 DEF Earliest, Exists
        <5> QED BY <2>3, <2>5, <5>1
      <4>6. row[s].time = s /\ row[t].time = t /\ s # None /\ t # None
        BY <1>a, <4>5, SlotsAreNumbers DEF SeriesInv
      <4>7. Attested(t)
        BY <1>a, <2>5, <4>3, <4>4, <4>5, <4>6 DEF Earliest, Before, Attested, Exists
      <4> QED BY <1>a, <2>1, <4>5, <4>7
    <3> QED BY <3>1, <3>2, <3>3, OutcomesSteps
  <2> QED BY <2>4, <2>5 DEF InOrder
<1> QED BY <1>1, <1>2, SeriesSteps

(* One daemon attests to its events in the order of their times, across all *)
(* failures and crashes, as long as it has announced them all itself.       *)
THEOREM AlwaysInOrder ==
  ASSUME OneDaemon
  PROVE  Spec => []InOrder
<1>1. Init => OrderInv
  BY DEF Init, OrderInv, InOrder, Exists, Series
<1>2. TickerInv /\ SeriesInv /\ OrderInv /\ [Next]_vars => OrderInv'
  BY OrderInvStep
<1>3. TickerInv /\ OrderInv => InOrder
  BY DEF OrderInv, InOrder
<1> QED BY <1>1, <1>2, <1>3, TickerInvHolds, SeriesInvHolds, PTL DEF Spec

-----------------------------------------------------------------------------
(* Where the series begins, and several daemons.                           *)

\* A daemon's initial time is set when it is started, and stays.
LEMMA InitialSteps ==
  ASSUME TickerInv, NEW c \in Daemon, [Next]_vars
  PROVE  \/ Start(c)
         \/ initial'[c] = initial[c] /\ (up'[c] = "down" => up[c] = "down" \/ Crash(c))
<1> USE DEF wrappers
<1>0. TypeOK
  BY DEF TickerInv
<1>1. ASSUME NEW d \in Daemon, Start(d), c # d
      PROVE  initial'[c] = initial[c] /\ up'[c] = up[c]
  BY <1>0, <1>1 DEF Start, TypeOK
<1>2. ASSUME NEW d \in Daemon, Crash(d)
      PROVE  initial'[c] = initial[c] /\ (c # d => up'[c] = up[c])
  BY <1>0, <1>2 DEF Crash, TypeOK
<1>3. ASSUME NEW d \in Daemon, EventQuery(d) \/ OutcomeQuery(d)
      PROVE  initial'[c] = initial[c] /\ (up'[c] = up[c] \/ up'[c] = "panicked")
  BY <1>0, <1>3 DEF EventQuery, OutcomeQuery, TypeOK
<1>4. ASSUME NEW d \in Daemon,
             \/ EventQueryFails(d) \/ OutcomeQueryFails(d) \/ WakeEvents(d) \/ WakeOutcomes(d)
             \/ TakeEvent(d) \/ TakeOutcome(d) \/ TakeDerived(d) \/ LookUpRelated(d)
             \/ LookUpFails(d) \/ TakeRelated(d) \/ LoopStep(d) \/ LoopFails(d)
      PROVE  UNCHANGED <<initial, up>>
  BY <1>4
  DEF EventQueryFails, OutcomeQueryFails, WakeEvents, WakeOutcomes, TakeEvent, TakeOutcome,
      TakeDerived, LookUpRelated, LookUpFails, TakeRelated, LoopStep, LoopRead, LoopWrite,
      LoopWriteRefused, LoopFails
<1>5. CASE UNCHANGED vars \/ Tick
           \/ \E s \in Slot, time \in Slot \union {None} : CommandLineAdd(s, time)
  BY <1>5 DEF vars, Tick, CommandLineAdd
<1> QED BY <1>1, <1>2, <1>3, <1>4, <1>5 DEF Next

\* The event stream's query gives it one item, the next event or the first.
LEMMA QueryEffect ==
  ASSUME TickerInv, NEW d \in Daemon, ~Adding(d), EventQuery(d)
  PROVE  /\ ~Adding(d)' /\ UNCHANGED <<now, initial>> /\ up[d] = "up"
         /\ \/ Pending(d)' = {} /\ events'[d].pc = "query"
            \/ /\ Series = {} /\ Pending(d)' = {initial[d]}
               /\ events'[d].slot = initial[d]
            \/ \E s \in Slot : /\ row[s] # None /\ row[s].time \in Slot
                               /\ Pending(d)' = {row[s].time + Interval}
                               /\ events'[d] = Upcoming(row[s].time + Interval)
<1>0. TypeOK
  BY DEF TickerInv
<1>1. ~Adding(d)'
  BY DEF EventQuery, Adding
<1>2. CASE Latest = {}
  <2>1. Series = {}
    BY <1>0, <1>2, LatestExists DEF Series, Exists
  <2>2. events'[d] = [pc |-> "wait", slot |-> initial[d], due |-> 0]
    BY <1>0, <1>2 DEF EventQuery, TypeOK
  <2> QED BY <1>1, <2>1, <2>2 DEF EventQuery, Pending
<1>3. ASSUME NEW s \in Latest, row[s].time # None,
             events' = [events EXCEPT ![d] = Upcoming(row[s].time + Interval)]
      PROVE  /\ s \in Slot /\ row[s] # None /\ row[s].time \in Slot
             /\ Pending(d)' = {row[s].time + Interval}
             /\ events'[d] = Upcoming(row[s].time + Interval)
  BY <1>0, <1>1, <1>3 DEF Latest, Pending, Upcoming, TypeOK, Row
<1>4. CASE UNCHANGED events
  BY <1>1, <1>4 DEF EventQuery, Pending
<1> QED BY <1>1, <1>2, <1>3, <1>4 DEF EventQuery

\* The loop takes the item the event stream had waited with.
LEMMA TakeEffect ==
  ASSUME TickerInv, NEW d \in Daemon, TakeEvent(d)
  PROVE  /\ events[d].pc = "wait" /\ events[d].due <= now /\ UNCHANGED now
         /\ events'[d].pc = "yielded" /\ job'[d].slot = events[d].slot
         /\ Pending(d)' \subseteq {events[d].slot} /\ events[d].slot \in Pending(d)
<1>1. events[d].pc = "wait" /\ events[d].due <= now /\ UNCHANGED now
  BY DEF TakeEvent, Due
<1>2. events'[d].pc = "yielded" /\ job'[d] = JobAt("add", events[d].slot, None)
  BY DEF TakeEvent, TickerInv, TypeOK, Stream
<1> QED BY <1>1, <1>2 DEF Pending, JobAt

\* An item is added only while its stream waits.
LEMMA YieldingHolds == Spec => []Yielding
<1>1. Init => Yielding
  BY DEF Init, Yielding, Adding
<1>2. ASSUME TickerInv, Yielding, [Next]_vars PROVE Yielding'
  <2>1. ASSUME NEW d \in Daemon PROVE Adding(d)' => events'[d].pc = "yielded"
    <3>1. CASE StreamKept(d)
      BY <1>2, <3>1 DEF StreamKept, Yielding
    <3>2. CASE EventQuery(d)
      BY <3>2, <1>2 DEF EventQuery, Yielding, Adding
    <3>3. CASE TakeEvent(d)
      BY <1>2, <3>3, TakeEffect
    <3> QED BY <1>2, <3>1, <3>2, <3>3, StreamSteps DEF Yielding
  <2> QED BY <2>1 DEF Yielding
<1> QED BY <1>1, <1>2, TickerInvHolds, PTL DEF Spec

\* A step that adds no event of the series, or adds q, after which the series
\* has no more beginnings than before, or one at q.
LEMMA BeginningsKept ==
  ASSUME TypeOK, added = {}, added' = {}, NEW s \in Slot, Begins(s)'
  PROVE  /\ Series' = Series => Begins(s)
         /\ \A q \in Slot : Series' = Series \union {q} =>
              \/ Begins(s)
              \/ s = q /\ ~(q >= Interval /\ q - Interval \in Series)
<1>1. /\ \A t \in Slot : Exists(t) <=> t \in Series
      /\ \A t \in Slot : Exists(t)' <=> t \in Series'
  BY DEF Series
<1>2. s - Interval >= 0 /\ s - Interval \in Int => s - Interval \in Slot
  BY TickerAssumption DEF Slot
<1>3. s \in Nat /\ Interval \in Nat
  BY SlotsAreNumbers, TickerAssumption
<1>4. s >= Interval => s - Interval \in Slot
  BY <1>2, <1>3
<1> QED BY <1>1, <1>3, <1>4 DEF Begins

\* A single daemon begins one series and goes on with it.
LEMMA UnbrokenInvStep ==
  ASSUME OneDaemon, TickerInv, SeriesInv, Yielding, UnbrokenInv, [Next]_vars
  PROVE  UnbrokenInv'
<1> SUFFICES ASSUME added' = {}
             PROVE  (/\ \A s, t \in Slot : Begins(s) /\ Begins(t) => s = t
                     /\ Series # {} => \E d \in Daemon : initial[d] # None
                     /\ \A d \in Daemon : \A q \in Pending(d) :
                          Series = {} \/ (q >= Interval /\ q - Interval \in Series))'
  BY DEF UnbrokenInv
<1>0. TypeOK /\ added = {} /\ Interval \in Nat
  BY AddedGrows, TickerAssumption DEF TickerInv
<1>i. /\ \A s, t \in Slot : Begins(s) /\ Begins(t) => s = t
      /\ Series # {} => \E d \in Daemon : initial[d] # None
      /\ \A d \in Daemon : \A q \in Pending(d) :
           Series = {} \/ (q >= Interval /\ q - Interval \in Series)
  BY <1>0 DEF UnbrokenInv
<1>e. \A s \in Slot : (Begins(s) => s \in Series) /\ (Begins(s)' => s \in Series')
  BY <1>0 DEF Begins, Series
<1>1. CASE Lost
  <2>1. Series' = {}
    BY <1>1 DEF Lost, Series, Exists
  <2> QED BY <1>e, <2>1
<1>2. ASSUME NEW d \in Daemon, Appends(d)
      PROVE  (/\ \A s, t \in Slot : Begins(s) /\ Begins(t) => s = t
              /\ \E c \in Daemon : initial[c] # None
              /\ \A c \in Daemon : Pending(c) = {})'
  <2> DEFINE q == job[d].slot
  <2>1. q \in Slot /\ q \in Pending(d) /\ Series' = Series \union {q}
    BY <1>2 DEF Appends, Pending
  <2>2. initial'[d] # None
    BY <1>2, SlotsAreNumbers DEF Appends, TickerInv, InHand
  <2>3. \A c \in Daemon : Pending(c)' = {}
    <3>1. events[d].pc = "yielded"
      BY <1>2 DEF Appends, Yielding
    <3> QED BY <1>2, <3>1 DEF Appends, Pending, OneDaemon
  <2>4. Series = {} \/ (q >= Interval /\ q - Interval \in Series)
    BY <1>i, <2>1
  <2> HIDE DEF q
  <2>5. ASSUME NEW s \in Slot, Begins(s)' PROVE Begins(s) \/ (s = q /\ Series = {})
    BY <1>0, <2>1, <2>4, <2>5, BeginningsKept
  <2>6. \A s, t \in Slot : Begins(s)' /\ Begins(t)' => s = t
    BY <1>e, <1>i, <2>5
  <2> QED BY <2>2, <2>3, <2>6
<1>3. ASSUME Series' = Series
      PROVE  (/\ \A s, t \in Slot : Begins(s) /\ Begins(t) => s = t
              /\ Series # {} => \E d \in Daemon : initial[d] # None
              /\ \A d \in Daemon : \A q \in Pending(d) :
                   Series = {} \/ (q >= Interval /\ q - Interval \in Series))'
  <2>1. \A s, t \in Slot : Begins(s)' /\ Begins(t)' => s = t
    BY <1>0, <1>3, <1>i, BeginningsKept
  <2>2. ASSUME Series # {} PROVE \E d \in Daemon : initial'[d] # None
    <3>1. PICK d \in Daemon : initial[d] # None
      BY <1>i, <2>2
    <3>2. Start(d) => initial'[d] # None
      BY <1>0, TickerAssumption, SlotsAreNumbers, NoneIsNothing DEF Start, TypeOK
    <3> QED BY <3>1, <3>2, InitialSteps
  <2>3. ASSUME NEW d \in Daemon, NEW q \in Pending(d)', Series # {}
        PROVE  q >= Interval /\ q - Interval \in Series
    <3>1. CASE StreamKept(d) \/ TakeEvent(d)
      <4>1. q \in Pending(d)
        BY <2>3, <3>1, TakeEffect DEF StreamKept, Pending
      <4> QED BY <1>i, <2>3, <4>1
    <3>2. CASE EventQuery(d)
      <4>1. ~Adding(d)
        BY <3>2 DEF EventQuery, Yielding
      <4>2. PICK s \in Slot : row[s] # None /\ row[s].time \in Slot
                              /\ Pending(d)' = {row[s].time + Interval}
        BY <2>3, <3>2, <4>1, QueryEffect
      <4>3. s \in Series /\ q = s + Interval
        BY <1>0, <2>3, <4>2 DEF Series, Exists, SeriesInv
      <4>4. s \in Nat
        BY SlotsAreNumbers
      <4> QED BY <1>0, <4>3, <4>4
    <3> QED BY <3>1, <3>2, StreamSteps DEF Yielding
  <2> QED BY <1>3, <2>1, <2>2, <2>3
<1> QED BY <1>1, <1>2, <1>3, SeriesSteps

\* There is at most one number of things that are all the same.
LEMMA AtMostOne ==
  ASSUME NEW S, \A s, t \in S : s = t
  PROVE  IsFiniteSet(S) /\ Cardinality(S) <= 1
<1>1. CASE S = {}
  BY <1>1, FS_EmptySet
<1>2. ASSUME NEW s \in S PROVE IsFiniteSet(S) /\ Cardinality(S) <= 1
  <2>1. S = {s}
    BY <1>2
  <2>2. IsFiniteSet({s}) /\ Cardinality({s}) = 1
    BY FS_Singleton
  <2> QED BY <2>1, <2>2
<1> QED BY <1>1, <1>2

(* The events that one daemon announces are one unbroken series, with any   *)
(* failures, and started any number of times with any initial time.         *)
THEOREM OneDaemonUnbroken ==
  ASSUME OneDaemon
  PROVE  Spec => []Unbroken
<1> DEFINE Firsts == {s \in Slot : Begins(s)}
           Initials == {initial[d] : d \in Daemon} \ {None}
<1>1. Init => UnbrokenInv
  BY DEF Init, UnbrokenInv, Begins, Exists, Series, Pending, Adding, Fresh
<1>2. TickerInv /\ SeriesInv /\ Yielding /\ UnbrokenInv /\ [Next]_vars => UnbrokenInv'
  BY UnbrokenInvStep
<1>3. ASSUME UnbrokenInv, added = {} PROVE Cardinality(Firsts) <= Cardinality(Initials)
  <2>1. IsFiniteSet(Firsts) /\ Cardinality(Firsts) <= 1
    BY <1>3, AtMostOne DEF UnbrokenInv
  <2>2. IsFiniteSet(Initials)
    BY AtMostOne DEF OneDaemon
  <2>3. CASE Firsts = {}
    <3>1. Cardinality(Firsts) = 0
      BY <2>3, FS_EmptySet
    <3>2. Cardinality(Initials) \in Nat
      BY <2>2, FS_CardinalityType
    <3> QED BY <3>1, <3>2
  <2>4. CASE Firsts # {}
    <3>1. Series # {}
      BY <1>3, <2>4 DEF Begins, Series
    <3>2. Initials # {}
      BY <1>3, <3>1 DEF UnbrokenInv
    <3>3. Cardinality(Initials) \in Nat /\ Cardinality(Initials) # 0
      BY <2>2, <3>2, FS_EmptySet, FS_CardinalityType
    <3>4. Cardinality(Firsts) \in Nat
      BY <2>1, FS_CardinalityType
    <3> HIDE DEF Firsts, Initials
    <3> QED BY <2>1, <3>3, <3>4
  <2> QED BY <2>3, <2>4
<1>4. UnbrokenInv => Unbroken
  BY <1>3 DEF Unbroken, Begins
<1> QED BY <1>1, <1>2, <1>4, TickerInvHolds, SeriesInvHolds, YieldingHolds, PTL DEF Spec

\* Daemons that never crash begin their series at their initial times.
LEMMA BeginsInvStep ==
  ASSUME NobodyCrashes, TickerInv, Yielding, BeginsInv, [Next]_vars
  PROVE  BeginsInv'
<1>0. TypeOK /\ Interval \in Nat
  BY TickerAssumption DEF TickerInv
<1>n. \A d \in Daemon : ~Crash(d)
  BY <1>0, TickerAssumption DEF Crash, TypeOK, NobodyCrashes
<1>g. \/ RowsStay /\ Series' = Series
      \/ RowsStay /\ \E d \in Daemon : Appends(d)
  BY <1>n, SeriesSteps
<1>1. ASSUME NEW d \in Daemon
      PROVE  /\ initial'[d] # None => up'[d] # "down"
             /\ initial[d] # None => initial'[d] = initial[d]
  <2>1. CASE Start(d)
    BY <1>0, <2>1 DEF Start, BeginsInv, TypeOK
  <2> QED BY <1>n, <2>1, InitialSteps DEF BeginsInv
<1>2. \A s \in Series' : row'[s].time = s
  BY <1>g DEF RowsStay, Appends, Series, Exists, BeginsInv
<1>3. ASSUME added' = {}
      PROVE  (/\ \A s \in Slot : Begins(s) => \E d \in Daemon : initial[d] = s
              /\ \A d \in Daemon : \A q \in Pending(d) :
                   q = initial[d] \/ (q >= Interval /\ q - Interval \in Series))'
  <2>0. added = {}
    BY <1>3, AddedGrows
  <2>1. ASSUME NEW s \in Slot, Begins(s) \/ \E d \in Daemon : s = initial[d]
        PROVE  \E d \in Daemon : initial'[d] = s
    <3>1. PICK d \in Daemon : initial[d] = s
      BY <2>0, <2>1 DEF BeginsInv
    <3> QED BY <1>1, <3>1, SlotsAreNumbers
  <2>2. ASSUME NEW s \in Slot, Begins(s)' PROVE \E d \in Daemon : initial'[d] = s
    <3>1. CASE Series' = Series
      BY <1>0, <1>3, <2>0, <2>1, <2>2, <3>1, BeginningsKept
    <3>2. ASSUME NEW d \in Daemon, Appends(d) PROVE Begins(s) \/ s = initial[d]
      <4> DEFINE q == job[d].slot
      <4>1. q \in Slot /\ q \in Pending(d) /\ Series' = Series \union {q}
        BY <3>2 DEF Appends, Pending
      <4>2. q = initial[d] \/ (q >= Interval /\ q - Interval \in Series)
        BY <2>0, <4>1 DEF BeginsInv
      <4> HIDE DEF q
      <4> QED BY <1>0, <1>3, <2>0, <2>2, <4>1, <4>2, BeginningsKept
    <3> QED BY <1>g, <2>1, <3>1, <3>2
  <2>3. Series \subseteq Series'
    BY <1>g DEF Appends
  <2>4. ASSUME NEW d \in Daemon, NEW q \in Pending(d)'
        PROVE  q = initial'[d] \/ (q >= Interval /\ q - Interval \in Series)
    <3>1. CASE StreamKept(d) \/ TakeEvent(d)
      <4>1. q \in Pending(d)
        BY <2>4, <3>1, TakeEffect DEF StreamKept, Pending
      <4>2. q # None
        BY <1>0, <4>1, SlotsAreNumbers, NoneIsNothing
        DEF Pending, Adding, TickerInv, InHand, TypeOK, Job
      <4> QED BY <1>1, <2>0, <4>1, <4>2 DEF BeginsInv
    <3>2. CASE EventQuery(d)
      <4>1. ~Adding(d)
        BY <3>2 DEF EventQuery, Yielding
      <4>2. CASE Pending(d)' = {initial[d]} /\ UNCHANGED initial
        BY <2>4, <4>2
      <4>3. ASSUME NEW s \in Slot, row[s] # None, row[s].time \in Slot,
                   Pending(d)' = {row[s].time + Interval}
            PROVE  q >= Interval /\ q - Interval \in Series
        <5>1. s \in Series /\ q = s + Interval
          BY <2>0, <2>4, <4>3 DEF Series, Exists, BeginsInv
        <5>2. s \in Nat
          BY SlotsAreNumbers
        <5> QED BY <1>0, <5>1, <5>2
      <4> QED BY <2>4, <3>2, <4>1, <4>2, <4>3, QueryEffect
    <3> QED BY <3>1, <3>2, StreamSteps DEF Yielding
  <2> QED BY <2>2, <2>3, <2>4
<1> QED BY <1>1, <1>2, <1>3 DEF BeginsInv

(* Daemons that share the database begin no more series than they have      *)
(* initial times among them, for any number of them, as long as none of     *)
(* them is restarted with another initial time.                             *)
THEOREM ManyDaemonsUnbroken ==
  ASSUME NobodyCrashes
  PROVE  Spec => []Unbroken
<1> DEFINE Firsts == {s \in Slot : Begins(s)}
           All == {initial[d] : d \in Daemon}
           Initials == All \ {None}
<1>1. Init => BeginsInv
  BY DEF Init, BeginsInv, Begins, Exists, Series, Pending, Adding, Fresh
<1>2. TickerInv /\ Yielding /\ BeginsInv /\ [Next]_vars => BeginsInv'
  BY BeginsInvStep
<1>3. ASSUME BeginsInv, added = {} PROVE Cardinality(Firsts) <= Cardinality(Initials)
  <2>1. Firsts \subseteq Initials
    BY <1>3, SlotsAreNumbers DEF BeginsInv
  <2>2. IsFiniteSet(All)
    <3> DEFINE f == [d \in Daemon |-> initial[d]]
    <3>1. f \in Surjection(Daemon, All)
      BY DEF Surjection
    <3> HIDE DEF f, All
    <3> QED BY <3>1, FS_Surjection, TickerAssumption
  <2> HIDE DEF Firsts, All
  <2>3. IsFiniteSet(Initials)
    BY <2>2, FS_RemoveElement
  <2> HIDE DEF Initials
  <2> QED BY <2>1, <2>3, FS_Subset
<1>4. BeginsInv => Unbroken
  BY <1>3 DEF Unbroken, Begins
<1> QED BY <1>1, <1>2, <1>4, TickerInvHolds, YieldingHolds, PTL DEF Spec

\* Daemons alone with the database announce nothing too early.
LEMMA EarlyInvStep ==
  ASSUME NobodyAdds, TickerInv, Yielding, EarlyInv, [Next]_vars
  PROVE  EarlyInv'
<1>0. /\ TypeOK /\ Slot \subseteq Nat /\ LookAhead \in Nat /\ Interval \in Nat
      /\ now \in Nat /\ now' \in Nat /\ now <= now'
      /\ InitialTime \in Slot \union {None} /\ None \notin Int
  BY SlotsAreNumbers, TickerAssumption, NoneIsNothing, DatabaseSteps DEF TickerInv
<1>1. added' = {}
  <2>1. ASSUME NEW d \in Daemon, Crash(d) PROVE UNCHANGED added
    BY <2>1 DEF Crash
  <2> QED BY <2>1, DatabaseSteps DEF Written, CommandLineAdd, NobodyAdds, EarlyInv
<1>2. ASSUME NEW d \in Daemon, initial'[d] # None
      PROVE  IF InitialTime = None THEN initial'[d] <= now' ELSE initial'[d] = InitialTime
  <2>1. CASE Start(d)
    BY <1>0, <2>1 DEF Start, TypeOK
  <2>2. CASE initial'[d] = initial[d]
    <3>1. initial[d] \in Nat
      BY <1>0, <1>2, <2>2 DEF TypeOK
    <3> QED BY <1>0, <1>2, <2>2, <3>1 DEF EarlyInv
  <2> QED BY <2>1, <2>2, InitialSteps
<1>3. ASSUME NEW s \in Series'
      PROVE  /\ row'[s].time = s
             /\ s - LookAhead <= now' \/ s = InitialTime
             /\ InitialTime # None => InitialTime <= s
  <2>1. s \in Slot /\ ~Lost
    BY <1>3 DEF Series, Exists, Lost
  <2>2. CASE RowsStay /\ s \in Series
    <3>1. row'[s].time = s
      BY <2>2 DEF RowsStay, Series, Exists, EarlyInv
    <3>2. /\ s - LookAhead <= now \/ s = InitialTime
          /\ InitialTime # None => InitialTime <= s
      BY <2>2 DEF EarlyInv
    <3> QED BY <1>0, <2>1, <3>1, <3>2
  <2>3. ASSUME NEW d \in Daemon, Appends(d), s = job[d].slot
        PROVE  /\ row'[s].time = s
               /\ s - LookAhead <= now' \/ s = InitialTime
               /\ InitialTime # None => InitialTime <= s
    <3>1. /\ s - LookAhead <= now \/ s = InitialTime
          /\ InitialTime # None => InitialTime <= s
      BY <2>3 DEF Appends, EarlyInv, Pending
    <3>2. row'[s].time = s
      BY <2>3 DEF Appends
    <3> QED BY <1>0, <2>1, <3>1, <3>2
  <2> QED BY <1>3, <2>1, <2>2, <2>3, SeriesSteps DEF Appends
<1>4. ASSUME NEW d \in Daemon
      PROVE  (/\ \A q \in Pending(d) : InitialTime # None => InitialTime <= q
              /\ events[d].pc = "wait" => \/ events[d].due = events[d].slot - LookAhead
                                          \/ events[d].slot - LookAhead <= now
                                          \/ events[d].slot = InitialTime
              /\ Adding(d) => job[d].slot - LookAhead <= now \/ job[d].slot = InitialTime)'
  <2>i. /\ \A q \in Pending(d) : InitialTime # None => InitialTime <= q
        /\ events[d].pc = "wait" => \/ events[d].due = events[d].slot - LookAhead
                                    \/ events[d].slot - LookAhead <= now
                                    \/ events[d].slot = InitialTime
        /\ Adding(d) => job[d].slot - LookAhead <= now \/ job[d].slot = InitialTime
    BY DEF EarlyInv
  <2>t. /\ events[d].pc = "wait" => events[d].slot \in Nat /\ events[d].due \in Int
        /\ Adding(d) => job[d].slot \in Nat
    BY <1>0 DEF TickerInv, InHand, TypeOK, Stream, Adding, Job
  <2>1. CASE StreamKept(d)
    <3>1. Pending(d)' \subseteq Pending(d)
      BY <2>1 DEF StreamKept, Pending
    <3>2. events'[d].pc = "wait" => \/ events'[d].due = events'[d].slot - LookAhead
                                    \/ events'[d].slot - LookAhead <= now'
                                    \/ events'[d].slot = InitialTime
      BY <1>0, <2>i, <2>t, <2>1 DEF StreamKept
    <3>3. Adding(d)' => job'[d].slot - LookAhead <= now' \/ job'[d].slot = InitialTime
      BY <1>0, <2>i, <2>t, <2>1 DEF StreamKept
    <3> QED BY <2>i, <3>1, <3>2, <3>3
  <2>2. CASE TakeEvent(d)
    <3>1. job'[d].slot = events[d].slot /\ Pending(d)' \subseteq Pending(d)
          /\ events[d].pc = "wait" /\ events[d].due <= now /\ UNCHANGED now
          /\ events'[d].pc = "yielded"
      BY <2>2, TakeEffect
    <3> QED BY <1>0, <2>i, <2>t, <3>1
  <2>3. CASE EventQuery(d)
    <3>1. ~Adding(d)
      BY <2>3 DEF EventQuery, Yielding
    <3>2. ~Adding(d)' /\ UNCHANGED <<now, initial>> /\ initial[d] \in Slot
      BY <2>3, <3>1, QueryEffect DEF TickerInv, InHand
    <3>3. CASE Pending(d)' = {initial[d]} /\ events'[d].slot = initial[d]
      <4>0. initial[d] # None
        BY <3>2, SlotsAreNumbers
      <4>1. IF InitialTime = None THEN initial[d] <= now ELSE initial[d] = InitialTime
        BY <4>0 DEF EarlyInv
      <4>2. initial[d] \in Nat
        BY <1>0, <3>2
      <4> QED BY <1>0, <3>2, <3>3, <4>1, <4>2
    <3>4. ASSUME NEW s \in Slot, row[s] # None, row[s].time \in Slot,
                 Pending(d)' = {row[s].time + Interval},
                 events'[d] = Upcoming(row[s].time + Interval)
          PROVE  /\ \A q \in Pending(d)' : InitialTime # None => InitialTime <= q
                 /\ events'[d].due = events'[d].slot - LookAhead
      <4>1. s \in Series /\ row[s].time = s
        BY <3>4 DEF Series, Exists, EarlyInv
      <4>2. InitialTime # None => InitialTime <= s /\ InitialTime \in Nat
        BY <1>0, <4>1 DEF EarlyInv
      <4>3. s \in Nat
        BY <1>0
      <4>4. InitialTime # None => InitialTime <= s + Interval
        BY <1>0, <4>2, <4>3
      <4>5. events'[d].due = events'[d].slot - LookAhead
        BY <3>4 DEF Upcoming
      <4> QED BY <3>4, <4>1, <4>4, <4>5
    <3>5. CASE Pending(d)' = {} /\ events'[d].pc = "query"
      BY <3>2, <3>5
    <3> QED BY <2>3, <3>1, <3>2, <3>3, <3>4, <3>5, QueryEffect
  <2> QED BY <2>1, <2>2, <2>3, StreamSteps DEF Yielding
<1> QED BY <1>1, <1>2, <1>3, <1>4 DEF EarlyInv

(* Any number of daemons announce no event before the look-ahead reaches    *)
(* it, except for the configured first one, with any failures and crashes,  *)
(* as long as they alone add events.                                        *)
THEOREM ManyDaemonsNeverEarly ==
  ASSUME NobodyAdds
  PROVE  Spec => []NotEarly
<1>1. Init => EarlyInv
  BY DEF Init, EarlyInv, Series, Exists, Pending, Adding, Fresh
<1>2. TickerInv /\ Yielding /\ EarlyInv /\ [Next]_vars => EarlyInv'
  BY EarlyInvStep
<1>3. TickerInv /\ EarlyInv => NotEarly
  <2> SUFFICES ASSUME TickerInv, EarlyInv, NEW s \in Slot
               PROVE  /\ Attested(s) => row[s].time <= now
                      /\ Exists(s) => \/ s - LookAhead <= now \/ s \in added
                                      \/ \A t \in Slot \ added : Exists(t) => s <= t
    BY DEF NotEarly
  <2>1. Attested(s) => row[s].time <= now
    BY DEF TickerInv, Matured, Ripened
  <2>2. Exists(s) => s - LookAhead <= now \/ \A t \in Series : s <= t
    BY SlotsAreNumbers, TickerAssumption DEF EarlyInv, Series
  <2> QED BY <2>1, <2>2 DEF Series
<1> QED BY <1>1, <1>2, <1>3, TickerInvHolds, YieldingHolds, PTL DEF Spec
=============================================================================
