------------------------------ MODULE NodeTree ------------------------------
(***************************************************************************)
(* The tree of paths that the HTTP API shows, as the two databases keep    *)
(* and read it: insert_event, complete_event, set_node and get_node of     *)
(* db/postgres.rs and db/in_memory.rs.                                     *)
(*                                                                         *)
(* Postgres keeps a row of the table `tree` per node, written with the     *)
(* event in one transaction.  The in-memory database derives the nodes     *)
(* from the ids of its events.  Both are modelled over the same events, so *)
(* that their answers can be compared.  get_node is several queries in     *)
(* both, with writes in between.                                           *)
(*                                                                         *)
(* A path is a sequence of names; a name is a number, and numbers are      *)
(* ordered as the databases order the names (by their text).               *)
(***************************************************************************)
EXTENDS Integers, FiniteSets, SequencesExt

CONSTANTS
  Path,        \* the paths of the tree; the root is <<>>
  Event,       \* events: [path, kind, time]; the time may be None
  Nodes,       \* <<path, kind>>: the nodes of the node streams
  Inferred,    \* the kind olivia_describe infers for a path
  Date,        \* the names that are dates
  NamePrefix,  \* <<m, n>>: the text of name m is a proper prefix of that of n
  Label,       \* the ltree label of a name; different names may share one
  Limit,       \* the LIMIT of the query for children (100)
  NotFound,    \* the reply for a path there is nothing at
  None         \* Rust's None

Kind == {"List", "Range", "DateMap"}
Name == UNION {Range(p) : p \in Path}

ASSUME NodeTreeAssumption ==
  /\ Path \subseteq Seq(Nat) /\ <<>> \in Path
  /\ \A p \in Path : \A n \in 0 .. Len(p) : SubSeq(p, 1, n) \in Path
  /\ IsFiniteSet(Name)
  /\ \A e \in Event : e.path \in Path \ {<<>>} /\ e.time \in Nat \union {None}
  /\ Nodes \subseteq Path \X Kind
  /\ Inferred \in [Path -> Kind]
  /\ Date \subseteq Nat
  /\ Limit \in Nat \ {0}

VARIABLES
  event,     \* per event: "absent", "open" or "attested"
  node,      \* per path the kind that set_node has given it, or None
  tree,      \* Postgres: the rows <<id, parent>> of the table tree
  request,   \* the request being answered: its database, path and progress
  asked,     \* history: what there was at the path when it was asked for
  reply      \* the last reply, or None while there is none

vars == <<event, node, tree, request, asked, reply>>

Backend == {"InMemory", "Postgres"}

Present == {e \in Event : event[e] # "absent"}

-----------------------------------------------------------------------------
(* Paths below paths.                                                      *)

\* In Postgres an ltree is a sequence of labels, and $1 @> path compares those.
Labels(p) == [i \in DOMAIN p |-> Label[p[i]]]

\* In memory path.starts_with compares text: the last name may go on.
StartsWith(p, q) ==
  \/ IsPrefix(p, q)
  \/ /\ p # <<>> /\ Len(p) <= Len(q)
     /\ Front(p) = SubSeq(q, 1, Len(p) - 1)
     /\ <<Last(p), q[Len(p)]>> \in NamePrefix

Below(b, p, q) ==
  IF b = "InMemory" THEN StartsWith(p, q) ELSE IsPrefix(Labels(p), Labels(q))

\* strip_prefix_path, and the segments of what it leaves.  What is left of a
\* longer name, or all of a path that does not start with p, counts as it is.
Segments(p, q) ==
  IF StartsWith(p, q) THEN SubSeq(q, Len(p) + 1, Len(q)) ELSE q

-----------------------------------------------------------------------------
(* The queries of get_node.                                                *)

KindOf(p) == IF node[p] # None THEN node[p] ELSE Inferred[p]

\* The order of the two databases: in memory no time comes first, in Postgres
\* NULL comes last.
Earlier(b, d, e) ==
  IF d.time # None /\ e.time # None THEN d.time < e.time
  ELSE IF b = "InMemory" THEN d.time = None /\ e.time # None
                         ELSE d.time # None /\ e.time = None

Earliest(b, found) == {e \in found : \A d \in found : ~Earlier(b, d, e)}

\* The first segment of the earliest event at or below p without attestation;
\* any of several equally early ones.
NextUnattested(b, p) ==
  LET found == Earliest(b, {e \in Event : event[e] = "open" /\ Below(b, p, e.path)})
      first == [e \in found |-> Segments(p, e.path)]
  IN IF found = {} THEN {None}
     ELSE {IF first[e] = <<>> THEN None ELSE Head(first[e]) : e \in found}

DateMap(b, p) ==
  LET segments == {Segments(p, e.path) : e \in {d \in Present : Below(b, p, d.path)}}
  IN {<<s[1], s[2]>> : s \in {t \in segments : Len(t) >= 2 /\ t[1] \in Date}}

\* Postgres: the rows of tree, and the events at the path.
TreeChildren(p) == {Last(row[1]) : row \in {r \in tree : r[2] = p}}

EventsAt(b, p) ==
  {e.kind : e \in {d \in Present : IF b = "InMemory" THEN d.path = p
                                   ELSE Labels(d.path) = Labels(p)}}

\* In memory: the first segments of the events below the path.
MemChildren(p) ==
  {e.path[Len(p) + 1] : e \in {d \in Present : IsStrictPrefix(p, d.path)}}

AsChildren(p, names) == {<<n, KindOf(Append(p, n))>> : n \in names}

\* Mutant: a node without children gets the empty name for its ends.
Ends_Default(p, names) == IF names = {} THEN <<0, 0>> ELSE <<Min(names), Max(names)>>

\* The first and the last child.
Ends(p, names) == IF names = {} THEN <<None, None>> ELSE <<Min(names), Max(names)>>

-----------------------------------------------------------------------------
(* What a reader is told: the events at the path, and its children as the  *)
(* kind of the node wants them described.                                  *)

\* What the queries have returned so far.
Results == [children : SUBSET (Name \X Kind), dates : SUBSET (Name \X Name),
            next : Name \union {None},
            ends : (Name \union {None}) \X (Name \union {None})]

NoResults == [children |-> {}, dates |-> {}, next |-> None, ends |-> <<None, None>>]

Describe(kind, got) ==
  CASE kind = "List"    -> [kind |-> kind, children |-> got.children]
    [] kind = "DateMap" -> [kind |-> kind, dates |-> got.dates]
    [] kind = "Range"   -> [kind |-> kind, start |-> got.ends[1],
                            next |-> got.next, end |-> got.ends[2]]

GetPath(events, desc) == [events |-> events, desc |-> desc]

EventKind == {e.kind : e \in Event}

Reply ==
  [events : SUBSET EventKind,
   desc : [kind : {"List"}, children : SUBSET (Name \X Kind)]
            \union [kind : {"DateMap"}, dates : SUBSET (Name \X Name)]
            \union [kind : {"Range"}, start : Name \union {None},
                    next : Name \union {None}, end : Name \union {None}]]

\* Mutant: the ends are queried before the next event.
Queries_EndsFirst(kind) ==
  CASE kind = "List"    -> <<"children", "events">>
    [] kind = "DateMap" -> <<"dates", "events">>
    [] kind = "Range"   -> <<"ends", "next", "events">>

\* Postgres: the queries that follow the one for the node's kind.
Queries(kind) ==
  CASE kind = "List"    -> <<"children", "events">>
    [] kind = "DateMap" -> <<"dates", "events">>
    [] kind = "Range"   -> <<"next", "ends", "events">>

\* In memory, under the locks.
MemDesc(p, next) ==
  LET names == MemChildren(p)
      got   == [children |-> AsChildren(p, names), dates |-> DateMap("InMemory", p),
                next |-> next, ends |-> Ends(p, names)]
  IN Describe(IF KindOf(p) = "Range" /\ names = {} THEN "List" ELSE KindOf(p), got)

MemReply(p, next) ==
  IF MemChildren(p) = {} /\ EventsAt("InMemory", p) = {} THEN NotFound
  ELSE GetPath(EventsAt("InMemory", p), MemDesc(p, next))

-----------------------------------------------------------------------------
Query == {"kind", "children", "dates", "next", "ends", "events", "rest"}

Request == [backend : Backend \union {None}, path : Path, todo : Seq(Query),
            kind : Kind \union {None}, got : Results]

Idle == [backend |-> None, path |-> <<>>, todo |-> <<>>, kind |-> None,
         got |-> NoResults]

\* What there was at a path.
Snapshots == [events : SUBSET EventKind, children : SUBSET Name,
              dates : SUBSET (Name \X Name)]

ASSUME NoneIsNothing ==
  /\ NotFound # None /\ NotFound \notin Reply
  /\ None \notin Reply \union Path \union Name \union Kind \union Backend \union Snapshots

TypeOK ==
  /\ event \in [Event -> {"absent", "open", "attested"}]
  /\ node \in [Path -> Kind \union {None}]
  /\ tree \subseteq Path \X (Path \union {None})
  /\ request \in Request
  /\ asked \in Snapshots \union {None}
  /\ reply \in Reply \union {None, NotFound}

Init ==
  /\ event = [e \in Event |-> "absent"]
  /\ node = [p \in Path |-> None]
  /\ tree = {}
  /\ request = Idle
  /\ asked = None
  /\ reply = None

-----------------------------------------------------------------------------
(* The writes.                                                             *)

\* Mutant: only the node gets a row.
NodeRows_Alone(p) == {<<p, IF p = <<>> THEN None ELSE Front(p)>>}

\* set_node_parents: a row for the path and for each of its ancestors; rows
\* that are there stay as they are.
NodeRows(p) ==
  {<<q, IF q = <<>> THEN None ELSE Front(q)>> : q \in {r \in Path : IsPrefix(r, p)}}

InsertEvent(e) ==
  /\ event[e] = "absent"
  /\ event' = [event EXCEPT ![e] = "open"]
  /\ tree' = tree \union NodeRows(e.path)
  /\ UNCHANGED <<node, request, asked, reply>>

CompleteEvent(e) ==
  /\ event[e] = "open"
  /\ event' = [event EXCEPT ![e] = "attested"]
  /\ UNCHANGED <<node, tree, request, asked, reply>>

SetNode(p, kind) ==
  /\ node' = [node EXCEPT ![p] = kind]
  /\ tree' = tree \union NodeRows(p)
  /\ UNCHANGED <<event, request, asked, reply>>

-----------------------------------------------------------------------------
(* get_node, one query at a time.                                          *)

\* What there is at a path, for the properties.
Snapshot(p) ==
  [events   |-> {e.kind : e \in {d \in Present : d.path = p}},
   children |-> MemChildren(p),
   dates    |-> DateMap("InMemory", p)]

GetNode(b, p) ==
  /\ request.todo = <<>>
  /\ request' = [Idle EXCEPT !.backend = b, !.path = p,
                   !.todo = IF b = "Postgres" THEN <<"kind">> ELSE <<"next", "rest">>]
  /\ asked' = Snapshot(p)
  /\ reply' = None
  /\ UNCHANGED <<event, node, tree>>

Answer(r) ==
  /\ request' = [Idle EXCEPT !.backend = request.backend, !.path = request.path]
  /\ reply' = r
  /\ UNCHANGED <<event, node, tree, asked>>

\* The query returns, and the next one is due.
Got(r) ==
  /\ request' = [r EXCEPT !.todo = Tail(r.todo)]
  /\ UNCHANGED <<event, node, tree, asked, reply>>

Asks(query) == request.todo # <<>> /\ Head(request.todo) = query

ReadKind ==
  LET p == request.path IN
  /\ Asks("kind")
  /\ IF \E row \in tree : row[1] = p
     THEN Got([request EXCEPT !.kind = KindOf(p), !.todo = @ \o Queries(KindOf(p))])
     ELSE Answer(NotFound)

\* The first Limit children that the database comes upon.
ReadChildren ==
  LET p == request.path IN
  /\ Asks("children")
  /\ \E names \in SUBSET TreeChildren(p) :
       /\ names = TreeChildren(p) \/ Cardinality(names) = Limit
       /\ Cardinality(names) <= Limit
       /\ Got([request EXCEPT !.got.children = AsChildren(p, names)])

\* Postgres asks this for a Range, the in-memory database for every node and
\* before it takes the lock for the rest.
ReadNext ==
  /\ Asks("next")
  /\ \E next \in NextUnattested(request.backend, request.path) :
       Got([request EXCEPT !.got.next = next])

ReadEnds ==
  LET p == request.path IN
  /\ Asks("ends")
  /\ Got([request EXCEPT !.got.ends = Ends(p, TreeChildren(p))])

ReadDates ==
  /\ Asks("dates")
  /\ Got([request EXCEPT !.got.dates = DateMap("Postgres", request.path)])

ReadEvents ==
  /\ Asks("events")
  /\ Answer(GetPath(EventsAt("Postgres", request.path),
                    Describe(request.kind, request.got)))

ReadRest ==
  /\ Asks("rest")
  /\ Answer(MemReply(request.path, request.got.next))

-----------------------------------------------------------------------------
Next ==
  \/ \E e \in Event : InsertEvent(e) \/ CompleteEvent(e)
  \/ \E n \in Nodes : SetNode(n[1], n[2])
  \/ \E b \in Backend, p \in Path : GetNode(b, p)
  \/ ReadKind \/ ReadChildren \/ ReadNext \/ ReadEnds \/ ReadDates
  \/ ReadEvents \/ ReadRest

Spec == Init /\ [][Next]_vars

-----------------------------------------------------------------------------
(* Properties.                                                             *)

\* No present event is taken for one at or below p that is not, by a common
\* text prefix in memory or by equal labels in Postgres.
Unambiguous(p) ==
  \A e \in Present : \A b \in Backend : Below(b, p, e.path) <=> IsPrefix(p, e.path)

(* A reply is never wrong about what was there all the time: whatever was   *)
(* at the path when it was asked for is in the answer, what is in the       *)
(* answer is there now, whichever writes came between the queries.  A list  *)
(* may be cut at Limit, and "not found" says that nothing had been there.   *)
ReplyBracketed ==
  LET p    == request.path
      now  == Snapshot(p)
      desc == reply.desc
  IN reply # None /\ Unambiguous(p) =>
     IF reply = NotFound THEN asked.events = {} /\ asked.children = {}
     ELSE /\ asked.events \subseteq reply.events /\ reply.events \subseteq now.events
          /\ desc.kind = "List" =>
               LET names == {c[1] : c \in desc.children}
               IN /\ asked.children \subseteq names \/ Cardinality(names) = Limit
                  /\ \A n \in names \ now.children :
                       \E q \in Path : node[q] # None /\ IsPrefix(Append(p, n), q)
          /\ desc.kind = "DateMap" =>
               asked.dates \subseteq desc.dates /\ desc.dates \subseteq now.dates
          /\ desc.kind = "Range" /\ asked.children # {} =>
               /\ desc.start <= Min(asked.children)
               /\ Max(asked.children) <= desc.end

(* The children of a Range are announced from its start to its end, and its *)
(* next event lies between them, although Postgres reads the next event and *)
(* the ends one after the other while events are added.                     *)
RangeSpansNext ==
  LET desc == reply.desc
  IN reply \notin {None, NotFound} /\ Unambiguous(request.path) =>
     (desc.kind = "Range" /\ desc.next # None =>
        desc.start # None /\ desc.start <= desc.next /\ desc.next <= desc.end)

(* The two databases, given the same events and nodes, describe a path      *)
(* alike: the rows that Postgres has kept are the nodes the in-memory       *)
(* database derives from its events.  They may differ where names are       *)
(* ambiguous, events have no time or children exceed the Limit, and where   *)
(* nodes have nothing below them.                                           *)
BackendsAgree ==
  \A p \in Path :
    LET names == TreeChildren(p)
        got(next) == [children |-> AsChildren(p, names),
                      dates    |-> DateMap("Postgres", p),
                      next     |-> next,
                      ends     |-> Ends(p, names)]
        comparable == /\ Unambiguous(p) /\ MemChildren(p) # {}
                      /\ \A q \in Path : node[q] # None /\ IsStrictPrefix(p, q) =>
                           \E e \in Present : IsPrefix(q, e.path)
                      /\ \A e \in Present : IsPrefix(p, e.path) => e.time # None
                      /\ Cardinality(names) <= Limit
    IN comparable =>
         {MemReply(p, next) : next \in NextUnattested("InMemory", p)} =
         {GetPath(EventsAt("Postgres", p), Describe(KindOf(p), got(next)))
            : next \in NextUnattested("Postgres", p)}
=============================================================================
