--------------------------- MODULE NodeTreeProofs ---------------------------
(***************************************************************************)
(* Theorems about NodeTree, for any paths, events, labels and limit.       *)
(***************************************************************************)
EXTENDS NodeTree, LeastNumbers

-----------------------------------------------------------------------------
(* The inductive invariant.                                                *)

\* The parent that the row of a path names.
ParentOf(q) == IF q = <<>> THEN None ELSE Front(q)

(* The rows of the tree are those of paths that lead to an event or to a    *)
(* node that was set, and the rows on the way to an event are all there.    *)
TreeInv ==
  /\ \A r \in tree :
       /\ r[1] \in Path /\ r[2] = ParentOf(r[1])
       /\ \/ \E e \in Present : IsPrefix(r[1], e.path)
          \/ \E q \in Path : node[q] # None /\ IsPrefix(r[1], q)
  /\ \A e \in Present : NodeRows(e.path) \subseteq tree

\* The children of p on the way to a node that was set.
Noded(p) ==
  {n \in Name : \E q \in Path : node[q] # None /\ IsPrefix(Append(p, n), q)}

(* A description says nothing wrong: it has the children and the dates that *)
(* were there, and its own are among those that are there now.              *)
IsTrue(desc, was, children, dates, noded) ==
  /\ desc.kind = "List" =>
       LET names == {c[1] : c \in desc.children}
       IN /\ was.children \subseteq names \/ Cardinality(names) = Limit
          /\ names \subseteq children \union noded
  /\ desc.kind = "DateMap" =>
       was.dates \subseteq desc.dates /\ desc.dates \subseteq dates
  /\ desc.kind = "Range" =>
       /\ was.children # {} =>
            desc.start <= Min(was.children) /\ Max(was.children) <= desc.end
       /\ desc.next # None =>
            desc.start # None /\ desc.start <= desc.next /\ desc.next <= desc.end

\* A description of p says nothing wrong now.
TrueHere(p, desc) ==
  IsTrue(desc, asked, MemChildren(p), DateMap("InMemory", p), Noded(p))

\* How far get_node has come.
Progress ==
  \/ request.todo = <<>>
  \/ /\ request.backend = "Postgres"
     /\ \/ request.todo = <<"kind">>
        \/ request.kind = "List" /\ request.todo \in {<<"children", "events">>, <<"events">>}
        \/ request.kind = "DateMap" /\ request.todo \in {<<"dates", "events">>, <<"events">>}
        \/ /\ request.kind = "Range"
           /\ request.todo \in {<<"next", "ends", "events">>, <<"ends", "events">>,
                                <<"events">>}
  \/ request.backend = "InMemory" /\ request.todo \in {<<"next", "rest">>, <<"rest">>}

\* What there was when it began is there still.
AskedInv ==
  /\ request.todo # <<>> \/ reply # None => asked # None
  /\ request.todo # <<>> => reply = None
  /\ asked # None => \A p \in Path : request.path = p =>
       /\ asked.events \subseteq Snapshot(p).events
       /\ asked.children \subseteq MemChildren(p)
       /\ asked.dates \subseteq DateMap("InMemory", p)

(* What the queries have returned is true, and so is the reply.             *)
ReplyInv ==
  \A p \in Path : request.path = p /\ Unambiguous(p) =>
    /\ request.todo \in {<<"rest">>, <<"ends", "events">>} =>
         request.got.next \in MemChildren(p) \union {None}
    /\ request.todo = <<"events">> =>
         TrueHere(p, Describe(request.kind, request.got))
    /\ reply # None =>
         IF reply = NotFound THEN asked.events = {} /\ asked.children = {}
         ELSE /\ asked.events \subseteq reply.events
              /\ reply.events \subseteq Snapshot(p).events
              /\ TrueHere(p, reply.desc)

NodeTreeInv == TypeOK /\ TreeInv /\ Progress /\ AskedInv /\ ReplyInv

-----------------------------------------------------------------------------
(* Paths and their prefixes.                                               *)

\* A path is as long as it has names, which are numbers.
LEMMA PathIsSequence ==
  ASSUME NEW p \in Path
  PROVE  /\ p \in Seq(Nat) /\ Len(p) \in Nat /\ DOMAIN p = 1 .. Len(p)
         /\ \A i \in 1 .. Len(p) : p[i] \in Name /\ p[i] \in Nat
<1>1. p \in Seq(Nat)
  BY NodeTreeAssumption
<1>2. Len(p) \in Nat /\ DOMAIN p = 1 .. Len(p) /\ \A i \in 1 .. Len(p) : p[i] \in Nat
  BY <1>1
<1>3. \A i \in 1 .. Len(p) : p[i] \in Name
  BY <1>2 DEF Name, Range
<1> QED BY <1>1, <1>2, <1>3

\* Names are numbers, and not None.
LEMMA NamesAreNumbers == Name \subseteq Nat /\ None \notin Name /\ IsFiniteSet(Name)
<1>1. ASSUME NEW n \in Name PROVE n \in Nat
  BY PathIsSequence DEF Name, Range
<1> QED BY <1>1, NodeTreeAssumption, NoneIsNothing

\* A prefix has the same names, as far as it goes.
LEMMA PrefixNames ==
  ASSUME NEW S, NEW p \in Seq(S), NEW q \in Seq(S)
  PROVE  IsPrefix(p, q) <=> Len(p) <= Len(q) /\ \A i \in 1 .. Len(p) : p[i] = q[i]
<1>1. CASE Len(p) <= Len(q)
  <2> DEFINE a == SubSeq(p, 1, Len(p))
             b == SubSeq(q, 1, Len(p))
  <2>1. /\ a = [i \in 1 .. Len(p) |-> p[i]]
        /\ b = [i \in 1 .. Len(p) |-> q[i]]
    BY <1>1
  <2> QED BY <1>1, <2>1 DEF IsPrefix
<1>2. CASE ~(Len(p) <= Len(q))
  BY <1>2 DEF IsPrefix
<1> QED BY <1>1, <1>2

\* A prefix of a prefix is a prefix.
LEMMA PrefixOfPrefix ==
  ASSUME NEW p \in Seq(Nat), NEW q \in Seq(Nat), NEW r \in Seq(Nat),
         IsPrefix(p, q), IsPrefix(q, r)
  PROVE  IsPrefix(p, r)
<1>1. Len(p) \in Nat /\ Len(q) \in Nat /\ Len(r) \in Nat
  OBVIOUS
<1>2. /\ Len(p) <= Len(q) /\ \A i \in 1 .. Len(p) : p[i] = q[i]
      /\ Len(q) <= Len(r) /\ \A i \in 1 .. Len(q) : q[i] = r[i]
  BY PrefixNames
<1>3. Len(p) <= Len(r) /\ 1 .. Len(p) \subseteq 1 .. Len(q)
  BY <1>1, <1>2
<1>4. \A i \in 1 .. Len(p) : p[i] = r[i]
  BY <1>2, <1>3
<1> QED BY <1>3, <1>4, PrefixNames

\* The beginning of a sequence.
LEMMA Beginning ==
  ASSUME NEW q \in Seq(Nat), NEW n \in 0 .. Len(q)
  PROVE  /\ SubSeq(q, 1, n) \in Seq(Nat) /\ Len(SubSeq(q, 1, n)) = n
         /\ \A i \in 1 .. n : SubSeq(q, 1, n)[i] = q[i]
<1>1. n \in Nat /\ n <= Len(q) /\ \A i \in 1 .. n : q[i] \in Nat
  OBVIOUS
<1>2. SubSeq(q, 1, n) = [i \in 1 .. n |-> q[i]]
  BY <1>1
<1> QED BY <1>1, <1>2

\* A longer prefix has one more name.
LEMMA PrefixOfChild ==
  ASSUME NEW p \in Seq(Nat), NEW n \in Nat, NEW q \in Seq(Nat)
  PROVE  IsPrefix(Append(p, n), q)
           <=> IsPrefix(p, q) /\ Len(p) < Len(q) /\ q[Len(p) + 1] = n
<1> DEFINE r == Append(p, n)
<1>1. /\ r \in Seq(Nat) /\ Len(r) = Len(p) + 1 /\ r[Len(p) + 1] = n
      /\ \A i \in 1 .. Len(p) : r[i] = p[i]
  OBVIOUS
<1>2. Len(p) \in Nat /\ Len(q) \in Nat
  OBVIOUS
<1> HIDE DEF r
<1>3. IsPrefix(r, q) <=> Len(r) <= Len(q) /\ \A i \in 1 .. Len(r) : r[i] = q[i]
  <2>1. r \in Seq(Nat)
    BY <1>1
  <2> QED BY <2>1, PrefixNames
<1>4. IsPrefix(p, q) <=> Len(p) <= Len(q) /\ \A i \in 1 .. Len(p) : p[i] = q[i]
  BY PrefixNames, SMTT(20)
<1>5. \A i \in 1 .. Len(r) : i \in 1 .. Len(p) \/ i = Len(p) + 1
  BY <1>1, <1>2
<1>6. 1 .. Len(p) \subseteq 1 .. Len(r) /\ Len(p) + 1 \in 1 .. Len(r)
  BY <1>1, <1>2
<1>7. Len(r) <= Len(q) <=> Len(p) < Len(q)
  BY <1>1, <1>2
<1>8. Len(p) < Len(q) => Len(p) <= Len(q)
  BY <1>2
<1>9. (\A i \in 1 .. Len(r) : r[i] = q[i])
        <=> (\A i \in 1 .. Len(p) : p[i] = q[i]) /\ q[Len(p) + 1] = n
  BY <1>1, <1>5, <1>6
<1> QED BY <1>3, <1>4, <1>7, <1>8, <1>9 DEF r

\* A strict prefix is shorter.
LEMMA StrictPrefixIsShorter ==
  ASSUME NEW p \in Seq(Nat), NEW q \in Seq(Nat)
  PROVE  IsStrictPrefix(p, q) <=> IsPrefix(p, q) /\ Len(p) < Len(q)
<1>1. ASSUME IsPrefix(p, q), Len(p) = Len(q) PROVE p = q
  <2>1. \A i \in 1 .. Len(p) : p[i] = q[i]
    BY <1>1, PrefixNames
  <2> QED BY <1>1, <2>1
<1>2. IsPrefix(p, q) => Len(p) <= Len(q)
  BY PrefixNames
<1> QED BY <1>1, <1>2 DEF IsStrictPrefix

\* A path other than the root is its parent and its last name.
LEMMA FrontAndLast ==
  ASSUME NEW q \in Path, q # <<>>
  PROVE  /\ Front(q) \in Path /\ Last(q) \in Name /\ q = Append(Front(q), Last(q))
         /\ Len(q) \in Nat /\ Len(q) > 0 /\ Len(Front(q)) = Len(q) - 1
<1>1. q \in Seq(Nat) /\ Len(q) \in Nat /\ Len(q) > 0
  BY NodeTreeAssumption
<1>2. Front(q) \in Path
  BY <1>1, NodeTreeAssumption DEF Front
<1>3. Last(q) \in Name
  BY <1>1, PathIsSequence DEF Last
<1>4. Len(Front(q)) = Len(q) - 1 /\ q = Append(Front(q), Last(q))
  <2> DEFINE f == SubSeq(q, 1, Len(q) - 1)
             a == Append(f, q[Len(q)])
  <2>1. f \in Seq(Nat) /\ Len(f) = Len(q) - 1 /\ \A i \in 1 .. Len(q) - 1 : f[i] = q[i]
    <3>1. Len(q) - 1 \in 0 .. Len(q)
      BY <1>1
    <3> QED BY <1>1, <3>1, Beginning
  <2>2. q[Len(q)] \in Nat
    BY <1>1
  <2> HIDE DEF f
  <2>3. a \in Seq(Nat) /\ Len(a) = Len(q) /\ a[Len(q)] = q[Len(q)]
        /\ \A i \in 1 .. Len(q) - 1 : a[i] = f[i]
    BY <1>1, <2>1, <2>2
  <2> HIDE DEF a
  <2>4. \A i \in 1 .. Len(q) : i \in 1 .. Len(q) - 1 \/ i = Len(q)
    BY <1>1
  <2>5. q = a
    <3>1. \A i \in 1 .. Len(q) : q[i] = a[i]
      BY <2>1, <2>3, <2>4
    <3>2. q \in Seq(Nat) /\ a \in Seq(Nat) /\ Len(a) = Len(q)
      BY <1>1, <2>3
    <3> QED BY <3>1, <3>2
  <2> QED BY <2>1, <2>5 DEF f, a, Front, Last
<1> QED BY <1>1, <1>2, <1>3, <1>4

\* What a path has below another one begins with a child of that.
LEMMA ChildOnTheWay ==
  ASSUME NEW p \in Path, NEW q \in Path, IsPrefix(p, q), Len(p) < Len(q)
  PROVE  /\ Append(p, q[Len(p) + 1]) \in Path
         /\ IsPrefix(Append(p, q[Len(p) + 1]), q)
         /\ q[Len(p) + 1] \in Name
<1>1. p \in Seq(Nat) /\ q \in Seq(Nat) /\ Len(p) \in Nat /\ Len(q) \in Nat
  BY NodeTreeAssumption
<1> DEFINE n == q[Len(p) + 1]
<1>2. n \in Name /\ n \in Nat
  BY <1>1, PathIsSequence
<1>3. Append(p, n) = SubSeq(q, 1, Len(p) + 1)
  <2> DEFINE a == Append(p, n)
             b == SubSeq(q, 1, Len(p) + 1)
  <2>1. \A i \in 1 .. Len(p) : p[i] = q[i]
    BY <1>1, PrefixNames
  <2>2. a \in Seq(Nat) /\ Len(a) = Len(p) + 1 /\ a[Len(p) + 1] = n
        /\ \A i \in 1 .. Len(p) : a[i] = p[i]
    BY <1>1, <1>2
  <2>3. b \in Seq(Nat) /\ Len(b) = Len(p) + 1 /\ \A i \in 1 .. Len(p) + 1 : b[i] = q[i]
    BY <1>1
  <2>4. \A i \in 1 .. Len(p) + 1 : i \in 1 .. Len(p) \/ i = Len(p) + 1
    BY <1>1
  <2> HIDE DEF a, b
  <2>5. \A i \in 1 .. Len(a) : a[i] = b[i]
    BY <2>1, <2>2, <2>3, <2>4
  <2>6. a = b
    BY <2>2, <2>3, <2>5
  <2> QED BY <2>6 DEF a, b
<1>4. SubSeq(q, 1, Len(p) + 1) \in Path
  BY <1>1, NodeTreeAssumption
<1>5. IsPrefix(Append(p, n), q)
  BY <1>1, <1>2, PrefixOfChild
<1> QED BY <1>2, <1>3, <1>4, <1>5

\* The end of a sequence.
LEMMA Ending ==
  ASSUME NEW q \in Seq(Nat), NEW n \in 0 .. Len(q)
  PROVE  LET s == SubSeq(q, n + 1, Len(q))
         IN /\ s \in Seq(Nat) /\ Len(s) = Len(q) - n
            /\ \A i \in 1 .. Len(q) - n : s[i] = q[n + i]
<1>1. n \in Nat /\ n <= Len(q) /\ Len(q) \in Nat /\ \A i \in 1 .. Len(q) : q[i] \in Nat
  OBVIOUS
<1>2. SubSeq(q, n + 1, Len(q)) = [i \in 1 .. Len(q) - n |-> q[n + i]]
  <2>1. SubSeq(q, n + 1, Len(q))
          = [i \in 1 .. (1 + Len(q) - (n + 1)) |-> q[i + (n + 1) - 1]]
    BY <1>1
  <2>2. 1 + Len(q) - (n + 1) = Len(q) - n /\ \A i \in Int : i + (n + 1) - 1 = n + i
    BY <1>1
  <2> QED BY <2>1, <2>2
<1>3. \A i \in 1 .. Len(q) - n : q[n + i] \in Nat
  BY <1>1
<1> QED BY <1>1, <1>2, <1>3

\* The first and the last of some names.
LEMMA FirstAndLast ==
  ASSUME NEW T, T \subseteq Name, T # {}
  PROVE  /\ Min(T) \in T /\ Max(T) \in T
         /\ \A n \in T : Min(T) <= n /\ n <= Max(T)
<1>1. T \subseteq Nat /\ IsFiniteSet(T)
  BY NamesAreNumbers, FS_Subset
<1>2. \E x \in T : \A y \in T : x <= y
  BY <1>1, LeastNumber
<1>3. \E x \in T : \A y \in T : y <= x
  BY <1>1, GreatestNumber
<1>4. \E x \in T : \A y \in T : x >= y
  BY <1>1, <1>3
<1>5. Min(T) \in T /\ \A y \in T : Min(T) <= y
  BY <1>2 DEF Min
<1>6. Max(T) \in T /\ \A y \in T : Max(T) >= y
  BY <1>4 DEF Max
<1>7. \A y \in T : y <= Max(T)
  BY <1>1, <1>6
<1> QED BY <1>5, <1>6, <1>7

-----------------------------------------------------------------------------
(* What the queries find.                                                  *)

\* What is left of a path is made of its names; below p it is what p lacks.
LEMMA SegmentsLeft ==
  ASSUME NEW p \in Path, NEW q \in Path
  PROVE  /\ Segments(p, q) \in Seq(Nat)
         /\ \A i \in 1 .. Len(Segments(p, q)) : Segments(p, q)[i] \in Name
         /\ IsPrefix(p, q) =>
              /\ Len(p) <= Len(q) /\ Len(Segments(p, q)) = Len(q) - Len(p)
              /\ \A i \in 1 .. Len(q) - Len(p) : Segments(p, q)[i] = q[Len(p) + i]
<1>1. p \in Seq(Nat) /\ q \in Seq(Nat) /\ Len(p) \in Nat /\ Len(q) \in Nat
      /\ \A i \in 1 .. Len(q) : q[i] \in Name
  BY PathIsSequence
<1>2. StartsWith(p, q) => Len(p) <= Len(q)
  BY <1>1, PrefixNames DEF StartsWith
<1>3. ASSUME Len(p) <= Len(q)
      PROVE  LET s == SubSeq(q, Len(p) + 1, Len(q))
             IN /\ s \in Seq(Nat) /\ Len(s) = Len(q) - Len(p)
                /\ \A i \in 1 .. Len(q) - Len(p) : s[i] = q[Len(p) + i] /\ s[i] \in Name
  <2> DEFINE s == SubSeq(q, Len(p) + 1, Len(q))
  <2>1. Len(p) \in 0 .. Len(q)
    BY <1>1, <1>3
  <2>2. /\ s \in Seq(Nat) /\ Len(s) = Len(q) - Len(p)
        /\ \A i \in 1 .. Len(q) - Len(p) : s[i] = q[Len(p) + i]
    BY <1>1, <2>1, Ending
  <2>3. \A i \in 1 .. Len(q) - Len(p) : Len(p) + i \in 1 .. Len(q)
    BY <1>1, <1>3
  <2> HIDE DEF s
  <2>4. \A i \in 1 .. Len(q) - Len(p) : s[i] \in Name
    BY <1>1, <2>2, <2>3
  <2> QED BY <2>2, <2>4 DEF s
<1>4. CASE StartsWith(p, q)
  <2>1. Segments(p, q) = SubSeq(q, Len(p) + 1, Len(q))
    BY <1>4 DEF Segments
  <2> QED BY <1>2, <1>3, <1>4, <2>1
<1>5. CASE ~StartsWith(p, q)
  <2>1. Segments(p, q) = q /\ ~IsPrefix(p, q)
    BY <1>5 DEF Segments, StartsWith
  <2> QED BY <1>1, <2>1
<1> QED BY <1>4, <1>5

\* The next event is described by a name, if at all.
LEMMA NextIsName ==
  ASSUME NEW p \in Path, NEW b \in Backend
  PROVE  NextUnattested(b, p) \subseteq Name \union {None}
<1>1. ASSUME NEW e \in Event, NEW s, s = Segments(p, e.path), s # <<>>
      PROVE  Head(s) \in Name
  <2>1. e.path \in Path
    BY NodeTreeAssumption
  <2>2. s \in Seq(Nat) /\ \A i \in 1 .. Len(s) : s[i] \in Name
    BY <1>1, <2>1, SegmentsLeft
  <2>3. Head(s) = s[1] /\ 1 \in 1 .. Len(s)
    BY <1>1, <2>2
  <2> QED BY <2>2, <2>3
<1> DEFINE found == Earliest(b, {e \in Event : event[e] = "open" /\ Below(b, p, e.path)})
<1>2. found \subseteq Event
  BY DEF Earliest
<1>3. NextUnattested(b, p) =
        IF found = {} THEN {None}
        ELSE {IF Segments(p, e.path) = <<>> THEN None ELSE Head(Segments(p, e.path))
                : e \in found}
  BY DEF NextUnattested
<1> HIDE DEF found
<1> QED BY <1>1, <1>2, <1>3

\* Where names are not ambiguous it is one of a child that p has in memory.
LEMMA NextIsChild ==
  ASSUME NEW p \in Path, NEW b \in Backend, Unambiguous(p)
  PROVE  NextUnattested(b, p) \subseteq MemChildren(p) \union {None}
<1> DEFINE below == {e \in Event : event[e] = "open" /\ Below(b, p, e.path)}
           found == Earliest(b, below)
<1>1. ASSUME NEW e \in below, NEW s, s = Segments(p, e.path), s # <<>>
      PROVE  Head(s) \in MemChildren(p)
  <2>1. e \in Present /\ e.path \in Path /\ IsPrefix(p, e.path)
    BY NodeTreeAssumption DEF Unambiguous, Present
  <2>2. p \in Seq(Nat) /\ e.path \in Seq(Nat) /\ Len(p) \in Nat /\ Len(e.path) \in Nat
    BY <2>1, PathIsSequence
  <2>3. /\ s \in Seq(Nat) /\ Len(s) = Len(e.path) - Len(p) /\ Len(p) <= Len(e.path)
        /\ \A i \in 1 .. Len(e.path) - Len(p) : s[i] = e.path[Len(p) + i]
    BY <1>1, <2>1, SegmentsLeft
  <2>4. Head(s) = s[1] /\ Len(s) > 0
    BY <1>1, <2>3
  <2>5. Len(p) < Len(e.path) /\ Head(s) = e.path[Len(p) + 1]
    <3>1. Len(e.path) - Len(p) > 0
      BY <2>3, <2>4
    <3>2. 1 \in 1 .. Len(e.path) - Len(p) /\ Len(p) < Len(e.path)
      BY <2>2, <3>1
    <3> QED BY <2>3, <2>4, <3>2
  <2>6. IsStrictPrefix(p, e.path)
    BY <2>1, <2>2, <2>5, StrictPrefixIsShorter
  <2> QED BY <2>1, <2>5, <2>6 DEF MemChildren
<1>2. found \subseteq below
  BY DEF Earliest
<1>3. NextUnattested(b, p) =
        IF found = {} THEN {None}
        ELSE {IF Segments(p, e.path) = <<>> THEN None ELSE Head(Segments(p, e.path))
                : e \in found}
  BY DEF NextUnattested
<1> HIDE DEF found, below
<1> QED BY <1>1, <1>2, <1>3

\* Dates are names below names.
LEMMA DatesAreNames ==
  ASSUME NEW p \in Path, NEW b \in Backend
  PROVE  DateMap(b, p) \subseteq Name \X Name
<1> DEFINE segments == {Segments(p, e.path) : e \in {d \in Present : Below(b, p, d.path)}}
<1>1. ASSUME NEW t \in segments, Len(t) >= 2 PROVE t[1] \in Name /\ t[2] \in Name
  <2>1. PICK e \in Event : t = Segments(p, e.path)
    BY DEF Present
  <2>2. e.path \in Path
    BY NodeTreeAssumption
  <2>3. t \in Seq(Nat) /\ \A i \in 1 .. Len(t) : t[i] \in Name
    BY <2>1, <2>2, SegmentsLeft
  <2>4. 1 \in 1 .. Len(t) /\ 2 \in 1 .. Len(t)
    BY <1>1, <2>3
  <2> QED BY <2>3, <2>4
<1>2. DateMap(b, p) = {<<s[1], s[2]>> : s \in {t \in segments : Len(t) >= 2 /\ t[1] \in Date}}
  BY DEF DateMap
<1> HIDE DEF segments
<1> QED BY <1>1, <1>2

\* Where names are not ambiguous the two databases find the same.
LEMMA FindsTheSame ==
  ASSUME NEW p \in Path, NEW b \in Backend, Unambiguous(p)
  PROVE  /\ DateMap(b, p) = DateMap("InMemory", p)
         /\ EventsAt(b, p) = Snapshot(p).events
<1>1. "InMemory" \in Backend
  BY DEF Backend
<1>2. {d \in Present : Below(b, p, d.path)} = {d \in Present : Below("InMemory", p, d.path)}
  BY <1>1 DEF Unambiguous
<1>3. DateMap(b, p) = DateMap("InMemory", p)
  BY <1>2 DEF DateMap
<1>4. ASSUME NEW d \in Present, b = "Postgres"
      PROVE  Labels(d.path) = Labels(p) <=> d.path = p
  <2>1. ASSUME Labels(d.path) = Labels(p) PROVE d.path = p
    <3>1. d.path \in Path
      BY NodeTreeAssumption DEF Present
    <3>2. p \in Seq(Nat) /\ d.path \in Seq(Nat) /\ Len(p) \in Nat /\ Len(d.path) \in Nat
          /\ DOMAIN p = 1 .. Len(p) /\ DOMAIN d.path = 1 .. Len(d.path)
      BY <3>1, PathIsSequence
    <3>3. DOMAIN Labels(p) = 1 .. Len(p) /\ DOMAIN Labels(d.path) = 1 .. Len(d.path)
      BY <3>2 DEF Labels
    <3>4. Len(p) = Len(d.path)
      BY <2>1, <3>2, <3>3
    <3>5. IsPrefix(Labels(p), Labels(p))
      <4>1. Len(Labels(p)) = Len(p)
        BY <3>2 DEF Labels
      <4> QED BY <3>2, <4>1 DEF IsPrefix
    <3>6. Below("Postgres", p, d.path)
      BY <2>1, <3>5 DEF Below
    <3>7. IsPrefix(p, d.path)
      BY <1>4, <3>6 DEF Unambiguous
    <3> QED BY <3>2, <3>4, <3>7, PrefixNames
  <2> QED BY <2>1
<1>5. b \in {"InMemory", "Postgres"}
  BY DEF Backend
<1>6. EventsAt(b, p) = Snapshot(p).events
  BY <1>4, <1>5 DEF EventsAt, Snapshot
<1> QED BY <1>3, <1>6

-----------------------------------------------------------------------------
(* The rows of the tree.                                                   *)

\* There is a row for every path that leads to an event.
LEMMA RowOnTheWay ==
  ASSUME TreeInv, NEW p \in Path, NEW e \in Present, IsPrefix(p, e.path)
  PROVE  <<p, ParentOf(p)>> \in tree
<1>1. <<p, ParentOf(p)>> \in NodeRows(e.path)
  BY DEF NodeRows, ParentOf
<1> QED BY <1>1 DEF TreeInv

\* The children that Postgres finds are those found in memory, and perhaps
\* others on the way to nodes that were set.
LEMMA ChildrenFound ==
  ASSUME TreeInv, NEW p \in Path
  PROVE  /\ MemChildren(p) \subseteq TreeChildren(p)
         /\ TreeChildren(p) \subseteq MemChildren(p) \union Noded(p)
         /\ \A n \in TreeChildren(p) : n \in Name /\ Append(p, n) \in Path
<1>1. p \in Seq(Nat) /\ Len(p) \in Nat
  BY PathIsSequence
<1>2. ASSUME NEW n \in MemChildren(p) PROVE n \in TreeChildren(p)
  <2>1. PICK e \in Present : IsStrictPrefix(p, e.path) /\ n = e.path[Len(p) + 1]
    BY <1>2 DEF MemChildren
  <2> DEFINE q == e.path
             c == Append(p, n)
  <2>2. q \in Path
    BY NodeTreeAssumption DEF Present
  <2>3. IsPrefix(p, q) /\ Len(p) < Len(q)
    <3>1. q \in Seq(Nat)
      BY <2>2, PathIsSequence
    <3> QED BY <1>1, <2>1, <3>1, StrictPrefixIsShorter
  <2>4. c \in Path /\ IsPrefix(c, q) /\ n \in Name
    BY <2>1, <2>2, <2>3, ChildOnTheWay
  <2>5. <<c, ParentOf(c)>> \in tree
    BY <2>4, RowOnTheWay
  <2>6. c # <<>> /\ Front(c) = p /\ Last(c) = n
    <3>1. n \in Nat
      BY <2>4, NamesAreNumbers
    <3>2. c # <<>> /\ Len(c) = Len(p) + 1 /\ Last(c) = n
      BY <1>1, <3>1 DEF Last
    <3>3. SubSeq(c, 1, Len(p)) = p
      <4>1. SubSeq(c, 1, Len(p)) = [i \in 1 .. Len(p) |-> c[i]]
        BY <1>1, <3>1
      <4>2. \A i \in 1 .. Len(p) : c[i] = p[i]
        BY <1>1, <3>1
      <4>3. p = [i \in 1 .. Len(p) |-> p[i]]
        BY <1>1
      <4> HIDE DEF c
      <4> QED BY <4>1, <4>2, <4>3
    <3>4. Len(c) - 1 = Len(p)
      BY <1>1, <3>2
    <3> QED BY <3>2, <3>3, <3>4 DEF Front
  <2> HIDE DEF c
  <2>7. <<c, p>> \in tree
    BY <2>5, <2>6 DEF ParentOf
  <2> QED BY <2>6, <2>7 DEF TreeChildren
<1>3. ASSUME NEW n \in TreeChildren(p)
      PROVE  n \in MemChildren(p) \union Noded(p) /\ n \in Name /\ Append(p, n) \in Path
  <2>1. PICK r \in tree : r[2] = p /\ n = Last(r[1])
    BY <1>3 DEF TreeChildren
  <2> DEFINE c == r[1]
  <2>2. c \in Path /\ p = ParentOf(c)
    BY <2>1 DEF TreeInv
  <2>3. c # <<>> /\ p = Front(c)
    BY <2>2, NoneIsNothing DEF ParentOf
  <2>4. n \in Name /\ c = Append(p, n)
    BY <2>1, <2>2, <2>3, FrontAndLast
  <2>5. n \in Nat
    BY <2>4, NamesAreNumbers
  <2>6. ASSUME NEW e \in Present, IsPrefix(c, e.path) PROVE n \in MemChildren(p)
    <3>1. e.path \in Seq(Nat)
      BY NodeTreeAssumption DEF Present
    <3>2. IsPrefix(p, e.path) /\ Len(p) < Len(e.path) /\ e.path[Len(p) + 1] = n
      BY <1>1, <2>4, <2>5, <2>6, <3>1, PrefixOfChild
    <3>3. IsStrictPrefix(p, e.path)
      BY <1>1, <3>1, <3>2, StrictPrefixIsShorter
    <3> QED BY <3>2, <3>3 DEF MemChildren
  <2>7. ASSUME NEW q \in Path, node[q] # None, IsPrefix(c, q) PROVE n \in Noded(p)
    BY <2>4, <2>7 DEF Noded
  <2>8. \/ \E e \in Present : IsPrefix(c, e.path)
        \/ \E q \in Path : node[q] # None /\ IsPrefix(c, q)
    BY <2>1 DEF TreeInv
  <2> QED BY <2>2, <2>4, <2>6, <2>7, <2>8
<1> QED BY <1>2, <1>3

\* Every path has a kind.
LEMMA KindIsKind ==
  ASSUME TypeOK, NEW q \in Path
  PROVE  KindOf(q) \in Kind
BY NodeTreeAssumption DEF TypeOK, KindOf

\* Children are named, and of some kind.
LEMMA ChildrenAreNamed ==
  ASSUME TypeOK, TreeInv, NEW p \in Path, NEW names, names \subseteq TreeChildren(p)
  PROVE  /\ AsChildren(p, names) \subseteq Name \X Kind
         /\ {c[1] : c \in AsChildren(p, names)} = names
         /\ Ends(p, names) \in (Name \union {None}) \X (Name \union {None})
<1>1. \A n \in names : n \in Name /\ KindOf(Append(p, n)) \in Kind
  BY ChildrenFound, KindIsKind
<1>2. AsChildren(p, names) \subseteq Name \X Kind
  BY <1>1 DEF AsChildren
<1>3. {c[1] : c \in AsChildren(p, names)} = names
  <2>1. \A c \in AsChildren(p, names) : c[1] \in names
    BY DEF AsChildren
  <2>2. ASSUME NEW n \in names PROVE \E c \in AsChildren(p, names) : c[1] = n
    <3>1. <<n, KindOf(Append(p, n))>> \in AsChildren(p, names)
      BY DEF AsChildren
    <3> QED BY <3>1
  <2> QED BY <2>1, <2>2
<1>4. Ends(p, names) \in (Name \union {None}) \X (Name \union {None})
  BY <1>1, FirstAndLast DEF Ends
<1> QED BY <1>2, <1>3, <1>4

-----------------------------------------------------------------------------
(* What grows.                                                             *)

\* Events and nodes that are there stay there.
Grows ==
  /\ Present \subseteq Present'
  /\ \A q \in Path : node[q] # None => node'[q] # None

\* Of a growing tree everything that is read grows, but for what is ambiguous.
LEMMA ReadsGrow ==
  ASSUME Grows, NEW p \in Path
  PROVE  /\ Unambiguous(p)' => Unambiguous(p)
         /\ Snapshot(p).events \subseteq Snapshot(p)'.events
         /\ MemChildren(p) \subseteq MemChildren(p)'
         /\ DateMap("InMemory", p) \subseteq DateMap("InMemory", p)'
         /\ Noded(p) \subseteq Noded(p)'
<1> USE DEF Grows
<1>1. Unambiguous(p)' => Unambiguous(p)
  BY DEF Unambiguous
<1>2. Snapshot(p).events \subseteq Snapshot(p)'.events
  BY DEF Snapshot
<1>3. MemChildren(p) \subseteq MemChildren(p)'
  BY DEF MemChildren
<1>4. DateMap("InMemory", p) \subseteq DateMap("InMemory", p)'
  <2> DEFINE some == {Segments(p, e.path) : e \in {d \in Present : Below("InMemory", p, d.path)}}
             more == {Segments(p, e.path) : e \in {d \in Present' : Below("InMemory", p, d.path)}}
  <2>1. some \subseteq more
    OBVIOUS
  <2>2. /\ DateMap("InMemory", p) = {<<s[1], s[2]>> : s \in {t \in some : Len(t) >= 2 /\ t[1] \in Date}}
        /\ DateMap("InMemory", p)' = {<<s[1], s[2]>> : s \in {t \in more : Len(t) >= 2 /\ t[1] \in Date}}
    BY DEF DateMap
  <2> HIDE DEF some, more
  <2> QED BY <2>1, <2>2
<1>5. Noded(p) \subseteq Noded(p)'
  BY DEF Noded
<1> QED BY <1>1, <1>2, <1>3, <1>4, <1>5

\* What is true of less is true of more.
LEMMA TruthStays ==
  ASSUME NEW desc, NEW was, NEW children, NEW dates, NEW noded,
         NEW children2, NEW dates2, NEW noded2,
         children \subseteq children2, dates \subseteq dates2, noded \subseteq noded2,
         IsTrue(desc, was, children, dates, noded)
  PROVE  IsTrue(desc, was, children2, dates2, noded2)
<1>1. desc.kind = "List" =>
        LET names == {c[1] : c \in desc.children}
        IN /\ was.children \subseteq names \/ Cardinality(names) = Limit
           /\ names \subseteq children2 \union noded2
  BY DEF IsTrue
<1>2. desc.kind = "DateMap" => was.dates \subseteq desc.dates /\ desc.dates \subseteq dates2
  BY DEF IsTrue
<1>3. desc.kind = "Range" =>
        /\ was.children # {} =>
             desc.start <= Min(was.children) /\ Max(was.children) <= desc.end
        /\ desc.next # None =>
             desc.start # None /\ desc.start <= desc.next /\ desc.next <= desc.end
  BY DEF IsTrue
<1> QED BY <1>1, <1>2, <1>3 DEF IsTrue

-----------------------------------------------------------------------------
(* The writes keep the tree.                                               *)

\* What set_node_parents writes for a path.
LEMMA RowsAre ==
  ASSUME NEW p \in Path
  PROVE  /\ NodeRows(p) \subseteq Path \X (Path \union {None})
         /\ \A r \in NodeRows(p) : r[1] \in Path /\ r[2] = ParentOf(r[1]) /\ IsPrefix(r[1], p)
<1>1. ASSUME NEW q \in Path PROVE ParentOf(q) \in Path \union {None}
  BY FrontAndLast DEF ParentOf
<1>2. NodeRows(p) = {<<q, ParentOf(q)>> : q \in {r \in Path : IsPrefix(r, p)}}
  BY DEF NodeRows, ParentOf
<1> QED BY <1>1, <1>2

\* Writes keep the tree, if they add the rows for what they add.
LEMMA WritesKeepTree ==
  ASSUME TypeOK, TreeInv, Grows, NEW p \in Path, tree' = tree \union NodeRows(p),
         \/ \E e \in Present' : p = e.path
         \/ node'[p] # None,
         \A e \in Present' : e \in Present \/ e.path = p
  PROVE  TreeInv' /\ tree' \subseteq Path \X (Path \union {None})
<1>1. ASSUME NEW r \in tree
      PROVE  /\ r[1] \in Path /\ r[2] = ParentOf(r[1])
             /\ \/ \E e \in Present' : IsPrefix(r[1], e.path)
                \/ \E q \in Path : node'[q] # None /\ IsPrefix(r[1], q)
  BY DEF TreeInv, Grows
<1>2. ASSUME NEW r \in NodeRows(p)
      PROVE  /\ r[1] \in Path /\ r[2] = ParentOf(r[1])
             /\ \/ \E e \in Present' : IsPrefix(r[1], e.path)
                \/ \E q \in Path : node'[q] # None /\ IsPrefix(r[1], q)
  BY RowsAre
<1>3. \A e \in Present' : NodeRows(e.path) \subseteq tree'
  BY DEF TreeInv
<1>4. TreeInv'
  <2>1. \A r \in tree' :
          /\ r[1] \in Path /\ r[2] = ParentOf(r[1])
          /\ \/ \E e \in Present' : IsPrefix(r[1], e.path)
             \/ \E q \in Path : node'[q] # None /\ IsPrefix(r[1], q)
    BY <1>1, <1>2
  <2>2. \A p1 \in Path : NodeRows(p1)' = NodeRows(p1)
    BY DEF NodeRows
  <2> QED BY <1>3, <2>1 DEF TreeInv, NodeRows, ParentOf
<1>5. tree' \subseteq Path \X (Path \union {None})
  BY RowsAre DEF TypeOK
<1> QED BY <1>4, <1>5

\* The writes: they add to the tree, and requests go on.
Writes ==
  \/ \E e \in Event : InsertEvent(e) \/ CompleteEvent(e)
  \/ \E n \in Nodes : SetNode(n[1], n[2])

\* A write keeps the tree and leaves the request alone; nothing disappears.
LEMMA WriteStep ==
  ASSUME TypeOK, TreeInv, Writes
  PROVE  TypeOK' /\ TreeInv' /\ Grows /\ UNCHANGED <<request, asked, reply>>
<1>1. ASSUME NEW e \in Event, InsertEvent(e)
      PROVE  TypeOK' /\ TreeInv' /\ Grows /\ UNCHANGED <<request, asked, reply>>
  <2>1. /\ event' = [event EXCEPT ![e] = "open"] /\ tree' = tree \union NodeRows(e.path)
        /\ node' = node /\ UNCHANGED <<request, asked, reply>>
    BY <1>1 DEF InsertEvent
  <2>2. /\ event' \in [Event -> {"absent", "open", "attested"}]
        /\ Present' = Present \union {e} /\ Grows
    BY <2>1 DEF TypeOK, Present, Grows
  <2>3. e.path \in Path
    BY NodeTreeAssumption
  <2>4. TreeInv' /\ tree' \subseteq Path \X (Path \union {None})
    BY <2>1, <2>2, <2>3, WritesKeepTree
  <2> QED BY <2>1, <2>2, <2>4 DEF TypeOK
<1>2. ASSUME NEW e \in Event, CompleteEvent(e)
      PROVE  TypeOK' /\ TreeInv' /\ Grows /\ UNCHANGED <<request, asked, reply>>
  <2>1. /\ event[e] = "open" /\ event' = [event EXCEPT ![e] = "attested"]
        /\ UNCHANGED <<node, tree, request, asked, reply>>
    BY <1>2 DEF CompleteEvent
  <2>2. /\ event' \in [Event -> {"absent", "open", "attested"}]
        /\ Present' = Present /\ Grows
    BY <2>1 DEF TypeOK, Present, Grows
  <2>3. TreeInv'
    BY <2>1, <2>2 DEF TreeInv, NodeRows, ParentOf
  <2> QED BY <2>1, <2>2, <2>3 DEF TypeOK
<1>3. ASSUME NEW n \in Nodes, SetNode(n[1], n[2])
      PROVE  TypeOK' /\ TreeInv' /\ Grows /\ UNCHANGED <<request, asked, reply>>
  <2>1. n[1] \in Path /\ n[2] \in Kind
    BY NodeTreeAssumption
  <2>2. /\ node' = [node EXCEPT ![n[1]] = n[2]] /\ tree' = tree \union NodeRows(n[1])
        /\ event' = event /\ UNCHANGED <<request, asked, reply>>
    BY <1>3 DEF SetNode
  <2>3. n[2] # None
    BY <2>1, NoneIsNothing
  <2>4. /\ node' \in [Path -> Kind \union {None}] /\ node'[n[1]] # None
        /\ Present' = Present /\ Grows
    BY <2>1, <2>2, <2>3 DEF TypeOK, Present, Grows
  <2>5. TreeInv' /\ tree' \subseteq Path \X (Path \union {None})
    BY <2>1, <2>2, <2>4, WritesKeepTree
  <2> QED BY <2>2, <2>4, <2>5 DEF TypeOK
<1> QED BY <1>1, <1>2, <1>3 DEF Writes

\* Whoever is answered in between is not told anything wrong.
LEMMA WritesKeepTruth ==
  ASSUME TypeOK, Progress, AskedInv, ReplyInv, Grows, UNCHANGED <<request, asked, reply>>
  PROVE  Progress' /\ AskedInv' /\ ReplyInv'
<1>1. Progress'
  BY DEF Progress
<1>2. AskedInv'
  <2>1. /\ request'.todo # <<>> \/ reply' # None => asked' # None
        /\ request'.todo # <<>> => reply' = None
    BY DEF AskedInv
  <2>2. ASSUME asked' # None, NEW p \in Path, request'.path = p
        PROVE  /\ asked'.events \subseteq Snapshot(p)'.events
               /\ asked'.children \subseteq MemChildren(p)'
               /\ asked'.dates \subseteq DateMap("InMemory", p)'
    <3>1. /\ asked.events \subseteq Snapshot(p).events
          /\ asked.children \subseteq MemChildren(p)
          /\ asked.dates \subseteq DateMap("InMemory", p)
      BY <2>2 DEF AskedInv
    <3> QED BY <3>1, ReadsGrow
  <2> QED BY <2>1, <2>2 DEF AskedInv
<1>3. ReplyInv'
  <2> SUFFICES ASSUME NEW p \in Path, request'.path = p, Unambiguous(p)'
               PROVE  /\ request'.todo \in {<<"rest">>, <<"ends", "events">>} =>
                           request'.got.next \in MemChildren(p)' \union {None}
                      /\ request'.todo = <<"events">> =>
                           TrueHere(p, Describe(request.kind, request.got))'
                      /\ reply' # None =>
                           IF reply' = NotFound THEN asked'.events = {} /\ asked'.children = {}
                           ELSE /\ asked'.events \subseteq reply'.events
                                /\ reply'.events \subseteq Snapshot(p)'.events
                                /\ TrueHere(p, reply.desc)'
    BY DEF ReplyInv
  <2>1. /\ request.todo \in {<<"rest">>, <<"ends", "events">>} =>
             request.got.next \in MemChildren(p) \union {None}
        /\ request.todo = <<"events">> => TrueHere(p, Describe(request.kind, request.got))
        /\ reply # None =>
             IF reply = NotFound THEN asked.events = {} /\ asked.children = {}
             ELSE /\ asked.events \subseteq reply.events
                  /\ reply.events \subseteq Snapshot(p).events
                  /\ TrueHere(p, reply.desc)
    BY ReadsGrow DEF ReplyInv
  <2>2. ASSUME NEW desc, TrueHere(p, desc)
        PROVE  IsTrue(desc, asked, MemChildren(p)', DateMap("InMemory", p)', Noded(p)')
    BY <2>2, ReadsGrow, TruthStays DEF TrueHere
  <2>3. request'.todo = <<"events">> => TrueHere(p, Describe(request.kind, request.got))'
    BY <2>1, <2>2 DEF TrueHere
  <2>4. reply' # None /\ reply' # NotFound => TrueHere(p, reply.desc)'
    BY <2>1, <2>2 DEF TrueHere
  <2> QED BY <2>1, <2>3, <2>4, ReadsGrow
<1> QED BY <1>1, <1>2, <1>3

-----------------------------------------------------------------------------
(* The steps of get_node.                                                  *)

\* A query changes nothing that is read.
LEMMA ReadsKeep ==
  ASSUME UNCHANGED <<event, node, tree>>, NEW p \in Path
  PROVE  /\ Unambiguous(p)' <=> Unambiguous(p)
         /\ Snapshot(p)' = Snapshot(p)
         /\ MemChildren(p)' = MemChildren(p)
         /\ DateMap("InMemory", p)' = DateMap("InMemory", p)
         /\ Noded(p)' = Noded(p)
<1>1. Present' = Present
  BY DEF Present
<1> QED BY <1>1 DEF Unambiguous, Snapshot, MemChildren, DateMap, Noded

\* What becomes of the results is described as the kind says.
LEMMA Described ==
  ASSUME NEW kind \in Kind, NEW got \in Results
  PROVE  LET desc == Describe(kind, got)
         IN /\ desc.kind = kind
            /\ kind = "List" => desc.children = got.children
            /\ kind = "DateMap" => desc.dates = got.dates
            /\ kind = "Range" =>
                 desc.start = got.ends[1] /\ desc.next = got.next /\ desc.end = got.ends[2]
            /\ \A events \in SUBSET EventKind : GetPath(events, desc) \in Reply
<1> DEFINE desc == Describe(kind, got)
<1>1. CASE kind = "List"
  <2>1. desc = [kind |-> "List", children |-> got.children]
    BY <1>1 DEF Describe
  <2>2. got.children \in SUBSET (Name \X Kind)
    BY DEF Results
  <2> QED BY <1>1, <2>1, <2>2 DEF Reply, GetPath
<1>2. CASE kind = "DateMap"
  <2>1. desc = [kind |-> "DateMap", dates |-> got.dates]
    BY <1>2 DEF Describe
  <2>2. got.dates \in SUBSET (Name \X Name)
    BY DEF Results
  <2> QED BY <1>2, <2>1, <2>2 DEF Reply, GetPath
<1>3. CASE kind = "Range"
  <2>1. desc = [kind |-> "Range", start |-> got.ends[1], next |-> got.next,
                end |-> got.ends[2]]
    BY <1>3 DEF Describe
  <2>2. /\ got.next \in Name \union {None}
        /\ got.ends[1] \in Name \union {None} /\ got.ends[2] \in Name \union {None}
    BY DEF Results
  <2> QED BY <1>3, <2>1, <2>2 DEF Reply, GetPath
<1> QED BY <1>1, <1>2, <1>3 DEF Kind

\* Unless a reply is given, only the results so far have to be true.
LEMMA Fetched ==
  ASSUME NodeTreeInv, request.todo # <<>>, UNCHANGED <<event, node, tree, asked, reply>>,
         request' \in Request, request'.path = request.path, Progress',
         \A p \in Path : request.path = p /\ Unambiguous(p) =>
           /\ request'.todo \in {<<"rest">>, <<"ends", "events">>} =>
                request'.got.next \in MemChildren(p) \union {None}
           /\ request'.todo = <<"events">> =>
                TrueHere(p, Describe(request'.kind, request'.got))
  PROVE  NodeTreeInv'
<1>1. TypeOK' /\ TreeInv'
  BY DEF NodeTreeInv, TypeOK, TreeInv, Present, NodeRows, ParentOf
<1>2. reply = None /\ asked # None
  BY DEF NodeTreeInv, AskedInv
<1>3. AskedInv'
  <2>1. ASSUME NEW p \in Path, request'.path = p
        PROVE  /\ asked'.events \subseteq Snapshot(p)'.events
               /\ asked'.children \subseteq MemChildren(p)'
               /\ asked'.dates \subseteq DateMap("InMemory", p)'
    BY <1>2, <2>1, ReadsKeep DEF NodeTreeInv, AskedInv
  <2> QED BY <1>2, <2>1 DEF AskedInv
<1>4. ReplyInv'
  <2> SUFFICES ASSUME NEW p \in Path, request'.path = p, Unambiguous(p)'
               PROVE  /\ request'.todo \in {<<"rest">>, <<"ends", "events">>} =>
                           request'.got.next \in MemChildren(p)' \union {None}
                      /\ request'.todo = <<"events">> =>
                           TrueHere(p, Describe(request.kind, request.got))'
    BY <1>2 DEF ReplyInv
  <2>1. Unambiguous(p) /\ MemChildren(p)' = MemChildren(p)
        /\ DateMap("InMemory", p)' = DateMap("InMemory", p) /\ Noded(p)' = Noded(p)
    BY ReadsKeep
  <2>2. TrueHere(p, Describe(request'.kind, request'.got))
          => TrueHere(p, Describe(request.kind, request.got))'
    BY <2>1 DEF TrueHere
  <2> QED BY <2>1, <2>2
<1> QED BY <1>1, <1>3, <1>4 DEF NodeTreeInv

\* A reply has to be true when it is given.
LEMMA Answered ==
  ASSUME NodeTreeInv, request.todo # <<>>, NEW r \in Reply \union {NotFound}, Answer(r),
         \A p \in Path : request.path = p /\ Unambiguous(p) =>
           IF r = NotFound THEN asked.events = {} /\ asked.children = {}
           ELSE /\ asked.events \subseteq r.events /\ r.events \subseteq Snapshot(p).events
                /\ TrueHere(p, r.desc)
  PROVE  NodeTreeInv'
<1>1. /\ UNCHANGED <<event, node, tree, asked>> /\ reply' = r
      /\ request' = [Idle EXCEPT !.backend = request.backend, !.path = request.path]
  BY DEF Answer
<1>2. request.backend \in Backend \union {None} /\ request.path \in Path
  BY DEF NodeTreeInv, TypeOK, Request
<1>3. NoResults \in Results
  BY DEF NoResults, Results
<1>4. /\ request' \in Request /\ request'.todo = <<>> /\ request'.path = request.path
  <2>1. request' = [backend |-> request.backend, path |-> request.path, todo |-> <<>>,
                    kind |-> None, got |-> NoResults]
    BY <1>1 DEF Idle
  <2>2. <<>> \in Seq(Query)
    OBVIOUS
  <2> QED BY <1>2, <1>3, <2>1, <2>2 DEF Request
<1>5. TypeOK' /\ TreeInv' /\ Progress'
  BY <1>1, <1>4 DEF NodeTreeInv, TypeOK, TreeInv, Present, NodeRows, ParentOf, Progress
<1>6. asked # None
  BY DEF NodeTreeInv, AskedInv
<1>7. AskedInv'
  <2>1. ASSUME NEW p \in Path, request'.path = p
        PROVE  /\ asked'.events \subseteq Snapshot(p)'.events
               /\ asked'.children \subseteq MemChildren(p)'
               /\ asked'.dates \subseteq DateMap("InMemory", p)'
    BY <1>1, <1>4, <1>6, <2>1, ReadsKeep DEF NodeTreeInv, AskedInv
  <2> QED BY <1>1, <1>4, <1>6, <2>1 DEF AskedInv
<1>8. ReplyInv'
  <2> SUFFICES ASSUME NEW p \in Path, request'.path = p, Unambiguous(p)'
               PROVE  IF r = NotFound THEN asked'.events = {} /\ asked'.children = {}
                      ELSE /\ asked'.events \subseteq r.events
                           /\ r.events \subseteq Snapshot(p)'.events
                           /\ TrueHere(p, reply.desc)'
    <3>1. request'.todo \notin {<<"rest">>, <<"ends", "events">>, <<"events">>}
      BY <1>4
    <3> QED BY <1>1, <3>1 DEF ReplyInv
  <2>1. Unambiguous(p) /\ Snapshot(p)' = Snapshot(p) /\ MemChildren(p)' = MemChildren(p)
        /\ DateMap("InMemory", p)' = DateMap("InMemory", p) /\ Noded(p)' = Noded(p)
    BY <1>1, ReadsKeep
  <2>2. TrueHere(p, r.desc) => TrueHere(p, reply.desc)'
    BY <1>1, <2>1 DEF TrueHere
  <2> QED BY <1>1, <1>4, <2>1, <2>2
<1> QED BY <1>5, <1>7, <1>8 DEF NodeTreeInv

\* A request begins.
LEMMA Begins ==
  ASSUME NodeTreeInv, NEW b \in Backend, NEW p \in Path, GetNode(b, p)
  PROVE  NodeTreeInv'
<1>1. /\ UNCHANGED <<event, node, tree>> /\ asked' = Snapshot(p) /\ reply' = None
      /\ request' = [Idle EXCEPT !.backend = b, !.path = p,
                       !.todo = IF b = "Postgres" THEN <<"kind">> ELSE <<"next", "rest">>]
  BY DEF GetNode
<1>2. request' = [backend |-> b, path |-> p, kind |-> None, got |-> NoResults,
                  todo |-> IF b = "Postgres" THEN <<"kind">> ELSE <<"next", "rest">>]
  BY <1>1 DEF Idle
<1>3. request' \in Request
  <2>1. <<"kind">> \in Seq(Query) /\ <<"next", "rest">> \in Seq(Query)
    BY DEF Query
  <2>2. NoResults \in Results
    BY DEF NoResults, Results
  <2> QED BY <1>2, <2>1, <2>2 DEF Request
<1>4. Snapshot(p) \in Snapshots
  <2>1. {e.kind : e \in {d \in Present : d.path = p}} \subseteq EventKind
    BY DEF Present, EventKind
  <2>2. MemChildren(p) \subseteq Name
    BY ChildrenFound DEF NodeTreeInv
  <2>3. DateMap("InMemory", p) \subseteq Name \X Name
    BY DatesAreNames DEF Backend
  <2> QED BY <2>1, <2>2, <2>3 DEF Snapshot, Snapshots
<1>5. TypeOK' /\ TreeInv'
  BY <1>1, <1>3, <1>4 DEF NodeTreeInv, TypeOK, TreeInv, Present, NodeRows, ParentOf
<1>6. Progress'
  BY <1>2 DEF Progress, Backend
<1>7. AskedInv'
  <2>1. asked' # None /\ reply' = None
    BY <1>1, <1>4, NoneIsNothing
  <2>2. Snapshot(p)' = Snapshot(p) /\ MemChildren(p)' = MemChildren(p)
        /\ DateMap("InMemory", p)' = DateMap("InMemory", p)
    BY <1>1, ReadsKeep
  <2>3. Snapshot(p).children = MemChildren(p) /\ Snapshot(p).dates = DateMap("InMemory", p)
    BY DEF Snapshot
  <2>4. request'.path = p
    BY <1>2
  <2> QED BY <1>1, <2>1, <2>2, <2>3, <2>4 DEF AskedInv
<1>8. ReplyInv'
  <2>1. request'.todo = <<"kind">> \/ request'.todo = <<"next", "rest">>
    BY <1>2
  <2>2. request'.todo \notin {<<"rest">>, <<"ends", "events">>, <<"events">>}
    BY <2>1
  <2> QED BY <1>1, <2>2 DEF ReplyInv
<1> QED BY <1>5, <1>6, <1>7, <1>8 DEF NodeTreeInv

\* The queries after the one for the kind.
LEMMA QueriesFollow ==
  ASSUME NEW kind \in Kind
  PROVE  Queries(kind) \in Seq(Query) /\ Tail(<<"kind">> \o Queries(kind)) = Queries(kind)
<1>1. Queries(kind) \in {<<"children", "events">>, <<"dates", "events">>,
                        <<"next", "ends", "events">>}
  <2>1. kind = "List" => Queries(kind) = <<"children", "events">>
    BY DEF Queries
  <2>2. kind = "DateMap" => Queries(kind) = <<"dates", "events">>
    BY DEF Queries
  <2>3. kind = "Range" => Queries(kind) = <<"next", "ends", "events">>
    BY DEF Queries
  <2> QED BY <2>1, <2>2, <2>3, Zenon DEF Kind
<1>2. Queries(kind) \in Seq(Query) /\ "kind" \in Query
  <2>1. <<"children", "events">> \in Seq(Query) /\ <<"dates", "events">> \in Seq(Query)
        /\ <<"next", "ends", "events">> \in Seq(Query) /\ "kind" \in Query
    BY DEF Query
  <2> QED BY <1>1, <2>1
<1>3. ASSUME NEW s \in Seq(Query) PROVE Tail(<<"kind">> \o s) = s
  BY <1>2
<1> QED BY <1>2, <1>3

\* A request has these fields.
LEMMA RequestIs ==
  ASSUME NEW r \in Request
  PROVE  /\ r = [backend |-> r.backend, path |-> r.path, todo |-> r.todo,
                 kind |-> r.kind, got |-> r.got]
         /\ r.backend \in Backend \union {None} /\ r.path \in Path /\ r.todo \in Seq(Query)
         /\ r.kind \in Kind \union {None} /\ r.got \in Results
BY DEF Request

\* And results have these.
LEMMA ResultsAre ==
  ASSUME NEW got \in Results
  PROVE  /\ got = [children |-> got.children, dates |-> got.dates, next |-> got.next,
                   ends |-> got.ends]
         /\ got.children \subseteq Name \X Kind /\ got.dates \subseteq Name \X Name
         /\ got.next \in Name \union {None}
         /\ got.ends \in (Name \union {None}) \X (Name \union {None})
BY DEF Results

\* Results with one more.
LEMMA OneMore ==
  ASSUME NEW got \in Results
  PROVE  /\ \A c \in SUBSET (Name \X Kind) :
              [got EXCEPT !.children = c] \in Results /\ [got EXCEPT !.children = c].children = c
         /\ \A d \in SUBSET (Name \X Name) :
              [got EXCEPT !.dates = d] \in Results /\ [got EXCEPT !.dates = d].dates = d
         /\ \A n \in Name \union {None} :
              [got EXCEPT !.next = n] \in Results /\ [got EXCEPT !.next = n].next = n
         /\ \A e \in (Name \union {None}) \X (Name \union {None}) :
              /\ [got EXCEPT !.ends = e] \in Results /\ [got EXCEPT !.ends = e].ends = e
              /\ [got EXCEPT !.ends = e].next = got.next
<1>1. \A c \in SUBSET (Name \X Kind) :
        [got EXCEPT !.children = c] \in Results /\ [got EXCEPT !.children = c].children = c
  BY DEF Results
<1>2. \A d \in SUBSET (Name \X Name) :
        [got EXCEPT !.dates = d] \in Results /\ [got EXCEPT !.dates = d].dates = d
  BY DEF Results
<1>3. \A n \in Name \union {None} :
        [got EXCEPT !.next = n] \in Results /\ [got EXCEPT !.next = n].next = n
  BY DEF Results
<1>4. \A e \in (Name \union {None}) \X (Name \union {None}) :
        /\ [got EXCEPT !.ends = e] \in Results /\ [got EXCEPT !.ends = e].ends = e
        /\ [got EXCEPT !.ends = e].next = got.next
  BY DEF Results
<1> QED BY <1>1, <1>2, <1>3, <1>4

\* A step on the list of what to ask.
LEMMA TodoAlone ==
  ASSUME NEW r \in Request, NEW todo
  PROVE  [r EXCEPT !.todo = todo]
           = [backend |-> r.backend, path |-> r.path, todo |-> todo, kind |-> r.kind,
              got |-> r.got]
BY DEF Request

\* A step that learns the kind of the node and what to ask next.
LEMMA KindAndTodo ==
  ASSUME NEW r \in Request, NEW kind \in Kind, NEW todo
  PROVE  [r EXCEPT !.kind = kind, !.todo = todo]
           = [backend |-> r.backend, path |-> r.path, todo |-> todo, kind |-> kind,
              got |-> r.got]
<1>1. PICK q \in Request : q = [r EXCEPT !.kind = kind]
  BY DEF Request
<1>2. [q EXCEPT !.todo = todo] = [backend |-> q.backend, path |-> q.path, todo |-> todo,
                                  kind |-> q.kind, got |-> q.got]
  BY TodoAlone
<1>3. q = [backend |-> r.backend, path |-> r.path, todo |-> r.todo, kind |-> kind,
           got |-> r.got]
  BY <1>1 DEF Request
<1> QED BY <1>1, <1>2, <1>3

\* A step that gets a result.
LEMMA GotResult ==
  ASSUME NEW r \in Request, NEW got \in Results, NEW todo
  PROVE  [[r EXCEPT !.got = got] EXCEPT !.todo = todo]
           = [backend |-> r.backend, path |-> r.path, todo |-> todo, kind |-> r.kind,
              got |-> got]
<1>1. PICK q \in Request : q = [r EXCEPT !.got = got]
  BY DEF Request
<1>2. [q EXCEPT !.todo = todo] = [backend |-> q.backend, path |-> q.path, todo |-> todo,
                                  kind |-> q.kind, got |-> q.got]
  BY TodoAlone
<1>3. q = [backend |-> r.backend, path |-> r.path, todo |-> r.todo, kind |-> r.kind,
           got |-> got]
  BY <1>1 DEF Request
<1> QED BY <1>1, <1>2, <1>3

\* A path without a row has no event at it or below it.
LEMMA KindRead ==
  ASSUME NodeTreeInv, ReadKind
  PROVE  NodeTreeInv'
<1> PICK p \in Path : p = request.path
  BY DEF NodeTreeInv, TypeOK, Request
<1>1. request.todo = <<"kind">> /\ request.backend = "Postgres"
  BY DEF NodeTreeInv, Progress, ReadKind, Asks
<1>2. CASE \E row \in tree : row[1] = p
  <2>1. PICK kind \in Kind : kind = KindOf(p)
    BY KindIsKind DEF NodeTreeInv
  <2>2. /\ UNCHANGED <<event, node, tree, asked, reply>>
        /\ request' = [backend |-> request.backend, path |-> p, kind |-> kind,
                       todo |-> Tail(request.todo \o Queries(kind)), got |-> request.got]
    <3>1. PICK r \in Request : r = request
      BY DEF NodeTreeInv, TypeOK
    <3>2. PICK q \in Request : q = [r EXCEPT !.kind = kind, !.todo = r.todo \o Queries(kind)]
      <4>1. r.todo \o Queries(kind) \in Seq(Query)
        BY QueriesFollow, RequestIs
      <4> QED BY <4>1 DEF Request
    <3>3. Got(q)
      BY <1>2, <2>1, <3>1, <3>2 DEF ReadKind
    <3>4. q = [backend |-> r.backend, path |-> r.path, todo |-> r.todo \o Queries(kind),
               kind |-> kind, got |-> r.got]
      BY <3>2, KindAndTodo
    <3>5. [q EXCEPT !.todo = Tail(q.todo)]
            = [backend |-> q.backend, path |-> q.path, todo |-> Tail(q.todo),
               kind |-> q.kind, got |-> q.got]
      BY TodoAlone
    <3> QED BY <3>1, <3>3, <3>4, <3>5 DEF Got
  <2>3. Tail(<<"kind">> \o Queries(kind)) = Queries(kind)
    BY QueriesFollow
  <2>4. /\ request' \in Request /\ request'.path = p /\ request'.todo = Queries(kind)
        /\ request'.kind = kind /\ request'.backend = "Postgres"
    <3>1. Queries(kind) \in Seq(Query)
      BY QueriesFollow
    <3>2. request.got \in Results
      BY RequestIs DEF NodeTreeInv, TypeOK
    <3>3. request' = [backend |-> "Postgres", path |-> p, kind |-> kind,
                      todo |-> Queries(kind), got |-> request.got]
      BY <1>1, <2>2, <2>3
    <3> QED BY <3>1, <3>2, <3>3 DEF Request, Backend
  <2>5. Progress'
    BY <2>4 DEF Progress, Queries, Kind
  <2>6. request'.todo \notin {<<"rest">>, <<"ends", "events">>, <<"events">>}
    BY <2>4 DEF Queries, Kind
  <2>7. request.todo # <<>>
    BY <1>1
  <2> QED BY <2>2, <2>4, <2>5, <2>6, <2>7, Fetched
<1>3. CASE ~ \E row \in tree : row[1] = p
  <2>1. Answer(NotFound)
    BY <1>3 DEF ReadKind
  <2>2. \A e \in Present : ~IsPrefix(p, e.path)
    <3>1. ASSUME NEW e \in Present, IsPrefix(p, e.path) PROVE FALSE
      <4>1. <<p, ParentOf(p)>> \in tree
        BY <3>1, RowOnTheWay DEF NodeTreeInv
      <4> QED BY <1>3, <4>1
    <3> QED BY <3>1
  <2>3. Snapshot(p).events = {} /\ MemChildren(p) = {}
    <3>1. \A e \in Present : e.path # p
      <4>1. IsPrefix(p, p)
        BY PathIsSequence, PrefixNames
      <4> QED BY <2>2, <4>1
    <3> QED BY <2>2, <3>1 DEF Snapshot, MemChildren, IsStrictPrefix
  <2>4. request.todo # <<>>
    BY <1>1
  <2>5. asked.events = {} /\ asked.children = {}
    BY <2>3, <2>4 DEF NodeTreeInv, AskedInv
  <2> QED BY <2>1, <2>4, <2>5, Answered
<1> QED BY <1>2, <1>3

\* What a query leaves when it has got a result.
LEMMA ResultStep ==
  ASSUME NodeTreeInv, request.todo # <<>>, NEW got \in Results,
         Got([request EXCEPT !.got = got])
  PROVE  /\ UNCHANGED <<event, node, tree, asked, reply>>
         /\ request' \in Request /\ request'.path = request.path
         /\ request'.backend = request.backend /\ request'.kind = request.kind
         /\ request'.todo = Tail(request.todo) /\ request'.got = got
<1>1. PICK r \in Request : r = request
  BY DEF NodeTreeInv, TypeOK
<1>2. PICK q \in Request : q = [r EXCEPT !.got = got]
  BY DEF Request
<1>3. q.todo = r.todo
  BY <1>2 DEF Request
<1>4. /\ UNCHANGED <<event, node, tree, asked, reply>>
      /\ request' = [q EXCEPT !.todo = Tail(r.todo)]
  BY <1>1, <1>2, <1>3 DEF Got
<1>5. request' = [backend |-> r.backend, path |-> r.path, todo |-> Tail(r.todo),
                  kind |-> r.kind, got |-> got]
  BY <1>2, <1>4, GotResult
<1>6. r.todo \in Seq(Query) /\ r.todo # <<>>
  BY <1>1, RequestIs
<1>7. Tail(r.todo) \in Seq(Query)
  BY <1>6
<1>8. request' \in Request
  BY <1>5, <1>7, RequestIs DEF Request
<1> QED BY <1>1, <1>4, <1>5, <1>8

\* Which query is due says how far get_node is.
LEMMA Due ==
  ASSUME NodeTreeInv
  PROVE  /\ Asks("children") => /\ request.todo = <<"children", "events">>
                                /\ request.kind = "List" /\ request.backend = "Postgres"
         /\ Asks("dates") => /\ request.todo = <<"dates", "events">>
                             /\ request.kind = "DateMap" /\ request.backend = "Postgres"
         /\ Asks("ends") => /\ request.todo = <<"ends", "events">>
                            /\ request.kind = "Range" /\ request.backend = "Postgres"
         /\ Asks("next") =>
              \/ /\ request.todo = <<"next", "ends", "events">>
                 /\ request.kind = "Range" /\ request.backend = "Postgres"
              \/ request.todo = <<"next", "rest">> /\ request.backend = "InMemory"
         /\ Asks("events") => /\ request.todo = <<"events">> /\ request.kind \in Kind
                              /\ request.backend = "Postgres"
         /\ Asks("rest") => request.todo = <<"rest">> /\ request.backend = "InMemory"
BY DEF NodeTreeInv, Progress, Asks, Kind

\* The children are those that were there, or as many as the limit allows.
LEMMA ChildrenRead ==
  ASSUME NodeTreeInv, ReadChildren
  PROVE  NodeTreeInv'
<1> PICK p \in Path : p = request.path
  BY DEF NodeTreeInv, TypeOK, Request
<1>1. Asks("children") /\ request.todo = <<"children", "events">>
      /\ request.kind = "List" /\ request.backend = "Postgres"
  BY Due DEF ReadChildren
<1>2. PICK names \in SUBSET TreeChildren(p) :
        /\ names = TreeChildren(p) \/ Cardinality(names) = Limit
        /\ Got([request EXCEPT !.got.children = AsChildren(p, names)])
  BY DEF ReadChildren
<1>3. request.got \in Results
  BY RequestIs DEF NodeTreeInv, TypeOK
<1>4. AsChildren(p, names) \subseteq Name \X Kind /\ {c[1] : c \in AsChildren(p, names)} = names
  BY ChildrenAreNamed DEF NodeTreeInv
<1>5. PICK got \in Results : /\ got = [request.got EXCEPT !.children = AsChildren(p, names)]
                             /\ got.children = AsChildren(p, names)
  <2>1. PICK old \in Results : old = request.got
    BY <1>3, <1>4
  <2>2. PICK c \in SUBSET (Name \X Kind) : c = AsChildren(p, names)
    BY <1>3, <1>4
  <2>3. [old EXCEPT !.children = c] \in Results /\ [old EXCEPT !.children = c].children = c
    BY OneMore
  <2> QED BY <2>1, <2>2, <2>3
<1>6. Got([request EXCEPT !.got = got])
  BY <1>2, <1>5
<1>7. request.todo # <<>>
  BY <1>1
<1>8. Tail(request.todo) = <<"events">>
  BY <1>1
<1>9. /\ UNCHANGED <<event, node, tree, asked, reply>>
      /\ request' \in Request /\ request'.path = p /\ request'.backend = "Postgres"
      /\ request'.kind = "List" /\ request'.todo = <<"events">> /\ request'.got = got
  BY <1>1, <1>6, <1>7, <1>8, ResultStep
<1>10. Progress'
  BY <1>9 DEF Progress
<1>11. TrueHere(p, Describe("List", got))
  <2>1. asked.children \subseteq MemChildren(p)
    BY <1>7 DEF NodeTreeInv, AskedInv
  <2>2. /\ MemChildren(p) \subseteq TreeChildren(p)
        /\ TreeChildren(p) \subseteq MemChildren(p) \union Noded(p)
    BY ChildrenFound DEF NodeTreeInv
  <2>3. asked.children \subseteq names \/ Cardinality(names) = Limit
    BY <1>2, <2>1, <2>2
  <2>4. PICK desc : desc = Describe("List", got)
    OBVIOUS
  <2>5. desc.kind = "List" /\ desc.children = AsChildren(p, names)
    BY <1>5, <2>4, Described DEF Kind
  <2>6. {c[1] : c \in desc.children} = names
    BY <1>4, <2>5
  <2> QED BY <2>2, <2>3, <2>4, <2>5, <2>6 DEF TrueHere, IsTrue
<1>12. request'.todo \notin {<<"rest">>, <<"ends", "events">>}
  BY <1>9
<1> QED BY <1>7, <1>9, <1>10, <1>11, <1>12, Fetched

\* The dates are those that are there.
LEMMA DatesRead ==
  ASSUME NodeTreeInv, ReadDates
  PROVE  NodeTreeInv'
<1> PICK p \in Path : p = request.path
  BY DEF NodeTreeInv, TypeOK, Request
<1>1. Asks("dates") /\ request.todo = <<"dates", "events">>
      /\ request.kind = "DateMap" /\ request.backend = "Postgres"
  BY Due DEF ReadDates
<1>2. request.got \in Results
  BY RequestIs DEF NodeTreeInv, TypeOK
<1>3. DateMap("Postgres", p) \subseteq Name \X Name
  BY DatesAreNames DEF Backend
<1>4. PICK got \in Results : /\ got = [request.got EXCEPT !.dates = DateMap("Postgres", p)]
                             /\ got.dates = DateMap("Postgres", p)
  <2>1. PICK old \in Results : old = request.got
    BY <1>2, <1>3
  <2>2. PICK d \in SUBSET (Name \X Name) : d = DateMap("Postgres", p)
    BY <1>2, <1>3
  <2>3. [old EXCEPT !.dates = d] \in Results /\ [old EXCEPT !.dates = d].dates = d
    BY OneMore
  <2> QED BY <2>1, <2>2, <2>3
<1>5. Got([request EXCEPT !.got = got])
  BY <1>4 DEF ReadDates
<1>6. request.todo # <<>>
  BY <1>1
<1>7. Tail(request.todo) = <<"events">>
  BY <1>1
<1>8. /\ UNCHANGED <<event, node, tree, asked, reply>>
      /\ request' \in Request /\ request'.path = p /\ request'.backend = "Postgres"
      /\ request'.kind = "DateMap" /\ request'.todo = <<"events">> /\ request'.got = got
  BY <1>1, <1>5, <1>6, <1>7, ResultStep
<1>9. Progress'
  BY <1>8 DEF Progress
<1>10. ASSUME Unambiguous(p) PROVE TrueHere(p, Describe("DateMap", got))
  <2>1. asked.dates \subseteq DateMap("InMemory", p)
    BY <1>6 DEF NodeTreeInv, AskedInv
  <2>2. DateMap("Postgres", p) = DateMap("InMemory", p)
    BY <1>10, FindsTheSame DEF Backend
  <2>3. PICK desc : desc = Describe("DateMap", got)
    OBVIOUS
  <2>4. desc.kind = "DateMap" /\ desc.dates = DateMap("InMemory", p)
    BY <1>4, <2>2, <2>3, Described DEF Kind
  <2> QED BY <2>1, <2>3, <2>4 DEF TrueHere, IsTrue
<1>11. request'.todo \notin {<<"rest">>, <<"ends", "events">>}
  BY <1>8
<1> QED BY <1>6, <1>8, <1>9, <1>10, <1>11, Fetched

\* The next event is that of a child.
LEMMA NextRead ==
  ASSUME NodeTreeInv, ReadNext
  PROVE  NodeTreeInv'
<1> PICK p \in Path : p = request.path
  BY DEF NodeTreeInv, TypeOK, Request
<1>1. \/ /\ request.todo = <<"next", "ends", "events">>
         /\ request.kind = "Range" /\ request.backend = "Postgres"
      \/ request.todo = <<"next", "rest">> /\ request.backend = "InMemory"
  BY Due DEF ReadNext
<1>2. request.backend \in Backend
  BY <1>1 DEF Backend
<1>3. PICK next \in NextUnattested(request.backend, p) :
        Got([request EXCEPT !.got.next = next])
  BY DEF ReadNext
<1>4. next \in Name \union {None}
  BY <1>2, NextIsName
<1>5. request.got \in Results
  BY RequestIs DEF NodeTreeInv, TypeOK
<1>6. PICK got \in Results : got = [request.got EXCEPT !.next = next] /\ got.next = next
  <2>1. PICK old \in Results : old = request.got
    BY <1>4, <1>5
  <2>2. PICK n \in Name \union {None} : n = next
    BY <1>4, <1>5
  <2>3. [old EXCEPT !.next = n] \in Results /\ [old EXCEPT !.next = n].next = n
    BY OneMore
  <2> QED BY <2>1, <2>2, <2>3
<1>7. Got([request EXCEPT !.got = got])
  BY <1>3, <1>6
<1>8. request.todo # <<>>
  BY <1>1
<1>9. /\ request.backend = "Postgres" => Tail(request.todo) = <<"ends", "events">>
      /\ request.backend = "InMemory" => Tail(request.todo) = <<"rest">>
  <2>1. Tail(<<"next", "ends", "events">>) = <<"ends", "events">>
    OBVIOUS
  <2>2. Tail(<<"next", "rest">>) = <<"rest">>
    OBVIOUS
  <2> QED BY <1>1, <2>1, <2>2
<1>10. /\ UNCHANGED <<event, node, tree, asked, reply>>
       /\ request' \in Request /\ request'.path = p /\ request'.backend = request.backend
       /\ request'.kind = request.kind /\ request'.todo = Tail(request.todo)
       /\ request'.got = got
  BY <1>7, <1>8, ResultStep
<1>11. Progress'
  BY <1>1, <1>9, <1>10 DEF Progress
<1>12. ASSUME Unambiguous(p) PROVE request'.got.next \in MemChildren(p) \union {None}
  BY <1>2, <1>3, <1>6, <1>10, <1>12, NextIsChild
<1>13. request'.todo # <<"events">>
  BY <1>1, <1>9, <1>10
<1> QED BY <1>8, <1>10, <1>11, <1>12, <1>13, Fetched

\* The ends are those of the children at the time.
LEMMA EndsRead ==
  ASSUME NodeTreeInv, ReadEnds
  PROVE  NodeTreeInv'
<1> PICK p \in Path : p = request.path
  BY DEF NodeTreeInv, TypeOK, Request
<1> DEFINE names == TreeChildren(p)
<1>1. Asks("ends") /\ request.todo = <<"ends", "events">>
      /\ request.kind = "Range" /\ request.backend = "Postgres"
  BY Due DEF ReadEnds
<1>2. request.got \in Results
  BY RequestIs DEF NodeTreeInv, TypeOK
<1>3. Ends(p, names) \in (Name \union {None}) \X (Name \union {None})
  BY ChildrenAreNamed DEF NodeTreeInv
<1>4. PICK got \in Results : /\ got = [request.got EXCEPT !.ends = Ends(p, names)]
                             /\ got.ends = Ends(p, names) /\ got.next = request.got.next
  <2>1. PICK old \in Results : old = request.got
    BY <1>2
  <2>2. PICK e \in (Name \union {None}) \X (Name \union {None}) : e = Ends(p, names)
    BY <1>3
  <2>3. /\ [old EXCEPT !.ends = e] \in Results /\ [old EXCEPT !.ends = e].ends = e
        /\ [old EXCEPT !.ends = e].next = old.next
    BY OneMore
  <2> QED BY <2>1, <2>2, <2>3
<1>5. Got([request EXCEPT !.got = got])
  BY <1>4 DEF ReadEnds
<1>6. request.todo # <<>>
  BY <1>1
<1>7. Tail(request.todo) = <<"events">>
  BY <1>1
<1>8. /\ UNCHANGED <<event, node, tree, asked, reply>>
      /\ request' \in Request /\ request'.path = p /\ request'.backend = "Postgres"
      /\ request'.kind = "Range" /\ request'.todo = <<"events">> /\ request'.got = got
  BY <1>1, <1>5, <1>6, <1>7, ResultStep
<1>9. Progress'
  BY <1>8 DEF Progress
<1>10. ASSUME Unambiguous(p) PROVE TrueHere(p, Describe("Range", got))
  <2>1. asked.children \subseteq MemChildren(p)
    BY <1>6 DEF NodeTreeInv, AskedInv
  <2>2. MemChildren(p) \subseteq names /\ names \subseteq Name
    BY ChildrenFound DEF NodeTreeInv
  <2>3. got.next \in names \union {None}
    BY <1>1, <1>4, <1>10, <2>2 DEF NodeTreeInv, ReplyInv
  <2>4. PICK desc : desc = Describe("Range", got)
    OBVIOUS
  <2>5. /\ desc.kind = "Range" /\ desc.start = Ends(p, names)[1]
        /\ desc.next = got.next /\ desc.end = Ends(p, names)[2]
    <3>1. "Range" \in Kind
      BY DEF Kind
    <3>2. /\ desc.kind = "Range" /\ desc.start = got.ends[1]
          /\ desc.next = got.next /\ desc.end = got.ends[2]
      BY <2>4, <3>1, Described
    <3> QED BY <1>4, <3>2
  <2>6. ASSUME names # {}
        PROVE  /\ desc.start \in names /\ \A n \in names : desc.start <= n /\ n <= desc.end
    <3>1. desc.start = Min(names) /\ desc.end = Max(names)
      BY <2>5, <2>6 DEF Ends
    <3> QED BY <2>2, <2>6, <3>1, FirstAndLast
  <2>7. asked.children # {} =>
          desc.start <= Min(asked.children) /\ Max(asked.children) <= desc.end
    <3>1. asked.children \subseteq names
      BY <2>1, <2>2
    <3>2. asked.children # {} => Min(asked.children) \in names /\ Max(asked.children) \in names
      BY <2>2, <3>1, FirstAndLast
    <3> QED BY <2>6, <3>1, <3>2
  <2>8. desc.next # None =>
          desc.start # None /\ desc.start <= desc.next /\ desc.next <= desc.end
    <3>1. None \notin names
      BY <2>2, NamesAreNumbers
    <3> QED BY <2>3, <2>5, <2>6, <3>1
  <2> QED BY <2>4, <2>5, <2>7, <2>8 DEF TrueHere, IsTrue
<1>11. request'.todo \notin {<<"rest">>, <<"ends", "events">>}
  BY <1>8
<1> QED BY <1>6, <1>8, <1>9, <1>10, <1>11, Fetched

\* The events come last, and what was described before is still true.
LEMMA EventsRead ==
  ASSUME NodeTreeInv, ReadEvents
  PROVE  NodeTreeInv'
<1> PICK p \in Path : p = request.path
  BY DEF NodeTreeInv, TypeOK, Request
<1>1. Asks("events") /\ request.todo = <<"events">> /\ request.kind \in Kind
      /\ request.backend = "Postgres"
  BY Due DEF ReadEvents
<1>2. PICK desc : desc = Describe(request.kind, request.got)
  OBVIOUS
<1>3. PICK events : events = EventsAt("Postgres", p)
  OBVIOUS
<1>4. events \subseteq EventKind
  BY <1>3 DEF EventsAt, EventKind, Present
<1>5. PICK r : r = GetPath(events, desc)
  OBVIOUS
<1>6. r.events = events /\ r.desc = desc
  BY <1>5 DEF GetPath
<1>7. r \in Reply
  <2>1. request.got \in Results
    BY RequestIs DEF NodeTreeInv, TypeOK
  <2> QED BY <1>1, <1>2, <1>4, <1>5, <2>1, Described
<1>8. Answer(r)
  BY <1>2, <1>3, <1>5 DEF ReadEvents
<1>9. request.todo # <<>> /\ r # NotFound
  BY <1>1, <1>7, NoneIsNothing
<1>10. ASSUME Unambiguous(p)
       PROVE  /\ asked.events \subseteq r.events /\ r.events \subseteq Snapshot(p).events
              /\ TrueHere(p, r.desc)
  <2>1. events = Snapshot(p).events
    BY <1>3, <1>10, FindsTheSame DEF Backend
  <2>2. asked.events \subseteq Snapshot(p).events
    BY <1>9 DEF NodeTreeInv, AskedInv
  <2>3. TrueHere(p, desc)
    BY <1>1, <1>2, <1>10 DEF NodeTreeInv, ReplyInv
  <2> QED BY <1>6, <2>1, <2>2, <2>3
<1> QED BY <1>7, <1>8, <1>9, <1>10, Answered

\* In memory all but the next event is read at once.
LEMMA RestRead ==
  ASSUME NodeTreeInv, ReadRest
  PROVE  NodeTreeInv'
<1> PICK p \in Path : p = request.path
  BY DEF NodeTreeInv, TypeOK, Request
<1> DEFINE names  == MemChildren(p)
           events == EventsAt("InMemory", p)
<1>1. Asks("rest") /\ request.todo = <<"rest">> /\ request.backend = "InMemory"
  BY Due DEF ReadRest
<1>2. PICK next : next = request.got.next
  OBVIOUS
<1>3. Answer(MemReply(p, next)) /\ request.todo # <<>>
  BY <1>1, <1>2 DEF ReadRest
<1>4. events = Snapshot(p).events /\ events \subseteq EventKind
  BY DEF EventsAt, Snapshot, EventKind, Present
<1>5. asked # None /\ asked.events \subseteq events /\ asked.children \subseteq names
      /\ asked.dates \subseteq DateMap("InMemory", p)
  BY <1>3, <1>4 DEF NodeTreeInv, AskedInv
<1>6. CASE names = {} /\ events = {}
  <2>1. MemReply(p, next) = NotFound
    BY <1>6 DEF MemReply
  <2>2. asked.events = {} /\ asked.children = {}
    BY <1>5, <1>6
  <2> QED BY <1>3, <2>1, <2>2, Answered
<1>7. CASE ~(names = {} /\ events = {})
  <2>1. PICK kind : kind = IF KindOf(p) = "Range" /\ names = {} THEN "List" ELSE KindOf(p)
    OBVIOUS
  <2>2. kind \in Kind /\ (kind = "Range" => names # {})
    BY <2>1, KindIsKind DEF NodeTreeInv, Kind
  <2>3. PICK got : got = [children |-> AsChildren(p, names), dates |-> DateMap("InMemory", p),
                          next |-> next, ends |-> Ends(p, names)]
    OBVIOUS
  <2>4. /\ got.children = AsChildren(p, names) /\ got.dates = DateMap("InMemory", p)
        /\ got.next = next /\ got.ends = Ends(p, names)
    BY <2>3
  <2>5. names \subseteq TreeChildren(p) /\ names \subseteq Name
    BY ChildrenFound DEF NodeTreeInv
  <2>6. /\ AsChildren(p, names) \subseteq Name \X Kind
        /\ {c[1] : c \in AsChildren(p, names)} = names
        /\ Ends(p, names) \in (Name \union {None}) \X (Name \union {None})
    BY <2>5, ChildrenAreNamed DEF NodeTreeInv
  <2>7. got \in Results
    <3>1. DateMap("InMemory", p) \subseteq Name \X Name
      BY DatesAreNames DEF Backend
    <3>2. next \in Name \union {None}
      BY <1>2, RequestIs, ResultsAre DEF NodeTreeInv, TypeOK
    <3> QED BY <2>3, <2>6, <3>1, <3>2 DEF Results
  <2>8. PICK desc : desc = Describe(kind, got)
    OBVIOUS
  <2>9. /\ desc.kind = kind
        /\ kind = "List" => desc.children = AsChildren(p, names)
        /\ kind = "DateMap" => desc.dates = DateMap("InMemory", p)
        /\ kind = "Range" =>
             desc.start = Ends(p, names)[1] /\ desc.next = next /\ desc.end = Ends(p, names)[2]
        /\ GetPath(events, desc) \in Reply
    BY <1>4, <2>2, <2>4, <2>7, <2>8, Described
  <2>10. PICK r \in Reply : r = GetPath(events, desc)
    BY <2>9
  <2>11. r.events = events /\ r.desc = desc /\ r # NotFound
    BY <2>10, NoneIsNothing DEF GetPath
  <2>12. MemReply(p, next) = r
    BY <1>7, <2>1, <2>3, <2>8, <2>10 DEF MemReply, MemDesc
  <2>13. ASSUME Unambiguous(p) PROVE TrueHere(p, desc)
    <3>1. next \in names \union {None}
      BY <1>1, <1>2, <2>13 DEF NodeTreeInv, ReplyInv
    <3>2. kind = "List" => {c[1] : c \in desc.children} = names
      BY <2>6, <2>9
    <3>3. ASSUME kind = "Range"
          PROVE  /\ desc.start \in names /\ \A n \in names : desc.start <= n /\ n <= desc.end
                 /\ desc.next = next
      <4>1. names # {}
        BY <2>2, <3>3
      <4>2. desc.start = Min(names) /\ desc.end = Max(names) /\ desc.next = next
        BY <2>9, <3>3, <4>1 DEF Ends
      <4> QED BY <2>5, <4>1, <4>2, FirstAndLast
    <3>4. asked.children # {} => Min(asked.children) \in names /\ Max(asked.children) \in names
      BY <1>5, <2>5, FirstAndLast
    <3>5. None \notin names
      BY <2>5, NamesAreNumbers
    <3>6. desc.kind = "List" =>
            LET own == {c[1] : c \in desc.children}
            IN /\ asked.children \subseteq own \/ Cardinality(own) = Limit
               /\ own \subseteq MemChildren(p) \union Noded(p)
      BY <1>5, <2>9, <3>2
    <3>7. desc.kind = "DateMap" =>
            asked.dates \subseteq desc.dates /\ desc.dates \subseteq DateMap("InMemory", p)
      BY <1>5, <2>9
    <3>8. desc.kind = "Range" =>
            /\ asked.children # {} =>
                 desc.start <= Min(asked.children) /\ Max(asked.children) <= desc.end
            /\ desc.next # None =>
                 desc.start # None /\ desc.start <= desc.next /\ desc.next <= desc.end
      BY <2>9, <3>1, <3>3, <3>4, <3>5
    <3> QED BY <3>6, <3>7, <3>8 DEF TrueHere, IsTrue
  <2>14. Answer(r)
    BY <1>3, <2>12
  <2> QED BY <1>3, <1>4, <1>5, <2>11, <2>13, <2>14, Answered
<1> QED BY <1>6, <1>7

-----------------------------------------------------------------------------
(* The theorems.                                                           *)

\* The inductive invariant holds at first and is kept by every step.
LEMMA NodeTreeInductive ==
  /\ Init => NodeTreeInv
  /\ NodeTreeInv /\ [Next]_vars => NodeTreeInv'
<1>1. ASSUME Init PROVE NodeTreeInv
  <2>1. Present = {}
    BY <1>1 DEF Init, Present
  <2>2. NoResults \in Results /\ <<>> \in Seq(Query) /\ <<>> \in Path
    BY NodeTreeAssumption DEF NoResults, Results
  <2>3. Idle \in Request /\ Idle.todo = <<>>
    BY <2>2 DEF Idle, Request
  <2>4. TypeOK
    <3>1. /\ event = [e \in Event |-> "absent"] /\ node = [p \in Path |-> None] /\ tree = {}
          /\ request = Idle /\ asked = None /\ reply = None
      BY <1>1 DEF Init
    <3> QED BY <2>3, <3>1 DEF TypeOK
  <2>5. TreeInv /\ Progress /\ AskedInv /\ ReplyInv
    <3>1. request.todo = <<>> /\ reply = None /\ asked = None /\ tree = {}
      BY <1>1, <2>3 DEF Init
    <3>2. request.todo \notin {<<"rest">>, <<"ends", "events">>, <<"events">>}
      BY <3>1
    <3>3. TreeInv
      BY <2>1, <3>1 DEF TreeInv
    <3>4. Progress /\ AskedInv
      BY <3>1 DEF Progress, AskedInv
    <3>5. ReplyInv
      BY <3>1, <3>2 DEF ReplyInv
    <3> QED BY <3>3, <3>4, <3>5
  <2> QED BY <2>4, <2>5 DEF NodeTreeInv
<1>2. ASSUME NodeTreeInv, Next PROVE NodeTreeInv'
  <2>1. CASE Writes
    <3>1. TypeOK' /\ TreeInv' /\ Grows /\ UNCHANGED <<request, asked, reply>>
      BY <1>2, <2>1, WriteStep DEF NodeTreeInv
    <3>2. Progress' /\ AskedInv' /\ ReplyInv'
      BY <1>2, <3>1, WritesKeepTruth DEF NodeTreeInv
    <3> QED BY <3>1, <3>2 DEF NodeTreeInv
  <2>2. ASSUME NEW b \in Backend, NEW p \in Path, GetNode(b, p) PROVE NodeTreeInv'
    BY <1>2, <2>2, Begins
  <2>3. CASE ReadKind
    BY <1>2, <2>3, KindRead
  <2>4. CASE ReadChildren
    BY <1>2, <2>4, ChildrenRead
  <2>5. CASE ReadNext
    BY <1>2, <2>5, NextRead
  <2>6. CASE ReadEnds
    BY <1>2, <2>6, EndsRead
  <2>7. CASE ReadDates
    BY <1>2, <2>7, DatesRead
  <2>8. CASE ReadEvents
    BY <1>2, <2>8, EventsRead
  <2>9. CASE ReadRest
    BY <1>2, <2>9, RestRead
  <2> QED BY <1>2, <2>1, <2>2, <2>3, <2>4, <2>5, <2>6, <2>7, <2>8, <2>9 DEF Next, Writes
<1>3. ASSUME NodeTreeInv, UNCHANGED vars PROVE NodeTreeInv'
  <2>1. Present' = Present /\ UNCHANGED <<event, node, tree, request, asked, reply>>
    BY <1>3 DEF vars, Present
  <2>2. TypeOK' /\ TreeInv' /\ Progress'
    BY <1>3, <2>1 DEF NodeTreeInv, TypeOK, TreeInv, Progress, NodeRows, ParentOf
  <2>3. AskedInv' /\ ReplyInv'
    <3>1. Grows
      BY <2>1 DEF Grows
    <3> QED BY <1>3, <2>1, <3>1, WritesKeepTruth DEF NodeTreeInv
  <2> QED BY <2>2, <2>3 DEF NodeTreeInv
<1> QED BY <1>1, <1>2, <1>3

\* The tree and the queries in progress keep their types: what a reader is
\* told is made of kinds of events and of names in the tree, also while events
\* are added between the queries of get_node.
THEOREM NodeTreeTypeCorrect == Spec => []TypeOK
<1>1. NodeTreeInv => TypeOK
  BY DEF NodeTreeInv
<1> QED BY <1>1, NodeTreeInductive, PTL DEF Spec

\* What get_node of either database replies lies between what there was at the
\* path when it was asked for and what there is when it is answered, whichever
\* events are added and attested and nodes set between its queries.
THEOREM RepliesAlwaysBracketed == Spec => []ReplyBracketed
<1>1. ASSUME NodeTreeInv PROVE ReplyBracketed
  <2> PICK p \in Path : p = request.path
    BY <1>1 DEF NodeTreeInv, TypeOK, Request
  <2> SUFFICES ASSUME reply # None, Unambiguous(p)
               PROVE  IF reply = NotFound THEN asked.events = {} /\ asked.children = {}
                      ELSE LET now == Snapshot(p)
                               desc == reply.desc
                           IN /\ asked.events \subseteq reply.events
                              /\ reply.events \subseteq now.events
                              /\ desc.kind = "List" =>
                                   LET names == {c[1] : c \in desc.children}
                                   IN /\ asked.children \subseteq names
                                           \/ Cardinality(names) = Limit
                                      /\ \A n \in names \ now.children :
                                           \E q \in Path : /\ node[q] # None
                                                           /\ IsPrefix(Append(p, n), q)
                              /\ desc.kind = "DateMap" =>
                                   /\ asked.dates \subseteq desc.dates
                                   /\ desc.dates \subseteq now.dates
                              /\ desc.kind = "Range" /\ asked.children # {} =>
                                   /\ desc.start <= Min(asked.children)
                                   /\ Max(asked.children) <= desc.end
    BY DEF ReplyBracketed
  <2>1. CASE reply = NotFound
    BY <1>1, <2>1 DEF NodeTreeInv, ReplyInv
  <2>2. CASE reply # NotFound
    <3>1. /\ asked.events \subseteq reply.events /\ reply.events \subseteq Snapshot(p).events
          /\ TrueHere(p, reply.desc)
      BY <1>1, <2>2 DEF NodeTreeInv, ReplyInv
    <3>2. Snapshot(p).children = MemChildren(p) /\ Snapshot(p).dates = DateMap("InMemory", p)
      BY DEF Snapshot
    <3>3. \A n \in Noded(p) : \E q \in Path : node[q] # None /\ IsPrefix(Append(p, n), q)
      BY DEF Noded
    <3> QED BY <2>2, <3>1, <3>2, <3>3 DEF TrueHere, IsTrue
  <2> QED BY <2>1, <2>2
<1> QED BY <1>1, NodeTreeInductive, PTL DEF Spec

\* The next event of a range lies between the range's ends in every reply,
\* although they come from two queries: the next event is that of a child, and
\* children only become more before the ends are asked for.
THEOREM RangeAlwaysSpansNext == Spec => []RangeSpansNext
<1>1. ASSUME NodeTreeInv PROVE RangeSpansNext
  <2> PICK p \in Path : p = request.path
    BY <1>1 DEF NodeTreeInv, TypeOK, Request
  <2>1. ASSUME reply \notin {None, NotFound}, Unambiguous(p) PROVE TrueHere(p, reply.desc)
    BY <1>1, <2>1 DEF NodeTreeInv, ReplyInv
  <2> QED BY <2>1 DEF RangeSpansNext, TrueHere, IsTrue
<1> QED BY <1>1, NodeTreeInductive, PTL DEF Spec

\* Where all events below a path have a time the databases agree on the next.
LEMMA SameNext ==
  ASSUME NEW p \in Path, Unambiguous(p),
         \A e \in Present : IsPrefix(p, e.path) => e.time # None
  PROVE  NextUnattested("InMemory", p) = NextUnattested("Postgres", p)
<1> DEFINE below(b) == {e \in Event : event[e] = "open" /\ Below(b, p, e.path)}
<1>1. ASSUME NEW b \in Backend, NEW e \in Event, event[e] = "open"
      PROVE  Below(b, p, e.path) <=> IsPrefix(p, e.path)
  BY <1>1 DEF Unambiguous, Present
<1>2. PICK found : /\ found = below("InMemory") /\ found = below("Postgres")
                   /\ \A e \in found : e.time # None
  <2>1. \A e \in Event : event[e] = "open" =>
          (Below("InMemory", p, e.path) <=> Below("Postgres", p, e.path))
    BY <1>1 DEF Backend
  <2>2. below("InMemory") = below("Postgres")
    BY <2>1
  <2>3. \A e \in below("InMemory") : e.time # None
    BY <1>1 DEF Present, Backend
  <2> QED BY <2>2, <2>3
<1>3. Earliest("InMemory", found) = Earliest("Postgres", found)
  <2>1. \A d, e \in found : Earlier("InMemory", d, e) <=> Earlier("Postgres", d, e)
    BY <1>2 DEF Earlier
  <2> QED BY <2>1 DEF Earliest
<1> QED BY <1>2, <1>3 DEF NextUnattested

\* Postgres with its rows and the in-memory database without describe a path
\* alike, given the same events and nodes, where names are not ambiguous.
THEOREM BackendsAlwaysAgree == Spec => []BackendsAgree
<1>1. ASSUME NodeTreeInv PROVE BackendsAgree
  <2> SUFFICES ASSUME NEW p \in Path, Unambiguous(p), MemChildren(p) # {},
                      \A q \in Path : node[q] # None /\ IsStrictPrefix(p, q) =>
                        \E e \in Present : IsPrefix(q, e.path),
                      \A e \in Present : IsPrefix(p, e.path) => e.time # None
               PROVE  {MemReply(p, next) : next \in NextUnattested("InMemory", p)} =
                      {GetPath(EventsAt("Postgres", p),
                         Describe(KindOf(p),
                           [children |-> AsChildren(p, TreeChildren(p)),
                            dates    |-> DateMap("Postgres", p),
                            next     |-> next,
                            ends     |-> Ends(p, TreeChildren(p))]))
                         : next \in NextUnattested("Postgres", p)}
    BY DEF BackendsAgree
  <2>1. TreeChildren(p) = MemChildren(p)
    <3>1. ASSUME NEW n \in Noded(p) PROVE n \in MemChildren(p)
      <4>1. PICK q \in Path : node[q] # None /\ IsPrefix(Append(p, n), q)
        BY DEF Noded
      <4>2. p \in Seq(Nat) /\ q \in Seq(Nat) /\ n \in Nat
        BY PathIsSequence, NamesAreNumbers DEF Noded
      <4>3. IsPrefix(p, q) /\ Len(p) < Len(q)
        BY <4>1, <4>2, PrefixOfChild
      <4>4. IsStrictPrefix(p, q)
        BY <4>2, <4>3, StrictPrefixIsShorter
      <4>5. PICK e \in Present : IsPrefix(q, e.path)
        BY <4>1, <4>4
      <4>6. e.path \in Seq(Nat)
        BY NodeTreeAssumption DEF Present
      <4>7. IsPrefix(Append(p, n), e.path)
        <5>1. Append(p, n) \in Seq(Nat)
          BY <4>2
        <5> QED BY <4>1, <4>2, <4>5, <4>6, <5>1, PrefixOfPrefix
      <4>8. IsPrefix(p, e.path) /\ Len(p) < Len(e.path) /\ e.path[Len(p) + 1] = n
        BY <4>2, <4>6, <4>7, PrefixOfChild
      <4>9. IsStrictPrefix(p, e.path)
        BY <4>2, <4>6, <4>8, StrictPrefixIsShorter
      <4> QED BY <4>8, <4>9 DEF MemChildren
    <3> QED BY <1>1, <3>1, ChildrenFound DEF NodeTreeInv
  <2>2. /\ DateMap("Postgres", p) = DateMap("InMemory", p)
        /\ EventsAt("Postgres", p) = EventsAt("InMemory", p)
    BY FindsTheSame DEF Backend
  <2>3. NextUnattested("InMemory", p) = NextUnattested("Postgres", p)
    BY SameNext
  <2>4. \A next : MemReply(p, next) =
          GetPath(EventsAt("InMemory", p),
            Describe(KindOf(p), [children |-> AsChildren(p, MemChildren(p)),
                                 dates    |-> DateMap("InMemory", p),
                                 next     |-> next,
                                 ends     |-> Ends(p, MemChildren(p))]))
    BY DEF MemReply, MemDesc
  <2> QED BY <2>1, <2>2, <2>3, <2>4, Zenon
<1> QED BY <1>1, NodeTreeInductive, PTL DEF Spec
=============================================================================
