---------------------------- MODULE PathsProofs ----------------------------
(***************************************************************************)
(* Theorems about Paths and RestApi, for any tokens, ids and directories:  *)
(* how texts are put together and taken apart again.                       *)
(***************************************************************************)
EXTENDS RestApi, ContractProofs, SequenceTheorems

-----------------------------------------------------------------------------
(* Splitting a text.                                                       *)

\* The first and the rest of what has been appended to.
LEMMA FrontAndLast ==
  ASSUME NEW S, NEW s \in Seq(S), NEW x \in S
  PROVE  /\ Append(s, x) \in Seq(S) \ {<<>>}
         /\ Front(Append(s, x)) = s /\ Last(Append(s, x)) = x
<1> DEFINE t == Append(s, x)
<1>1. t \in Seq(S) /\ t # <<>> /\ Len(t) = Len(s) + 1
      /\ t[Len(s) + 1] = x /\ \A i \in 1 .. Len(s) : t[i] = s[i]
  BY AppendProperties
<1> HIDE DEF t
<1>2. Last(t) = x
  BY <1>1 DEF Last
<1>3. SubSeq(t, 1, Len(t) - 1) = s
  <2>1. PICK u \in Seq(S) : u = SubSeq(t, 1, Len(t) - 1)
    BY <1>1
  <2>2. Len(u) = Len(s) /\ \A i \in 1 .. Len(s) : u[i] = s[i]
    BY <1>1, <2>1
  <2> QED BY <2>1, <2>2
<1>4. Front(t) = s
  BY <1>3 DEF Front
<1> QED BY <1>1, <1>2, <1>4 DEF t

\* What is not empty has been appended to.
LEMMA TakenApart ==
  ASSUME NEW S, NEW s \in Seq(S), s # <<>>
  PROVE  /\ Front(s) \in Seq(S) /\ Len(Front(s)) = Len(s) - 1
         /\ Last(s) \in S /\ s = Append(Front(s), Last(s))
<1>1. PICK t \in Seq(S), x \in S : s = Append(t, x)
  BY SequenceEmptyOrAppend
<1>2. Front(s) = t /\ Last(s) = x
  BY <1>1, FrontAndLast, Zenon
<1>3. Len(t) = Len(s) - 1
  BY <1>1, AppendProperties
<1> QED BY <1>1, <1>2, <1>3

\* There is always a part to go on with.
LEMMA NextTokens ==
  ASSUME NEW S, NEW parts \in Seq(Seq(S)) \ {<<>>}, NEW token \in S, NEW sep
  PROVE  NextToken(parts, token, sep) \in Seq(Seq(S)) \ {<<>>}
<1>1. <<>> \in Seq(S)
  OBVIOUS
<1>2. Append(parts, <<>>) \in Seq(Seq(S)) \ {<<>>}
  BY <1>1, FrontAndLast, Zenon
<1>3. Front(parts) \in Seq(Seq(S)) /\ Last(parts) \in Seq(S)
  BY TakenApart, Zenon
<1>4. Append(Last(parts), token) \in Seq(S)
  BY <1>3, FrontAndLast, Zenon
<1>5. Append(Front(parts), Append(Last(parts), token)) \in Seq(Seq(S)) \ {<<>>}
  BY <1>3, <1>4, FrontAndLast, Zenon
<1> QED BY <1>2, <1>5, Zenon DEF NextToken

\* f has the parts of the first tokens of text.
PartsOf(f, text, sep) ==
  f = [n \in 0 .. Len(text) |-> IF n = 0 THEN << <<>> >> ELSE NextToken(f[n - 1], text[n], sep)]

\* There is such a function, and Split is about it.
LEMMA SplitByTokens ==
  ASSUME NEW S, NEW text \in Seq(S), NEW sep
  PROVE  \E f : PartsOf(f, text, sep) /\ Split(text, sep) = f[Len(text)]
<1>0. PICK P : P = Seq(Seq(S)) \ {<<>>}
  OBVIOUS
<1> DEFINE step == [n \in 1 .. Len(text) |-> [parts \in P |-> NextToken(parts, text[n], sep)]]
<1>1. Len(text) \in Nat /\ \A n \in 1 .. Len(text) : text[n] \in S
  OBVIOUS
<1>2. << <<>> >> \in P
  <2>1. <<>> \in Seq(S)
    OBVIOUS
  <2>2. << <<>> >> \in Seq(Seq(S)) /\ Len(<< <<>> >>) = 1
    BY <2>1, Single, Zenon
  <2>3. << <<>> >> # <<>>
    OBVIOUS
  <2> QED BY <1>0, <2>2, <2>3
<1>3. \A n \in 1 .. Len(text), parts \in P : NextToken(parts, text[n], sep) \in P
  BY <1>0, <1>1, NextTokens, Zenon
<1>4. step \in [1 .. Len(text) -> [P -> P]]
  BY <1>3
<1>5. \A n \in 1 .. Len(text), parts \in P : step[n][parts] = NextToken(parts, text[n], sep)
  OBVIOUS
<1> HIDE DEF step
<1>6. PICK a : a \in P /\ a = << <<>> >>
  BY <1>2
<1>7. PICK f \in [0 .. Len(text) -> P] :
        f[0] = a /\ \A n \in 1 .. Len(text) : f[n] = step[n][f[n - 1]]
  <2>1. PICK f : Takes(f, P, Len(text), a, step)
    BY <1>1, <1>4, <1>6, Steps, Zenon
  <2> QED BY <2>1 DEF Takes
<1>8. \A n \in 0 .. Len(text) :
        f[n] = IF n = 0 THEN << <<>> >> ELSE NextToken(f[n - 1], text[n], sep)
  <2>1. ASSUME NEW n \in 1 .. Len(text) PROVE f[n] = NextToken(f[n - 1], text[n], sep)
    <3>1. f[n - 1] \in P
      BY <1>1
    <3> QED BY <1>5, <1>7, <3>1
  <2>2. \A n \in 0 .. Len(text) : f[n] = IF n = 0 THEN a ELSE NextToken(f[n - 1], text[n], sep)
    BY <1>1, <1>7, <2>1
  <2> QED BY <1>6, <2>2, Zenon
<1>9. PartsOf(f, text, sep)
  <2>1. f = [n \in 0 .. Len(text) |-> f[n]]
    OBVIOUS
  <2> DEFINE g == [n \in 0 .. Len(text) |->
                    IF n = 0 THEN << <<>> >> ELSE NextToken(f[n - 1], text[n], sep)]
  <2>2. f = g
    BY <1>8, <2>1
  <2> QED BY <2>2, Zenon DEF PartsOf
<1>10. Split(text, sep) = (CHOOSE h : PartsOf(h, text, sep))[Len(text)]
  BY Zenon DEF Split, PartsOf
<1>11. PartsOf(CHOOSE h : PartsOf(h, text, sep), text, sep)
  BY <1>9, Zenon
<1> QED BY <1>10, <1>11, Zenon

\* A text is split token by token.
LEMMA SplitGrows ==
  ASSUME NEW S, NEW text \in Seq(S), NEW token \in S, NEW sep
  PROVE  /\ Split(<<>>, sep) = << <<>> >>
         /\ Split(Append(text, token), sep) = NextToken(Split(text, sep), token, sep)
<1>1. Split(<<>>, sep) = << <<>> >>
  <2>1. PICK e \in Seq(S) : e = <<>> /\ Len(e) = 0
    BY EmptySeq
  <2>2. PICK f : PartsOf(f, e, sep) /\ Split(e, sep) = f[Len(e)]
    BY SplitByTokens, Zenon
  <2>3. f[0] = << <<>> >>
    BY <2>1, <2>2 DEF PartsOf
  <2> QED BY <2>1, <2>2, <2>3
<1> DEFINE longer == Append(text, token)
           n == Len(text)
<1>2. longer \in Seq(S) /\ Len(longer) = n + 1 /\ longer[n + 1] = token
      /\ n \in Nat /\ \A i \in 1 .. n : longer[i] = text[i]
  BY AppendProperties
<1> HIDE DEF longer
<1>3. PICK f : PartsOf(f, text, sep) /\ Split(text, sep) = f[n]
  BY SplitByTokens
<1>4. PICK g : PartsOf(g, longer, sep) /\ Split(longer, sep) = g[n + 1]
  BY <1>2, SplitByTokens
<1>5. \A i \in 0 .. n : f[i] = IF i = 0 THEN << <<>> >> ELSE NextToken(f[i - 1], text[i], sep)
  BY <1>3, Zenon DEF PartsOf
<1>6. \A i \in 0 .. n + 1 :
        g[i] = IF i = 0 THEN << <<>> >> ELSE NextToken(g[i - 1], longer[i], sep)
  BY <1>2, <1>4, Zenon DEF PartsOf
<1> HIDE DEF n
<1> DEFINE T == {i \in Nat : i <= n => f[i] = g[i]}
<1>7. 0 \in T
  BY <1>2, <1>5, <1>6
<1>8. ASSUME NEW i \in Nat, i \in T PROVE i + 1 \in T
  <2> SUFFICES ASSUME i + 1 <= n PROVE f[i + 1] = g[i + 1]
    OBVIOUS
  <2>1. i + 1 \in 0 .. n /\ i + 1 \in 0 .. n + 1 /\ i + 1 \in 1 .. n
        /\ i + 1 # 0 /\ (i + 1) - 1 = i
    BY <1>2
  <2>2. f[i + 1] = NextToken(f[i], text[i + 1], sep)
    BY <1>5, <2>1
  <2>3. g[i + 1] = NextToken(g[i], longer[i + 1], sep)
    BY <1>6, <2>1
  <2>4. f[i] = g[i] /\ longer[i + 1] = text[i + 1]
    BY <1>2, <1>8, <2>1
  <2> QED BY <2>2, <2>3, <2>4
<1>9. f[n] = g[n]
  <2> HIDE DEF T
  <2>1. n \in T
    BY <1>2, <1>7, <1>8, AllNumbers
  <2> QED BY <1>2, <2>1 DEF T
<1>10. g[n + 1] = NextToken(g[n], token, sep)
  <2>1. n + 1 \in 0 .. n + 1 /\ n + 1 # 0 /\ (n + 1) - 1 = n
    BY <1>2
  <2> QED BY <1>2, <1>6, <2>1
<1>11. Split(longer, sep) = NextToken(Split(text, sep), token, sep)
  BY <1>3, <1>4, <1>9, <1>10 DEF n
<1> QED BY <1>1, <1>11 DEF longer

-----------------------------------------------------------------------------
(* Joining what has been split.                                            *)

\* f has the first parts in one.
InOne(f, parts) == f = [i \in 1 .. Len(parts) |-> IF i = 1 THEN parts[i] ELSE f[i - 1] \o parts[i]]

\* There is such a function, and FlattenSeq is about it.
LEMMA FlattenedByParts ==
  ASSUME NEW S, NEW parts \in Seq(Seq(S)), parts # <<>>
  PROVE  \E f : /\ InOne(f, parts) /\ FlattenSeq(parts) = f[Len(parts)]
                /\ f[Len(parts)] \in Seq(S)
<1>1. PICK P : P = Seq(S)
  OBVIOUS
<1>2. PICK n \in Nat : n + 1 = Len(parts)
  <2>1. Len(parts) - 1 \in Nat
    BY EmptySeq
  <2> QED BY <2>1
<1> DEFINE step == [i \in 1 .. n |-> [text \in P |-> text \o parts[i + 1]]]
<1>3. \A i \in 1 .. n + 1 : parts[i] \in P
  BY <1>1, <1>2
<1>4. \A text \in P, i \in 1 .. n : text \o parts[i + 1] \in P
  BY <1>1, <1>3
<1>5. step \in [1 .. n -> [P -> P]]
  BY <1>4
<1>6. \A i \in 1 .. n, text \in P : step[i][text] = text \o parts[i + 1]
  OBVIOUS
<1> HIDE DEF step
<1>7. PICK g : Takes(g, P, n, parts[1], step)
  <2>1. parts[1] \in P
    BY <1>3
  <2> QED BY <1>5, <2>1, Steps, Zenon
<1>8. /\ g \in [0 .. n -> P] /\ g[0] = parts[1]
      /\ \A i \in 1 .. n : g[i] = g[i - 1] \o parts[i + 1]
  <2>1. /\ g \in [0 .. n -> P] /\ g[0] = parts[1]
        /\ \A i \in 1 .. n : g[i] = step[i][g[i - 1]]
    BY <1>7 DEF Takes
  <2>2. ASSUME NEW i \in 1 .. n PROVE g[i] = g[i - 1] \o parts[i + 1]
    <3>1. g[i - 1] \in P
      <4>1. i - 1 \in 0 .. n
        OBVIOUS
      <4> QED BY <2>1, <4>1
    <3> QED BY <1>6, <2>1, <3>1
  <2> QED BY <2>1, <2>2
<1> DEFINE f == [i \in 1 .. n + 1 |-> g[i - 1]]
<1>9. InOne(f, parts)
  <2> DEFINE h == [i \in 1 .. n + 1 |-> IF i = 1 THEN parts[i] ELSE f[i - 1] \o parts[i]]
  <2>1. ASSUME NEW i \in 1 .. n + 1 PROVE f[i] = h[i]
    <3>1. CASE i = 1
      BY <1>8, <3>1
    <3>2. CASE i # 1
      <4>1. i - 1 \in 1 .. n /\ i - 1 \in 1 .. n + 1 /\ (i - 1) + 1 = i
        BY <3>2
      <4>2. f[i] = g[i - 1] /\ f[i - 1] = g[(i - 1) - 1]
        BY <4>1
      <4>3. g[i - 1] = g[(i - 1) - 1] \o parts[i]
        BY <1>8, <4>1
      <4>4. h[i] = f[i - 1] \o parts[i]
        BY <3>2
      <4> QED BY <4>2, <4>3, <4>4
    <3> QED BY <3>1, <3>2
  <2>2. f = h
    BY <2>1
  <2> QED BY <1>2, <2>2, Zenon DEF InOne
<1>10. InOne(CHOOSE h : InOne(h, parts), parts)
  BY <1>9, Zenon
<1>11. FlattenSeq(parts) = (CHOOSE h : InOne(h, parts))[Len(parts)]
  <2>1. Len(parts) # 0
    BY <1>2
  <2> QED BY <2>1 DEF FlattenSeq, InOne
<1>12. PICK h : InOne(h, parts) /\ FlattenSeq(parts) = h[n + 1]
  BY <1>2, <1>10, <1>11, Zenon
<1>13. \A i \in 1 .. n + 1 : h[i] = IF i = 1 THEN parts[i] ELSE h[i - 1] \o parts[i]
  BY <1>2, <1>12, Zenon DEF InOne
<1> DEFINE T == {i \in Nat : i <= n => h[i + 1] \in P}
<1>14. 0 \in T
  BY <1>3, <1>13
<1>15. ASSUME NEW i \in Nat, i \in T PROVE i + 1 \in T
  <2> SUFFICES ASSUME i + 1 <= n PROVE h[(i + 1) + 1] \in P
    OBVIOUS
  <2>1. i + 1 \in 1 .. n /\ (i + 1) + 1 \in 1 .. n + 1 /\ (i + 1) + 1 # 1
        /\ ((i + 1) + 1) - 1 = i + 1
    OBVIOUS
  <2>2. h[(i + 1) + 1] = h[i + 1] \o parts[(i + 1) + 1]
    BY <1>13, <2>1
  <2>3. h[i + 1] \in P
    BY <1>15
  <2> QED BY <1>4, <2>1, <2>2, <2>3
<1>16. h[n + 1] \in P
  <2> HIDE DEF T
  <2>1. n \in T
    BY <1>14, <1>15, AllNumbers
  <2> QED BY <2>1 DEF T
<1> QED BY <1>1, <1>2, <1>12, <1>16

\* Texts are put in one part by part.
LEMMA FlattenGrows ==
  ASSUME NEW S, NEW parts \in Seq(Seq(S)), NEW part \in Seq(S)
  PROVE  /\ FlattenSeq(<<part>>) = part
         /\ parts # <<>> => /\ FlattenSeq(parts) \in Seq(S)
                            /\ FlattenSeq(Append(parts, part)) = FlattenSeq(parts) \o part
<1>1. FlattenSeq(<<part>>) = part
  <2>1. PICK one \in Seq(Seq(S)) : one = <<part>> /\ Len(one) = 1 /\ one[1] = part
    BY Single
  <2>2. PICK f : InOne(f, one) /\ FlattenSeq(one) = f[Len(one)]
    <3>1. one # <<>>
      BY <2>1
    <3> QED BY <3>1, FlattenedByParts, Zenon
  <2>3. f[1] = part
    BY <2>1, <2>2 DEF InOne
  <2> QED BY <2>1, <2>2, <2>3
<1>2. ASSUME parts # <<>>
      PROVE  /\ FlattenSeq(parts) \in Seq(S)
             /\ FlattenSeq(Append(parts, part)) = FlattenSeq(parts) \o part
  <2> DEFINE more == Append(parts, part)
             n == Len(parts)
  <2>1. /\ more \in Seq(Seq(S)) /\ more # <<>> /\ Len(more) = n + 1
        /\ more[n + 1] = part /\ \A i \in 1 .. n : more[i] = parts[i]
    BY AppendProperties
  <2>2. n \in Nat /\ n # 0
    BY <1>2, EmptySeq
  <2> HIDE DEF more
  <2>3. PICK f : InOne(f, parts) /\ FlattenSeq(parts) = f[n] /\ f[n] \in Seq(S)
    BY <1>2, FlattenedByParts, Zenon
  <2>4. PICK g : InOne(g, more) /\ FlattenSeq(more) = g[n + 1]
    <3>1. PICK g : InOne(g, more) /\ FlattenSeq(more) = g[Len(more)]
      BY <2>1, FlattenedByParts, Zenon
    <3> QED BY <2>1, <3>1, Zenon
  <2>5. \A i \in 1 .. n : f[i] = IF i = 1 THEN parts[i] ELSE f[i - 1] \o parts[i]
    BY <2>3, Zenon DEF InOne
  <2>6. \A i \in 1 .. n + 1 : g[i] = IF i = 1 THEN more[i] ELSE g[i - 1] \o more[i]
    BY <2>1, <2>4, Zenon DEF InOne
  <2> HIDE DEF n
  <2> DEFINE T == {i \in Nat : i + 1 <= n => f[i + 1] = g[i + 1]}
  <2>7. 0 \in T
    BY <2>1, <2>2, <2>5, <2>6
  <2>8. ASSUME NEW i \in Nat, i \in T PROVE i + 1 \in T
    <3> SUFFICES ASSUME (i + 1) + 1 <= n PROVE f[(i + 1) + 1] = g[(i + 1) + 1]
      OBVIOUS
    <3>1. PICK j \in 1 .. n : j = (i + 1) + 1 /\ j # 1 /\ j - 1 = i + 1 /\ j \in 1 .. n + 1
      BY <2>2
    <3>2. f[j] = f[j - 1] \o parts[j]
      BY <2>5, <3>1
    <3>3. g[j] = g[j - 1] \o more[j]
      BY <2>6, <3>1
    <3>4. f[j - 1] = g[j - 1] /\ more[j] = parts[j]
      BY <2>1, <2>2, <2>8, <3>1
    <3> QED BY <3>1, <3>2, <3>3, <3>4
  <2>9. f[n] = g[n]
    <3>1. PICK m \in Nat : m + 1 = n
      <4>1. n - 1 \in Nat /\ (n - 1) + 1 = n
        BY <2>2
      <4> QED BY <4>1
    <3> HIDE DEF T
    <3>2. m \in T
      BY <2>7, <2>8, AllNumbers
    <3> QED BY <3>1, <3>2 DEF T
  <2>10. g[n + 1] = g[n] \o part
    <3>1. n + 1 \in 1 .. n + 1 /\ n + 1 # 1 /\ (n + 1) - 1 = n
      BY <2>2
    <3> QED BY <2>1, <2>6, <3>1
  <2> QED BY <2>3, <2>4, <2>9, <2>10 DEF more, n
<1> QED BY <1>1, <1>2

\* Texts with a separator between them: the teams of an id, as its path has them.
Parts(teams, sep) == [i \in DOMAIN teams |-> IF i = 1 THEN teams[i] ELSE <<sep>> \o teams[i]]

\* Teams with separators between them.
Joined(teams, sep) == FlattenSeq(Parts(teams, sep))

\* A team more is a separator and the team more.
JoinsOneMore(teams, team, sep) ==
  Joined(Append(teams, team), sep) = Joined(teams, sep) \o (<<sep>> \o team)

\* One part more, before there is a second one and after.
LEMMA JoinGrows ==
  ASSUME NEW S, NEW teams \in Seq(Seq(S)), NEW team \in Seq(S), NEW sep \in S
  PROVE  /\ Joined(<<team>>, sep) = team
         /\ teams # <<>> => Joined(teams, sep) \in Seq(S) /\ JoinsOneMore(teams, team, sep)
<1>1. <<sep>> \in Seq(S) /\ \A t \in Seq(S) : <<sep>> \o t \in Seq(S)
  <2>1. PICK s \in Seq(S) : s = <<sep>>
    BY Single, Zenon
  <2> QED BY <2>1
<1>2. Joined(<<team>>, sep) = team
  <2>1. PICK one \in Seq(Seq(S)) : one = <<team>> /\ Len(one) = 1 /\ one[1] = team
    BY Single
  <2>2. Parts(one, sep) = one
    <3>1. DOMAIN one = 1 .. 1
      BY <2>1
    <3>2. Parts(one, sep) = [i \in 1 .. 1 |-> one[i]]
      BY <3>1 DEF Parts
    <3>3. one = [i \in 1 .. 1 |-> one[i]]
      BY <2>1
    <3> QED BY <3>2, <3>3
  <2>3. FlattenSeq(<<team>>) = team
    BY FlattenGrows, EmptySeq
  <2> QED BY <2>1, <2>2, <2>3 DEF Joined
<1>3. ASSUME NEW ts \in Seq(Seq(S))
      PROVE  /\ Parts(ts, sep) \in Seq(Seq(S)) /\ Len(Parts(ts, sep)) = Len(ts)
             /\ \A i \in 1 .. Len(ts) :
                  Parts(ts, sep)[i] = IF i = 1 THEN ts[i] ELSE <<sep>> \o ts[i]
  <2>1. Parts(ts, sep) = [i \in 1 .. Len(ts) |-> IF i = 1 THEN ts[i] ELSE <<sep>> \o ts[i]]
    BY DEF Parts
  <2>2. \A i \in 1 .. Len(ts) : (IF i = 1 THEN ts[i] ELSE <<sep>> \o ts[i]) \in Seq(S)
    BY <1>1
  <2> QED BY <2>1, <2>2
<1>4. ASSUME teams # <<>>
      PROVE  Joined(teams, sep) \in Seq(S) /\ JoinsOneMore(teams, team, sep)
  <2> DEFINE more == Append(teams, team)
             n == Len(teams)
  <2>1. /\ more \in Seq(Seq(S)) /\ Len(more) = n + 1
        /\ more[n + 1] = team /\ \A i \in 1 .. n : more[i] = teams[i]
    BY AppendProperties
  <2>2. n \in Nat /\ n # 0
    BY <1>4, EmptySeq
  <2> HIDE DEF more
  <2>3. PICK a \in Seq(Seq(S)) : /\ a = Parts(teams, sep) /\ Len(a) = n
                                 /\ \A i \in 1 .. n : a[i] = IF i = 1 THEN teams[i] ELSE <<sep>> \o teams[i]
    BY <1>3
  <2>4. PICK b \in Seq(Seq(S)) : /\ b = Parts(more, sep) /\ Len(b) = Len(more)
                                 /\ \A i \in 1 .. Len(more) :
                                      b[i] = IF i = 1 THEN more[i] ELSE <<sep>> \o more[i]
    BY <1>3, <2>1
  <2>5. PICK c \in Seq(S) : c = <<sep>> \o team
    BY <1>1
  <2> HIDE DEF n
  <2>6. b[n + 1] = c /\ \A i \in 1 .. n : b[i] = a[i]
    <3>1. b[n + 1] = c
      <4>1. n + 1 \in 1 .. Len(more) /\ n + 1 # 1
        BY <2>1, <2>2
      <4>2. b[n + 1] = <<sep>> \o more[n + 1]
        BY <2>4, <4>1
      <4> QED BY <2>1, <2>5, <4>2
    <3>2. ASSUME NEW i \in 1 .. n PROVE b[i] = a[i]
      <4>1. i \in 1 .. Len(more) /\ more[i] = teams[i]
        BY <2>1, <2>2
      <4>2. CASE i = 1
        BY <2>3, <2>4, <4>1, <4>2
      <4>3. CASE i # 1
        <5>1. b[i] = <<sep>> \o more[i] /\ a[i] = <<sep>> \o teams[i]
          BY <2>3, <2>4, <4>1, <4>3
        <5> QED BY <4>1, <5>1
      <4> QED BY <4>2, <4>3
    <3> QED BY <3>1, <3>2
  <2>7. b = Append(a, c)
    <3>1. /\ Append(a, c) \in Seq(Seq(S)) /\ Len(Append(a, c)) = Len(a) + 1
          /\ \A i \in 1 .. Len(a) : Append(a, c)[i] = a[i]
          /\ Append(a, c)[Len(a) + 1] = c
      BY AppendProperties
    <3>2. PICK d \in Seq(Seq(S)) :
            /\ d = Append(a, c)
            /\ Len(d) = n + 1 /\ d[n + 1] = c /\ \A i \in 1 .. n : d[i] = a[i]
      BY <2>3, <3>1
    <3>3. \A i \in 1 .. n + 1 : b[i] = d[i]
      BY <2>2, <2>6, <3>2
    <3>4. b = d
      BY <2>1, <2>4, <3>2, <3>3, SeqEqual
    <3> QED BY <3>2, <3>4
  <2>8. a # <<>>
    BY <2>2, <2>3
  <2>9. FlattenSeq(a) \in Seq(S) /\ FlattenSeq(Append(a, c)) = FlattenSeq(a) \o c
    BY <2>8, FlattenGrows
  <2> QED BY <2>3, <2>4, <2>5, <2>7, <2>9 DEF Joined, JoinsOneMore, more
<1> QED BY <1>2, <1>4

\* A text and one more token.
LEMMA AfterPrefix ==
  ASSUME NEW S, NEW text \in Seq(S), NEW n \in Nat, n + 1 <= Len(text)
  PROVE  /\ SubSeq(text, 1, n) \in Seq(S) /\ text[n + 1] \in S
         /\ SubSeq(text, 1, n + 1) = Append(SubSeq(text, 1, n), text[n + 1])
<1>0. ASSUME NEW m \in Nat, m <= Len(text)
      PROVE  /\ SubSeq(text, 1, m) \in Seq(S) /\ Len(SubSeq(text, 1, m)) = m
             /\ \A i \in 1 .. m : SubSeq(text, 1, m)[i] = text[i]
  <2>1. PICK c \in Seq(S) : c = SubSeq(text, 1, m)
    <3>1. \A i \in 1 .. m : text[i] \in S
      BY <1>0
    <3>2. SubSeq(text, 1, m) \in Seq(S)
      BY <3>1, SubSeqProperties
    <3> QED BY <3>2
  <2>2. Len(c) = m
    BY <1>0, <2>1
  <2>3. \A i \in 1 .. m : c[i] = text[i]
    BY <1>0, <2>1
  <2> QED BY <2>1, <2>2, <2>3
<1>1. PICK a \in Seq(S) : a = SubSeq(text, 1, n) /\ Len(a) = n /\ \A i \in 1 .. n : a[i] = text[i]
  <2>1. n <= Len(text)
    OBVIOUS
  <2> QED BY <1>0, <2>1
<1>2. PICK b \in Seq(S) :
        b = SubSeq(text, 1, n + 1) /\ Len(b) = n + 1 /\ \A i \in 1 .. n + 1 : b[i] = text[i]
  <2>1. n + 1 \in Nat
    OBVIOUS
  <2> QED BY <1>0, <2>1
<1>3. text[n + 1] \in S
  OBVIOUS
<1>4. /\ Append(a, text[n + 1]) \in Seq(S) /\ Len(Append(a, text[n + 1])) = n + 1
      /\ \A i \in 1 .. n : Append(a, text[n + 1])[i] = a[i]
      /\ Append(a, text[n + 1])[n + 1] = text[n + 1]
  BY <1>1, <1>3, AppendProperties
<1>5. PICK c \in Seq(S) : /\ c = Append(a, text[n + 1]) /\ Len(c) = n + 1
                          /\ \A i \in 1 .. n : c[i] = a[i]
                          /\ c[n + 1] = text[n + 1]
  BY <1>4
<1>6. \A i \in 1 .. n + 1 : b[i] = c[i]
  BY <1>1, <1>2, <1>5
<1>7. b = c
  BY <1>2, <1>5, <1>6, SeqEqual
<1> QED BY <1>1, <1>2, <1>3, <1>5, <1>7

\* One token more at the end of the second text.
LEMMA JoinedAppend ==
  ASSUME NEW S, NEW a \in Seq(S), NEW b \in Seq(S), NEW x \in S
  PROVE  a \o Append(b, x) = Append(a \o b, x)
<1>1. b \o <<x>> = Append(b, x) /\ (a \o b) \o <<x>> = Append(a \o b, x)
  <2>1. a \o b \in Seq(S)
    OBVIOUS
  <2> QED BY <2>1, AppendIsConcat
<1>2. <<x>> \in Seq(S)
  BY Single, Zenon
<1>3. (a \o b) \o <<x>> = a \o (b \o <<x>>)
  BY <1>2, ConcatAssociative
<1> QED BY <1>1, <1>3

\* There is no such token in the text.
Without(text, x) == \A i \in 1 .. Len(text) : text[i] # x

\* The last part of the text has been begun.
Ends(text, before, begun, sep) == Split(text, sep) = Append(before, begun)

\* Text without a separator belongs to the part that has been begun.
LEMMA SplitOn ==
  ASSUME NEW S, NEW text \in Seq(S), NEW part \in Seq(S), NEW sep,
         NEW before \in Seq(Seq(S)), NEW begun \in Seq(S),
         Ends(text, before, begun, sep), Without(part, sep)
  PROVE  Ends(text \o part, before, begun \o part, sep)
<1> DEFINE T == {n \in Nat : n <= Len(part) =>
                   Split(text \o SubSeq(part, 1, n), sep) = Append(before, begun \o SubSeq(part, 1, n))}
<1>1. 0 \in T
  <2>1. SubSeq(part, 1, 0) = <<>>
    BY SubSeqEmpty
  <2>2. text \o <<>> = text /\ begun \o <<>> = begun
    BY ConcatEmptySeq
  <2> QED BY <2>1, <2>2 DEF Ends
<1>2. ASSUME NEW n \in Nat, n \in T PROVE n + 1 \in T
  <2> SUFFICES ASSUME n + 1 <= Len(part)
               PROVE  Split(text \o SubSeq(part, 1, n + 1), sep)
                        = Append(before, begun \o SubSeq(part, 1, n + 1))
    OBVIOUS
  <2>1. PICK a \in Seq(S) : a = SubSeq(part, 1, n)
    BY AfterPrefix
  <2>2. PICK x \in S : x = part[n + 1] /\ x # sep
    BY DEF Without
  <2>3. SubSeq(part, 1, n + 1) = Append(a, x)
    BY <2>1, <2>2, AfterPrefix
  <2>4. text \o Append(a, x) = Append(text \o a, x) /\ begun \o Append(a, x) = Append(begun \o a, x)
    BY JoinedAppend
  <2>5. text \o a \in Seq(S) /\ begun \o a \in Seq(S)
    OBVIOUS
  <2>6. Split(text \o a, sep) = Append(before, begun \o a)
    <3>1. n <= Len(part)
      OBVIOUS
    <3> QED BY <1>2, <2>1, <3>1
  <2>7. Split(Append(text \o a, x), sep) = NextToken(Append(before, begun \o a), x, sep)
    BY <2>5, <2>6, SplitGrows
  <2>8. Front(Append(before, begun \o a)) = before /\ Last(Append(before, begun \o a)) = begun \o a
    BY <2>5, FrontAndLast, Zenon
  <2>9. NextToken(Append(before, begun \o a), x, sep) = Append(before, Append(begun \o a, x))
    BY <2>2, <2>8, Zenon DEF NextToken
  <2> QED BY <2>3, <2>4, <2>7, <2>9
<1>3. Len(part) \in T
  <2>1. Len(part) \in Nat
    OBVIOUS
  <2> HIDE DEF T
  <2> QED BY <1>1, <1>2, <2>1, AllNumbers
<1>4. SubSeq(part, 1, Len(part)) = part
  BY SubSeqFull
<1>5. Len(part) <= Len(part)
  OBVIOUS
<1> QED BY <1>3, <1>4, <1>5 DEF Ends

\* A separator begins a new part.
LEMMA SplitAt ==
  ASSUME NEW S, NEW text \in Seq(S), NEW part \in Seq(S), NEW sep \in S,
         Without(part, sep)
  PROVE  /\ Split(part, sep) = <<part>>
         /\ Split(text, sep) \in Seq(Seq(S)) =>
              Split(text \o (<<sep>> \o part), sep) = Append(Split(text, sep), part)
<1>1. PICK e \in Seq(S) : e = <<>>
  BY EmptySeq
<1>2. PICK none \in Seq(Seq(S)) : none = <<>>
  BY EmptySeq
<1>3. \A s \in Seq(S) : Append(none, s) = <<s>>
  BY <1>2
<1>4. e \o part = part
  BY <1>1, ConcatEmptySeq
<1>5. Split(part, sep) = <<part>>
  <2>1. Split(e, sep) = <<e>>
    BY <1>1, SplitGrows
  <2>2. Split(e \o part, sep) = Append(none, e \o part)
    <3>1. Ends(e, none, e, sep)
      BY <1>3, <2>1 DEF Ends
    <3>2. Ends(e \o part, none, e \o part, sep)
      BY <3>1, SplitOn
    <3> QED BY <3>2 DEF Ends
  <2> QED BY <1>3, <1>4, <2>2
<1>6. ASSUME Split(text, sep) \in Seq(Seq(S))
      PROVE  Split(text \o (<<sep>> \o part), sep) = Append(Split(text, sep), part)
  <2>1. PICK before \in Seq(Seq(S)) : before = Split(text, sep)
    BY <1>6
  <2>2. PICK longer \in Seq(S) : longer = Append(text, sep)
    BY AppendProperties
  <2>3. Split(longer, sep) = Append(before, e)
    <3>1. Split(longer, sep) = NextToken(before, sep, sep)
      BY <2>1, <2>2, SplitGrows
    <3> QED BY <1>1, <3>1, Zenon DEF NextToken
  <2>4. Split(longer \o part, sep) = Append(before, e \o part)
    <3>1. Ends(longer, before, e, sep)
      BY <2>3 DEF Ends
    <3>2. Ends(longer \o part, before, e \o part, sep)
      BY <3>1, SplitOn
    <3> QED BY <3>2 DEF Ends
  <2>5. longer \o part = text \o (<<sep>> \o part)
    <3>1. PICK s \in Seq(S) : s = <<sep>>
      BY Single, Zenon
    <3>2. longer = text \o s
      BY <2>2, <3>1, AppendIsConcat
    <3> QED BY <3>1, <3>2, ConcatAssociative
  <2> QED BY <1>4, <2>1, <2>4, <2>5
<1> QED BY <1>5, <1>6

\* What two texts are without, they are without together.
LEMMA WithoutBoth ==
  ASSUME NEW S, NEW a \in Seq(S), NEW b \in Seq(S), NEW x
  PROVE  /\ Without(a \o b, x) <=> Without(a, x) /\ Without(b, x)
         /\ a \o b \in Seq(S) /\ Len(a \o b) = Len(a) + Len(b)
         /\ \A i \in 1 .. Len(a) : (a \o b)[i] = a[i]
         /\ \A i \in 1 .. Len(b) : (a \o b)[Len(a) + i] = b[i]
<1>1. PICK c \in Seq(S) : c = a \o b
  <2>1. a \o b \in Seq(S)
    OBVIOUS
  <2> QED BY <2>1
<1>2. /\ Len(c) = Len(a) + Len(b)
      /\ \A i \in 1 .. Len(a) : c[i] = a[i]
      /\ \A i \in 1 .. Len(b) : c[Len(a) + i] = b[i]
  BY <1>1
<1>3. \A i \in 1 .. Len(c) : i \in 1 .. Len(a) \/ \E j \in 1 .. Len(b) : i = Len(a) + j
  <2>1. ASSUME NEW i \in 1 .. Len(c), i \notin 1 .. Len(a)
        PROVE  \E j \in 1 .. Len(b) : i = Len(a) + j
    <3>1. i - Len(a) \in 1 .. Len(b) /\ i = Len(a) + (i - Len(a))
      BY <1>2, <2>1
    <3> QED BY <3>1
  <2> QED BY <2>1
<1>4. \A i \in 1 .. Len(a) : i \in 1 .. Len(c)
  BY <1>2
<1>5. \A j \in 1 .. Len(b) : Len(a) + j \in 1 .. Len(c)
  BY <1>2
<1>6. Without(c, x) <=> Without(a, x) /\ Without(b, x)
  BY <1>2, <1>3, <1>4, <1>5 DEF Without
<1> QED BY <1>1, <1>2, <1>6

\* A text of one token.
LEMMA WithoutOne ==
  ASSUME NEW S, NEW w \in S, NEW x, w # x
  PROVE  Without(<<w>>, x)
<1>1. PICK s \in Seq(S) : s = <<w>> /\ Len(s) = 1 /\ s[1] = w
  BY Single
<1>2. \A i \in 1 .. Len(s) : s[i] # x
  BY <1>1
<1> QED BY <1>1, <1>2 DEF Without

\* What no team has in its name, and what comes first in a name.
TeamsWithout(teams, x) == \A i \in 1 .. Len(teams) : Without(teams[i], x)

\* The text begins with the token.
First(text, x) == Len(text) > 0 /\ text[1] = x

\* What is true of teams that have been joined.
JoinedTo(teams, text, sep, x) ==
  /\ TeamsWithout(teams, sep) => Split(text, sep) = teams
  /\ x # sep /\ TeamsWithout(teams, x) => Without(text, x)
  /\ teams[1] # <<>> => First(text, teams[1][1])
  /\ teams[1] = <<>> => text = <<>> \/ First(text, sep)

\* A team alone is its own name.
LEMMA OneTeam ==
  ASSUME NEW S, NEW team \in Seq(S), NEW sep \in S, NEW x
  PROVE  Joined(<<team>>, sep) = team /\ JoinedTo(<<team>>, team, sep, x)
<1>1. PICK one \in Seq(Seq(S)) : one = <<team>> /\ Len(one) = 1 /\ one[1] = team
  BY Single
<1>2. Joined(one, sep) = team
  BY <1>1, EmptySeq, JoinGrows
<1>3. \A y : TeamsWithout(one, y) => Without(team, y)
  BY <1>1 DEF TeamsWithout
<1>4. Without(team, sep) => Split(team, sep) = one
  BY <1>1, SplitAt
<1>5. team # <<>> => First(team, team[1])
  BY EmptySeq DEF First
<1> QED BY <1>1, <1>2, <1>3, <1>4, <1>5 DEF JoinedTo

\* A name with one team more is split into one team more.
LEMMA OneTeamMore ==
  ASSUME NEW S, NEW teams \in Seq(Seq(S)), teams # <<>>, NEW team \in Seq(S), NEW sep \in S,
         NEW x, NEW text \in Seq(S), JoinedTo(teams, text, sep, x)
  PROVE  JoinedTo(Append(teams, team), text \o (<<sep>> \o team), sep, x)
<1>1. PICK more \in Seq(Seq(S)) :
        /\ more = Append(teams, team) /\ Len(more) = Len(teams) + 1
        /\ more[Len(teams) + 1] = team /\ \A i \in 1 .. Len(teams) : more[i] = teams[i]
  <2>1. /\ Append(teams, team) \in Seq(Seq(S))
        /\ Len(Append(teams, team)) = Len(teams) + 1
        /\ Append(teams, team)[Len(teams) + 1] = team
        /\ \A i \in 1 .. Len(teams) : Append(teams, team)[i] = teams[i]
    BY AppendProperties
  <2> QED BY <2>1
<1>2. 1 \in 1 .. Len(teams)
  BY EmptySeq
<1>3. PICK one \in Seq(S) : one = <<sep>> /\ Len(one) = 1 /\ one[1] = sep
  BY Single
<1>4. PICK after \in Seq(S) : after = one \o team /\ after[1] = sep /\ Len(after) > 0
                              /\ \A y : Without(after, y) <=> Without(one, y) /\ Without(team, y)
  <2>1. /\ one \o team \in Seq(S) /\ Len(one \o team) = 1 + Len(team)
        /\ \A i \in 1 .. 1 : (one \o team)[i] = one[i]
    BY <1>3, WithoutBoth
  <2>2. \A y : Without(one \o team, y) <=> Without(one, y) /\ Without(team, y)
    BY WithoutBoth
  <2>3. Len(one \o team) > 0 /\ (one \o team)[1] = sep
    <3>1. Len(team) \in Nat /\ 1 \in 1 .. 1
      OBVIOUS
    <3>2. (one \o team)[1] = one[1]
      BY <2>1, <3>1
    <3> QED BY <1>3, <2>1, <3>1, <3>2
  <2> QED BY <2>1, <2>2, <2>3, Zenon
<1>5. PICK longer \in Seq(S) :
        /\ longer = text \o after /\ Len(longer) = Len(text) + Len(after)
        /\ \A i \in 1 .. Len(text) : longer[i] = text[i]
        /\ \A i \in 1 .. Len(after) : longer[Len(text) + i] = after[i]
        /\ \A y : Without(longer, y) <=> Without(text, y) /\ Without(after, y)
  <2>1. /\ text \o after \in Seq(S) /\ Len(text \o after) = Len(text) + Len(after)
        /\ \A i \in 1 .. Len(text) : (text \o after)[i] = text[i]
        /\ \A i \in 1 .. Len(after) : (text \o after)[Len(text) + i] = after[i]
    BY WithoutBoth
  <2>2. \A y : Without(text \o after, y) <=> Without(text, y) /\ Without(after, y)
    BY WithoutBoth
  <2> QED BY <2>1, <2>2
<1>6. \A y : TeamsWithout(more, y) => TeamsWithout(teams, y) /\ Without(team, y)
  <2>1. ASSUME NEW y, TeamsWithout(more, y) PROVE TeamsWithout(teams, y) /\ Without(team, y)
    <3>1. \A i \in 1 .. Len(teams) : i \in 1 .. Len(more)
      BY <1>1
    <3>2. Len(teams) + 1 \in 1 .. Len(more)
      BY <1>1, <1>2
    <3>3. \A i \in 1 .. Len(more) : Without(more[i], y)
      BY <2>1 DEF TeamsWithout
    <3>4. Without(team, y)
      BY <1>1, <3>2, <3>3
    <3>5. \A i \in 1 .. Len(teams) : Without(teams[i], y)
      BY <1>1, <3>1, <3>3
    <3> QED BY <3>4, <3>5 DEF TeamsWithout
  <2> QED BY <2>1
<1>7. ASSUME TeamsWithout(more, sep) PROVE Split(longer, sep) = more
  <2>1. Split(text, sep) = teams /\ Without(team, sep)
    BY <1>6, <1>7 DEF JoinedTo
  <2>2. Split(text \o (<<sep>> \o team), sep) = Append(Split(text, sep), team)
    BY <2>1, SplitAt
  <2> QED BY <1>1, <1>3, <1>4, <1>5, <2>1, <2>2
<1>8. ASSUME x # sep, TeamsWithout(more, x) PROVE Without(longer, x)
  <2>1. Without(text, x) /\ Without(team, x)
    BY <1>6, <1>8 DEF JoinedTo
  <2>2. Without(one, x)
    BY <1>3, <1>8 DEF Without
  <2> QED BY <1>4, <1>5, <2>1, <2>2
<1>9. \A y : First(text, y) => First(longer, y)
  <2> TAKE y
  <2> HAVE First(text, y)
  <2>1. 1 \in 1 .. Len(text) /\ text[1] = y /\ Len(after) \in Nat
    BY DEF First
  <2> QED BY <1>5, <2>1 DEF First
<1>10. text = <<>> => First(longer, sep)
  <2> HAVE text = <<>>
  <2>1. Len(text) = 0 /\ 1 \in 1 .. Len(after)
    BY <1>4
  <2>2. longer[0 + 1] = after[1]
    BY <1>5, <2>1
  <2> QED BY <1>4, <1>5, <2>1, <2>2 DEF First
<1>11. more[1] = teams[1]
  BY <1>1, <1>2
<1>12. JoinedTo(more, longer, sep, x)
  BY <1>7, <1>8, <1>9, <1>10, <1>11 DEF JoinedTo
<1> QED BY <1>1, <1>3, <1>4, <1>5, <1>12

\* Teams are joined to a text that is split into them.
LEMMA TeamsJoined ==
  ASSUME NEW S, NEW teams \in Seq(Seq(S)), teams # <<>>, NEW sep \in S, NEW x
  PROVE  Joined(teams, sep) \in Seq(S) /\ JoinedTo(teams, Joined(teams, sep), sep, x)
<1> DEFINE Good(ts) == Joined(ts, sep) \in Seq(S) /\ JoinedTo(ts, Joined(ts, sep), sep, x)
           T == {n \in Nat : \A ts \in Seq(Seq(S)) : Len(ts) = n + 1 => Good(ts)}
<1>1. 0 \in T
  <2> SUFFICES ASSUME NEW ts \in Seq(Seq(S)), Len(ts) = 1 PROVE Good(ts)
    OBVIOUS
  <2>1. PICK t \in Seq(S) : ts = <<t>>
    <3>1. PICK t \in Seq(S) : t = ts[1]
      <4>1. 1 \in 1 .. Len(ts)
        OBVIOUS
      <4>2. ts[1] \in Seq(S)
        BY <4>1, ElementOfSeq, Zenon
      <4> QED BY <4>2
    <3>2. PICK one \in Seq(Seq(S)) : one = <<t>> /\ Len(one) = 1 /\ one[1] = t
      BY Single
    <3>3. ts = one
      BY <3>1, <3>2, SeqEqual
    <3> QED BY <3>2, <3>3
  <2> QED BY <2>1, OneTeam
<1>2. ASSUME NEW n \in Nat, n \in T PROVE n + 1 \in T
  <2> SUFFICES ASSUME NEW ts \in Seq(Seq(S)), Len(ts) = (n + 1) + 1 PROVE Good(ts)
    OBVIOUS
  <2>1. PICK us \in Seq(Seq(S)), t \in Seq(S) : us = Front(ts) /\ t = Last(ts)
          /\ Len(us) = n + 1 /\ ts = Append(us, t)
    <3>1. ts # <<>>
      OBVIOUS
    <3>2. /\ Front(ts) \in Seq(Seq(S)) /\ Len(Front(ts)) = Len(ts) - 1
          /\ Last(ts) \in Seq(S) /\ ts = Append(Front(ts), Last(ts))
      BY <3>1, TakenApart
    <3> QED BY <3>2
  <2>2. us # <<>>
    BY <2>1
  <2>3. Good(us)
    BY <1>2, <2>1
  <2>4. Joined(ts, sep) = Joined(us, sep) \o (<<sep>> \o t)
    <3>1. Joined(Append(us, t), sep) = Joined(us, sep) \o (<<sep>> \o t)
      <4>1. us # <<>> => JoinsOneMore(us, t, sep)
        BY JoinGrows, Zenon
      <4> QED BY <2>2, <4>1 DEF JoinsOneMore
    <3> QED BY <2>1, <3>1
  <2>5. JoinedTo(ts, Joined(us, sep) \o (<<sep>> \o t), sep, x)
    BY <2>1, <2>2, <2>3, OneTeamMore
  <2>6. Joined(us, sep) \o (<<sep>> \o t) \in Seq(S)
    <3>1. PICK one \in Seq(S) : one = <<sep>>
      BY Single
    <3>2. one \o t \in Seq(S)
      OBVIOUS
    <3>3. Joined(us, sep) \o (one \o t) \in Seq(S)
      BY <2>3, <3>2
    <3> QED BY <3>1, <3>3
  <2> QED BY <2>4, <2>5, <2>6
<1>3. PICK n \in Nat : Len(teams) = n + 1
  <2>1. Len(teams) - 1 \in Nat /\ Len(teams) = (Len(teams) - 1) + 1
    BY EmptySeq
  <2> QED BY <2>1
<1>4. n \in T
  <2> HIDE DEF T
  <2> QED BY <1>1, <1>2, AllNumbers
<1> QED BY <1>3, <1>4

-----------------------------------------------------------------------------
(* Paths and ids in a text.                                                *)

\* What is assumed of tokens, directories, teams and kinds.
LEMMA SlashAndDot ==
  /\ "/" \in Token /\ "." \in Token /\ "?" \in Token /\ "/" # "." /\ "/" # "?" /\ "." # "?"
  /\ \A p \in Directories : p \in Text /\ p # <<>> /\ Head(p) = "/" /\ (Last(p) = "/" => p = Root)
<1>1. /\ {"/", "."} \subseteq Token /\ \A p \in Directories : p \in Text /\ IsPath(p)
  BY PathsAssumption, Zenon
<1> QED BY <1>1, Tokens DEF IsPath

\* The last slash, and what is not a path.
LEMMA SlashIs ==
  ASSUME NEW text \in Text
  PROVE  /\ Without(text, "/") => Slash(text) = 0
         /\ \A s \in 1 .. Len(text) :
              text[s] = "/" /\ (\A i \in s + 1 .. Len(text) : text[i] # "/") => Slash(text) = s
<1> DEFINE I == {i \in 1 .. Len(text) : text[i] = "/"}
<1>1. Slash(text) = IF I # {} THEN Max(I) ELSE 0
  BY DEF Slash, SelectLastInSeq
<1>2. Without(text, "/") => I = {}
  BY DEF Without
<1>3. ASSUME NEW s \in 1 .. Len(text), text[s] = "/", \A i \in s + 1 .. Len(text) : text[i] # "/"
      PROVE  Slash(text) = s
  <2>0. Len(text) \in Nat
    BY DEF Text
  <2>1. s \in I /\ \A i \in I : i <= s
    <3>1. ASSUME NEW i \in I, ~(i <= s) PROVE FALSE
      <4>1. i \in s + 1 .. Len(text) /\ text[i] = "/"
        BY <2>0, <3>1
      <4> QED BY <1>3, <4>1
    <3> QED BY <1>3, <3>1
  <2>2. I \subseteq Nat
    OBVIOUS
  <2> HIDE DEF I
  <2>3. Max(I) \in I /\ \A i \in I : Max(I) >= i
    <3>1. \E m \in I : \A i \in I : m >= i
      BY <2>1, <2>2
    <3> QED BY <3>1, Zenon DEF Max
  <2>4. PICK m \in Nat : m = Max(I) /\ m <= s /\ m >= s
    BY <2>1, <2>2, <2>3
  <2>5. Max(I) = s
    BY <2>4
  <2> QED BY <1>1, <2>1, <2>5
<1> HIDE DEF I
<1> QED BY <1>1, <1>2, <1>3

\* The first dot after the last slash, and what is no event.
LEMMA EventStripped ==
  ASSUME NEW text \in Text
  PROVE  /\ \A d \in Slash(text) + 1 .. Len(text) :
              /\ Slash(text) \in 1 .. Len(text) /\ text[d] = "."
              /\ \A i \in Slash(text) + 1 .. d - 1 : text[i] # "."
              => StripEvent(text) = [path |-> SubSeq(text, 1, d - 1), kind |-> Rest(text, d)]
         /\ Slash(text) = 0 => StripEvent(text) = None
         /\ (\A i \in Slash(text) + 1 .. Len(text) : text[i] # ".") => StripEvent(text) = None
<1> DEFINE I == {i \in Slash(text) + 1 .. Len(text) : text[i] = "."}
<1>1. StripEvent(text) = IF Slash(text) = 0 \/ I = {} THEN None
        ELSE [path |-> SubSeq(text, 1, Min(I) - 1), kind |-> Rest(text, Min(I))]
  BY DEF StripEvent
<1>2. Len(text) \in Nat
  BY DEF Text
<1>3. ASSUME NEW d \in Slash(text) + 1 .. Len(text), Slash(text) \in 1 .. Len(text), text[d] = ".",
             \A i \in Slash(text) + 1 .. d - 1 : text[i] # "."
      PROVE  StripEvent(text) = [path |-> SubSeq(text, 1, d - 1), kind |-> Rest(text, d)]
  <2>1. PICK s \in 1 .. Len(text) : s = Slash(text)
    BY <1>3
  <2>2. d \in I /\ \A i \in I : d <= i
    <3>1. ASSUME NEW i \in I, ~(d <= i) PROVE FALSE
      <4>1. i \in s + 1 .. d - 1 /\ text[i] = "."
        BY <1>2, <2>1, <3>1
      <4> QED BY <1>3, <2>1, <4>1
    <3> QED BY <1>3, <3>1
  <2>3. I \subseteq Nat
    BY <1>2, <2>1
  <2> HIDE DEF I
  <2>4. Min(I) \in I /\ \A i \in I : Min(I) <= i
    BY <2>2, Zenon DEF Min
  <2>5. PICK m \in Nat : m = Min(I) /\ m <= d /\ d <= m
    BY <2>2, <2>3, <2>4
  <2>6. Min(I) = d
    BY <1>2, <2>1, <2>5
  <2>7. Slash(text) # 0 /\ I # {}
    BY <2>1, <2>2
  <2> QED BY <1>1, <2>6, <2>7
<1>4. (\A i \in Slash(text) + 1 .. Len(text) : text[i] # ".") => I = {}
  OBVIOUS
<1> HIDE DEF I
<1> QED BY <1>1, <1>3, <1>4

\* The text of an event: what is above it, its name and its kind.
Laid(text, base, name, kind) ==
  /\ Len(text) = Len(base) + Len(name) + Len(kind) + 2
  /\ \A i \in 1 .. Len(base) : text[i] = base[i]
  /\ text[Len(base) + 1] = "/"
  /\ \A i \in 1 .. Len(name) : text[(Len(base) + 1) + i] = name[i]
  /\ text[Len(base) + Len(name) + 2] = "."
  /\ \A i \in 1 .. Len(kind) : text[(Len(base) + Len(name) + 2) + i] = kind[i]

\* As they are put together.
EventText(name, kind) == Root \o name \o <<".">> \o kind

\* The text of an event below a base is laid out as it should.
LEMMA LaidOut ==
  ASSUME NEW base \in Text, NEW name \in Text, NEW kind \in Text
  PROVE  /\ EventText(name, kind) \in Text
         /\ base \o EventText(name, kind) \in Text
         /\ Laid(base \o EventText(name, kind), base, name, kind)
<1>0. base \in Seq(Token) /\ name \in Seq(Token) /\ kind \in Seq(Token)
  BY DEF Text
<1>1. PICK slash \in Seq(Token) : slash = Root /\ Len(slash) = 1 /\ slash[1] = "/"
  BY SlashAndDot, Single DEF Root
<1>2. PICK dot \in Seq(Token) : dot = <<".">> /\ Len(dot) = 1 /\ dot[1] = "."
  BY SlashAndDot, Single
<1> DEFINE b == Len(base)
           n == Len(name)
           k == Len(kind)
<1>3. b \in Nat /\ n \in Nat /\ k \in Nat
  BY <1>0
<1>4. PICK u \in Seq(Token) : /\ u = slash \o name /\ Len(u) = 1 + n /\ u[1] = "/"
                              /\ \A i \in 1 .. n : u[1 + i] = name[i]
  <2>1. /\ slash \o name \in Seq(Token) /\ Len(slash \o name) = Len(slash) + Len(name)
        /\ \A i \in 1 .. Len(slash) : (slash \o name)[i] = slash[i]
        /\ \A i \in 1 .. Len(name) : (slash \o name)[Len(slash) + i] = name[i]
    BY <1>0, WithoutBoth
  <2>2. (slash \o name)[1] = "/"
    BY <1>1, <2>1
  <2> QED BY <1>1, <2>1, <2>2
<1>5. PICK v \in Seq(Token) : /\ v = u \o dot /\ Len(v) = n + 2 /\ v[n + 2] = "."
                              /\ \A i \in 1 .. n + 1 : v[i] = u[i]
  <2>1. /\ u \o dot \in Seq(Token) /\ Len(u \o dot) = Len(u) + 1
        /\ \A i \in 1 .. Len(u) : (u \o dot)[i] = u[i]
        /\ \A i \in 1 .. 1 : (u \o dot)[Len(u) + i] = dot[i]
    BY <1>2, WithoutBoth
  <2>2. (u \o dot)[Len(u) + 1] = "." /\ Len(u) + 1 = n + 2 /\ Len(u) = n + 1
    BY <1>2, <1>3, <1>4, <2>1
  <2> QED BY <2>1, <2>2
<1>6. PICK w \in Seq(Token) : /\ w = v \o kind /\ Len(w) = n + k + 2
                              /\ \A i \in 1 .. n + 2 : w[i] = v[i]
                              /\ \A i \in 1 .. k : w[(n + 2) + i] = kind[i]
  <2>1. /\ v \o kind \in Seq(Token) /\ Len(v \o kind) = Len(v) + k
        /\ \A i \in 1 .. Len(v) : (v \o kind)[i] = v[i]
        /\ \A i \in 1 .. k : (v \o kind)[Len(v) + i] = kind[i]
    BY <1>0, WithoutBoth
  <2>2. Len(v) = n + 2 /\ Len(v) + k = n + k + 2
    BY <1>3, <1>5
  <2> QED BY <2>1, <2>2
<1>7. PICK text \in Seq(Token) : /\ text = base \o w /\ Len(text) = b + n + k + 2
                                 /\ \A i \in 1 .. b : text[i] = base[i]
                                 /\ \A i \in 1 .. n + k + 2 : text[b + i] = w[i]
  <2>1. /\ base \o w \in Seq(Token) /\ Len(base \o w) = b + Len(w)
        /\ \A i \in 1 .. b : (base \o w)[i] = base[i]
        /\ \A i \in 1 .. Len(w) : (base \o w)[b + i] = w[i]
    BY <1>0, WithoutBoth
  <2>2. b + Len(w) = b + n + k + 2
    BY <1>3, <1>6
  <2> QED BY <1>6, <2>1, <2>2
<1> HIDE DEF b, n, k
<1>8. text[b + 1] = "/"
  <2>1. 1 \in 1 .. n + k + 2 /\ 1 \in 1 .. n + 2 /\ 1 \in 1 .. n + 1
    BY <1>3
  <2> QED BY <1>4, <1>5, <1>6, <1>7, <2>1
<1>9. ASSUME NEW i \in 1 .. n PROVE text[(b + 1) + i] = name[i]
  <2>1. PICK j \in 1 .. n + 1 : /\ j = 1 + i /\ (b + 1) + i = b + j
                                /\ j \in 1 .. n + k + 2 /\ j \in 1 .. n + 2
    <3>1. 1 + i \in 1 .. n + 1 /\ 1 + i \in 1 .. n + k + 2 /\ 1 + i \in 1 .. n + 2
      BY <1>3
    <3>2. (b + 1) + i = b + (1 + i)
      BY <1>3
    <3> QED BY <3>1, <3>2
  <2>2. text[b + j] = w[j]
    BY <1>7, <2>1
  <2>3. w[j] = v[j] /\ v[j] = u[j]
    BY <1>5, <1>6, <2>1
  <2>4. u[j] = name[i]
    BY <1>4, <2>1
  <2> QED BY <2>1, <2>2, <2>3, <2>4
<1>10. text[b + n + 2] = "."
  <2>1. n + 2 \in 1 .. n + k + 2 /\ n + 2 \in 1 .. n + 2 /\ b + n + 2 = b + (n + 2)
    BY <1>3
  <2> QED BY <1>5, <1>6, <1>7, <2>1
<1>11. ASSUME NEW i \in 1 .. k PROVE text[(b + n + 2) + i] = kind[i]
  <2>1. (n + 2) + i \in 1 .. n + k + 2 /\ (b + n + 2) + i = b + ((n + 2) + i)
    BY <1>3
  <2> QED BY <1>6, <1>7, <2>1
<1>12. Laid(text, base, name, kind)
  BY <1>7, <1>8, <1>9, <1>10, <1>11 DEF Laid, b, n, k
<1>13. w = EventText(name, kind)
  BY <1>1, <1>2, <1>4, <1>5, <1>6 DEF EventText
<1> QED BY <1>7, <1>12, <1>13 DEF Text

\* The id that is made of a name and a kind.
IdOf(name, kind) == [e \in Ids |-> TryFrom(e)][[teams |-> Split(name, "_"), kind |-> kind]]

\* What is said of an event whose text is known.
LEMMA LaidTaken ==
  ASSUME NEW text \in Text, NEW base \in Text, NEW name \in Text, NEW kind \in Text,
         Laid(text, base, name, kind),
         Without(name, "/"), Without(name, "."), Without(kind, "/")
  PROVE  /\ Slash(text) = Len(base) + 1 /\ \A i \in Len(base) + 2 .. Len(text) : text[i] # "/"
         /\ StripEvent(text) = [path |-> SubSeq(text, 1, Len(base) + Len(name) + 1), kind |-> kind]
         /\ StripEvent(text) # None
         /\ EventIdOf(text) = IdOf(name, kind)
<1> DEFINE b == Len(base)
           n == Len(name)
           k == Len(kind)
<1>1. /\ Len(text) = b + n + k + 2
      /\ \A i \in 1 .. b : text[i] = base[i]
      /\ text[b + 1] = "/"
      /\ \A i \in 1 .. n : text[(b + 1) + i] = name[i]
      /\ text[b + n + 2] = "."
      /\ \A i \in 1 .. k : text[(b + n + 2) + i] = kind[i]
  BY DEF Laid
<1>2. /\ \A i \in 1 .. n : name[i] # "/" /\ name[i] # "."
      /\ \A i \in 1 .. k : kind[i] # "/"
  BY DEF Without
<1>3. b \in Nat /\ n \in Nat /\ k \in Nat /\ text \in Seq(Token) /\ name \in Seq(Token) /\ kind \in Seq(Token)
  BY DEF Text
<1> HIDE DEF b, n, k
<1>4. \A i \in (b + 1) + 1 .. b + n + 1 : text[i] # "/" /\ text[i] # "."
  <2> TAKE i \in (b + 1) + 1 .. b + n + 1
  <2>1. PICK j \in 1 .. n : i = (b + 1) + j
    <3>1. i - (b + 1) \in 1 .. n /\ i = (b + 1) + (i - (b + 1))
      BY <1>3
    <3> QED BY <3>1
  <2> QED BY <1>1, <1>2, <2>1
<1>5. \A i \in (b + n + 2) + 1 .. Len(text) : text[i] # "/"
  <2> TAKE i \in (b + n + 2) + 1 .. Len(text)
  <2>1. PICK j \in 1 .. k : i = (b + n + 2) + j
    <3>1. i - (b + n + 2) \in 1 .. k /\ i = (b + n + 2) + (i - (b + n + 2))
      BY <1>1, <1>3
    <3> QED BY <3>1
  <2> QED BY <1>1, <1>2, <2>1
<1>6. \A i \in (b + 1) + 1 .. Len(text) : text[i] # "/"
  <2> TAKE i \in (b + 1) + 1 .. Len(text)
  <2>1. \/ i \in (b + 1) + 1 .. b + n + 1 \/ i = b + n + 2 \/ i \in (b + n + 2) + 1 .. Len(text)
    BY <1>1, <1>3
  <2>2. text[b + n + 2] # "/"
    BY <1>1, SlashAndDot, Zenon
  <2> QED BY <1>4, <1>5, <2>1, <2>2
<1>7. Slash(text) = b + 1 /\ b + 1 \in 1 .. Len(text)
  <2>1. b + 1 \in 1 .. Len(text)
    BY <1>1, <1>3
  <2> QED BY <1>1, <1>6, <2>1, SlashIs
<1>8. PICK d \in Nat : d = b + n + 2
  BY <1>3
<1>9. StripEvent(text) = [path |-> SubSeq(text, 1, d - 1), kind |-> Rest(text, d)]
  <2>1. d \in Slash(text) + 1 .. Len(text)
    BY <1>1, <1>3, <1>7, <1>8
  <2>2. \A i \in Slash(text) + 1 .. d - 1 : text[i] # "."
    BY <1>3, <1>4, <1>7, <1>8
  <2>3. text[d] = "."
    BY <1>1, <1>8
  <2>4. /\ Slash(text) \in 1 .. Len(text) /\ text[d] = "."
        /\ \A i \in Slash(text) + 1 .. d - 1 : text[i] # "."
        => StripEvent(text) = [path |-> SubSeq(text, 1, d - 1), kind |-> Rest(text, d)]
    BY <2>1, EventStripped
  <2> QED BY <1>7, <2>2, <2>3, <2>4
<1>10. Rest(text, d) = kind
  <2>1. \A i \in d + 1 .. Len(text) : text[i] \in Token
    BY <1>3
  <2>2. /\ Rest(text, d) \in Seq(Token) /\ Len(Rest(text, d)) = k
        /\ \A i \in 1 .. k : Rest(text, d)[i] = text[d + i]
    BY <1>1, <1>3, <1>8, <2>1, SubSeqProperties DEF Rest
  <2>3. \A i \in 1 .. k : Rest(text, d)[i] = kind[i]
    BY <1>1, <1>8, <2>2
  <2> QED BY <1>3, <2>2, <2>3, SeqEqual DEF k
<1>11. PICK path \in Seq(Token) : /\ path = SubSeq(text, 1, d - 1) /\ Len(path) = b + n + 1
                                  /\ \A i \in 1 .. b + n + 1 : path[i] = text[i]
  <2>1. \A i \in 1 .. d - 1 : text[i] \in Token
    BY <1>1, <1>3, <1>8
  <2>2. /\ SubSeq(text, 1, d - 1) \in Seq(Token) /\ Len(SubSeq(text, 1, d - 1)) = b + n + 1
        /\ \A i \in 1 .. b + n + 1 : SubSeq(text, 1, d - 1)[i] = text[i]
    BY <1>3, <1>8, <2>1, SubSeqProperties
  <2> QED BY <2>2
<1>12. Slash(path) = b + 1
  <2>1. path \in Text
    BY DEF Text
  <2>2. b + 1 \in 1 .. Len(path) /\ path[b + 1] = "/"
    BY <1>1, <1>3, <1>11
  <2>3. \A i \in (b + 1) + 1 .. Len(path) : path[i] # "/"
    BY <1>3, <1>4, <1>11
  <2> QED BY <2>1, <2>2, <2>3, SlashIs
<1>13. Rest(path, b + 1) = name
  <2>1. \A i \in (b + 1) + 1 .. Len(path) : path[i] \in Token
    BY <1>3
  <2>2. /\ Rest(path, b + 1) \in Seq(Token) /\ Len(Rest(path, b + 1)) = n
        /\ \A i \in 1 .. n : Rest(path, b + 1)[i] = path[(b + 1) + i]
    BY <1>3, <1>11, <2>1, SubSeqProperties DEF Rest
  <2>3. \A i \in 1 .. n : Rest(path, b + 1)[i] = name[i]
    BY <1>1, <1>3, <1>11, <2>2
  <2> QED BY <1>3, <2>2, <2>3, SeqEqual DEF n
<1>14. StripEvent(text) = [path |-> path, kind |-> kind] /\ StripEvent(text) # None
  <2>1. path \in Text
    BY DEF Text
  <2>2. [path |-> path, kind |-> kind] \in [path : Text, kind : Text]
    BY <2>1
  <2>3. None \notin Text \union [path : Text, kind : Text]
    BY ErrorsAreNoIds, Zenon
  <2> QED BY <1>9, <1>10, <1>11, <2>2, <2>3
<1>15. EventIdOf(text) = IdOf(name, kind)
  <2>1. StripEvent(text).path = path /\ StripEvent(text).kind = kind
    BY <1>14
  <2>2. Rest(path, Slash(path)) = name
    BY <1>12, <1>13
  <2> QED BY <1>14, <2>1, <2>2, Zenon DEF EventIdOf, IdOf
<1>16. d - 1 = b + n + 1
  BY <1>3, <1>8
<1>17. Slash(text) = Len(base) + 1 /\ \A i \in Len(base) + 2 .. Len(text) : text[i] # "/"
  <2>1. (b + 1) + 1 = b + 2
    BY <1>3
  <2> QED BY <1>6, <1>7, <2>1 DEF b
<1>18. StripEvent(text) = [path |-> SubSeq(text, 1, Len(base) + Len(name) + 1), kind |-> kind]
  BY <1>9, <1>10, <1>16 DEF b, n
<1> QED BY <1>14, <1>15, <1>17, <1>18

\* The last name of an event that comes in, and the teams it is split into.
LEMMA EventNames ==
  ASSUME NEW e \in EventId
  PROVE  /\ e.teams \in Seq(Text) /\ e.teams # <<>> /\ e.kind \in Text /\ Without(e.kind, "/")
         /\ TeamsText(e) \in Text /\ Without(TeamsText(e), "/") /\ Without(TeamsText(e), ".")
         /\ Split(TeamsText(e), "_") = e.teams
         /\ e.teams[1] # <<>> => First(TeamsText(e), e.teams[1][1])
         /\ e.teams[1] = <<>> => TeamsText(e) = <<>> \/ First(TeamsText(e), "_")
<1>0. PICK sep \in Token : sep = "_" /\ sep # "/" /\ sep # "."
  BY Underscore, Zenon
<1>1. sep # "/" /\ sep # "."
  BY <1>0, Zenon
<1>2. PICK teams \in Seq(Seq(Token)) : teams = e.teams /\ teams \in TeamTexts /\ teams # <<>>
  <2>1. e.teams \in TeamTexts
    BY Zenon DEF EventId
  <2> QED BY <2>1, TextsComeIn, Zenon DEF Text
<1>3. TeamsText(e) = Joined(teams, sep)
  BY <1>0, <1>2, Zenon DEF TeamsText, Joined, Parts
<1>4. \A i \in DOMAIN teams : Range(teams[i]) \intersect {"/", ".", sep} = {}
  BY <1>0, <1>2, PathsAssumption, Zenon
<1>5. TeamsWithout(teams, "/") /\ TeamsWithout(teams, ".") /\ TeamsWithout(teams, sep)
  <2> SUFFICES ASSUME NEW i \in 1 .. Len(teams), NEW j \in 1 .. Len(teams[i])
               PROVE  teams[i][j] \notin {"/", ".", sep}
    BY DEF TeamsWithout, Without
  <2>1. teams[i] \in Seq(Token)
    BY ElementOfSeq, Zenon
  <2>2. teams[i][j] \in Range(teams[i])
    BY <2>1 DEF Range
  <2> QED BY <1>4, <2>2
<1>6. /\ Joined(teams, sep) \in Seq(Token)
      /\ JoinedTo(teams, Joined(teams, sep), sep, "/") /\ JoinedTo(teams, Joined(teams, sep), sep, ".")
  BY <1>2, TeamsJoined
<1>7. /\ Split(Joined(teams, sep), sep) = teams
      /\ Without(Joined(teams, sep), "/") /\ Without(Joined(teams, sep), ".")
      /\ teams[1] # <<>> => First(Joined(teams, sep), teams[1][1])
      /\ teams[1] = <<>> => Joined(teams, sep) = <<>> \/ First(Joined(teams, sep), sep)
  BY <1>1, <1>5, <1>6 DEF JoinedTo
<1>8. e.kind \in Text /\ Without(e.kind, "/")
  <2>1. e.kind \in KindTexts
    BY Zenon DEF EventId
  <2>2. "/" \notin Range(e.kind)
    BY <2>1, PathsAssumption, Zenon
  <2>3. e.kind \in Text
    BY <2>1, TextsComeIn
  <2> QED BY <2>2, <2>3 DEF Range, Without, Text
<1>9. e.teams \in Seq(Text) /\ e.teams # <<>> /\ TeamsText(e) \in Text
  BY <1>2, <1>3, <1>6, Zenon DEF Text
<1> QED BY <1>0, <1>2, <1>3, <1>7, <1>8, <1>9, Zenon

\* Whether the last name starts with a question mark is for the first team to say.
LEMMA NameBegins ==
  ASSUME NEW e \in EventId
  PROVE  Head(e.teams[1] \o <<".">>) = "?" <=> First(TeamsText(e), "?")
<1>0. PICK sep \in Token : sep = "_" /\ sep # "?"
  BY Underscore, Zenon
<1>1. sep # "?"
  BY <1>0, Zenon
<1>2. PICK team \in Seq(Token) : team = e.teams[1]
  <2>1. e.teams \in Seq(Text) /\ e.teams # <<>>
    BY EventNames, Zenon
  <2>2. e.teams[1] \in Text
    BY <2>1
  <2> QED BY <2>2 DEF Text
<1>3. /\ team # <<>> => First(TeamsText(e), team[1])
      /\ team = <<>> => TeamsText(e) = <<>> \/ First(TeamsText(e), sep)
  BY <1>0, <1>2, EventNames, Zenon
<1>4. PICK dot \in Seq(Token) : dot = <<".">> /\ Len(dot) = 1 /\ dot[1] = "."
  BY SlashAndDot, Single
<1>5. Head(team \o dot) = IF team = <<>> THEN "." ELSE team[1]
  <2>1. /\ team \o dot \in Seq(Token) /\ Len(team \o dot) = Len(team) + Len(dot)
        /\ \A i \in 1 .. Len(team) : (team \o dot)[i] = team[i]
        /\ \A i \in 1 .. Len(dot) : (team \o dot)[Len(team) + i] = dot[i]
    BY WithoutBoth
  <2>2. CASE team = <<>>
    BY <1>4, <2>1, <2>2
  <2>3. CASE team # <<>>
    <3>1. 1 \in 1 .. Len(team)
      BY <2>3, EmptySeq
    <3> QED BY <1>4, <2>1, <2>3, <3>1
  <2> QED BY <2>2, <2>3
<1>6. CASE team = <<>>
  <2>1. ~First(TeamsText(e), "?")
    BY <1>1, <1>3, <1>6, EmptySeq DEF First
  <2>2. Head(team \o dot) # "?"
    BY <1>5, <1>6, SlashAndDot, Zenon
  <2> QED BY <1>2, <1>4, <2>1, <2>2
<1>7. CASE team # <<>>
  <2>1. First(TeamsText(e), "?") <=> team[1] = "?"
    BY <1>3, <1>7 DEF First
  <2> QED BY <1>2, <1>4, <1>5, <1>7, <2>1
<1> QED BY <1>6, <1>7

\* An event that comes in is found again in a text that is laid out like it.
LEMMA LaidIsEvent ==
  ASSUME NEW e \in EventId, NEW text \in Text, NEW base \in Text,
         Laid(text, base, TeamsText(e), e.kind)
  PROVE  /\ Slash(text) = Len(base) + 1 /\ \A i \in Len(base) + 2 .. Len(text) : text[i] # "/"
         /\ StripEvent(text) =
              [path |-> SubSeq(text, 1, Len(base) + Len(TeamsText(e)) + 1), kind |-> e.kind]
         /\ StripEvent(text) # None
         /\ EventIdOf(text) = TryFrom(e)
<1>1. /\ TeamsText(e) \in Text /\ Without(TeamsText(e), "/") /\ Without(TeamsText(e), ".")
      /\ e.kind \in Text /\ Without(e.kind, "/") /\ e.teams \in Seq(Text)
      /\ Split(TeamsText(e), "_") = e.teams
  BY EventNames, Zenon
<1>2. PICK name \in Text, kind \in Text :
        /\ name = TeamsText(e) /\ kind = e.kind /\ Laid(text, base, name, kind)
        /\ Without(name, "/") /\ Without(name, ".") /\ Without(kind, "/")
  BY <1>1, Zenon
<1>3. /\ Slash(text) = Len(base) + 1 /\ \A i \in Len(base) + 2 .. Len(text) : text[i] # "/"
      /\ StripEvent(text) = [path |-> SubSeq(text, 1, Len(base) + Len(name) + 1), kind |-> kind]
      /\ StripEvent(text) # None
      /\ EventIdOf(text) = IdOf(name, kind)
  BY <1>2, LaidTaken
<1>4. e \in Ids /\ e = [teams |-> e.teams, kind |-> e.kind]
  <2>1. e = [teams |-> e.teams, kind |-> e.kind]
    BY DEF EventId
  <2>2. e.teams \in Seq(Text) /\ e.kind \in Text
    BY <1>1, Zenon
  <2> QED BY <2>1, <2>2 DEF Ids
<1>5. [teams |-> Split(name, "_"), kind |-> kind] = e
  BY <1>1, <1>2, <1>4, Zenon
<1>6. [x \in Ids |-> TryFrom(x)][e] = TryFrom(e)
  BY <1>4, Zenon
<1>7. EventIdOf(text) = TryFrom(e)
  BY <1>3, <1>5, <1>6, Zenon DEF IdOf
<1> QED BY <1>2, <1>3, <1>7, Zenon

\* What stands before the last slash of an event in a directory.
Base(dir) == IF dir = Root THEN <<>> ELSE dir

\* A path that is put below a directory.
LEMMA PrefixedPath ==
  ASSUME NEW dir \in Text, NEW path \in Text, path # Root
  PROVE  Base(dir) \in Text /\ PrefixPath(path, dir) = Base(dir) \o path
<1>1. <<>> \o path = path /\ <<>> \in Text
  BY ConcatEmptySeq DEF Text
<1> QED BY <1>1, Zenon DEF PrefixPath, Base

\* The text of an event's id.
LEMMA IdTexts ==
  ASSUME NEW e \in EventId, NEW dir \in Directories
  PROVE  /\ Base(dir) \in Text /\ IdText(dir, e) \in Text
         /\ Laid(IdText(dir, e), Base(dir), TeamsText(e), e.kind)
<1>1. TeamsText(e) \in Text /\ e.kind \in Text /\ dir \in Text
  BY EventNames, SlashAndDot, Zenon
<1>2. PICK path \in Text : path = EventText(TeamsText(e), e.kind)
  BY <1>1, LaidOut
<1>3. path # Root
  <2>1. PICK none \in Text : none = <<>> /\ none \o path = path
    <3>1. <<>> \in Text /\ <<>> \o path = path
      BY ConcatEmptySeq DEF Text
    <3> QED BY <3>1, Zenon
  <2>2. PICK name \in Text, kind \in Text :
          name = TeamsText(e) /\ kind = e.kind /\ path = EventText(name, kind)
    BY <1>1, <1>2
  <2>3. Laid(none \o EventText(name, kind), none, name, kind)
    BY LaidOut
  <2>4. Len(path) = Len(none) + Len(name) + Len(kind) + 2
    BY <2>1, <2>2, <2>3 DEF Laid
  <2>5. Len(path) # 1
    BY <2>4 DEF Text
  <2>6. Len(Root) = 1
    BY Single, SlashAndDot DEF Root
  <2> QED BY <2>5, <2>6
<1>4. IdText(dir, e) = PrefixPath(path, dir)
  BY <1>2, Zenon DEF IdText, EventText
<1>5. Base(dir) \in Text /\ IdText(dir, e) = Base(dir) \o path
  BY <1>1, <1>3, <1>4, PrefixedPath
<1>6. /\ Base(dir) \o EventText(TeamsText(e), e.kind) \in Text
      /\ Laid(Base(dir) \o EventText(TeamsText(e), e.kind), Base(dir), TeamsText(e), e.kind)
  BY <1>1, <1>5, LaidOut
<1> QED BY <1>2, <1>5, <1>6, Zenon

-----------------------------------------------------------------------------
(* Prefixes.                                                               *)

\* What is left of a text.
LEMMA RestOf ==
  ASSUME NEW text \in Text, NEW n \in 0 .. Len(text)
  PROVE  /\ Rest(text, n) \in Text /\ Len(Rest(text, n)) = Len(text) - n
         /\ \A i \in 1 .. Len(text) - n : Rest(text, n)[i] = text[n + i]
<1>1. text \in Seq(Token) /\ Len(text) \in Nat
  BY DEF Text
<1>2. \A i \in n + 1 .. Len(text) : text[i] \in Token
  BY <1>1
<1>3. /\ Rest(text, n) \in Seq(Token) /\ Len(Rest(text, n)) = Len(text) - n
      /\ \A i \in 1 .. Len(text) - n : Rest(text, n)[i] = text[n + i]
  BY <1>1, <1>2, SubSeqProperties DEF Rest
<1> QED BY <1>3 DEF Text

\* And of how a text begins.
LEMMA StartOf ==
  ASSUME NEW text \in Text, NEW n \in 0 .. Len(text)
  PROVE  /\ SubSeq(text, 1, n) \in Text /\ Len(SubSeq(text, 1, n)) = n
         /\ \A i \in 1 .. n : SubSeq(text, 1, n)[i] = text[i]
<1>1. text \in Seq(Token) /\ Len(text) \in Nat
  BY DEF Text
<1>2. \A i \in 1 .. n : text[i] \in Token
  BY <1>1
<1>3. /\ SubSeq(text, 1, n) \in Seq(Token) /\ Len(SubSeq(text, 1, n)) = n
      /\ \A i \in 1 .. n : SubSeq(text, 1, n)[i] = text[i]
  BY <1>1, <1>2, SubSeqProperties
<1> QED BY <1>3 DEF Text

\* One text begins with another where they have the same tokens.
LEMMA PrefixByTokens ==
  ASSUME NEW prefix \in Text, NEW text \in Text
  PROVE  IsPrefix(prefix, text) <=>
           Len(prefix) <= Len(text) /\ \A i \in 1 .. Len(prefix) : prefix[i] = text[i]
<1>1. prefix \in Seq(Token) /\ text \in Seq(Token) /\ Len(prefix) \in Nat /\ Len(text) \in Nat
  BY DEF Text
<1>2. CASE ~(Len(prefix) <= Len(text))
  BY <1>2, Zenon DEF IsPrefix
<1>3. CASE Len(prefix) <= Len(text)
  <2>1. PICK n \in Nat : n = Len(prefix) /\ n \in 0 .. Len(prefix) /\ n \in 0 .. Len(text)
    BY <1>1, <1>3
  <2>2. PICK a \in Seq(Token) : /\ a = SubSeq(prefix, 1, n) /\ Len(a) = n
                                /\ \A i \in 1 .. n : a[i] = prefix[i]
    BY <2>1, StartOf DEF Text
  <2>3. PICK b \in Seq(Token) : /\ b = SubSeq(text, 1, n) /\ Len(b) = n
                                /\ \A i \in 1 .. n : b[i] = text[i]
    BY <2>1, StartOf DEF Text
  <2>4. a = b <=> \A i \in 1 .. n : prefix[i] = text[i]
    <3>1. a = b => \A i \in 1 .. n : prefix[i] = text[i]
      BY <2>2, <2>3
    <3>2. ASSUME \A i \in 1 .. n : prefix[i] = text[i] PROVE a = b
      <4>1. \A i \in 1 .. Len(a) : a[i] = b[i]
        BY <2>2, <2>3, <3>2
      <4> QED BY <2>2, <2>3, <4>1, SeqEqual
    <3> QED BY <3>1, <3>2
  <2>5. IsPrefix(prefix, text) <=> a = b
    BY <1>3, <2>1, <2>2, <2>3, Zenon DEF IsPrefix
  <2> QED BY <1>3, <2>1, <2>4, <2>5
<1> QED BY <1>2, <1>3

\* A prefix is taken off what it was put in front of, and put back.
LEMMA PrefixOff ==
  ASSUME NEW prefix \in Text, NEW text \in Text
  PROVE  /\ prefix \o text \in Text /\ IsPrefix(prefix, prefix \o text)
         /\ Rest(prefix \o text, Len(prefix)) = text
         /\ IsPrefix(prefix, text) => prefix \o Rest(text, Len(prefix)) = text
<1>1. prefix \in Seq(Token) /\ text \in Seq(Token) /\ Len(prefix) \in Nat /\ Len(text) \in Nat
  BY DEF Text
<1>2. PICK both \in Text :
        /\ both = prefix \o text /\ Len(both) = Len(prefix) + Len(text)
        /\ \A i \in 1 .. Len(prefix) : both[i] = prefix[i]
        /\ \A i \in 1 .. Len(text) : both[Len(prefix) + i] = text[i]
  <2>1. /\ prefix \o text \in Seq(Token) /\ Len(prefix \o text) = Len(prefix) + Len(text)
        /\ \A i \in 1 .. Len(prefix) : (prefix \o text)[i] = prefix[i]
        /\ \A i \in 1 .. Len(text) : (prefix \o text)[Len(prefix) + i] = text[i]
    BY <1>1, WithoutBoth
  <2> QED BY <2>1 DEF Text
<1>3. IsPrefix(prefix, both)
  <2>1. Len(prefix) <= Len(both)
    BY <1>1, <1>2
  <2>2. \A i \in 1 .. Len(prefix) : prefix[i] = both[i]
    BY <1>2
  <2> QED BY <2>1, <2>2, PrefixByTokens
<1>4. Rest(both, Len(prefix)) = text
  <2>1. PICK left \in Seq(Token) :
          /\ left = Rest(both, Len(prefix)) /\ Len(left) = Len(text)
          /\ \A i \in 1 .. Len(text) : left[i] = both[Len(prefix) + i]
    <3>1. Len(prefix) \in 0 .. Len(both) /\ Len(both) - Len(prefix) = Len(text)
      BY <1>1, <1>2
    <3>2. /\ Rest(both, Len(prefix)) \in Text
          /\ Len(Rest(both, Len(prefix))) = Len(both) - Len(prefix)
          /\ \A i \in 1 .. Len(both) - Len(prefix) :
               Rest(both, Len(prefix))[i] = both[Len(prefix) + i]
      BY <3>1, RestOf
    <3> QED BY <3>1, <3>2 DEF Text
  <2>2. \A i \in 1 .. Len(left) : left[i] = text[i]
    BY <1>2, <2>1
  <2> QED BY <1>1, <2>1, <2>2, SeqEqual
<1>5. ASSUME IsPrefix(prefix, text) PROVE prefix \o Rest(text, Len(prefix)) = text
  <2>1. /\ Len(prefix) \in 0 .. Len(text)
        /\ \A i \in 1 .. Len(prefix) : prefix[i] = text[i]
    BY <1>1, <1>5, PrefixByTokens
  <2>2. PICK left \in Seq(Token) :
          /\ left = Rest(text, Len(prefix)) /\ Len(left) = Len(text) - Len(prefix)
          /\ \A i \in 1 .. Len(left) : left[i] = text[Len(prefix) + i]
    BY <2>1, RestOf DEF Text
  <2>3. PICK whole \in Seq(Token) :
          /\ whole = prefix \o left /\ Len(whole) = Len(text)
          /\ \A i \in 1 .. Len(prefix) : whole[i] = prefix[i]
          /\ \A i \in 1 .. Len(left) : whole[Len(prefix) + i] = left[i]
    <3>1. /\ prefix \o left \in Seq(Token) /\ Len(prefix \o left) = Len(prefix) + Len(left)
          /\ \A i \in 1 .. Len(prefix) : (prefix \o left)[i] = prefix[i]
          /\ \A i \in 1 .. Len(left) : (prefix \o left)[Len(prefix) + i] = left[i]
      BY <1>1, WithoutBoth
    <3>2. Len(prefix) + Len(left) = Len(text)
      BY <1>1, <2>2
    <3> QED BY <3>1, <3>2
  <2>4. ASSUME NEW i \in 1 .. Len(whole) PROVE whole[i] = text[i]
    <3>1. CASE i \in 1 .. Len(prefix)
      BY <2>1, <2>3, <3>1
    <3>2. CASE i \notin 1 .. Len(prefix)
      <4>1. PICK j \in 1 .. Len(left) : i = Len(prefix) + j
        <5>1. i - Len(prefix) \in 1 .. Len(left) /\ i = Len(prefix) + (i - Len(prefix))
          BY <1>1, <2>2, <2>3, <3>2
        <5> QED BY <5>1
      <4> QED BY <2>2, <2>3, <4>1
    <3> QED BY <3>1, <3>2
  <2> QED BY <1>1, <2>2, <2>3, <2>4, SeqEqual
<1> QED BY <1>2, <1>3, <1>4, <1>5

\* What is left of an event's text when the beginning of its directory is gone.
LEMMA LaidRest ==
  ASSUME NEW text \in Text, NEW base \in Text, NEW name \in Text, NEW kind \in Text,
         Laid(text, base, name, kind), NEW n \in 0 .. Len(base)
  PROVE  Rest(base, n) \in Text /\ Laid(Rest(text, n), Rest(base, n), name, kind)
<1>1. Len(base) \in Nat /\ Len(name) \in Nat /\ Len(kind) \in Nat
  BY DEF Text
<1>2. PICK b \in Nat, m \in Nat, k \in Nat :
        b = Len(base) - n /\ Len(base) = n + b /\ m = Len(name) /\ k = Len(kind)
  <2>1. Len(base) - n \in Nat /\ Len(base) = n + (Len(base) - n)
    BY <1>1
  <2> QED BY <1>1, <2>1
<1>3. n \in Nat
  BY <1>1
<1>4. PICK c \in Nat :
        /\ c = n + b
        /\ Len(text) = c + m + k + 2
        /\ \A i \in 1 .. c : text[i] = base[i]
        /\ text[c + 1] = "/"
        /\ \A i \in 1 .. m : text[(c + 1) + i] = name[i]
        /\ text[c + m + 2] = "."
        /\ \A i \in 1 .. k : text[(c + m + 2) + i] = kind[i]
  BY <1>1, <1>2 DEF Laid
<1>5. PICK left \in Text :
        /\ left = Rest(base, n) /\ Len(left) = b
        /\ \A i \in 1 .. b : left[i] = base[n + i]
  BY <1>2, RestOf
<1>6. PICK seen \in Text :
        /\ seen = Rest(text, n) /\ Len(seen) = b + m + k + 2
        /\ \A i \in 1 .. b + m + k + 2 : seen[i] = text[n + i]
  <2>1. n \in 0 .. Len(text) /\ Len(text) - n = b + m + k + 2
    BY <1>2, <1>3, <1>4
  <2>2. /\ Rest(text, n) \in Text /\ Len(Rest(text, n)) = Len(text) - n
        /\ \A i \in 1 .. Len(text) - n : Rest(text, n)[i] = text[n + i]
    BY <2>1, RestOf
  <2> QED BY <2>1, <2>2
<1>7. ASSUME NEW i \in 1 .. b PROVE seen[i] = left[i]
  <2>1. i \in 1 .. b + m + k + 2 /\ n + i \in 1 .. c
    BY <1>2, <1>3, <1>4
  <2> QED BY <1>4, <1>5, <1>6, <2>1
<1>8. seen[b + 1] = "/"
  <2>1. b + 1 \in 1 .. b + m + k + 2 /\ n + (b + 1) = c + 1
    BY <1>2, <1>3, <1>4
  <2> QED BY <1>4, <1>6, <2>1
<1>9. ASSUME NEW i \in 1 .. m PROVE seen[(b + 1) + i] = name[i]
  <2>1. (b + 1) + i \in 1 .. b + m + k + 2 /\ n + ((b + 1) + i) = (c + 1) + i
    BY <1>2, <1>3, <1>4
  <2> QED BY <1>4, <1>6, <2>1
<1>10. seen[b + m + 2] = "."
  <2>1. b + m + 2 \in 1 .. b + m + k + 2 /\ n + (b + m + 2) = c + m + 2
    BY <1>2, <1>3, <1>4
  <2> QED BY <1>4, <1>6, <2>1
<1>11. ASSUME NEW i \in 1 .. k PROVE seen[(b + m + 2) + i] = kind[i]
  <2>1. (b + m + 2) + i \in 1 .. b + m + k + 2 /\ n + ((b + m + 2) + i) = (c + m + 2) + i
    BY <1>2, <1>3, <1>4
  <2> QED BY <1>4, <1>6, <2>1
<1>12. Laid(seen, left, name, kind)
  BY <1>2, <1>5, <1>6, <1>7, <1>8, <1>9, <1>10, <1>11 DEF Laid
<1> QED BY <1>5, <1>6, <1>12

\* And when the prefix reaches beyond the last slash: there is no path any more.
LEMMA LaidBeyond ==
  ASSUME NEW text \in Text, NEW base \in Text, NEW name \in Text, NEW kind \in Text,
         Laid(text, base, name, kind), Without(name, "/"), Without(kind, "/"),
         NEW n \in Len(base) + 1 .. Len(base) + Len(name) + 1
  PROVE  Rest(text, n) \in Text /\ StripEvent(Rest(text, n)) = None
<1>1. Len(base) \in Nat /\ Len(name) \in Nat /\ Len(kind) \in Nat
  BY DEF Text
<1>2. PICK b \in Nat, m \in Nat, k \in Nat : b = Len(base) /\ m = Len(name) /\ k = Len(kind)
  BY <1>1
<1>3. n \in Nat /\ n >= b + 1 /\ n <= b + m + 1
  BY <1>2
<1>4. /\ Len(text) = b + m + k + 2
      /\ \A i \in 1 .. m : text[(b + 1) + i] = name[i]
      /\ text[b + m + 2] = "."
      /\ \A i \in 1 .. k : text[(b + m + 2) + i] = kind[i]
  BY <1>2 DEF Laid
<1>5. PICK seen \in Text :
        /\ seen = Rest(text, n) /\ Len(seen) = (b + m + k + 2) - n
        /\ \A i \in 1 .. (b + m + k + 2) - n : seen[i] = text[n + i]
  <2>1. n \in 0 .. Len(text)
    BY <1>2, <1>3, <1>4
  <2>2. /\ Rest(text, n) \in Text /\ Len(Rest(text, n)) = Len(text) - n
        /\ \A i \in 1 .. Len(text) - n : Rest(text, n)[i] = text[n + i]
    BY <2>1, RestOf
  <2> QED BY <1>4, <2>2
<1>6. ASSUME NEW i \in 1 .. Len(seen) PROVE seen[i] # "/"
  <2>1. PICK j \in Nat : j = n + i /\ j >= b + 2 /\ j <= b + m + k + 2
    BY <1>2, <1>3, <1>5
  <2>2. seen[i] = text[j]
    BY <1>5, <2>1
  <2>3. CASE j < b + m + 2
    <3>1. PICK x \in 1 .. m : j = (b + 1) + x
      <4>1. j - (b + 1) \in 1 .. m /\ j = (b + 1) + (j - (b + 1))
        BY <1>2, <2>1, <2>3
      <4> QED BY <4>1
    <3>2. text[j] = name[x] /\ name[x] # "/"
      BY <1>2, <1>4, <3>1 DEF Without
    <3> QED BY <2>2, <3>2
  <2>4. CASE j = b + m + 2
    BY <1>4, <2>2, <2>4, SlashAndDot, Zenon
  <2>5. CASE j > b + m + 2
    <3>1. PICK x \in 1 .. k : j = (b + m + 2) + x
      <4>1. j - (b + m + 2) \in 1 .. k /\ j = (b + m + 2) + (j - (b + m + 2))
        BY <1>2, <2>1, <2>5
      <4> QED BY <4>1
    <3>2. text[j] = kind[x] /\ kind[x] # "/"
      BY <1>2, <1>4, <3>1 DEF Without
    <3> QED BY <2>2, <3>2
  <2>6. j < b + m + 2 \/ j = b + m + 2 \/ j > b + m + 2
    BY <1>2, <2>1
  <2> QED BY <2>3, <2>4, <2>5, <2>6
<1>7. Without(seen, "/")
  BY <1>6 DEF Without
<1>8. StripEvent(seen) = None
  BY <1>7, SlashIs, EventStripped
<1> QED BY <1>5, <1>8

\* The text of an event is none of a directory.
LEMMA IdIsNoRoot ==
  ASSUME NEW text \in Text, NEW base \in Text, NEW name \in Text, NEW kind \in Text,
         Laid(text, base, name, kind)
  PROVE  text # Root
<1>1. Len(base) \in Nat /\ Len(name) \in Nat /\ Len(kind) \in Nat
  BY DEF Text
<1>2. Len(text) # 1
  BY <1>1 DEF Laid
<1>3. Len(Root) = 1
  BY Single, SlashAndDot DEF Root
<1> QED BY <1>2, <1>3

\* What a query finds below the source's path, as the source sees it.
LEMMA FoundIsSeen ==
  ASSUME NEW e \in EventId, TryFrom(e) = e, NEW dir \in Directories, NEW prefix \in Directories,
         prefix # Root, Found(IdText(dir, e), prefix)
  PROVE  LET yielded == IdText(dir, e)
             seen    == SeenBySource(yielded, prefix)
         IN /\ PrefixPath(seen, prefix) = yielded
            /\ EventIdOf(seen) = IF Slash(yielded) <= Len(prefix) THEN Invalid ELSE e
<1>1. PICK yielded \in Text, base \in Text, name \in Text, kind \in Text :
        /\ yielded = IdText(dir, e) /\ base = Base(dir) /\ name = TeamsText(e) /\ kind = e.kind
        /\ Laid(yielded, base, name, kind)
        /\ Without(name, "/") /\ Without(kind, "/")
  BY IdTexts, EventNames, Zenon
<1>2. prefix \in Text
  BY SlashAndDot, Zenon
<1>3. Len(base) \in Nat /\ Len(name) \in Nat /\ Len(kind) \in Nat /\ Len(prefix) \in Nat
  BY <1>2 DEF Text
<1>4. PICK n \in Nat : n = Len(prefix)
  BY <1>3
<1>5. /\ Slash(yielded) = Len(base) + 1
      /\ StripEvent(yielded) = [path |-> SubSeq(yielded, 1, Len(base) + Len(name) + 1), kind |-> kind]
  BY <1>1, LaidIsEvent, Zenon
<1>6. IsPrefix(prefix, SubSeq(yielded, 1, Len(base) + Len(name) + 1))
  <2>1. StripEvent(yielded).path = SubSeq(yielded, 1, Len(base) + Len(name) + 1)
    BY <1>5
  <2>2. IsPrefix(prefix, StripEvent(yielded).path)
    BY <1>1, Zenon DEF Found
  <2> QED BY <2>1, <2>2, Zenon
<1>7. PICK m \in Nat : /\ m = Len(base) + Len(name) + 1 /\ m + 1 <= Len(yielded)
                        /\ yielded[m + 1] = "."
  <2>1. /\ Len(yielded) = Len(base) + Len(name) + Len(kind) + 2
        /\ yielded[Len(base) + Len(name) + 2] = "."
    BY <1>1 DEF Laid
  <2>2. PICK m \in Nat : m = Len(base) + Len(name) + 1 /\ m + 1 = Len(base) + Len(name) + 2
    BY <1>3
  <2>3. m + 1 <= Len(yielded) /\ yielded[m + 1] = "."
    BY <1>3, <2>1, <2>2
  <2> QED BY <2>2, <2>3
<1>8. n <= m /\ \A i \in 1 .. n : prefix[i] = yielded[i]
  <2>1. PICK path \in Text : /\ path = SubSeq(yielded, 1, m) /\ Len(path) = m
                             /\ \A i \in 1 .. m : path[i] = yielded[i]
    <3>1. Len(yielded) \in Nat
      BY DEF Text
    <3>2. m \in 0 .. Len(yielded)
      BY <1>7, <3>1
    <3> QED BY <3>2, StartOf
  <2>2. IsPrefix(prefix, path)
    BY <1>6, <1>7, <2>1, Zenon
  <2>3. Len(prefix) <= Len(path) /\ \A i \in 1 .. Len(prefix) : prefix[i] = path[i]
    BY <1>2, <2>2, PrefixByTokens
  <2> QED BY <1>4, <2>1, <2>3
<1>9. IsPrefix(prefix, yielded)
  <2>1. Len(prefix) <= Len(yielded) /\ \A i \in 1 .. Len(prefix) : prefix[i] = yielded[i]
    <3>1. Len(yielded) \in Nat
      BY DEF Text
    <3> QED BY <1>4, <1>7, <1>8, <3>1
  <2> QED BY <1>2, <2>1, PrefixByTokens
<1>10. SeenBySource(yielded, prefix) = Rest(yielded, n)
  BY <1>4, <1>9, Zenon DEF SeenBySource, StripPrefixPath
<1>11. prefix \o Rest(yielded, n) = yielded
  BY <1>2, <1>4, <1>9, PrefixOff
<1>12. Rest(yielded, n) # Root
  <2>1. PICK d \in Nat : d = (m + 1) - n /\ d >= 1 /\ n + d = m + 1
    <3>1. (m + 1) - n \in Nat /\ (m + 1) - n >= 1 /\ n + ((m + 1) - n) = m + 1
      BY <1>8
    <3> QED BY <3>1
  <2>2. yielded[m + 1] = "." /\ m + 1 <= Len(yielded)
    BY <1>7
  <2>3. Len(yielded) \in Nat
    BY DEF Text
  <2>4. /\ Rest(yielded, n) \in Text /\ Len(Rest(yielded, n)) = Len(yielded) - n
        /\ \A i \in 1 .. Len(yielded) - n : Rest(yielded, n)[i] = yielded[n + i]
    <3>1. n \in 0 .. Len(yielded)
      BY <1>7, <1>8, <2>3
    <3> QED BY <3>1, RestOf
  <2>5. Rest(yielded, n)[d] = "." /\ d <= Len(Rest(yielded, n))
    <3>1. d \in 1 .. Len(yielded) - n
      BY <2>1, <2>2, <2>3
    <3> QED BY <2>1, <2>2, <2>3, <2>4, <3>1
  <2>6. Len(Root) = 1 /\ Root[1] = "/"
    BY Single, SlashAndDot DEF Root
  <2>7. ASSUME Rest(yielded, n) = Root PROVE FALSE
    <3>0. Len(Rest(yielded, n)) = 1
      BY <2>6, <2>7, Zenon
    <3>1. d = 1
      BY <2>1, <2>5, <3>0
    <3>2. Root[1] = "."
      BY <2>5, <2>7, <3>1
    <3> QED BY <2>6, <3>2, SlashAndDot, Zenon
  <2> QED BY <2>7
<1>13. PrefixPath(Rest(yielded, n), prefix) = yielded
  BY <1>11, <1>12, Zenon DEF PrefixPath
<1>14. CASE n <= Len(base)
  <2>1. PICK left \in Text : left = Rest(base, n) /\ Laid(Rest(yielded, n), left, name, kind)
                             /\ Rest(yielded, n) \in Text
    <3>1. n \in 0 .. Len(base)
      BY <1>3, <1>14
    <3>2. Rest(base, n) \in Text /\ Laid(Rest(yielded, n), Rest(base, n), name, kind)
      BY <1>1, <3>1, LaidRest
    <3>3. Len(yielded) \in Nat
      BY DEF Text
    <3>4. n \in 0 .. Len(yielded)
      BY <1>7, <1>8, <3>3
    <3>5. Rest(yielded, n) \in Text
      BY <3>4, RestOf
    <3> QED BY <3>2, <3>5
  <2>2. Laid(Rest(yielded, n), left, TeamsText(e), e.kind)
    BY <1>1, <2>1, Zenon
  <2>3. EventIdOf(Rest(yielded, n)) = TryFrom(e)
    BY <2>1, <2>2, LaidIsEvent, Zenon
  <2>4. ~(Slash(yielded) <= Len(prefix))
    BY <1>3, <1>4, <1>5, <1>14
  <2> QED BY <1>1, <1>10, <1>13, <2>3, <2>4, Zenon
<1>15. CASE ~(n <= Len(base))
  <2>1. n \in Len(base) + 1 .. Len(base) + Len(name) + 1
    BY <1>3, <1>7, <1>8, <1>15
  <2>2. StripEvent(Rest(yielded, n)) = None
    BY <1>1, <2>1, LaidBeyond
  <2>3. EventIdOf(Rest(yielded, n)) = Invalid
    BY <2>2, Zenon DEF EventIdOf
  <2>4. Slash(yielded) <= Len(prefix)
    BY <1>3, <1>4, <1>5, <1>15
  <2> QED BY <1>1, <1>10, <1>13, <2>3, <2>4, Zenon
<1> QED BY <1>14, <1>15

\* The prefix comes off whatever it was put in front of.
LEMMA PrefixTaken ==
  ASSUME NEW e \in EventId, TryFrom(e) = e, NEW dir \in Directories, NEW prefix \in Directories
  PROVE  LET yielded == IdText(dir, e)
             seen    == SeenBySource(yielded, prefix)
         IN /\ SeenBySource(PrefixPath(yielded, prefix), prefix) = yielded
            /\ Found(yielded, prefix) =>
                 /\ PrefixPath(seen, prefix) = yielded
                 /\ EventIdOf(seen) = IF prefix # Root /\ Slash(yielded) <= Len(prefix)
                                      THEN Invalid ELSE e
<1>1. PICK yielded \in Text, base \in Text, name \in Text, kind \in Text :
        /\ yielded = IdText(dir, e) /\ base = Base(dir) /\ name = TeamsText(e) /\ kind = e.kind
        /\ Laid(yielded, base, name, kind)
  BY IdTexts, EventNames, Zenon
<1>2. yielded # Root
  BY <1>1, IdIsNoRoot
<1>3. CASE prefix = Root
  <2>1. PrefixPath(yielded, prefix) = yielded /\ SeenBySource(yielded, prefix) = yielded
    BY <1>2, <1>3, Zenon DEF PrefixPath, SeenBySource, StripPrefixPath
  <2>2. Laid(yielded, base, TeamsText(e), e.kind)
    BY <1>1, Zenon
  <2>3. EventIdOf(yielded) = TryFrom(e)
    BY <2>2, LaidIsEvent, Zenon
  <2> QED BY <1>1, <1>3, <2>1, <2>3, Zenon
<1>4. CASE prefix # Root
  <2>1. prefix \in Text
    BY SlashAndDot, Zenon
  <2>2. PrefixPath(yielded, prefix) = prefix \o yielded
    BY <1>2, <1>4, Zenon DEF PrefixPath
  <2>3. IsPrefix(prefix, prefix \o yielded) /\ Rest(prefix \o yielded, Len(prefix)) = yielded
    BY <2>1, PrefixOff
  <2>4. SeenBySource(prefix \o yielded, prefix) = yielded
    BY <1>4, <2>3, Zenon DEF SeenBySource, StripPrefixPath
  <2>5. Found(IdText(dir, e), prefix) =>
          /\ PrefixPath(SeenBySource(IdText(dir, e), prefix), prefix) = IdText(dir, e)
          /\ EventIdOf(SeenBySource(IdText(dir, e), prefix)) =
               IF Slash(IdText(dir, e)) <= Len(prefix) THEN Invalid ELSE e
    BY <1>4, FoundIsSeen, Zenon
  <2> QED BY <1>1, <1>4, <2>2, <2>4, <2>5, Zenon
<1> QED BY <1>3, <1>4

-----------------------------------------------------------------------------
(* URLs.                                                                   *)

\* What a text is split into.
LEMMA Splits ==
  ASSUME NEW S, NEW text \in Seq(S), NEW sep
  PROVE  Split(text, sep) \in Seq(Seq(S)) \ {<<>>}
<1> DEFINE T == {n \in Nat : \A t \in Seq(S) :
                   Len(t) = n => Split(t, sep) \in Seq(Seq(S)) \ {<<>>}}
<1>1. 0 \in T
  <2> SUFFICES ASSUME NEW t \in Seq(S), Len(t) = 0
               PROVE  Split(t, sep) \in Seq(Seq(S)) \ {<<>>}
    OBVIOUS
  <2>1. t = <<>>
    BY EmptySeq
  <2>2. PICK none \in Seq(S) : none = <<>>
    BY EmptySeq
  <2>3. << <<>> >> \in Seq(Seq(S)) /\ Len(<< <<>> >>) = 1
    BY <2>2, Single, Zenon
  <2>4. << <<>> >> # <<>>
    OBVIOUS
  <2>5. Split(<<>>, sep) = << <<>> >>
    <3>1. Split(none, sep) = << <<>> >>
      <4>1. PICK f : PartsOf(f, none, sep) /\ Split(none, sep) = f[Len(none)]
        BY SplitByTokens, Zenon
      <4>2. Len(none) = 0
        BY <2>2
      <4> QED BY <4>1, <4>2 DEF PartsOf
    <3> QED BY <2>2, <3>1
  <2> QED BY <2>1, <2>3, <2>4, <2>5
<1>2. ASSUME NEW n \in Nat, n \in T PROVE n + 1 \in T
  <2> SUFFICES ASSUME NEW t \in Seq(S), Len(t) = n + 1
               PROVE  Split(t, sep) \in Seq(Seq(S)) \ {<<>>}
    OBVIOUS
  <2>1. PICK u \in Seq(S), x \in S : t = Append(u, x) /\ Len(u) = n
    <3>1. t # <<>>
      BY EmptySeq
    <3>2. /\ Front(t) \in Seq(S) /\ Len(Front(t)) = Len(t) - 1
          /\ Last(t) \in S /\ t = Append(Front(t), Last(t))
      BY <3>1, TakenApart
    <3> QED BY <3>2
  <2>2. Split(u, sep) \in Seq(Seq(S)) \ {<<>>}
    BY <1>2, <2>1
  <2>3. NextToken(Split(u, sep), x, sep) \in Seq(Seq(S)) \ {<<>>}
    BY <2>2, NextTokens
  <2> QED BY <2>1, <2>3, SplitGrows
<1>3. Len(text) \in T
  <2>1. Len(text) \in Nat
    OBVIOUS
  <2> HIDE DEF T
  <2> QED BY <1>1, <1>2, <2>1, AllNumbers
<1> QED BY <1>3

\* Where a last slash can be.
LEMMA SlashInText == ASSUME NEW text \in Text PROVE Slash(text) \in 0 .. Len(text)
<1> DEFINE I == {i \in 1 .. Len(text) : text[i] = "/"}
<1>0. Len(text) \in Nat
  BY DEF Text
<1>1. CASE I = {}
  <2>1. Without(text, "/")
    BY <1>1 DEF Without
  <2> QED BY <1>0, <2>1, SlashIs
<1>2. CASE I # {}
  <2>1. PICK d \in {Len(text) - i : i \in I} : \A c \in {Len(text) - i : i \in I} : d <= c
    <3>1. {Len(text) - i : i \in I} \subseteq Nat /\ {Len(text) - i : i \in I} # {}
      BY <1>0, <1>2
    <3> QED BY <3>1, LeastNumber, Zenon
  <2>2. PICK s \in I : d = Len(text) - s
    OBVIOUS
  <2>3. ASSUME NEW i \in s + 1 .. Len(text), text[i] = "/" PROVE FALSE
    <3>1. i \in I
      BY <1>0, <2>2, <2>3
    <3>2. d <= Len(text) - i
      BY <2>1, <3>1
    <3> QED BY <1>0, <2>2, <2>3, <3>2
  <2>4. s \in 1 .. Len(text) /\ text[s] = "/"
    BY <2>2
  <2>5. Slash(text) = s
    BY <2>3, <2>4, SlashIs
  <2> QED BY <1>0, <2>4, <2>5
<1> QED BY <1>1, <1>2

\* What is parsed from a text is an id or an error.
LEMMA ParsedIds ==
  ASSUME NEW text \in Text, StripEvent(text) # None
  PROVE  EventIdOf(text) \in Ids \union {Invalid, Panics}
<1> DEFINE I == {i \in Slash(text) + 1 .. Len(text) : text[i] = "."}
<1>1. StripEvent(text) = IF Slash(text) = 0 \/ I = {} THEN None
        ELSE [path |-> SubSeq(text, 1, Min(I) - 1), kind |-> Rest(text, Min(I))]
  BY DEF StripEvent
<1>2. I # {} /\ StripEvent(text) = [path |-> SubSeq(text, 1, Min(I) - 1), kind |-> Rest(text, Min(I))]
  <2> HIDE DEF I
  <2> QED BY <1>1
<1>3. Len(text) \in Nat /\ Slash(text) \in 0 .. Len(text)
  BY SlashInText DEF Text
<1>4. I \subseteq Nat /\ I \subseteq 1 .. Len(text)
  BY <1>3
<1> HIDE DEF I
<1>5. PICK d \in 1 .. Len(text) : d = Min(I)
  <2>1. PICK m \in I : \A i \in I : m <= i
    BY <1>2, <1>4, LeastNumber, Zenon
  <2>2. Min(I) \in I
    BY <2>1, Zenon DEF Min
  <2> QED BY <1>4, <2>2
<1>6. PICK path \in Text, kind \in Text : StripEvent(text) = [path |-> path, kind |-> kind]
  <2>1. d - 1 \in 0 .. Len(text) /\ d \in 0 .. Len(text)
    BY <1>3
  <2>2. SubSeq(text, 1, d - 1) \in Text /\ Rest(text, d) \in Text
    BY <2>1, StartOf, RestOf
  <2> QED BY <1>2, <1>5, <2>2
<1>7. PICK name \in Text : name = Rest(path, Slash(path))
  BY SlashInText, RestOf
<1>8. PICK sep : sep = "_"
  BY Zenon
<1>9. Split(name, sep) \in Seq(Text)
  BY Splits DEF Text
<1>10. PICK e \in Ids : e = [teams |-> Split(name, sep), kind |-> kind]
  BY <1>9 DEF Ids
<1>11. StripEvent(text).path = path /\ StripEvent(text).kind = kind
  BY <1>6
<1>12. EventIdOf(text) = [x \in Ids |-> TryFrom(x)][e]
  BY <1>7, <1>8, <1>10, <1>11, Zenon DEF EventIdOf
<1>13. [x \in Ids |-> TryFrom(x)][e] = TryFrom(e)
  BY Zenon
<1> QED BY <1>12, <1>13, TryFromResults, Zenon

\* Only where there are not two teams does an outcome panic.
LEMMA OutcomesPanic ==
  ASSUME NEW teams, Len(teams) \in Nat, NEW kind \in Kind, NEW text
  PROVE  TryFromIdAndOutcome(teams, kind, text) = Panics <=>
           kind.type \in {"vs", "winner"} /\ Len(teams) < 2
<1>1. Invalid # Panics /\ Panics \notin Word /\ {0, 1, 2} \subseteq Word
  BY ErrorsAreNoIds, ErrorsAreNoValues, SmallWords, Zenon
<1>2. 0 # Panics /\ 1 # Panics /\ 2 # Panics
  BY <1>1
<1>3. CASE kind.type \in {"vs", "winner"} /\ Len(teams) < 2
  <2>1. TryFromIdAndOutcome(teams, kind, text) = Panics
    BY <1>3 DEF TryFromIdAndOutcome, IsPredicate
  <2> QED BY <1>3, <2>1
<1>4. CASE kind.type = "vs" /\ ~(Len(teams) < 2)
  <2>1. TryFromIdAndOutcome(teams, kind, text) =
          Index(<<text = Winning(teams[1]), text = Winning(teams[2]), text = <<"draw">> >>)
    BY <1>4 DEF TryFromIdAndOutcome, IsPredicate
  <2>2. TryFromIdAndOutcome(teams, kind, text) =
          IF text = Winning(teams[1]) THEN 0 ELSE IF text = Winning(teams[2]) THEN 1
          ELSE IF text = <<"draw">> THEN 2 ELSE Invalid
    BY <2>1, WhichOfThree
  <2>3. TryFromIdAndOutcome(teams, kind, text) \in {0, 1, 2, Invalid}
    BY <2>2, Zenon
  <2> QED BY <1>1, <1>2, <1>4, <2>3
<1>5. CASE kind.type = "winner" /\ ~(Len(teams) < 2)
  <2>1. TryFromIdAndOutcome(teams, kind, text) = Index(<<text = teams[1], text = teams[2]>>)
    BY <1>5 DEF TryFromIdAndOutcome, IsPredicate
  <2>2. TryFromIdAndOutcome(teams, kind, text) =
          IF text = teams[1] THEN 0 ELSE IF text = teams[2] THEN 1 ELSE Invalid
    BY <2>1, WhichOfTwo
  <2>3. TryFromIdAndOutcome(teams, kind, text) \in {0, 1, Invalid}
    BY <2>2, Zenon
  <2> QED BY <1>1, <1>2, <1>5, <2>3
<1>6. CASE kind.type = "occur"
  <2>1. TryFromIdAndOutcome(teams, kind, text) \in {0, Invalid}
    BY <1>6, ReadOccur, Zenon
  <2> QED BY <1>1, <1>2, <1>6, <2>1
<1>7. CASE kind.type = "price"
  <2>1. TryFromIdAndOutcome(teams, kind, text) \in Word \union {Invalid}
    BY <1>7, ReadPrice, NumberIsWord, Zenon
  <2> QED BY <1>1, <1>7, <2>1
<1>8. CASE kind.type \in {"eq", "gt"}
  <2>1. TryFromIdAndOutcome(teams, kind, text) =
          IF text = <<"false">> THEN 0 ELSE IF text = <<"true">> THEN 1 ELSE Invalid
    BY <1>8, ReadPredicate
  <2>2. TryFromIdAndOutcome(teams, kind, text) \in {0, 1, Invalid}
    BY <2>1, Zenon
  <2> QED BY <1>1, <1>2, <1>8, <2>2
<1> QED BY <1>3, <1>4, <1>5, <1>6, <1>7, <1>8, TypesOfKinds

\* An equality of a match or a duel without two teams.
Teamless(e) ==
  /\ Len(e.teams) < 2 /\ EventKind(e) # Invalid /\ EventKind(e).type = "eq"
  /\ EventKind(e).inner.type \in {"vs", "winner"}

\* That, and nothing else, panics the parser.
LEMMA ParserPanics ==
  ASSUME NEW e \in EventId
  PROVE  TryFrom(e) = Panics <=> Teamless(e)
<1>1. e # Panics /\ Invalid # Panics
  BY ErrorsAreNoIds, ErrorsAreNoValues, Zenon
<1>2. e.teams \in Seq(Text) /\ e.kind \in Text
  BY EventNames, Zenon
<1>3. EventKind(e) \in Kind \union {Invalid}
  BY <1>2, ParsedIsKind, Zenon DEF EventKind
<1>4. CASE EventKind(e) = Invalid
  BY <1>1, <1>4, AcceptedByKind, Zenon DEF Teamless
<1>5. CASE EventKind(e) # Invalid /\ EventKind(e).type # "eq"
  <2>1. TryFromTeams(e) \in {Invalid, e}
    BY Zenon DEF TryFromTeams
  <2>2. TryFrom(e) \in {Invalid, e}
    BY <1>5, <2>1, AcceptedByKind
  <2>3. ~Teamless(e)
    BY <1>5, Zenon DEF Teamless
  <2> QED BY <1>1, <2>2, <2>3
<1>6. CASE EventKind(e) # Invalid /\ EventKind(e).type = "eq"
  <2>1. PICK kind \in Kind : kind = EventKind(e)
    BY <1>3, <1>6
  <2>2. kind.inner \in Kind
    <3>1. kind \notin PlainKind /\ kind \notin BoundKind
      BY <1>6, <2>1, PlainKinds, KindFields, Kinds
    <3>2. kind.inner \in PlainKind \union BoundKind
      BY <3>1, Kinds
    <3> QED BY <3>2, Kinds DEF Kind
  <2>3. PICK o : o = TryFromIdAndOutcome(e.teams, kind.inner, kind.target)
    OBVIOUS
  <2>4. Len(e.teams) \in Nat
    BY <1>2
  <2>5. o = Panics <=> kind.inner.type \in {"vs", "winner"} /\ Len(e.teams) < 2
    BY <2>2, <2>3, <2>4, OutcomesPanic, Zenon
  <2>6. TryFrom(e) = IF o \in {Invalid, Panics} THEN o ELSE e
    <3>1. TryFrom(e) = TryFromEq(e, kind)
      BY <1>6, <2>1, AcceptedByKind
    <3> QED BY <2>3, <3>1, Zenon DEF TryFromEq
  <2>7. TryFrom(e) = Panics <=> o = Panics
    BY <1>1, <2>6
  <2>8. Teamless(e) <=> kind.inner.type \in {"vs", "winner"} /\ Len(e.teams) < 2
    BY <1>6, <2>1, Zenon DEF Teamless
  <2> QED BY <2>5, <2>7, <2>8
<1> QED BY <1>4, <1>5, <1>6

\* The next route is tried for no other answer.
LEMMA NoReject ==
  /\ BadRequest # Reject /\ Panicked # Reject
  /\ \A type, text : type # "reject" => Lookup(type, text) # Reject
<1>1. PICK bad : bad = "bad_request"
  BY Zenon
<1>2. BadRequest = [type |-> bad]
  BY <1>1, Zenon DEF BadRequest
<1>3. bad # "reject"
  BY <1>1, Zenon
<1>4. [type |-> bad].type = bad /\ Reject.type = "reject"
  BY DEF Reject
<1>5. BadRequest # Reject
  BY <1>2, <1>3, <1>4, Zenon
<1>6. Panicked.type = "panicked"
  BY DEF Panicked
<1>7. Panicked # Reject
  BY <1>4, <1>6
<1>8. ASSUME NEW type, NEW text, type # "reject" PROVE Lookup(type, text) # Reject
  <2>1. Lookup(type, text).type = type
    BY DEF Lookup
  <2> QED BY <1>4, <1>8, <2>1
<1> QED BY <1>5, <1>7, <1>8

\* What is answered for an event.
LEMMA EventAnswers ==
  ASSUME NEW text \in Text, IsPath(text)
  PROVE  /\ StripEvent(text) = None => EventAnswer[text] = Reject
         /\ StripEvent(text) # None =>
              /\ EventAnswer[text] = IF EventIdOf(text) = Invalid THEN BadRequest
                                     ELSE IF EventIdOf(text) = Panics THEN Panicked
                                     ELSE Lookup("event", text)
              /\ EventAnswer[text] # Reject
<1> DEFINE Reply == [event \in Ids \union {Invalid, Panics} |->
                      CASE event = Invalid -> BadRequest
                        [] event = Panics  -> Panicked
                        [] event \in Ids   -> Lookup("event", text)]
<1>1. EventAnswer[text] = IF StripEvent(text) = None THEN Reject ELSE Reply[EventIdOf(text)]
  BY Zenon DEF EventAnswer
<1>2. ASSUME StripEvent(text) # None
      PROVE  /\ EventAnswer[text] = IF EventIdOf(text) = Invalid THEN BadRequest
                                    ELSE IF EventIdOf(text) = Panics THEN Panicked
                                    ELSE Lookup("event", text)
             /\ EventAnswer[text] # Reject
  <2>1. PICK event : event = EventIdOf(text) /\ event \in Ids \union {Invalid, Panics}
    BY <1>2, ParsedIds
  <2>2. Invalid # Panics /\ Invalid \notin Ids /\ Panics \notin Ids
    <3>1. Invalid # Panics /\ {Invalid, Panics} \intersect Ids = {}
      BY ErrorsAreNoIds, Zenon
    <3> QED BY <3>1
  <2>3. Reply[event] = CASE event = Invalid -> BadRequest
                         [] event = Panics  -> Panicked
                         [] event \in Ids   -> Lookup("event", text)
    BY <2>1, Zenon
  <2> HIDE DEF Reply
  <2>4. /\ event = Invalid => Reply[event] = BadRequest
        /\ event = Panics => Reply[event] = Panicked
        /\ event \in Ids => Reply[event] = Lookup("event", text)
    BY <2>2, <2>3
  <2>5. Reply[event] = IF event = Invalid THEN BadRequest
                       ELSE IF event = Panics THEN Panicked ELSE Lookup("event", text)
    BY <2>1, <2>4
  <2>6. Reply[event] # Reject
    BY <2>5, NoReject, Zenon
  <2> QED BY <1>1, <1>2, <2>1, <2>5, <2>6, Zenon
<1> HIDE DEF Reply
<1> QED BY <1>1, <1>2

\* What is tried, and in which order.
LEMMA Routes ==
  ASSUME NEW tail, NEW query
  PROVE  /\ tail = <<>> => Route([tail |-> tail, query |-> query]) = Lookup("root", Root)
         /\ tail # <<>> =>
              Route([tail |-> tail, query |-> query]) =
                IF GetEvent(tail, query) # Reject THEN GetEvent(tail, query)
                ELSE IF GetEvent(tail, None) # Reject THEN GetEvent(tail, None) ELSE GetPath(tail)
<1>1. PICK url : url = [tail |-> tail, query |-> query]
  OBVIOUS
<1>2. url.tail = tail /\ url.query = query
  BY <1>1
<1>3. PICK event : event = [q \in {query, None} |-> GetEvent(tail, q)]
  OBVIOUS
<1>4. event[query] = GetEvent(tail, query) /\ event[None] = GetEvent(tail, None)
  BY <1>3
<1>5. FirstOf(event, url) =
        IF GetEvent(tail, query) # Reject THEN GetEvent(tail, query)
        ELSE IF GetEvent(tail, None) # Reject THEN GetEvent(tail, None) ELSE GetPath(tail)
  BY <1>2, <1>4, Zenon DEF FirstOf
<1>6. Route(url) = IF tail = <<>> THEN Lookup("root", Root) ELSE FirstOf(event, url)
  BY <1>2, <1>3, Zenon DEF Route
<1> QED BY <1>1, <1>5, <1>6, Zenon

\* What is behind the first slash of a path.
LEMMA Tails ==
  ASSUME NEW text \in Text, text # <<>>, Head(text) = "/"
  PROVE  /\ Tail(text) \in Text /\ Len(Tail(text)) = Len(text) - 1
         /\ \A i \in 1 .. Len(text) - 1 : Tail(text)[i] = text[i + 1]
         /\ Root \o Tail(text) = text
         /\ text # Root => Tail(text) # <<>> /\ Last(Tail(text)) = Last(text)
<1>1. text \in Seq(Token) /\ Len(text) \in Nat /\ Len(text) >= 1
  BY EmptySeq DEF Text
<1>2. PICK tail \in Seq(Token) : /\ tail = Tail(text) /\ Len(tail) = Len(text) - 1
                                 /\ \A i \in 1 .. Len(text) - 1 : tail[i] = text[i + 1]
  <2>1. /\ Tail(text) \in Seq(Token) /\ Len(Tail(text)) = Len(text) - 1
        /\ \A i \in 1 .. Len(Tail(text)) : Tail(text)[i] = text[i + 1]
    BY <1>1, HeadTailProperties
  <2>2. \A i \in 1 .. Len(text) - 1 : Tail(text)[i] = text[i + 1]
    BY <2>1, Zenon
  <2> QED BY <2>1, <2>2, Zenon
<1>3. PICK slash \in Seq(Token) : slash = Root /\ Len(slash) = 1 /\ slash[1] = "/"
  BY SlashAndDot, Single DEF Root
<1>4. PICK whole \in Seq(Token) : /\ whole = slash \o tail /\ Len(whole) = Len(text)
                                  /\ whole[1] = "/"
                                  /\ \A i \in 1 .. Len(tail) : whole[1 + i] = tail[i]
  <2>1. /\ slash \o tail \in Seq(Token) /\ Len(slash \o tail) = Len(slash) + Len(tail)
        /\ \A i \in 1 .. Len(slash) : (slash \o tail)[i] = slash[i]
        /\ \A i \in 1 .. Len(tail) : (slash \o tail)[Len(slash) + i] = tail[i]
    BY WithoutBoth
  <2>2. (slash \o tail)[1] = "/"
    BY <1>3, <2>1
  <2>3. Len(slash) + Len(tail) = Len(text)
    BY <1>1, <1>2, <1>3
  <2> QED BY <1>3, <2>1, <2>2, <2>3
<1>5. whole = text
  <2>1. ASSUME NEW i \in 1 .. Len(whole) PROVE whole[i] = text[i]
    <3>1. CASE i = 1
      BY <1>1, <1>4, <3>1
    <3>2. CASE i # 1
      <4>1. PICK j \in 1 .. Len(tail) : i = 1 + j /\ i = j + 1
        <5>1. i - 1 \in 1 .. Len(tail) /\ i = 1 + (i - 1) /\ i = (i - 1) + 1
          BY <1>1, <1>2, <1>4, <3>2
        <5> QED BY <5>1
      <4> QED BY <1>2, <1>4, <4>1
    <3> QED BY <3>1, <3>2
  <2> QED BY <1>1, <1>4, <2>1, SeqEqual
<1>6. ASSUME text # Root PROVE tail # <<>> /\ Last(tail) = Last(text)
  <2>1. Len(text) # 1
    <3> SUFFICES ASSUME Len(text) = 1 PROVE FALSE
      OBVIOUS
    <3>1. text[1] = "/"
      BY <1>4, <1>5
    <3>2. \A i \in 1 .. Len(text) : text[i] = slash[i]
      BY <1>3, <3>1
    <3>3. text = slash
      BY <1>1, <1>3, <3>2, SeqEqual
    <3> QED BY <1>3, <1>6, <3>3
  <2>2. tail # <<>>
    <3>1. Len(tail) # 0
      BY <1>1, <1>2, <2>1
    <3> QED BY <3>1, EmptySeq
  <2>3. Last(tail) = tail[Len(text) - 1] /\ Last(text) = text[Len(text)]
    BY <1>2, Zenon DEF Last
  <2>4. Len(text) - 1 \in 1 .. Len(text) - 1 /\ (Len(text) - 1) + 1 = Len(text)
    <3>1. PICK n \in Nat : n = Len(text) /\ n >= 1 /\ n # 1
      BY <1>1, <2>1
    <3>2. n - 1 \in 1 .. n - 1 /\ (n - 1) + 1 = n
      BY <3>1
    <3> QED BY <3>1, <3>2
  <2>5. tail[Len(text) - 1] = text[Len(text)]
    BY <1>2, <2>4
  <2> QED BY <2>2, <2>3, <2>5
<1> QED BY <1>2, <1>3, <1>4, <1>5, <1>6 DEF Text

\* One slash more, at the end.
LEMMA SlashMore ==
  ASSUME NEW text \in Text, text # <<>>, Head(text) = "/"
  PROVE  /\ Tail(text \o Root) # <<>> /\ Last(Tail(text \o Root)) = "/"
         /\ Front(Tail(text \o Root)) = Tail(text)
<1>1. PICK s \in Seq(Token) : s = text
  BY DEF Text
<1>2. PICK x \in Token : x = "/" /\ Root = <<x>>
  BY SlashAndDot DEF Root
<1>3. PICK tail \in Seq(Token) : /\ tail = Tail(s) /\ Len(tail) = Len(s) - 1
                                 /\ \A i \in 1 .. Len(tail) : tail[i] = s[i + 1]
  BY <1>1, HeadTailProperties
<1>4. PICK more \in Seq(Token) : /\ more = Append(s, x) /\ Len(more) = Len(s) + 1 /\ more # <<>>
                                 /\ more[Len(s) + 1] = x /\ \A i \in 1 .. Len(s) : more[i] = s[i]
  <2>1. /\ Append(s, x) \in Seq(Token) /\ Len(Append(s, x)) = Len(s) + 1
        /\ Append(s, x) # <<>> /\ Append(s, x)[Len(s) + 1] = x
        /\ \A i \in 1 .. Len(s) : Append(s, x)[i] = s[i]
    BY AppendProperties
  <2> QED BY <2>1
<1>5. text \o Root = more
  <2>1. s \o <<x>> = Append(s, x)
    OBVIOUS
  <2> QED BY <1>1, <1>2, <1>4, <2>1, Zenon
<1>6. Tail(more) = Append(tail, x)
  <2>1. PICK a \in Seq(Token) : /\ a = Tail(more) /\ Len(a) = Len(s)
                                /\ \A i \in 1 .. Len(a) : a[i] = more[i + 1]
    <3>1. /\ Tail(more) \in Seq(Token) /\ Len(Tail(more)) = Len(more) - 1
          /\ \A i \in 1 .. Len(Tail(more)) : Tail(more)[i] = more[i + 1]
      BY <1>4, HeadTailProperties
    <3>2. Len(Tail(more)) = Len(s)
      BY <1>4, <3>1
    <3> QED BY <3>1, <3>2, Zenon
  <2>2. PICK b \in Seq(Token) : /\ b = Append(tail, x) /\ Len(b) = Len(tail) + 1
                                /\ b[Len(tail) + 1] = x /\ \A i \in 1 .. Len(tail) : b[i] = tail[i]
    <3>1. /\ Append(tail, x) \in Seq(Token) /\ Len(Append(tail, x)) = Len(tail) + 1
          /\ Append(tail, x)[Len(tail) + 1] = x
          /\ \A i \in 1 .. Len(tail) : Append(tail, x)[i] = tail[i]
      BY AppendProperties
    <3> QED BY <3>1
  <2>3. Len(s) \in Nat /\ Len(tail) + 1 = Len(s)
    BY <1>3
  <2>4. ASSUME NEW i \in 1 .. Len(a) PROVE a[i] = b[i]
    <3>1. CASE i = Len(s)
      BY <1>4, <2>1, <2>2, <2>3, <3>1
    <3>2. CASE i # Len(s)
      <4>1. i \in 1 .. Len(tail) /\ i + 1 \in 1 .. Len(s)
        BY <2>1, <2>3, <3>2
      <4> QED BY <1>3, <1>4, <2>1, <2>2, <4>1
    <3> QED BY <3>1, <3>2
  <2>5. a = b
    BY <2>1, <2>2, <2>3, <2>4, SeqEqual
  <2> QED BY <2>1, <2>2, <2>5
<1>7. Append(tail, x) # <<>> /\ Front(Append(tail, x)) = tail /\ Last(Append(tail, x)) = x
  BY FrontAndLast
<1> QED BY <1>1, <1>2, <1>3, <1>5, <1>6, <1>7, Zenon

\* The answer to a path, and to one with a slash at its end.
LEMMA RouteOfPath ==
  ASSUME NEW text \in Text, IsPath(text), text # Root
  PROVE  /\ Route(Encoded(text)) =
              IF StripEvent(text) = None THEN Lookup("node", text) ELSE EventAnswer[text]
         /\ \A query : Route([tail |-> Tail(text \o Root), query |-> query]) = Lookup("node", text)
<1>1. text # <<>> /\ Head(text) = "/" /\ Last(text) # "/"
  BY DEF IsPath
<1>2. PICK tail \in Text :
        tail = Tail(text) /\ Root \o tail = text /\ tail # <<>> /\ Last(tail) # "/"
  BY <1>1, Tails
<1>3. GetEvent(tail, None) = EventAnswer[text]
  <2>1. text \o <<>> = text
    BY ConcatEmptySeq DEF Text
  <2> QED BY <1>2, <2>1, Zenon DEF GetEvent
<1>4. GetPath(tail) = Lookup("node", text)
  BY <1>2, Zenon DEF GetPath
<1>5. Route(Encoded(text)) = IF EventAnswer[text] # Reject THEN EventAnswer[text] ELSE Lookup("node", text)
  <2>1. Encoded(text) = [tail |-> tail, query |-> None]
    BY <1>2, Zenon DEF Encoded
  <2>2. Route([tail |-> tail, query |-> None]) =
          IF GetEvent(tail, None) # Reject THEN GetEvent(tail, None)
          ELSE IF GetEvent(tail, None) # Reject THEN GetEvent(tail, None) ELSE GetPath(tail)
    BY <1>2, Routes, Zenon
  <2>3. Route([tail |-> tail, query |-> None]) =
          IF GetEvent(tail, None) # Reject THEN GetEvent(tail, None) ELSE GetPath(tail)
    BY <2>2, Zenon
  <2> QED BY <1>3, <1>4, <2>1, <2>3, Zenon
<1>6. /\ StripEvent(text) = None => EventAnswer[text] = Reject
      /\ StripEvent(text) # None => EventAnswer[text] # Reject
  BY EventAnswers, Zenon
<1>7. ASSUME NEW query
      PROVE  Route([tail |-> Tail(text \o Root), query |-> query]) = Lookup("node", text)
  <2>1. PICK longer : /\ longer = Tail(text \o Root) /\ longer # <<>> /\ Last(longer) = "/"
                      /\ Front(longer) = tail
    BY <1>1, <1>2, SlashMore, Zenon
  <2>2. GetEvent(longer, query) = Reject /\ GetEvent(longer, None) = Reject
    BY <2>1, Zenon DEF GetEvent
  <2>3. GetPath(longer) = Lookup("node", text)
    BY <1>2, <2>1, Zenon DEF GetPath
  <2>4. Route([tail |-> longer, query |-> query]) =
          IF GetEvent(longer, query) # Reject THEN GetEvent(longer, query)
          ELSE IF GetEvent(longer, None) # Reject THEN GetEvent(longer, None) ELSE GetPath(longer)
    BY <2>1, Routes, Zenon
  <2> QED BY <2>1, <2>2, <2>3, <2>4, Zenon
<1> QED BY <1>5, <1>6, <1>7, Zenon

\* A directory is a node, or is taken for an event.
LEMMA RouteOfDirectory ==
  ASSUME NEW dir \in Directories
  PROVE  Route(Encoded(dir)) =
           IF StripEvent(dir) = None THEN Lookup(IF dir = Root THEN "root" ELSE "node", dir)
           ELSE EventAnswer[dir]
<1>1. dir \in Text /\ IsPath(dir)
  BY PathsAssumption, Zenon
<1>2. CASE dir = Root
  <2>1. PICK slash \in Text : slash = Root /\ Len(slash) = 1 /\ slash[1] = "/"
    BY SlashAndDot, Single DEF Root, Text
  <2>2. Tail(slash) = <<>>
    <3>1. slash \in Seq(Token) /\ slash # <<>>
      BY <2>1, EmptySeq DEF Text
    <3>2. Tail(slash) \in Seq(Token) /\ Len(Tail(slash)) = Len(slash) - 1
      BY <3>1, HeadTailProperties
    <3>3. PICK n : n = Len(slash) - 1 /\ n = 0
      BY <2>1
    <3>4. Len(Tail(slash)) = 0
      BY <3>2, <3>3, Zenon
    <3> QED BY <3>2, <3>4, EmptySeq, Zenon
  <2>3. Route([tail |-> <<>>, query |-> None]) = Lookup("root", Root)
    BY Routes, Zenon
  <2>4. Route(Encoded(dir)) = Lookup("root", Root)
    BY <1>2, <2>1, <2>2, <2>3, Zenon DEF Encoded
  <2>5. StripEvent(slash) = None
    <3>1. Slash(slash) = 1
      <4>1. 1 \in 1 .. Len(slash) /\ \A i \in 1 + 1 .. Len(slash) : slash[i] # "/"
        BY <2>1
      <4> QED BY <2>1, <4>1, SlashIs
    <3>2. \A i \in Slash(slash) + 1 .. Len(slash) : slash[i] # "."
      BY <2>1, <3>1
    <3> QED BY <3>2, EventStripped
  <2> QED BY <1>2, <2>1, <2>4, <2>5, Zenon
<1>3. CASE dir # Root
  <2>1. Route(Encoded(dir)) =
          IF StripEvent(dir) = None THEN Lookup("node", dir) ELSE EventAnswer[dir]
    BY <1>1, <1>3, RouteOfPath, Zenon
  <2> QED BY <1>3, <2>1, Zenon
<1> QED BY <1>2, <1>3

\* How the text of an event begins and ends.
LEMMA IdIsPath ==
  ASSUME NEW e \in EventId, NEW dir \in Directories
  PROVE  /\ IdText(dir, e) \in Text /\ IdText(dir, e) # <<>> /\ Head(IdText(dir, e)) = "/"
         /\ Last(IdText(dir, e)) # "/" /\ IsPath(IdText(dir, e)) /\ IdText(dir, e) # Root
<1>1. PICK text \in Text, base \in Text, name \in Text, kind \in Text :
        /\ text = IdText(dir, e) /\ base = Base(dir) /\ name = TeamsText(e) /\ kind = e.kind
        /\ Laid(text, base, name, kind)
  BY IdTexts, EventNames, Zenon
<1>2. \A i \in Len(base) + 2 .. Len(text) : text[i] # "/"
  BY <1>1, LaidIsEvent, Zenon
<1>3. Len(base) \in Nat /\ Len(name) \in Nat /\ Len(kind) \in Nat /\ Len(text) \in Nat
  BY DEF Text
<1>4. /\ Len(text) = Len(base) + Len(name) + Len(kind) + 2
      /\ \A i \in 1 .. Len(base) : text[i] = base[i]
      /\ text[Len(base) + 1] = "/"
  BY <1>1 DEF Laid
<1>5. text # <<>> /\ text # Root
  <2>1. text # Root
    BY <1>1, IdIsNoRoot
  <2>2. Len(text) # 0
    BY <1>3, <1>4
  <2> QED BY <2>1, <2>2, EmptySeq
<1>6. text[1] = "/"
  <2>1. CASE dir = Root
    <3>1. base = <<>>
      BY <1>1, <2>1, Zenon DEF Base
    <3>2. Len(base) + 1 = 1
      BY <3>1, EmptySeq
    <3> QED BY <1>4, <3>2
  <2>2. CASE dir # Root
    <3>1. base = dir
      BY <1>1, <2>2, Zenon DEF Base
    <3>2. base # <<>> /\ Head(base) = "/"
      BY <3>1, SlashAndDot, Zenon
    <3>3. 1 \in 1 .. Len(base) /\ base[1] = "/"
      BY <1>3, <3>2, EmptySeq DEF Text
    <3> QED BY <1>4, <3>3
  <2> QED BY <2>1, <2>2
<1>7. Last(text) # "/"
  <2>1. Len(text) \in Len(base) + 2 .. Len(text)
    BY <1>3, <1>4
  <2> QED BY <1>2, <2>1, Zenon DEF Last
<1>8. Head(text) = "/"
  BY <1>5, <1>6 DEF Text
<1>9. IsPath(text)
  BY <1>5, <1>7, <1>8, Zenon DEF IsPath
<1> QED BY <1>1, <1>5, <1>7, <1>8, <1>9, Zenon

\* The answer to the URL of an event.
Answer(e, text) ==
  IF TryFrom(e) = e THEN Lookup("event", text)
  ELSE IF Teamless(e) THEN Panicked ELSE BadRequest

\* The text of an id is answered for that id, encoded or with its query put back.
LEMMA IdAnswered ==
  ASSUME NEW e \in EventId, NEW dir \in Directories
  PROVE  /\ EventAnswer[IdText(dir, e)] = Answer(e, IdText(dir, e))
         /\ Answer(e, IdText(dir, e)) # Reject
         /\ Route(Encoded(IdText(dir, e))) = Answer(e, IdText(dir, e))
<1>1. PICK text \in Text, base \in Text :
        /\ text = IdText(dir, e) /\ base = Base(dir) /\ Laid(text, base, TeamsText(e), e.kind)
        /\ IsPath(text) /\ text # Root
  BY IdTexts, IdIsPath, Zenon
<1>2. StripEvent(text) # None /\ EventIdOf(text) = TryFrom(e)
  BY <1>1, LaidIsEvent, Zenon
<1>3. /\ EventAnswer[text] = IF EventIdOf(text) = Invalid THEN BadRequest
                             ELSE IF EventIdOf(text) = Panics THEN Panicked
                             ELSE Lookup("event", text)
      /\ EventAnswer[text] # Reject
  BY <1>1, <1>2, EventAnswers, Zenon
<1>4. /\ TryFrom(e) \in {Invalid, Panics, e} /\ e # Panics /\ e # Invalid /\ Invalid # Panics
      /\ TryFrom(e) = Panics <=> Teamless(e)
  BY TryFromResults, ErrorsAreNoValues, ErrorsAreNoIds, ParserPanics, Zenon
<1>5. EventAnswer[text] = Answer(e, text)
  <2>1. CASE TryFrom(e) = e
    BY <1>2, <1>3, <1>4, <2>1, Zenon DEF Answer
  <2>2. CASE TryFrom(e) = Panics
    BY <1>2, <1>3, <1>4, <2>2, Zenon DEF Answer
  <2>3. CASE TryFrom(e) = Invalid
    BY <1>2, <1>3, <1>4, <2>3, Zenon DEF Answer
  <2> QED BY <1>4, <2>1, <2>2, <2>3
<1>6. Route(Encoded(text)) = EventAnswer[text]
  BY <1>1, <1>2, RouteOfPath, Zenon
<1> QED BY <1>1, <1>3, <1>5, <1>6, Zenon

\* Texts are put together in any order.
Regroups(a, b, c) == (a \o b) \o c = a \o (b \o c)

LEMMA AllRegroup ==
  ASSUME NEW S, NEW a \in Seq(S), NEW b \in Seq(S), NEW c \in Seq(S)
  PROVE  Regroups(a, b, c)
BY ConcatAssociative DEF Regroups

\* What has been cut out of a text, put together again.
LEMMA CutBack ==
  ASSUME NEW text \in Text, NEW k \in 1 .. Len(text), text[k] = "?"
  PROVE  /\ SubSeq(text, 1, k - 1) \in Text /\ SubSeq(text, k + 1, Len(text)) \in Text
         /\ Len(SubSeq(text, 1, k - 1)) = k - 1
         /\ \A i \in 1 .. k - 1 : SubSeq(text, 1, k - 1)[i] = text[i]
         /\ (Root \o SubSeq(text, 1, k - 1)) \o (<<"?">> \o SubSeq(text, k + 1, Len(text)))
              = Root \o text
<1>1. text \in Seq(Token) /\ Len(text) \in Nat
  BY DEF Text
<1>2. k - 1 \in 0 .. Len(text) /\ k \in 0 .. Len(text)
  BY <1>1
<1>3. PICK a \in Seq(Token) : /\ a = SubSeq(text, 1, k - 1) /\ Len(a) = k - 1
                              /\ \A i \in 1 .. k - 1 : a[i] = text[i]
  BY <1>2, StartOf DEF Text
<1>4. PICK q \in Seq(Token) : /\ q = SubSeq(text, k + 1, Len(text)) /\ Len(q) = Len(text) - k
                              /\ \A i \in 1 .. Len(q) : q[i] = text[k + i]
  <2>1. /\ Rest(text, k) \in Text /\ Len(Rest(text, k)) = Len(text) - k
        /\ \A i \in 1 .. Len(text) - k : Rest(text, k)[i] = text[k + i]
    BY <1>2, RestOf
  <2>2. Rest(text, k) = SubSeq(text, k + 1, Len(text))
    BY DEF Rest
  <2> QED BY <2>1, <2>2 DEF Text
<1>5. PICK mark \in Seq(Token) : mark = <<"?">> /\ Len(mark) = 1 /\ mark[1] = "?"
  BY SlashAndDot, Single
<1>6. PICK slash \in Seq(Token) : slash = Root
  BY SlashAndDot, Single DEF Root
<1>7. PICK m \in Seq(Token) : /\ m = mark \o q /\ Len(m) = 1 + Len(q) /\ m[1] = "?"
                              /\ \A i \in 1 .. Len(q) : m[1 + i] = q[i]
  <2>1. /\ mark \o q \in Seq(Token) /\ Len(mark \o q) = Len(mark) + Len(q)
        /\ \A i \in 1 .. Len(mark) : (mark \o q)[i] = mark[i]
        /\ \A i \in 1 .. Len(q) : (mark \o q)[Len(mark) + i] = q[i]
    BY WithoutBoth
  <2>2. (mark \o q)[1] = "?"
    BY <1>5, <2>1
  <2> QED BY <1>5, <2>1, <2>2
<1>8. PICK whole \in Seq(Token) : /\ whole = a \o m /\ Len(whole) = Len(a) + Len(m)
                                  /\ \A i \in 1 .. Len(a) : whole[i] = a[i]
                                  /\ \A i \in 1 .. Len(m) : whole[Len(a) + i] = m[i]
  <2>1. /\ a \o m \in Seq(Token) /\ Len(a \o m) = Len(a) + Len(m)
        /\ \A i \in 1 .. Len(a) : (a \o m)[i] = a[i]
        /\ \A i \in 1 .. Len(m) : (a \o m)[Len(a) + i] = m[i]
    BY WithoutBoth
  <2> QED BY <2>1
<1>9. whole = text
  <2>0. /\ Len(whole) = (k - 1) + (1 + Len(q))
        /\ \A i \in 1 .. k - 1 : whole[i] = a[i]
        /\ \A i \in 1 .. Len(m) : whole[(k - 1) + i] = m[i]
    BY <1>3, <1>7, <1>8
  <2>1. Len(whole) = Len(text)
    BY <1>1, <1>4, <2>0
  <2>2. ASSUME NEW i \in 1 .. Len(whole) PROVE whole[i] = text[i]
    <3>1. CASE i < k
      <4>1. i \in 1 .. k - 1
        BY <3>1
      <4> QED BY <1>3, <2>0, <4>1
    <3>2. CASE i = k
      <4>1. 1 \in 1 .. Len(m) /\ (k - 1) + 1 = k
        BY <1>4, <1>7
      <4> QED BY <1>7, <2>0, <3>2, <4>1
    <3>3. CASE i > k
      <4>1. PICK j \in 1 .. Len(q) : i = k + j
        <5>1. i - k \in 1 .. Len(q) /\ i = k + (i - k)
          BY <1>1, <1>4, <2>1, <3>3
        <5> QED BY <5>1
      <4>2. PICK x \in 1 .. Len(m) : x = 1 + j /\ (k - 1) + x = i
        <5>1. 1 + j \in 1 .. Len(m) /\ (k - 1) + (1 + j) = i
          BY <1>4, <1>7, <4>1
        <5> QED BY <5>1
      <4>3. whole[i] = m[x] /\ m[x] = q[j]
        BY <1>7, <2>0, <4>2
      <4>4. q[j] = text[i]
        BY <1>4, <4>1
      <4> QED BY <4>3, <4>4
    <3> QED BY <3>1, <3>2, <3>3
  <2> QED BY <1>1, <2>1, <2>2, SeqEqual
<1>10. (slash \o a) \o m = slash \o (a \o m)
  <2>1. Regroups(slash, a, m)
    BY AllRegroup, Zenon
  <2> QED BY <2>1, Zenon DEF Regroups
<1> QED BY <1>3, <1>4, <1>5, <1>6, <1>7, <1>8, <1>9, <1>10 DEF Text

\* A path as it is written: without a question mark it is encoded already; what
\* is behind the first one is the query.
LEMMA VerbatimParts ==
  ASSUME NEW text \in Text, text # <<>>, Head(text) = "/"
  PROVE  \/ /\ \A i \in 1 .. Len(text) - 1 : text[i + 1] # "?"
            /\ Verbatim(text) = Encoded(text)
         \/ \E k \in 1 .. Len(text) - 1 : \E part \in Text, query \in Text :
              /\ text[k + 1] = "?" /\ \A i \in 1 .. k - 1 : text[i + 1] # "?"
              /\ Len(part) = k - 1 /\ \A i \in 1 .. k - 1 : part[i] = text[i + 1]
              /\ query # None /\ Verbatim(text) = [tail |-> part, query |-> query]
              /\ (Root \o part) \o (<<"?">> \o query) = text
<1>1. PICK tail \in Text : /\ tail = Tail(text) /\ Len(tail) = Len(text) - 1
                           /\ \A i \in 1 .. Len(text) - 1 : tail[i] = text[i + 1]
                           /\ Root \o tail = text
  BY Tails, Zenon
<1>2. Len(text) \in Nat /\ tail \in Seq(Token)
  BY DEF Text
<1>3. CASE Cut(tail, "?") = <<tail>> /\ \A i \in 1 .. Len(tail) : tail[i] # "?"
  <2>1. Len(<<tail>>) = 1 /\ <<tail>>[1] = tail
    OBVIOUS
  <2>2. Verbatim(text) = Encoded(text)
    BY <1>1, <1>3, <2>1, Zenon DEF Verbatim, Encoded
  <2>3. \A i \in 1 .. Len(text) - 1 : text[i + 1] # "?"
    <3> SUFFICES ASSUME NEW i \in 1 .. Len(text) - 1 PROVE text[i + 1] # "?"
      BY Zenon
    <3>1. tail[i] # "?" /\ tail[i] = text[i + 1]
      BY <1>1, <1>3, Zenon
    <3> QED BY <3>1
  <2> QED BY <2>2, <2>3
<1>4. CASE \E k \in 1 .. Len(tail) :
              /\ tail[k] = "?" /\ \A i \in 1 .. k - 1 : tail[i] # "?"
              /\ SubSeq(tail, 1, k - 1) \in Seq(Token)
              /\ SubSeq(tail, k + 1, Len(tail)) \in Seq(Token)
              /\ Cut(tail, "?") = <<SubSeq(tail, 1, k - 1), SubSeq(tail, k + 1, Len(tail))>>
  <2>1. PICK k \in 1 .. Len(tail) :
              /\ tail[k] = "?" /\ \A i \in 1 .. k - 1 : tail[i] # "?"
              /\ Cut(tail, "?") = <<SubSeq(tail, 1, k - 1), SubSeq(tail, k + 1, Len(tail))>>
    BY <1>4, Zenon
  <2>2. PICK part \in Text, query \in Text :
          /\ part = SubSeq(tail, 1, k - 1) /\ query = SubSeq(tail, k + 1, Len(tail))
          /\ Len(part) = k - 1 /\ \A i \in 1 .. k - 1 : part[i] = tail[i]
          /\ (Root \o part) \o (<<"?">> \o query) = Root \o tail
    BY <2>1, CutBack, Zenon
  <2>3. k \in 1 .. Len(text) - 1
    BY <1>1
  <2>4. query # None
    BY ErrorsAreNoIds, Zenon
  <2>5. /\ Len(<<part, query>>) = 2 /\ <<part, query>>[1] = part /\ <<part, query>>[2] = query
        /\ 2 # 1
    OBVIOUS
  <2>6. Verbatim(text) = [tail |-> part, query |-> query]
    BY <1>1, <2>1, <2>2, <2>5, Zenon DEF Verbatim
  <2>7. text[k + 1] = "?"
    BY <1>1, <2>1, <2>3
  <2>8. ASSUME NEW i \in 1 .. k - 1 PROVE text[i + 1] # "?" /\ part[i] = text[i + 1]
    <3>1. i \in 1 .. Len(text) - 1
      BY <1>2, <2>3
    <3> QED BY <1>1, <2>1, <2>2, <3>1
  <2>9. (Root \o part) \o (<<"?">> \o query) = text
    BY <1>1, <2>2, Zenon
  <2> QED BY <2>2, <2>3, <2>4, <2>6, <2>7, <2>8, <2>9, Zenon
<1> QED BY <1>2, <1>3, <1>4, CutParts, Zenon

\* The place where the last name of an event begins, and what is before it.
LEMMA BeforeName ==
  ASSUME NEW e \in EventId, NEW dir \in Directories, "?" \notin Range(dir)
  PROVE  /\ Len(IdText(dir, e)) >= Len(Base(dir)) + 2
         /\ \A i \in 1 .. Len(Base(dir)) :
              /\ IdText(dir, e)[i + 1] = IF i = Len(Base(dir)) THEN "/" ELSE dir[i + 1]
              /\ IdText(dir, e)[i + 1] # "?"
         /\ IdText(dir, e)[Len(Base(dir)) + 2] = "?" <=> First(TeamsText(e), "?")
<1>1. PICK text \in Text, base \in Text, name \in Text, kind \in Text :
        /\ text = IdText(dir, e) /\ base = Base(dir) /\ name = TeamsText(e) /\ kind = e.kind
        /\ Laid(text, base, name, kind)
  BY IdTexts, EventNames, Zenon
<1>2. PICK b \in Nat, n \in Nat, m \in Nat : b = Len(base) /\ n = Len(name) /\ m = Len(kind)
  BY DEF Text
<1>3. /\ Len(text) = b + n + m + 2
      /\ \A i \in 1 .. b : text[i] = base[i]
      /\ text[b + 1] = "/"
      /\ \A i \in 1 .. n : text[(b + 1) + i] = name[i]
      /\ text[b + n + 2] = "."
  BY <1>1, <1>2, Zenon DEF Laid
<1>4. ASSUME NEW i \in 1 .. b
      PROVE  text[i + 1] = (IF i = b THEN "/" ELSE dir[i + 1]) /\ text[i + 1] # "?"
  <2>1. CASE i = b
    <3>1. text[i + 1] = "/"
      BY <1>3, <2>1
    <3> QED BY <2>1, <3>1
  <2>2. CASE i # b
    <3>1. base = dir
      <4>1. dir # Root
        <5> SUFFICES ASSUME dir = Root PROVE FALSE
          OBVIOUS
        <5>1. base = <<>>
          BY <1>1, Zenon DEF Base
        <5> QED BY <1>2, <5>1, EmptySeq
      <4> QED BY <1>1, <4>1, Zenon DEF Base
    <3>2. PICK j \in 1 .. b : j = i + 1
      BY <1>2, <2>2
    <3>3. text[j] = dir[j] /\ j \in DOMAIN dir
      <4>1. DOMAIN base = 1 .. Len(base)
        BY DEF Text
      <4> QED BY <1>2, <1>3, <3>1, <4>1
    <3>4. dir[j] # "?"
      BY <3>3, Zenon DEF Range
    <3> QED BY <2>2, <3>2, <3>3, <3>4
  <2> QED BY <2>1, <2>2
<1>5. text[b + 2] = "?" <=> First(name, "?")
  <2>1. CASE n = 0
    <3>1. text[b + 2] = "."
      BY <1>2, <1>3, <2>1
    <3>2. ~First(name, "?")
      BY <1>2, <2>1 DEF First
    <3> QED BY <3>1, <3>2
  <2>2. CASE n # 0
    <3>1. 1 \in 1 .. n /\ (b + 1) + 1 = b + 2
      BY <1>2, <2>2
    <3>2. text[b + 2] = name[1]
      <4>1. text[(b + 1) + 1] = name[1]
        BY <1>3, <3>1, Zenon
      <4> QED BY <3>1, <4>1
    <3>3. n > 0
      BY <2>2
    <3> QED BY <1>2, <3>2, <3>3 DEF First
  <2> QED BY <2>1, <2>2
<1>6. Len(text) >= b + 2
  BY <1>2, <1>3
<1> QED BY <1>1, <1>2, <1>4, <1>5, <1>6, Zenon

\* The text of an event up to its last name is its directory, with a slash at
\* the end.
LEMMA CutBeforeName ==
  ASSUME NEW e \in EventId, NEW dir \in Directories, "?" \notin Range(dir),
         NEW part \in Text, Len(part) = Len(Base(dir)),
         \A i \in 1 .. Len(Base(dir)) : part[i] = IdText(dir, e)[i + 1]
  PROVE  part = IF dir = Root THEN <<>> ELSE Tail(dir \o Root)
<1>0. part \in Seq(Token) /\ dir \in Seq(Token)
  BY SlashAndDot DEF Text
<1>1. CASE dir = Root
  <2>1. Base(dir) = <<>>
    BY <1>1, Zenon DEF Base
  <2>2. Len(part) = 0
    BY <2>1, EmptySeq
  <2>3. part = <<>>
    BY <1>0, <2>2, EmptySeq
  <2> QED BY <1>1, <2>3
<1>2. CASE dir # Root
  <2>1. Base(dir) = dir
    BY <1>2, Zenon DEF Base
  <2>2. PICK b \in Nat : b = Len(dir)
    BY <1>0
  <2>3. \A i \in 1 .. b : part[i] = IF i = b THEN "/" ELSE dir[i + 1]
    BY <2>1, <2>2, BeforeName, Zenon
  <2>4. PICK x \in Token : x = "/" /\ Root = <<x>>
    BY SlashAndDot DEF Root
  <2>5. PICK more \in Seq(Token) : /\ more = dir \o Root /\ Len(more) = b + 1 /\ more # <<>>
                                   /\ more[b + 1] = "/" /\ \A i \in 1 .. b : more[i] = dir[i]
    <3>1. /\ Append(dir, x) \in Seq(Token) /\ Len(Append(dir, x)) = b + 1
          /\ Append(dir, x) # <<>> /\ Append(dir, x)[b + 1] = x
          /\ \A i \in 1 .. b : Append(dir, x)[i] = dir[i]
      BY <1>0, <2>2, AppendProperties
    <3>2. dir \o <<x>> = Append(dir, x)
      BY <1>0
    <3> QED BY <2>4, <3>1, <3>2
  <2>6. PICK tail \in Seq(Token) : /\ tail = Tail(more) /\ Len(tail) = b
                                   /\ \A i \in 1 .. b : tail[i] = more[i + 1]
    <3>1. /\ Tail(more) \in Seq(Token) /\ Len(Tail(more)) = Len(more) - 1
          /\ \A i \in 1 .. Len(Tail(more)) : Tail(more)[i] = more[i + 1]
      BY <2>5, HeadTailProperties
    <3>2. Len(Tail(more)) = b
      BY <2>2, <2>5, <3>1
    <3> QED BY <3>1, <3>2, Zenon
  <2>7. ASSUME NEW i \in 1 .. b PROVE part[i] = tail[i]
    <3>1. CASE i = b
      BY <2>3, <2>5, <2>6, <3>1
    <3>2. CASE i # b
      <4>1. PICK j \in 1 .. b : j = i + 1
        BY <2>2, <3>2
      <4> QED BY <2>3, <2>5, <2>6, <3>2, <4>1
    <3> QED BY <3>1, <3>2
  <2>8. Len(part) = b
    BY <2>1, <2>2
  <2>9. part = tail
    BY <1>0, <2>6, <2>7, <2>8, SeqEqual
  <2> QED BY <1>2, <2>5, <2>6, <2>9
<1> QED BY <1>1, <1>2

\* The answer to an id as it is written, in a directory without question mark.
LEMMA RouteVerbatim ==
  ASSUME NEW e \in EventId, NEW dir \in Directories, "?" \notin Range(dir)
  PROVE  Route(Verbatim(IdText(dir, e))) =
           IF First(TeamsText(e), "?") THEN Lookup(IF dir = Root THEN "root" ELSE "node", dir)
           ELSE Answer(e, IdText(dir, e))
<1>1. PICK text \in Text, base \in Text :
        /\ text = IdText(dir, e) /\ base = Base(dir) /\ Laid(text, base, TeamsText(e), e.kind)
        /\ text # <<>> /\ Head(text) = "/"
  BY IdTexts, IdIsPath, Zenon
<1>2. PICK b \in Nat : b = Len(base)
  BY DEF Text
<1>3. Len(text) \in Nat /\ Len(text) >= b + 2
  <2>1. Len(text) >= b + 2
    BY <1>1, <1>2, BeforeName, Zenon
  <2> QED BY <2>1 DEF Text
<1>4. \A i \in 1 .. b : text[i + 1] # "?"
  BY <1>1, <1>2, BeforeName, Zenon
<1>5. text[b + 2] = "?" <=> First(TeamsText(e), "?")
  BY <1>1, <1>2, BeforeName, Zenon
<1>6. \A i \in b + 2 .. Len(text) : text[i] # "/"
  BY <1>1, <1>2, LaidIsEvent, Zenon
<1>7. CASE /\ \A i \in 1 .. Len(text) - 1 : text[i + 1] # "?"
           /\ Verbatim(text) = Encoded(text)
  <2>1. PICK j \in 1 .. Len(text) - 1 : j + 1 = b + 2
    <3>1. b + 1 \in 1 .. Len(text) - 1 /\ (b + 1) + 1 = b + 2
      BY <1>3
    <3> QED BY <3>1
  <2>2. text[b + 2] # "?"
    BY <1>7, <2>1
  <2>3. Route(Encoded(text)) = Answer(e, text)
    BY <1>1, IdAnswered, Zenon
  <2> QED BY <1>1, <1>5, <1>7, <2>2, <2>3, Zenon
<1>8. ASSUME NEW k \in 1 .. Len(text) - 1, NEW part \in Text, NEW query \in Text,
             text[k + 1] = "?", \A i \in 1 .. k - 1 : text[i + 1] # "?",
             Len(part) = k - 1, \A i \in 1 .. k - 1 : part[i] = text[i + 1],
             query # None, Verbatim(text) = [tail |-> part, query |-> query],
             (Root \o part) \o (<<"?">> \o query) = text
      PROVE  Route(Verbatim(text)) =
               IF First(TeamsText(e), "?") THEN Lookup(IF dir = Root THEN "root" ELSE "node", dir)
               ELSE Answer(e, text)
  <2>1. k \in Nat /\ k >= b + 1
    <3>1. k \notin 1 .. b
      BY <1>4, <1>8
    <3> QED BY <1>2, <1>3, <3>1
  <2>2. CASE First(TeamsText(e), "?")
    <3>1. k = b + 1
      <4> SUFFICES ASSUME k # b + 1 PROVE FALSE
        OBVIOUS
      <4>1. PICK j \in 1 .. k - 1 : j + 1 = b + 2
        <5>1. b + 1 \in 1 .. k - 1 /\ (b + 1) + 1 = b + 2
          BY <1>2, <2>1
        <5> QED BY <5>1
      <4> QED BY <1>5, <1>8, <2>2, <4>1
    <3>2. k - 1 = b
      BY <2>1, <3>1
    <3>3. Len(part) = b /\ \A i \in 1 .. b : part[i] = text[i + 1]
      BY <1>8, <3>2
    <3>4. part = IF dir = Root THEN <<>> ELSE Tail(dir \o Root)
      BY <1>1, <1>2, <3>3, CutBeforeName, Zenon
    <3>5. CASE dir = Root
      <4>1. Route([tail |-> part, query |-> query]) = Lookup("root", Root)
        BY <3>4, <3>5, Routes, Zenon
      <4> QED BY <1>8, <2>2, <3>5, <4>1, Zenon
    <3>6. CASE dir # Root
      <4>1. dir \in Text /\ IsPath(dir)
        BY PathsAssumption, Zenon
      <4>2. Route([tail |-> part, query |-> query]) = Lookup("node", dir)
        BY <3>4, <3>6, <4>1, RouteOfPath, Zenon
      <4> QED BY <1>8, <2>2, <3>6, <4>2, Zenon
    <3> QED BY <3>5, <3>6
  <2>3. CASE ~First(TeamsText(e), "?")
    <3>1. k >= b + 2
      <4>1. k # b + 1
        <5> SUFFICES ASSUME k = b + 1 PROVE FALSE
          OBVIOUS
        <5>1. k + 1 = b + 2
          OBVIOUS
        <5> QED BY <1>5, <1>8, <2>3, <5>1
      <4> QED BY <1>2, <2>1, <4>1
    <3>2. PICK j \in 1 .. k - 1 : j = k - 1 /\ j + 1 = k /\ j + 1 \in b + 2 .. Len(text)
      <4>1. k - 1 \in 1 .. k - 1 /\ (k - 1) + 1 = k /\ (k - 1) + 1 \in b + 2 .. Len(text)
        BY <1>2, <1>3, <2>1, <3>1
      <4> QED BY <4>1
    <3>3. Last(part) # "/" /\ part # <<>>
      <4>1. Last(part) = part[j]
        BY <1>8, <3>2 DEF Last
      <4>2. part[j] = text[j + 1] /\ text[j + 1] # "/"
        BY <1>6, <1>8, <3>2
      <4>3. Len(part) # 0
        BY <1>8, <3>2
      <4> QED BY <4>1, <4>2, <4>3, EmptySeq
    <3>4. GetEvent(part, query) = EventAnswer[text]
      BY <1>8, <3>3, Zenon DEF GetEvent
    <3>5. EventAnswer[text] = Answer(e, text) /\ Answer(e, text) # Reject
      BY <1>1, IdAnswered, Zenon
    <3>6. Route([tail |-> part, query |-> query]) = GetEvent(part, query)
      BY <3>3, <3>4, <3>5, Routes, Zenon
    <3> QED BY <1>8, <2>3, <3>4, <3>5, <3>6, Zenon
  <2> QED BY <2>2, <2>3
<1>9. \/ /\ \A i \in 1 .. Len(text) - 1 : text[i + 1] # "?"
         /\ Verbatim(text) = Encoded(text)
      \/ \E k \in 1 .. Len(text) - 1 : \E part \in Text, query \in Text :
           /\ text[k + 1] = "?" /\ \A i \in 1 .. k - 1 : text[i + 1] # "?"
           /\ Len(part) = k - 1 /\ \A i \in 1 .. k - 1 : part[i] = text[i + 1]
           /\ query # None /\ Verbatim(text) = [tail |-> part, query |-> query]
           /\ (Root \o part) \o (<<"?">> \o query) = text
  BY <1>1, VerbatimParts, Zenon
<1>10. CASE \E k \in 1 .. Len(text) - 1 : \E part \in Text, query \in Text :
               /\ text[k + 1] = "?" /\ \A i \in 1 .. k - 1 : text[i + 1] # "?"
               /\ Len(part) = k - 1 /\ \A i \in 1 .. k - 1 : part[i] = text[i + 1]
               /\ query # None /\ Verbatim(text) = [tail |-> part, query |-> query]
               /\ (Root \o part) \o (<<"?">> \o query) = text
  <2>1. Route(Verbatim(text)) =
          IF First(TeamsText(e), "?") THEN Lookup(IF dir = Root THEN "root" ELSE "node", dir)
          ELSE Answer(e, text)
    BY <1>8, <1>10, Zenon
  <2> QED BY <1>1, <2>1, Zenon
<1> QED BY <1>7, <1>9, <1>10, Zenon

\* The path of an event that has one names its node, with or without a slash at
\* the end.
LEMMA RouteOfEventPath ==
  ASSUME NEW e \in EventId, NEW dir \in Directories, TeamsText(e) # <<>>
  PROVE  LET path == PrefixPath(Root \o TeamsText(e), dir)
         IN \A slash \in {<<>>, Root} :
              Route(Encoded(path \o slash)) = Lookup(IF path = Root THEN "root" ELSE "node", path)
<1>1. PICK name \in Text : /\ name = TeamsText(e) /\ Without(name, "/") /\ Without(name, ".")
                           /\ name \in Seq(Token) /\ Len(name) \in Nat /\ Len(name) > 0
  <2>1. TeamsText(e) \in Text /\ Without(TeamsText(e), "/") /\ Without(TeamsText(e), ".")
    BY EventNames, Zenon
  <2>2. TeamsText(e) \in Seq(Token) /\ Len(TeamsText(e)) \in Nat /\ Len(TeamsText(e)) > 0
    BY <2>1, EmptySeq DEF Text
  <2> QED BY <2>1, <2>2
<1>2. PICK slash \in Seq(Token) : slash = Root /\ Len(slash) = 1 /\ slash[1] = "/"
  BY SlashAndDot, Single DEF Root
<1>3. PICK own \in Seq(Token) : /\ own = slash \o name /\ Len(own) = 1 + Len(name)
                                /\ own[1] = "/"
                                /\ \A i \in 1 .. Len(name) : own[1 + i] = name[i]
  <2>1. /\ slash \o name \in Seq(Token) /\ Len(slash \o name) = Len(slash) + Len(name)
        /\ \A i \in 1 .. Len(slash) : (slash \o name)[i] = slash[i]
        /\ \A i \in 1 .. Len(name) : (slash \o name)[Len(slash) + i] = name[i]
    BY <1>1, WithoutBoth
  <2>2. (slash \o name)[1] = "/"
    BY <1>2, <2>1
  <2> QED BY <1>2, <2>1, <2>2
<1>4. own \in Text /\ own # Root
  <2>1. Len(own) # Len(slash)
    BY <1>1, <1>2, <1>3
  <2>2. own # slash
    BY <2>1
  <2> QED BY <1>2, <1>3, <2>2 DEF Text
<1>5. PICK base \in Seq(Token) : base = Base(dir) /\ PrefixPath(own, dir) = base \o own
  <2>1. dir \in Text
    BY SlashAndDot
  <2>2. Base(dir) \in Text /\ PrefixPath(own, dir) = Base(dir) \o own
    BY <1>4, <2>1, PrefixedPath, Zenon
  <2> QED BY <2>2 DEF Text
<1>6. PICK path \in Seq(Token) :
        /\ path = base \o own /\ Len(path) = Len(base) + Len(own)
        /\ \A i \in 1 .. Len(base) : path[i] = base[i]
        /\ \A i \in 1 .. Len(own) : path[Len(base) + i] = own[i]
  <2>1. /\ base \o own \in Seq(Token) /\ Len(base \o own) = Len(base) + Len(own)
        /\ \A i \in 1 .. Len(base) : (base \o own)[i] = base[i]
        /\ \A i \in 1 .. Len(own) : (base \o own)[Len(base) + i] = own[i]
    BY WithoutBoth
  <2> QED BY <2>1
<1>7. PICK b \in Nat, n \in Nat : b = Len(base) /\ n = Len(name) /\ n > 0 /\ Len(path) = b + n + 1
  <2>1. Len(base) \in Nat /\ Len(path) = Len(base) + Len(name) + 1
    BY <1>1, <1>3, <1>6
  <2> QED BY <1>1, <2>1
<1>8. path[b + 1] = "/"
  <2>1. 1 \in 1 .. Len(own)
    BY <1>1, <1>3
  <2> QED BY <1>3, <1>6, <1>7, <2>1
<1>9. \A i \in b + 2 .. Len(path) : path[i] # "/" /\ path[i] # "."
  <2> SUFFICES ASSUME NEW i \in b + 2 .. Len(path) PROVE path[i] # "/" /\ path[i] # "."
    BY Zenon
  <2>1. PICK j \in 1 .. Len(name), x \in 1 .. Len(own) : x = 1 + j /\ i = Len(base) + x
    <3>1. /\ i - (b + 1) \in 1 .. Len(name) /\ 1 + (i - (b + 1)) \in 1 .. Len(own)
          /\ i = Len(base) + (1 + (i - (b + 1)))
      BY <1>1, <1>3, <1>7
    <3> QED BY <3>1
  <2>2. path[i] = own[x] /\ own[x] = name[j]
    BY <1>3, <1>6, <2>1
  <2>3. name[j] # "/" /\ name[j] # "."
    BY <1>1 DEF Without
  <2> QED BY <2>2, <2>3
<1>10. path \in Text
  BY DEF Text
<1>11. Slash(path) = b + 1
  <2>1. b + 1 \in 1 .. Len(path)
    BY <1>7
  <2>2. \A i \in (b + 1) + 1 .. Len(path) : path[i] # "/"
    BY <1>9
  <2> QED BY <1>8, <1>10, <2>1, <2>2, SlashIs
<1>12. StripEvent(path) = None
  <2>1. \A i \in Slash(path) + 1 .. Len(path) : path[i] # "."
    BY <1>9, <1>11
  <2> QED BY <1>10, <2>1, EventStripped
<1>13. path # Root
  <2>1. Len(path) # Len(slash)
    BY <1>2, <1>7
  <2>2. path # slash
    BY <2>1
  <2> QED BY <1>2, <2>2
<1>14. IsPath(path)
  <2>1. Len(path) # 0 /\ Len(path) \in b + 2 .. Len(path)
    BY <1>7
  <2>2. path # <<>>
    BY <2>1, EmptySeq
  <2>3. Last(path) # "/"
    BY <1>9, <2>1 DEF Last
  <2>4. path[1] = "/"
    <3>1. CASE dir = Root
      <4>1. base = <<>>
        BY <1>5, <3>1, Zenon DEF Base
      <4>2. b + 1 = 1
        BY <1>7, <4>1, EmptySeq
      <4> QED BY <1>8, <4>2
    <3>2. CASE dir # Root
      <4>1. base = dir
        BY <1>5, <3>2, Zenon DEF Base
      <4>2. base # <<>> /\ Head(base) = "/"
        BY <4>1, SlashAndDot, Zenon
      <4>3. 1 \in 1 .. Len(base) /\ base[1] = "/"
        BY <1>7, <4>2, EmptySeq
      <4> QED BY <1>6, <4>3
    <3> QED BY <3>1, <3>2
  <2>5. Head(path) = "/"
    BY <2>2, <2>4
  <2> QED BY <2>2, <2>3, <2>5, Zenon DEF IsPath
<1>15. Route(Encoded(path)) = Lookup("node", path)
  BY <1>10, <1>12, <1>13, <1>14, RouteOfPath, Zenon
<1>16. Route(Encoded(path \o Root)) = Lookup("node", path)
  BY <1>10, <1>13, <1>14, RouteOfPath, Zenon DEF Encoded
<1>17. path \o <<>> = path
  BY ConcatEmptySeq
<1>18. \A end \in {<<>>, Root} : Route(Encoded(path \o end)) = Lookup("node", path)
  BY <1>15, <1>16, <1>17, Zenon
<1>19. PrefixPath(Root \o TeamsText(e), dir) = path
  BY <1>1, <1>2, <1>3, <1>5, <1>6, Zenon
<1> QED BY <1>13, <1>18, <1>19, Zenon

-----------------------------------------------------------------------------
(* The theorems.                                                           *)

\* An event that has been received, and what it has been parsed as.
LEMMA ReceivedState ==
  ASSUME IInv, id # None
  PROVE  id \in EventId /\ parsed = TryFrom(id)
<1>1. id \in EventId \union {None}
  BY Zenon DEF IInv, ContractTypeOK, TypeOK
<1>2. parsed = TryFrom(id)
  BY Zenon DEF IInv, Computed, AsReceived
<1> QED BY <1>1, <1>2

(* Whatever tokens there are, and wherever sources run: an announced event  *)
(* comes back to its source under the id that the source gave it, and what  *)
(* the source says of any event that its queries find is said of that event *)
(* (db/prefixed.rs, path.rs and the oracle loop).                           *)
THEOREM PrefixAlwaysComesOff == ContractSpec => []PrefixComesOff
<1>1. ASSUME IInv PROVE PrefixComesOff
  <2>1. ASSUME parsed = id, id # None, NEW dir \in Directories, NEW prefix \in Directories
        PROVE  LET yielded == IdText(dir, id)
                   seen    == SeenBySource(yielded, prefix)
               IN /\ SeenBySource(PrefixPath(yielded, prefix), prefix) = yielded
                  /\ Found(yielded, prefix) =>
                       /\ PrefixPath(seen, prefix) = yielded
                       /\ EventIdOf(seen) = IF prefix # Root /\ Slash(yielded) <= Len(prefix)
                                            THEN Invalid ELSE id
    <3>1. id \in EventId /\ TryFrom(id) = id
      BY <1>1, <2>1, ReceivedState, Zenon
    <3> QED BY <3>1, PrefixTaken, Zenon
  <2> QED BY <2>1, Zenon DEF PrefixComesOff
<1> QED BY <1>1, AlwaysComputed, PTL

(* Whatever tokens there are: every URL that is written for an event, its   *)
(* path or a directory is answered for that event, node or directory, and   *)
(* for no other one (the routes of rest_api.rs).                            *)
THEOREM UrlsAlwaysAnswered == ContractSpec => []UrlsAnswered
<1>1. ASSUME IInv PROVE UrlsAnswered
  <2> SUFFICES ASSUME id # None, NEW dir \in Directories,
                      NEW text \in {IdText(dir, id)}, NEW kind \in {EventKind(id)}
               PROVE  LET path   == PrefixPath(Root \o TeamsText(id), dir)
                          answer == IF parsed = id THEN Lookup("event", text)
                                    ELSE IF Len(id.teams) < 2 /\ kind # Invalid /\ kind.type = "eq"
                                            /\ kind.inner.type \in {"vs", "winner"}
                                    THEN Panicked ELSE BadRequest
                          node(p) == Lookup(IF p = Root THEN "root" ELSE "node", p)
                          above   == IF Head(id.teams[1] \o <<".">>) = "?" THEN node(dir) ELSE answer
                          answers ==
                            {<<Encoded(text), answer>>,
                             <<Encoded(dir), IF StripEvent(dir) = None THEN node(dir)
                                             ELSE EventAnswer[dir]>>}
                            \union (IF "?" \in Range(dir) THEN {} ELSE {<<Verbatim(text), above>>})
                            \union (IF TeamsText(id) = <<>> THEN {}
                                    ELSE {<<Encoded(path \o slash), node(path)>> : slash \in {<<>>, Root}})
                      IN \A pair \in answers : Route(pair[1]) = pair[2]
    BY Zenon DEF UrlsAnswered
  <2> DEFINE node(p) == Lookup(IF p = Root THEN "root" ELSE "node", p)
             path    == PrefixPath(Root \o TeamsText(id), dir)
             answer  == IF parsed = id THEN Lookup("event", text)
                        ELSE IF Len(id.teams) < 2 /\ kind # Invalid /\ kind.type = "eq"
                                /\ kind.inner.type \in {"vs", "winner"}
                        THEN Panicked ELSE BadRequest
             above   == IF Head(id.teams[1] \o <<".">>) = "?" THEN node(dir) ELSE answer
             taken   == IF StripEvent(dir) = None THEN node(dir) ELSE EventAnswer[dir]
  <2>1. id \in EventId /\ parsed = TryFrom(id)
    BY <1>1, ReceivedState, Zenon
  <2>2. text = IdText(dir, id) /\ kind = EventKind(id)
    OBVIOUS
  <2>3. answer = Answer(id, text)
    BY <2>1, <2>2, Zenon DEF Answer, Teamless
  <2>4. Route(Encoded(text)) = answer
    BY <2>1, <2>2, <2>3, IdAnswered, Zenon
  <2>5. ASSUME "?" \notin Range(dir) PROVE Route(Verbatim(text)) = above
    <3>1. Head(id.teams[1] \o <<".">>) = "?" <=> First(TeamsText(id), "?")
      BY <2>1, NameBegins, Zenon
    <3>2. Route(Verbatim(text)) = IF First(TeamsText(id), "?") THEN node(dir) ELSE Answer(id, text)
      BY <2>1, <2>2, <2>5, RouteVerbatim, Zenon
    <3> QED BY <2>3, <3>1, <3>2, Zenon
  <2>6. Route(Encoded(dir)) = taken
    BY RouteOfDirectory, Zenon
  <2>7. ASSUME TeamsText(id) # <<>>, NEW slash \in {<<>>, Root}
        PROVE  Route(Encoded(path \o slash)) = node(path)
    BY <2>1, <2>7, RouteOfEventPath, Zenon
  <2> HIDE DEF node, path, answer, above, taken
  <2>8. ASSUME NEW pair \in {<<Encoded(text), answer>>, <<Encoded(dir), taken>>}
                            \union (IF "?" \in Range(dir) THEN {} ELSE {<<Verbatim(text), above>>})
                            \union (IF TeamsText(id) = <<>> THEN {}
                                    ELSE {<<Encoded(path \o slash), node(path)>> : slash \in {<<>>, Root}})
        PROVE  Route(pair[1]) = pair[2]
    <3>1. CASE pair = <<Encoded(text), answer>>
      <4>1. pair[1] = Encoded(text) /\ pair[2] = answer
        BY <3>1
      <4> QED BY <2>4, <4>1, Zenon
    <3>2. CASE pair = <<Encoded(dir), taken>>
      <4>1. pair[1] = Encoded(dir) /\ pair[2] = taken
        BY <3>2
      <4> QED BY <2>6, <4>1, Zenon
    <3>3. CASE "?" \notin Range(dir) /\ pair = <<Verbatim(text), above>>
      <4>1. pair[1] = Verbatim(text) /\ pair[2] = above
        BY <3>3
      <4> QED BY <2>5, <3>3, <4>1, Zenon
    <3>4. CASE /\ TeamsText(id) # <<>>
               /\ pair \in {<<Encoded(path \o slash), node(path)>> : slash \in {<<>>, Root}}
      <4>1. PICK slash \in {<<>>, Root} : pair = <<Encoded(path \o slash), node(path)>>
        BY <3>4
      <4>2. pair[1] = Encoded(path \o slash) /\ pair[2] = node(path)
        BY <4>1
      <4> QED BY <2>7, <3>4, <4>2, Zenon
    <3>5. PICK A, B, C :
            /\ A = {<<Encoded(text), answer>>, <<Encoded(dir), taken>>}
            /\ B = IF "?" \in Range(dir) THEN {} ELSE {<<Verbatim(text), above>>}
            /\ C = IF TeamsText(id) = <<>> THEN {}
                   ELSE {<<Encoded(path \o slash), node(path)>> : slash \in {<<>>, Root}}
            /\ pair \in A \union B \union C
      BY <2>8, Zenon
    <3>6. pair \in A \/ pair \in B \/ pair \in C
      BY <3>5
    <3>7. CASE pair \in A
      BY <3>1, <3>2, <3>5, <3>7, Zenon
    <3>8. CASE pair \in B
      BY <3>3, <3>5, <3>8, Zenon
    <3>9. CASE pair \in C
      BY <3>4, <3>5, <3>9, Zenon
    <3> QED BY <3>6, <3>7, <3>8, <3>9
  <2> QED BY <2>8, Zenon DEF node, path, answer, above, taken
<1> QED BY <1>1, AlwaysComputed, PTL
=============================================================================
