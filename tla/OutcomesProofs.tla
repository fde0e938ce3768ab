--------------------------- MODULE OutcomesProofs ---------------------------
(***************************************************************************)
(* Theorems about Outcomes, for any width of a word, any texts and any     *)
(* numerals: what is parsed and written, and the digits of a price.        *)
(***************************************************************************)
EXTENDS Outcomes, LeastNumbers

-----------------------------------------------------------------------------
(* Powers of two and digits.                                               *)

\* A word has at least two bits.
LEMMA WidthIsNumber == Width \in Nat /\ Width > 1
  BY OutcomesAssumption, Zenon

\* The function Pow2 exists, and doubles with every step.
LEMMA PowersOfTwo ==
  /\ Pow2[0] = 1
  /\ \A n \in Nat : Pow2[n] \in Nat /\ Pow2[n] > 0 /\ Pow2[n + 1] = 2 * Pow2[n]
<1> DEFINE Doubles(f) == f = [n \in Nat |-> IF n = 0 THEN 1 ELSE 2 * f[n - 1]]
<1>0. PICK double \in [Nat -> Nat] : \A m \in Nat : double[m] = 2 * m
  <2>1. [m \in Nat |-> 2 * m] \in [Nat -> Nat]
    OBVIOUS
  <2> QED BY <2>1
<1>1. PICK f \in [Nat -> Nat] : f[0] = 1 /\ \A n \in Nat : f[n + 1] = 2 * f[n]
  <2>1. PICK a \in Nat : a = 1
    OBVIOUS
  <2>2. PICK f : Iterates(f, Nat, a, double)
    BY Recursion, Zenon
  <2> QED BY <1>0, <2>1, <2>2 DEF Iterates
<1>2. Doubles(f)
  <2>1. ASSUME NEW n \in Nat PROVE f[n] = IF n = 0 THEN 1 ELSE 2 * f[n - 1]
    <3>1. CASE n = 0
      BY <1>1, <3>1
    <3>2. CASE n # 0
      <4>1. n - 1 \in Nat /\ (n - 1) + 1 = n
        BY <3>2
      <4>2. f[(n - 1) + 1] = 2 * f[n - 1] /\ f[n - 1] \in Nat
        BY <1>1, <4>1
      <4> QED BY <3>2, <4>1, <4>2
    <3> QED BY <3>1, <3>2
  <2>2. f = [n \in Nat |-> f[n]]
    OBVIOUS
  <2> QED BY <2>1, <2>2
<1>3. Pow2 = CHOOSE g : Doubles(g)
  BY Zenon DEF Pow2
<1>4. Doubles(Pow2)
  <2> HIDE DEF Doubles
  <2> QED BY <1>2, <1>3, Zenon
<1>5. \A n \in Nat : Pow2[n] = IF n = 0 THEN 1 ELSE 2 * Pow2[n - 1]
  BY <1>4, Zenon
<1> HIDE DEF Doubles
<1>6. Pow2[0] = 1
  BY <1>5
<1>7. ASSUME NEW n \in Nat PROVE Pow2[n + 1] = 2 * Pow2[n]
  <2>1. n + 1 \in Nat /\ n + 1 # 0 /\ (n + 1) - 1 = n
    OBVIOUS
  <2>2. Pow2[n + 1] = 2 * Pow2[(n + 1) - 1]
    BY <1>5, <2>1, Zenon
  <2> QED BY <2>1, <2>2
<1> DEFINE T == {n \in Nat : Pow2[n] \in Nat /\ Pow2[n] > 0}
<1>8. Nat \subseteq T
  <2>1. 0 \in T
    BY <1>6
  <2>2. \A n \in Nat : n \in T => n + 1 \in T
    BY <1>7
  <2> HIDE DEF T
  <2> QED BY <2>1, <2>2, AllNumbers
<1> QED BY <1>6, <1>7, <1>8

\* Powers multiply as their exponents add.
LEMMA PowersAdd ==
  ASSUME NEW m \in Nat, NEW n \in Nat
  PROVE  Pow2[m + n] = Pow2[m] * Pow2[n]
<1> DEFINE T == {k \in Nat : Pow2[m + k] = Pow2[m] * Pow2[k]}
<1>1. 0 \in T
  BY PowersOfTwo
<1>2. ASSUME NEW k \in Nat, k \in T PROVE k + 1 \in T
  <2> DEFINE a == Pow2[m]
             b == Pow2[k]
  <2>1. a \in Nat /\ b \in Nat /\ Pow2[k + 1] = 2 * b
    BY PowersOfTwo
  <2>2. m + k \in Nat /\ m + (k + 1) = (m + k) + 1
    OBVIOUS
  <2>3. Pow2[m + (k + 1)] = 2 * Pow2[m + k]
    BY <2>2, PowersOfTwo
  <2>4. Pow2[m + k] = a * b
    BY <1>2
  <2> HIDE DEF a, b
  <2>5. 2 * (a * b) = a * (2 * b)
    BY <2>1
  <2>6. Pow2[m + (k + 1)] = a * Pow2[k + 1]
    BY <2>1, <2>3, <2>4, <2>5
  <2> QED BY <2>6 DEF a
<1> HIDE DEF T
<1>3. Nat \subseteq T
  BY <1>1, <1>2, AllNumbers
<1> QED BY <1>3 DEF T

\* There is one quotient.
LEMMA OneQuotient ==
  ASSUME NEW q \in Nat, q > 0, NEW x \in Nat, NEW b \in Nat, NEW r \in 0 .. q - 1,
         x = q * b + r
  PROVE  x \div q = b
<1>1. PICK a \in Int, s \in 0 .. q - 1 : x \div q = a /\ x = q * a + s
  <2>1. x = q * (x \div q) + (x % q) /\ x \div q \in Int /\ x % q \in 0 .. q - 1
    OBVIOUS
  <2> QED BY <2>1
<1>2. q * (a - b) = r - s
  BY <1>1
<1>3. CASE a - b >= 1
  <2>1. q * (a - b) >= q
    BY <1>3
  <2> QED BY <1>2, <2>1
<1>4. CASE a - b <= -1
  <2>1. q * (a - b) <= -q
    BY <1>4
  <2> QED BY <1>2, <2>1
<1>5. CASE a = b
  BY <1>1, <1>5
<1> QED BY <1>3, <1>4, <1>5

\* Dividing by twice as much is dividing by two in the end.
LEMMA Halved ==
  ASSUME NEW m \in Nat, m > 0, NEW x \in Nat
  PROVE  /\ x \div m \in Nat /\ (x \div m) % 2 \in {0, 1}
         /\ x \div m = 2 * (x \div (2 * m)) + ((x \div m) % 2)
<1>1. PICK a \in Nat, r \in 0 .. m - 1 : x \div m = a /\ x = m * a + r
  <2>1. x = m * (x \div m) + (x % m) /\ x \div m \in Nat /\ x % m \in 0 .. m - 1
    OBVIOUS
  <2> QED BY <2>1
<1>2. PICK b \in Nat, c \in {0, 1} : a % 2 = c /\ a = 2 * b + c
  <2>1. a = 2 * (a \div 2) + (a % 2) /\ a \div 2 \in Nat /\ a % 2 \in {0, 1}
    OBVIOUS
  <2> QED BY <2>1
<1>3. m * c \in {0, m}
  BY <1>2
<1>4. m * c + r \in 0 .. (2 * m) - 1
  BY <1>3
<1>5. x = (2 * m) * b + (m * c + r)
  <2>1. m * (2 * b + c) = (2 * m) * b + m * c
    OBVIOUS
  <2> QED BY <1>1, <1>2, <2>1
<1>6. x \div (2 * m) = b
  <2>1. 2 * m \in Nat /\ 2 * m > 0
    OBVIOUS
  <2> QED BY <1>4, <1>5, <2>1, OneQuotient
<1> QED BY <1>1, <1>2, <1>6

\* The digits of x, the most significant first.
BinaryDigits(n, x) == [i \in 1 .. n |-> (x \div Pow2[n - i]) % 2]

\* D adds up the digits from the first to the last.
AddsUp(D, n, digits) ==
  D = [i \in 0 .. n |-> IF i = 0 THEN 0 ELSE 2 * D[i - 1] + digits[i]]

\* The first i digits make up what is left of x without the others.
LEMMA LeadingDigits ==
  ASSUME NEW n \in Nat, NEW x \in 0 .. Pow2[n] - 1
  PROVE  /\ x \div Pow2[n] = 0 /\ x \div Pow2[0] = x
         /\ \A i \in 1 .. n :
              /\ BinaryDigits(n, x)[i] \in {0, 1}
              /\ x \div Pow2[n - i] =
                   2 * (x \div Pow2[n - (i - 1)]) + BinaryDigits(n, x)[i]
<1>0. Pow2[n] \in Nat /\ Pow2[n] > 0 /\ x \in Nat
  BY PowersOfTwo
<1>1. x \div Pow2[n] = 0
  <2>1. x = Pow2[n] * 0 + x
    BY <1>0
  <2> QED BY <1>0, <2>1, OneQuotient
<1>2. x \div Pow2[0] = x
  BY <1>0, PowersOfTwo
<1>3. ASSUME NEW i \in 1 .. n
      PROVE  /\ BinaryDigits(n, x)[i] \in {0, 1}
             /\ x \div Pow2[n - i] =
                  2 * (x \div Pow2[n - (i - 1)]) + BinaryDigits(n, x)[i]
  <2>1. n - i \in Nat /\ n - (i - 1) = (n - i) + 1
    OBVIOUS
  <2>2. Pow2[n - i] \in Nat /\ Pow2[n - i] > 0 /\ Pow2[n - (i - 1)] = 2 * Pow2[n - i]
    BY <2>1, PowersOfTwo
  <2>3. BinaryDigits(n, x)[i] = (x \div Pow2[n - i]) % 2
    BY DEF BinaryDigits
  <2>4. PICK m \in Nat : m = Pow2[n - i]
    BY <2>2
  <2>5. (x \div m) % 2 \in {0, 1} /\ x \div m = 2 * (x \div (2 * m)) + ((x \div m) % 2)
    BY <1>0, <2>2, <2>4, Halved
  <2> QED BY <2>2, <2>3, <2>4, <2>5
<1> QED BY <1>1, <1>2, <1>3

\* Added up, the digits of x are x, and there is a function that adds them up.
LEMMA DigitsAddUp ==
  ASSUME NEW n \in Nat, NEW x \in 0 .. Pow2[n] - 1
  PROVE  (CHOOSE D : AddsUp(D, n, BinaryDigits(n, x)))[n] = x
<1> DEFINE V == [i \in 0 .. n |-> x \div Pow2[n - i]]
           digits == BinaryDigits(n, x)
<1>1. /\ x \div Pow2[n] = 0 /\ x \div Pow2[0] = x
      /\ \A i \in 1 .. n : x \div Pow2[n - i] = 2 * (x \div Pow2[n - (i - 1)]) + digits[i]
  BY LeadingDigits
<1> HIDE DEF digits
<1>2. V[0] = 0 /\ V[n] = x /\ \A i \in 1 .. n : V[i] = 2 * V[i - 1] + digits[i]
  <2>1. V[0] = x \div Pow2[n - 0] /\ n - 0 = n
    OBVIOUS
  <2>2. V[n] = x \div Pow2[n - n] /\ n - n = 0
    OBVIOUS
  <2>3. ASSUME NEW i \in 1 .. n PROVE V[i] = 2 * V[i - 1] + digits[i]
    <3>1. i \in 0 .. n /\ i - 1 \in 0 .. n
      OBVIOUS
    <3>2. V[i] = x \div Pow2[n - i] /\ V[i - 1] = x \div Pow2[n - (i - 1)]
      BY <3>1
    <3> HIDE DEF V
    <3> QED BY <1>1, <3>2
  <2> HIDE DEF V
  <2> QED BY <1>1, <2>1, <2>2, <2>3
<1>3. AddsUp(V, n, digits)
  <2> DEFINE W == [i \in 0 .. n |-> IF i = 0 THEN 0 ELSE 2 * V[i - 1] + digits[i]]
  <2>1. V = [i \in 0 .. n |-> V[i]]
    OBVIOUS
  <2> HIDE DEF V
  <2>2. \A i \in 0 .. n : V[i] = W[i]
    BY <1>2
  <2>3. V = W
    BY <2>1, <2>2
  <2> QED BY <2>3 DEF AddsUp
<1>4. PICK D : D = CHOOSE E : AddsUp(E, n, digits)
  OBVIOUS
<1>5. AddsUp(D, n, digits)
  BY <1>3, <1>4, Zenon
<1>6. \A i \in 0 .. n : D[i] = IF i = 0 THEN 0 ELSE 2 * D[i - 1] + digits[i]
  BY <1>5, Zenon DEF AddsUp
<1> HIDE DEF V
<1> DEFINE T == {i \in Nat : i \in 0 .. n => D[i] = V[i]}
<1>7. 0 \in T
  BY <1>2, <1>6
<1>8. ASSUME NEW i \in Nat, i \in T PROVE i + 1 \in T
  <2>1. CASE i + 1 \in 0 .. n
    <3>1. i \in 0 .. n /\ i + 1 \in 1 .. n /\ (i + 1) - 1 = i
      BY <2>1
    <3>2. D[i + 1] = 2 * D[i] + digits[i + 1] /\ V[i + 1] = 2 * V[i] + digits[i + 1]
      BY <1>2, <1>6, <2>1, <3>1
    <3> QED BY <1>8, <3>1, <3>2
  <2>2. CASE i + 1 \notin 0 .. n
    BY <2>2
  <2> QED BY <2>1, <2>2
<1> HIDE DEF T
<1>9. n \in T
  <2>1. Nat \subseteq T
    BY <1>7, <1>8, AllNumbers
  <2> QED BY <2>1
<1>10. D[n] = V[n]
  BY <1>9 DEF T
<1> QED BY <1>2, <1>4, <1>10 DEF digits

\* The largest price that fits into d digits.
LEMMA LargestPrice ==
  ASSUME NEW d \in 0 .. Width
  PROVE  /\ Pow2[d] \in Nat /\ Pow2[d] > 0 /\ Pow2[Width] \in Nat /\ Pow2[d] <= Pow2[Width]
         /\ (Pow2[Width] - 1) \div Pow2[Width - d] = Pow2[d] - 1
<1>1. d \in Nat /\ Width - d \in Nat /\ Width = d + (Width - d)
  BY WidthIsNumber
<1>2. PICK P \in Nat : P = Pow2[d] /\ P > 0
  BY <1>1, PowersOfTwo
<1>3. PICK Q \in Nat : Q = Pow2[Width - d] /\ Q > 0
  BY <1>1, PowersOfTwo
<1>4. Pow2[Width] = P * Q
  BY <1>1, <1>2, <1>3, PowersAdd
<1>5. P * Q - 1 = Q * (P - 1) + (Q - 1) /\ P * Q >= P /\ P * Q \in Nat /\ P * Q - 1 \in Nat
  <2>1. P * Q >= P /\ P * Q \in Nat
    BY <1>2, <1>3
  <2> QED BY <1>2, <1>3, <2>1
<1>6. (P * Q - 1) \div Q = P - 1
  <2>1. P - 1 \in Nat /\ Q - 1 \in 0 .. Q - 1
    BY <1>2, <1>3
  <2>2. PICK x \in Nat : x = P * Q - 1
    BY <1>5
  <2>3. x = Q * (P - 1) + (Q - 1)
    BY <1>5, <2>2
  <2>4. x \div Q = P - 1
    BY <1>3, <2>1, <2>3, OneQuotient
  <2> QED BY <2>2, <2>4
<1> QED BY <1>2, <1>3, <1>4, <1>5, <1>6

-----------------------------------------------------------------------------
(* Texts.                                                                  *)

\* Where there is no separator, there is one part.
LEMMA CutNowhere ==
  ASSUME NEW S, NEW text \in Seq(S), NEW sep, \A i \in 1 .. Len(text) : text[i] # sep
  PROVE  Cut(text, sep) = <<text>>
BY DEF Cut, SelectInSeq

\* Where there are, the first one separates two parts.
LEMMA CutFirst ==
  ASSUME NEW S, NEW text \in Seq(S), NEW sep, NEW k \in 1 .. Len(text), text[k] = sep,
         \A i \in 1 .. k - 1 : text[i] # sep
  PROVE  Cut(text, sep) = <<SubSeq(text, 1, k - 1), SubSeq(text, k + 1, Len(text))>>
<1> DEFINE I == {i \in 1 .. Len(text) : text[i] = sep}
<1>1. k \in I /\ \A i \in I : k <= i
  OBVIOUS
<1>2. I \subseteq Nat
  OBVIOUS
<1>3. Cut(text, sep) = IF (IF I # {} THEN Min(I) ELSE 0) = 0 THEN <<text>>
        ELSE <<SubSeq(text, 1, (IF I # {} THEN Min(I) ELSE 0) - 1),
               SubSeq(text, (IF I # {} THEN Min(I) ELSE 0) + 1, Len(text))>>
  BY DEF Cut, SelectInSeq
<1> HIDE DEF I
<1>4. Min(I) = k
  <2>1. Min(I) \in I /\ \A i \in I : Min(I) <= i
    BY <1>1, Zenon DEF Min
  <2>2. PICK m \in I : m = Min(I)
    BY <2>1
  <2>3. m <= k /\ k <= m
    BY <1>1, <2>1, <2>2
  <2>4. m \in Nat /\ k \in Nat
    BY <1>1, <1>2
  <2> QED BY <2>2, <2>3, <2>4
<1>5. I # {} /\ k # 0
  BY <1>1
<1> QED BY <1>3, <1>4, <1>5

\* A text is one part or two, which are texts again.
LEMMA CutParts ==
  ASSUME NEW S, NEW text \in Seq(S), NEW sep
  PROVE  \/ Cut(text, sep) = <<text>> /\ \A i \in 1 .. Len(text) : text[i] # sep
         \/ \E k \in 1 .. Len(text) :
              /\ text[k] = sep /\ \A i \in 1 .. k - 1 : text[i] # sep
              /\ SubSeq(text, 1, k - 1) \in Seq(S)
              /\ SubSeq(text, k + 1, Len(text)) \in Seq(S)
              /\ Cut(text, sep) = <<SubSeq(text, 1, k - 1), SubSeq(text, k + 1, Len(text))>>
<1> DEFINE I == {i \in 1 .. Len(text) : text[i] = sep}
<1>1. CASE I = {}
  <2>1. \A i \in 1 .. Len(text) : text[i] # sep
    BY <1>1
  <2> QED BY <2>1, CutNowhere
<1>2. CASE I # {}
  <2>1. I \subseteq Nat
    OBVIOUS
  <2>2. PICK k \in I : \A i \in I : k <= i
    <3> HIDE DEF I
    <3> QED BY <1>2, <2>1, LeastNumber, Zenon
  <2>3. k \in 1 .. Len(text) /\ text[k] = sep /\ \A i \in 1 .. k - 1 : text[i] # sep
    BY <2>2
  <2>4. SubSeq(text, 1, k - 1) \in Seq(S) /\ SubSeq(text, k + 1, Len(text)) \in Seq(S)
    BY <2>3
  <2>5. Cut(text, sep) = <<SubSeq(text, 1, k - 1), SubSeq(text, k + 1, Len(text))>>
    BY <2>3, CutFirst
  <2> QED BY <2>3, <2>4, <2>5
<1> QED BY <1>1, <1>2

\* A text of one token.
LEMMA Single ==
  ASSUME NEW S, NEW w \in S
  PROVE  <<w>> \in Seq(S) /\ Len(<<w>>) = 1 /\ <<w>>[1] = w
OBVIOUS

\* A token after a text.
LEMMA Appended ==
  ASSUME NEW S, NEW a \in Seq(S), NEW w \in S
  PROVE  /\ a \o <<w>> \in Seq(S) /\ Len(a \o <<w>>) = Len(a) + 1
         /\ (a \o <<w>>)[Len(a) + 1] = w
         /\ \A i \in 1 .. Len(a) : (a \o <<w>>)[i] = a[i]
<1>1. PICK b \in Seq(S) : b = <<w>>
  BY Single, Zenon
<1>2. Len(b) = 1 /\ b[1] = w
  BY <1>1, Single
<1>3. /\ a \o b \in Seq(S) /\ Len(a \o b) = Len(a) + Len(b)
      /\ \A i \in 1 .. Len(a) : (a \o b)[i] = a[i]
      /\ \A i \in 1 .. Len(b) : (a \o b)[Len(a) + i] = b[i]
  OBVIOUS
<1>4. (a \o b)[Len(a) + 1] = w
  <2>1. 1 \in 1 .. Len(b)
    BY <1>2
  <2> QED BY <1>2, <1>3, <2>1
<1>5. Len(a \o b) = Len(a) + 1
  BY <1>2, <1>3
<1> QED BY <1>1, <1>3, <1>4, <1>5, Zenon

\* Two and three tokens.
LEMMA Couple ==
  ASSUME NEW S, NEW w \in S, NEW x \in S
  PROVE  <<w, x>> \in Seq(S) /\ <<w>> \o <<x>> = <<w, x>>
<1>1. PICK a \in Seq(S) : a = <<w>>
  BY Single, Zenon
<1>2. Len(a) = 1 /\ a[1] = w
  BY <1>1, Single
<1>3. PICK b \in Seq(S) : b = a \o <<x>>
  BY Appended, Zenon
<1>4. Len(b) = 2 /\ b[1] = w /\ b[2] = x
  <2>1. Len(b) = Len(a) + 1 /\ b[Len(a) + 1] = x /\ \A i \in 1 .. Len(a) : b[i] = a[i]
    BY <1>3, Appended, ZenonT(60)
  <2>2. 1 \in 1 .. Len(a) /\ Len(a) + 1 = 2
    BY <1>2
  <2> QED BY <1>2, <2>1, <2>2
<1>5. <<w, x>> \in Seq(S) /\ Len(<<w, x>>) = 2 /\ <<w, x>>[1] = w /\ <<w, x>>[2] = x
  OBVIOUS
<1>6. PICK d \in Seq(S) : d = <<w, x>>
  BY <1>5, Zenon
<1>7. \A i \in 1 .. Len(b) : b[i] = d[i]
  <2>1. \A i \in 1 .. Len(b) : i = 1 \/ i = 2
    BY <1>4
  <2> QED BY <1>4, <1>5, <1>6, <2>1
<1>8. Len(b) = Len(d)
  BY <1>4, <1>5, <1>6
<1>9. b = d
  BY <1>7, <1>8
<1> QED BY <1>1, <1>3, <1>5, <1>6, <1>9, Zenon

\* Three tokens, one after the other.
LEMMA Triple ==
  ASSUME NEW S, NEW w \in S, NEW x \in S, NEW y \in S
  PROVE  <<w, x, y>> \in Seq(S) /\ <<w>> \o <<x>> \o <<y>> = <<w, x, y>>
<1>1. PICK b \in Seq(S) : b = <<w, x>> /\ <<w>> \o <<x>> = b
  BY Couple, Zenon
<1>2. Len(b) = 2 /\ b[1] = w /\ b[2] = x
  BY <1>1
<1>3. PICK c \in Seq(S) : c = b \o <<y>>
  BY Appended, Zenon
<1>4. Len(c) = 3 /\ c[1] = w /\ c[2] = x /\ c[3] = y
  <2>1. Len(c) = Len(b) + 1 /\ c[Len(b) + 1] = y /\ \A i \in 1 .. Len(b) : c[i] = b[i]
    BY <1>3, Appended, ZenonT(60)
  <2>2. 1 \in 1 .. Len(b) /\ 2 \in 1 .. Len(b) /\ Len(b) + 1 = 3
    BY <1>2
  <2> QED BY <1>2, <2>1, <2>2
<1>5. /\ <<w, x, y>> \in Seq(S) /\ Len(<<w, x, y>>) = 3
      /\ <<w, x, y>>[1] = w /\ <<w, x, y>>[2] = x /\ <<w, x, y>>[3] = y
  OBVIOUS
<1>6. PICK d \in Seq(S) : d = <<w, x, y>>
  BY <1>5, Zenon
<1>7. \A i \in 1 .. Len(c) : c[i] = d[i]
  <2>1. \A i \in 1 .. Len(c) : i = 1 \/ i = 2 \/ i = 3
    BY <1>4
  <2> QED BY <1>4, <1>5, <1>6, <2>1
<1>8. Len(c) = Len(d)
  BY <1>4, <1>5, <1>6
<1>9. c = d
  BY <1>7, <1>8
<1> QED BY <1>1, <1>3, <1>5, <1>6, <1>9, Zenon

\* What has been joined by a separator is cut there.
LEMMA CutJoined ==
  ASSUME NEW S, NEW a \in Seq(S), NEW sep \in S, NEW b \in Seq(S),
         \A i \in 1 .. Len(a) : a[i] # sep
  PROVE  a \o <<sep>> \o b \in Seq(S) /\ Cut(a \o <<sep>> \o b, sep) = <<a, b>>
<1> DEFINE text == a \o <<sep>> \o b
           k    == Len(a) + 1
<1>1. /\ text \in Seq(S) /\ Len(text) = Len(a) + 1 + Len(b)
      /\ text[k] = sep
      /\ \A i \in 1 .. Len(a) : text[i] = a[i]
      /\ \A i \in 1 .. Len(b) : text[k + i] = b[i]
  <2>1. <<sep>> \in Seq(S) /\ Len(<<sep>>) = 1 /\ <<sep>>[1] = sep
    OBVIOUS
  <2>2. PICK c \in Seq(S) : c = a \o <<sep>>
    <3>1. a \o <<sep>> \in Seq(S)
      BY <2>1
    <3> QED BY <3>1
  <2>3. Len(c) = Len(a) + 1 /\ c[Len(a) + 1] = sep /\ \A i \in 1 .. Len(a) : c[i] = a[i]
    BY <2>1, <2>2
  <2>4. /\ c \o b \in Seq(S) /\ Len(c \o b) = Len(c) + Len(b)
        /\ \A i \in 1 .. Len(c) : (c \o b)[i] = c[i]
        /\ \A i \in 1 .. Len(b) : (c \o b)[Len(c) + i] = b[i]
    OBVIOUS
  <2> QED BY <2>2, <2>3, <2>4
<1> HIDE DEF text
<1>2. k \in 1 .. Len(text) /\ \A i \in 1 .. k - 1 : text[i] # sep
  <2>1. Len(a) \in Nat /\ Len(b) \in Nat
    OBVIOUS
  <2>2. \A i \in 1 .. k - 1 : i \in 1 .. Len(a)
    BY <2>1
  <2>3. k \in 1 .. Len(text)
    BY <1>1, <2>1
  <2>4. ASSUME NEW i \in 1 .. k - 1 PROVE text[i] # sep
    BY <1>1, <2>2, <2>4
  <2> HIDE DEF k
  <2> QED BY <2>3, <2>4
<1>3. Cut(text, sep) = <<SubSeq(text, 1, k - 1), SubSeq(text, k + 1, Len(text))>>
  <2> HIDE DEF k
  <2> QED BY <1>1, <1>2, CutFirst
<1>4. SubSeq(text, 1, k - 1) = a
  <2>1. SubSeq(text, 1, k - 1) = [i \in 1 .. Len(a) |-> text[i]]
    BY <1>1
  <2>2. a = [i \in 1 .. Len(a) |-> a[i]]
    OBVIOUS
  <2> QED BY <1>1, <2>1, <2>2
<1>5. SubSeq(text, k + 1, Len(text)) = b
  <2> DEFINE c == SubSeq(text, k + 1, Len(text))
  <2>1. c \in Seq(S) /\ Len(c) = Len(b) /\ \A i \in 1 .. Len(b) : c[i] = text[k + i]
    BY <1>1
  <2> HIDE DEF c
  <2>2. \A i \in 1 .. Len(b) : c[i] = b[i]
    BY <1>1, <2>1
  <2>3. c = b
    BY <2>1, <2>2
  <2> QED BY <2>3 DEF c
<1> QED BY <1>1, <1>3, <1>4, <1>5 DEF text

-----------------------------------------------------------------------------
(* Event kinds.                                                            *)

\* Errors are no values.
LEMMA ErrorsAreNoValues ==
  /\ Invalid \notin Kind /\ Invalid \notin EventId /\ Invalid \notin Word
  /\ Panics \notin Kind /\ Panics \notin EventId /\ Panics \notin Word
<1>1. {Invalid, Panics} \intersect (Kind \union EventId \union Word) = {}
  BY OutcomesAssumption, Zenon
<1> QED BY <1>1

\* What comes in are texts.
LEMMA TextsComeIn ==
  /\ \A teams \in TeamTexts : teams \in Seq(Text) /\ teams # <<>>
  /\ KindTexts \subseteq Text /\ Reports \subseteq Text
<1>1. TeamTexts \subseteq Seq(Text) \ {<<>>} /\ KindTexts \subseteq Text /\ Reports \subseteq Text
  BY OutcomesAssumption, Zenon
<1> QED BY <1>1, Zenon

\* A number is written as one numeral, which is no separator.
LEMMA Numerals ==
  ASSUME NEW v \in Word
  PROVE  /\ Decimal[v] \in Token /\ Decimal[v] \notin {"?", "=", "_"}
         /\ Number(<<Decimal[v]>>) = v /\ v \in Nat
<1>1. /\ Decimal[v] \in Token \ {"?", "=", "_"}
      /\ Decimal[v] \in DOMAIN NumberOf /\ NumberOf[Decimal[v]] = v
  BY OutcomesAssumption, Zenon
<1>2. Len(<<Decimal[v]>>) = 1 /\ <<Decimal[v]>>[1] = Decimal[v]
  OBVIOUS
<1>3. Number(<<Decimal[v]>>) = v
  BY <1>1, <1>2 DEF Number
<1>4. v \in Nat
  BY DEF Word
<1> QED BY <1>1, <1>3, <1>4

\* A number is parsed from a text, or nothing.
LEMMA NumberIsWord ==
  ASSUME NEW text
  PROVE  Number(text) \in Word \union {Invalid}
BY DEF Number

\* What there is to a kind.
LEMMA KindFields ==
  /\ Vs.type = "vs" /\ Winner.type = "winner" /\ Occur.type = "occur"
  /\ \A n : Price(n).type = "price" /\ Price(n).digits = n
  /\ \A k, v : Gt(k, v).type = "gt" /\ Gt(k, v).inner = k /\ Gt(k, v).bound = v
  /\ \A k, t : Eq(k, t).type = "eq" /\ Eq(k, t).inner = k /\ Eq(k, t).target = t
BY DEF Vs, Winner, Occur, Price, Gt, Eq

\* Kinds that are not predicates.
LEMMA PlainKinds ==
  /\ {Vs, Winner, Occur} \subseteq PlainKind /\ \A n \in 0 .. Width : Price(n) \in PlainKind
  /\ \A kind \in PlainKind :
       \/ kind = Vs \/ kind = Winner \/ kind = Occur
       \/ kind.type = "price" /\ kind.digits \in 0 .. Width /\ kind = Price(kind.digits)
BY KindFields DEF PlainKind

\* All kinds.
LEMMA Kinds ==
  /\ PlainKind \subseteq Kind
  /\ \A v \in Word : Gt(Price(0), v) \in Kind /\ Gt(Price(0), v) \in BoundKind
  /\ \A k \in PlainKind \union BoundKind, t \in Text : Eq(k, t) \in Kind
  /\ \A kind \in BoundKind :
       kind.type = "gt" /\ kind.bound \in Word /\ kind = Gt(Price(0), kind.bound)
  /\ \A kind \in Kind :
       \/ kind \in PlainKind
       \/ kind \in BoundKind
       \/ /\ kind.type = "eq" /\ kind.inner \in PlainKind \union BoundKind
          /\ kind.target \in Text /\ kind = Eq(kind.inner, kind.target)
<1>1. /\ PlainKind \subseteq Kind
      /\ \A v \in Word : Gt(Price(0), v) \in Kind /\ Gt(Price(0), v) \in BoundKind
  BY DEF Kind, BoundKind
<1>2. \A k \in PlainKind \union BoundKind, t \in Text : Eq(k, t) \in Kind
  BY DEF Kind, Eq
<1>3. \A kind \in BoundKind :
        kind.type = "gt" /\ kind.bound \in Word /\ kind = Gt(Price(0), kind.bound)
  BY KindFields DEF BoundKind
<1>4. ASSUME NEW kind \in [type : {"eq"}, inner : PlainKind \union BoundKind, target : Text]
      PROVE  /\ kind.type = "eq" /\ kind.inner \in PlainKind \union BoundKind
             /\ kind.target \in Text /\ kind = Eq(kind.inner, kind.target)
  BY DEF Eq
<1> QED BY <1>1, <1>2, <1>3, <1>4 DEF Kind

\* A word names a kind that is no predicate, and no word with a separator does.
LEMMA Words ==
  /\ FromWord(<<"vs">>) = Vs /\ FromWord(<<"winner">>) = Winner
  /\ FromWord(<<"occur">>) = Occur /\ FromWord(<<"price">>) = Price(0)
  /\ \A name : FromWord(name) \in PlainKind \union {Invalid}
  /\ \A name : FromWord(name) = Price(0) => name = <<"price">>
<1>1. /\ <<"vs">> # <<"winner">> /\ <<"vs">> # <<"occur">> /\ <<"vs">> # <<"price">>
      /\ <<"winner">> # <<"occur">> /\ <<"winner">> # <<"price">> /\ <<"occur">> # <<"price">>
  OBVIOUS
<1>2. Vs \in PlainKind /\ Winner \in PlainKind /\ Occur \in PlainKind /\ Price(0) \in PlainKind
  BY WidthIsNumber, PlainKinds
<1>3. Price(0) # Vs /\ Price(0) # Winner /\ Price(0) # Occur /\ Price(0) # Invalid
  BY <1>2, KindFields, Kinds, ErrorsAreNoValues
<1>4. ASSUME NEW name
      PROVE  /\ name = <<"vs">> => FromWord(name) = Vs
             /\ name = <<"winner">> => FromWord(name) = Winner
             /\ name = <<"occur">> => FromWord(name) = Occur
             /\ name = <<"price">> => FromWord(name) = Price(0)
             /\ name \notin {<<"vs">>, <<"winner">>, <<"occur">>, <<"price">>}
                  => FromWord(name) = Invalid
  BY <1>1, Zenon DEF FromWord
<1> QED BY <1>2, <1>3, <1>4

\* Separators and names are tokens.
LEMMA Tokens ==
  /\ "?" \in Token /\ "=" \in Token /\ "win" \in Token /\ "draw" \in Token
  /\ "true" \in Token /\ "false" \in Token
  /\ "vs" \in Token /\ "winner" \in Token /\ "occur" \in Token
  /\ "price" \in Token /\ "n" \in Token
BY OutcomesAssumption, Zenon

LEMMA Underscore == "_" \in Token
BY OutcomesAssumption, Zenon

\* Texts, cut.
LEMMA TextWhole ==
  ASSUME NEW text \in Text, NEW sep, \A i \in 1 .. Len(text) : text[i] # sep
  PROVE  Cut(text, sep) = <<text>>
<1>1. text \in Seq(Token)
  BY DEF Text
<1> QED BY <1>1, CutNowhere, Zenon

\* A text that was joined is cut where it was joined.
LEMMA TextJoined ==
  ASSUME NEW a \in Text, NEW sep \in Token, NEW b \in Text, \A i \in 1 .. Len(a) : a[i] # sep
  PROVE  a \o <<sep>> \o b \in Text /\ Cut(a \o <<sep>> \o b, sep) = <<a, b>>
<1>1. a \in Seq(Token) /\ b \in Seq(Token)
  BY DEF Text
<1> QED BY <1>1, CutJoined, Zenon DEF Text

\* The parts of a text are texts.
LEMMA TextParts ==
  ASSUME NEW text \in Text, NEW sep
  PROVE  \/ Cut(text, sep) = <<text>> /\ \A i \in 1 .. Len(text) : text[i] # sep
         \/ \E a, b \in Text : Cut(text, sep) = <<a, b>>
<1>1. text \in Seq(Token)
  BY DEF Text
<1>2. \/ Cut(text, sep) = <<text>> /\ \A i \in 1 .. Len(text) : text[i] # sep
      \/ \E k \in 1 .. Len(text) :
           /\ text[k] = sep /\ \A i \in 1 .. k - 1 : text[i] # sep
           /\ SubSeq(text, 1, k - 1) \in Seq(Token)
           /\ SubSeq(text, k + 1, Len(text)) \in Seq(Token)
           /\ Cut(text, sep) = <<SubSeq(text, 1, k - 1), SubSeq(text, k + 1, Len(text))>>
  BY <1>1, CutParts, Zenon
<1> QED BY <1>2, Zenon DEF Text

\* The length and the elements of one and of two parts.
LEMMA Couples ==
  /\ \A a : Len(<<a>>) = 1 /\ <<a>>[1] = a
  /\ \A a, b : Len(<<a, b>>) = 2 /\ <<a, b>>[1] = a /\ <<a, b>>[2] = b
OBVIOUS

\* The same, of two parts that have a name.
LEMMA TwoParts ==
  ASSUME NEW c, NEW a, NEW b, c = <<a, b>>
  PROVE  Len(c) # 1 /\ c[1] = a /\ c[2] = b
OBVIOUS

\* How a bound, a name and a text are parsed, by their parts.
LEMMA BoundByParts ==
  /\ \A name : Cut(name, "_") = <<name>> => FromBound(name) = FromWord(name)
  /\ \A name, a, b : Cut(name, "_") = <<a, b>> =>
       FromBound(name) = IF Number(b) = Invalid \/ FromWord(a) # Price(0)
                         THEN Invalid ELSE Gt(Price(0), Number(b))
<1>1. ASSUME NEW name, Cut(name, "_") = <<name>> PROVE FromBound(name) = FromWord(name)
  <2>1. Len(Cut(name, "_")) = 1
    BY <1>1, Couples, Zenon
  <2> QED BY <2>1 DEF FromBound
<1>2. ASSUME NEW name, NEW a, NEW b, Cut(name, "_") = <<a, b>>
      PROVE  FromBound(name) = IF Number(b) = Invalid \/ FromWord(a) # Price(0)
                               THEN Invalid ELSE Gt(Price(0), Number(b))
  <2>1. Len(Cut(name, "_")) # 1 /\ Cut(name, "_")[1] = a /\ Cut(name, "_")[2] = b
    BY <1>2, TwoParts, Zenon
  <2> QED BY <2>1, Zenon DEF FromBound
<1> QED BY <1>1, <1>2

\* How a kind is parsed, by what its text is cut into.
LEMMA NameByParts ==
  /\ \A name : Cut(name, "=") = <<name>> => FromName(name) = FromBound(name)
  /\ \A name, a, t : Cut(name, "=") = <<a, t>> =>
       FromName(name) = IF FromBound(a) = Invalid THEN Invalid ELSE Eq(FromBound(a), t)
<1>1. ASSUME NEW name, Cut(name, "=") = <<name>> PROVE FromName(name) = FromBound(name)
  <2>1. Len(Cut(name, "=")) = 1 /\ Cut(name, "=")[1] = name
    BY <1>1, Couples, Zenon
  <2> QED BY <2>1 DEF FromName
<1>2. ASSUME NEW name, NEW a, NEW t, Cut(name, "=") = <<a, t>>
      PROVE  FromName(name) = IF FromBound(a) = Invalid THEN Invalid ELSE Eq(FromBound(a), t)
  <2>1. Len(Cut(name, "=")) # 1 /\ Cut(name, "=")[1] = a /\ Cut(name, "=")[2] = t
    BY <1>2, TwoParts, Zenon
  <2> QED BY <2>1, Zenon DEF FromName
<1> QED BY <1>1, <1>2

LEMMA TextByParts ==
  /\ \A text : Cut(text, "?") = <<text>> => FromStr(text) = FromName(text)
  /\ \A text, a, b : Cut(text, "?") = <<a, b>> =>
       FromStr(text) = IF a # <<"price">> \/ Digits(b) = Invalid THEN Invalid ELSE Price(Digits(b))
<1>1. ASSUME NEW text, Cut(text, "?") = <<text>> PROVE FromStr(text) = FromName(text)
  <2>1. Len(Cut(text, "?")) = 1
    BY <1>1, Couples, Zenon
  <2> QED BY <2>1 DEF FromStr
<1>2. ASSUME NEW text, NEW a, NEW b, Cut(text, "?") = <<a, b>>
      PROVE  FromStr(text) =
               IF a # <<"price">> \/ Digits(b) = Invalid THEN Invalid ELSE Price(Digits(b))
  <2>1. Len(Cut(text, "?")) # 1 /\ Cut(text, "?")[1] = a /\ Cut(text, "?")[2] = b
    BY <1>2, TwoParts, Zenon
  <2> QED BY <2>1, Zenon DEF FromStr
<1> QED BY <1>1, <1>2

\* A bound is one on a price, and has a number.
LEMMA Bounds ==
  /\ \A name \in Text : FromBound(name) \in PlainKind \union BoundKind \union {Invalid}
  /\ \A name \in Text : (\A i \in 1 .. Len(name) : name[i] # "_") => FromBound(name) = FromWord(name)
  /\ \A v \in Word : FromBound(<<"price", "_", Decimal[v]>>) = Gt(Price(0), v)
  /\ \A w \in Token \ {"_", "price"}, d \in Token : FromBound(<<w, "_", d>>) = Invalid
<1>1. ASSUME NEW name \in Text
      PROVE  FromBound(name) \in PlainKind \union BoundKind \union {Invalid}
  <2>1. CASE Cut(name, "_") = <<name>>
    <3>1. FromBound(name) = FromWord(name)
      BY <2>1, BoundByParts
    <3>2. FromWord(name) \in PlainKind \union {Invalid}
      BY Words, Zenon
    <3> QED BY <3>1, <3>2
  <2>2. ASSUME NEW a \in Text, NEW b \in Text, Cut(name, "_") = <<a, b>>
        PROVE  FromBound(name) \in PlainKind \union BoundKind \union {Invalid}
    <3>1. FromBound(name) \in {Invalid, Gt(Price(0), Number(b))}
          /\ (Number(b) = Invalid => FromBound(name) = Invalid)
      BY <2>2, BoundByParts, Zenon
    <3>2. Number(b) \in Word \union {Invalid}
      BY NumberIsWord
    <3>3. \A v \in Word : Gt(Price(0), v) \in BoundKind
      BY Kinds, Zenon
    <3> QED BY <3>1, <3>2, <3>3
  <2> QED BY <2>1, <2>2, TextParts, Zenon
<1>2. ASSUME NEW name \in Text, \A i \in 1 .. Len(name) : name[i] # "_"
      PROVE  FromBound(name) = FromWord(name)
  <2>1. Cut(name, "_") = <<name>>
    BY <1>2, TextWhole, Zenon
  <2> QED BY <2>1, BoundByParts, Zenon
<1>3. ASSUME NEW w \in Token, w # "_", NEW d \in Token
      PROVE  Cut(<<w, "_", d>>, "_") = << <<w>>, <<d>> >>
  <2>1. PICK a \in Text, b \in Text : a = <<w>> /\ b = <<d>>
    BY Single, Zenon DEF Text
  <2>2. Len(a) = 1 /\ a[1] = w
    BY <2>1, Couples, Zenon
  <2>3. \A i \in 1 .. Len(a) : a[i] # "_"
    <3>1. \A i \in 1 .. Len(a) : i = 1
      BY <2>2
    <3> QED BY <1>3, <2>2, <3>1, Zenon
  <2>4. "_" \in Token
    BY Underscore, Zenon
  <2>5. Cut(a \o <<"_">> \o b, "_") = <<a, b>>
    BY <2>3, <2>4, TextJoined, Zenon
  <2>6. a \o <<"_">> \o b = <<w, "_", d>>
    BY <2>1, <2>4, Triple, Zenon
  <2> QED BY <2>1, <2>5, <2>6, Zenon
<1>4. ASSUME NEW v \in Word
      PROVE  FromBound(<<"price", "_", Decimal[v]>>) = Gt(Price(0), v)
  <2>1. "price" \in Token /\ "price" # "_" /\ Decimal[v] \in Token
    BY Tokens, Numerals
  <2>2. Cut(<<"price", "_", Decimal[v]>>, "_") = << <<"price">>, <<Decimal[v]>> >>
    BY <1>3, <2>1, Zenon
  <2>3. Number(<<Decimal[v]>>) = v /\ v # Invalid
    BY Numerals, ErrorsAreNoValues
  <2>4. FromWord(<<"price">>) = Price(0)
    BY Words, Zenon
  <2> QED BY <2>2, <2>3, <2>4, BoundByParts, Zenon
<1>5. ASSUME NEW w \in Token \ {"_", "price"}, NEW d \in Token
      PROVE  FromBound(<<w, "_", d>>) = Invalid
  <2>1. w \in Token /\ w # "_" /\ w # "price"
    OBVIOUS
  <2>2. Cut(<<w, "_", d>>, "_") = << <<w>>, <<d>> >>
    BY <1>3, <2>1, Zenon
  <2>3. FromWord(<<w>>) # Price(0)
    <3>1. <<w>> # <<"price">>
      BY <2>1, Couples, Zenon
    <3> QED BY <3>1, Words, Zenon
  <2> QED BY <2>2, <2>3, BoundByParts, Zenon
<1> QED BY <1>1, <1>2, <1>4, <1>5, Zenon

\* An equality is cut at its first equality sign.
LEMMA Names ==
  /\ \A name \in Text : FromName(name) \in Kind \union {Invalid}
  /\ \A name \in Text : (\A i \in 1 .. Len(name) : name[i] # "=") => FromName(name) = FromBound(name)
  /\ \A a, t \in Text : (\A i \in 1 .. Len(a) : a[i] # "=") =>
       FromName(a \o <<"=">> \o t) =
         IF FromBound(a) = Invalid THEN Invalid ELSE Eq(FromBound(a), t)
<1>1. ASSUME NEW name \in Text PROVE FromName(name) \in Kind \union {Invalid}
  <2>1. CASE Cut(name, "=") = <<name>>
    <3>1. FromName(name) = FromBound(name)
      BY <2>1, NameByParts, Zenon
    <3>2. FromBound(name) \in PlainKind \union BoundKind \union {Invalid}
      BY Bounds, Zenon
    <3>3. PlainKind \subseteq Kind /\ BoundKind \subseteq Kind
      BY DEF Kind
    <3> QED BY <3>1, <3>2, <3>3
  <2>2. ASSUME NEW a \in Text, NEW t \in Text, Cut(name, "=") = <<a, t>>
        PROVE  FromName(name) \in Kind \union {Invalid}
    <3>1. FromBound(a) \in PlainKind \union BoundKind \union {Invalid}
      BY Bounds, Zenon
    <3>2. FromName(name) = IF FromBound(a) = Invalid THEN Invalid ELSE Eq(FromBound(a), t)
      BY <2>2, NameByParts, Zenon
    <3>3. \A k \in PlainKind \union BoundKind : Eq(k, t) \in Kind
      BY Kinds, Zenon
    <3> QED BY <3>1, <3>2, <3>3
  <2> QED BY <2>1, <2>2, TextParts, Zenon
<1>2. ASSUME NEW name \in Text, \A i \in 1 .. Len(name) : name[i] # "="
      PROVE  FromName(name) = FromBound(name)
  <2>1. Cut(name, "=") = <<name>>
    BY <1>2, TextWhole, Zenon
  <2> QED BY <2>1, NameByParts, Zenon
<1>3. ASSUME NEW a \in Text, NEW t \in Text, \A i \in 1 .. Len(a) : a[i] # "="
      PROVE  FromName(a \o <<"=">> \o t) =
               IF FromBound(a) = Invalid THEN Invalid ELSE Eq(FromBound(a), t)
  <2>1. "=" \in Token
    BY Tokens
  <2>2. Cut(a \o <<"=">> \o t, "=") = <<a, t>>
    BY <1>3, <2>1, TextJoined, Zenon
  <2> QED BY <2>2, NameByParts, Zenon
<1> QED BY <1>1, <1>2, <1>3, Zenon

\* The kind of any text is a kind, or it has none.
LEMMA ParsedIsKind ==
  ASSUME NEW text \in Text
  PROVE  FromStr(text) \in Kind \union {Invalid}
<1>1. CASE Cut(text, "?") = <<text>>
  <2>1. FromStr(text) = FromName(text)
    BY <1>1, TextByParts, Zenon
  <2> QED BY <2>1, Names, Zenon
<1>2. ASSUME NEW a \in Text, NEW b \in Text, Cut(text, "?") = <<a, b>>
      PROVE  FromStr(text) \in Kind \union {Invalid}
  <2>1. Digits(b) \in 1 .. Width \union {Invalid}
    <3> DEFINE arg == Cut(b, "=")
               n   == IF Len(arg) = 2 THEN Number(arg[2]) ELSE Invalid
    <3>1. Digits(b) = Invalid \/ (Digits(b) = n /\ n \in 1 .. Width)
      BY Zenon DEF Digits
    <3> QED BY <3>1
  <2>2. \A d \in 1 .. Width : Price(d) \in Kind
    BY PlainKinds, Kinds, WidthIsNumber
  <2>3. FromStr(text) = Invalid \/ (Digits(b) # Invalid /\ FromStr(text) = Price(Digits(b)))
    BY <1>2, TextByParts, Zenon
  <2> QED BY <2>1, <2>2, <2>3
<1> QED BY <1>1, <1>2, TextParts, Zenon

\* A question mark after the equality sign leaves no kind, and else there is
\* the kind of the name.
LEMMA Marked ==
  ASSUME NEW a \in Text, NEW t \in Text, \A i \in 1 .. Len(a) : a[i] \notin {"?", "="}
  PROVE  /\ "?" \in Range(t) => FromStr(a \o <<"=">> \o t) = Invalid
         /\ "?" \notin Range(t) =>
              FromStr(a \o <<"=">> \o t) =
                IF FromBound(a) = Invalid THEN Invalid ELSE Eq(FromBound(a), t)
<1> DEFINE text == a \o <<"=">> \o t
<1>1. /\ text \in Text /\ Len(text) = Len(a) + 1 + Len(t) /\ text[Len(a) + 1] = "="
      /\ \A i \in 1 .. Len(a) : text[i] = a[i]
      /\ \A i \in 1 .. Len(t) : text[Len(a) + 1 + i] = t[i]
  <2>1. a \o <<"=">> \in Text /\ Len(a \o <<"=">>) = Len(a) + 1
        /\ (a \o <<"=">>)[Len(a) + 1] = "=" /\ \A i \in 1 .. Len(a) : (a \o <<"=">>)[i] = a[i]
    <3>1. PICK w \in Token : w = "="
      BY Tokens
    <3>2. a \in Seq(Token)
      BY DEF Text
    <3>3. /\ a \o <<w>> \in Seq(Token) /\ Len(a \o <<w>>) = Len(a) + 1
          /\ (a \o <<w>>)[Len(a) + 1] = w
          /\ \A i \in 1 .. Len(a) : (a \o <<w>>)[i] = a[i]
      BY <3>2, Appended
    <3> QED BY <3>1, <3>3, Zenon DEF Text
  <2>2. PICK c \in Text : c = a \o <<"=">>
    BY <2>1
  <2>3. /\ c \o t \in Text /\ Len(c \o t) = Len(c) + Len(t)
        /\ \A i \in 1 .. Len(c) : (c \o t)[i] = c[i]
        /\ \A i \in 1 .. Len(t) : (c \o t)[Len(c) + i] = t[i]
    BY DEF Text
  <2>4. Len(a) \in Nat /\ Len(t) \in Nat
    BY DEF Text
  <2> QED BY <2>1, <2>2, <2>3, <2>4
<1>2. FromName(text) = IF FromBound(a) = Invalid THEN Invalid ELSE Eq(FromBound(a), t)
  BY Names
<1> HIDE DEF text
<1>n. Len(a) \in Nat /\ Len(t) \in Nat /\ Len(text) \in Nat /\ DOMAIN t = 1 .. Len(t)
  BY <1>1 DEF Text
<1>3. CASE "?" \in Range(t)
  <2>1. PICK j \in 1 .. Len(t) : t[j] = "?"
    BY <1>3, <1>n DEF Range
  <2>2. Len(a) + 1 + j \in 1 .. Len(text) /\ text[Len(a) + 1 + j] = "?"
    BY <1>1, <1>n, <2>1
  <2>3. PICK k \in 1 .. Len(text) :
          /\ text[k] = "?"
          /\ Cut(text, "?") = <<SubSeq(text, 1, k - 1), SubSeq(text, k + 1, Len(text))>>
    <3>1. text \in Seq(Token)
      BY <1>1 DEF Text
    <3>2. ~ \A i \in 1 .. Len(text) : text[i] # "?"
      BY <2>2
    <3> QED BY <3>1, <3>2, CutParts, Zenon
  <2>4. k > Len(a) + 1
    <3>1. k \notin 1 .. Len(a)
      BY <1>1, <2>3
    <3>2. k # Len(a) + 1
      BY <1>1, <2>3
    <3> QED BY <1>n, <3>1, <3>2
  <2>5. SubSeq(text, 1, k - 1) # <<"price">>
    <3> DEFINE b == SubSeq(text, 1, k - 1)
    <3>1. Len(b) = k - 1 /\ \A i \in 1 .. k - 1 : b[i] = text[i]
      BY <1>1, <1>n, <2>4 DEF Text
    <3> HIDE DEF b
    <3>2. Len(a) + 1 \in 1 .. k - 1 /\ b[Len(a) + 1] = "="
      BY <1>1, <1>n, <2>4, <3>1
    <3>3. CASE b = <<"price">>
      <4>1. Len(b) = 1 /\ b[1] = "price"
        BY <3>3
      <4> QED BY <1>n, <3>1, <3>2, <4>1
    <3> QED BY <3>3 DEF b
  <2>6. FromStr(text) = Invalid
    BY <2>3, <2>5, TextByParts, Zenon
  <2> QED BY <1>3, <2>6 DEF text
<1>4. CASE "?" \notin Range(t)
  <2>1. ASSUME NEW i \in 1 .. Len(text) PROVE text[i] # "?"
    <3>1. CASE i \in 1 .. Len(a)
      BY <1>1, <3>1
    <3>2. CASE i = Len(a) + 1
      BY <1>1, <3>2
    <3>3. CASE i > Len(a) + 1
      <4>1. i - (Len(a) + 1) \in 1 .. Len(t) /\ Len(a) + 1 + (i - (Len(a) + 1)) = i
        BY <1>1, <1>n, <3>3
      <4>2. text[i] = t[i - (Len(a) + 1)]
        BY <1>1, <4>1
      <4> QED BY <1>4, <1>n, <4>1, <4>2 DEF Range
    <3> QED BY <1>n, <3>1, <3>2, <3>3
  <2>2. Cut(text, "?") = <<text>>
    BY <1>1, <2>1, TextWhole, Zenon
  <2>3. FromStr(text) = FromName(text)
    BY <2>2, TextByParts, Zenon
  <2> QED BY <1>2, <1>4, <2>3 DEF text
<1> QED BY <1>3, <1>4

-----------------------------------------------------------------------------
(* Outcomes.                                                               *)

\* The index of a string in a list, by the first test that it passes.
LEMMA IndexFirst ==
  ASSUME NEW tests \in Seq(BOOLEAN), NEW k \in 1 .. Len(tests), tests[k] = TRUE,
         \A i \in 1 .. k - 1 : tests[i] = FALSE
  PROVE  Index(tests) = k - 1
<1> DEFINE I == {i \in 1 .. Len(tests) : tests[i]}
<1>1. k \in I /\ \A i \in I : k <= i
  OBVIOUS
<1>2. I \subseteq Nat
  OBVIOUS
<1>3. SelectInSeq(tests, LAMBDA t : t) = IF I # {} THEN Min(I) ELSE 0
  BY DEF SelectInSeq
<1>4. \E i \in DOMAIN tests : tests[i]
  OBVIOUS
<1> HIDE DEF I
<1>5. Min(I) = k
  <2>1. Min(I) \in I /\ \A i \in I : Min(I) <= i
    BY <1>1, Zenon DEF Min
  <2>2. PICK m \in I : m = Min(I)
    BY <2>1
  <2>3. m <= k /\ k <= m
    BY <1>1, <2>1, <2>2
  <2>4. m \in Nat /\ k \in Nat
    BY <1>1, <1>2
  <2> QED BY <2>2, <2>3, <2>4
<1>6. SelectInSeq(tests, LAMBDA t : t) = k
  BY <1>1, <1>3, <1>5
<1> QED BY <1>4, <1>6, Zenon DEF Index

\* The first of the cases that is the case.
LEMMA IndexOfTwo ==
  ASSUME NEW p \in BOOLEAN, NEW q \in BOOLEAN
  PROVE  Index(<<p, q>>) = IF p THEN 0 ELSE IF q THEN 1 ELSE Invalid
<1>1. PICK tests \in Seq(BOOLEAN) : tests = <<p, q>> /\ Len(tests) = 2 /\ tests[1] = p /\ tests[2] = q
  <2>1. <<p, q>> \in Seq(BOOLEAN) /\ Len(<<p, q>>) = 2 /\ <<p, q>>[1] = p /\ <<p, q>>[2] = q
    OBVIOUS
  <2> QED BY <2>1, Zenon
<1>2. CASE p
  <2>1. 1 \in 1 .. Len(tests) /\ tests[1] = TRUE /\ (\A i \in 1 .. 1 - 1 : tests[i] = FALSE)
    BY <1>1, <1>2
  <2>2. Index(tests) = 1 - 1
    BY <2>1, IndexFirst
  <2> QED BY <1>1, <1>2, <2>2
<1>3. CASE ~p /\ q
  <2>1. 2 \in 1 .. Len(tests) /\ tests[2] = TRUE /\ (\A i \in 1 .. 2 - 1 : tests[i] = FALSE)
    BY <1>1, <1>3
  <2>2. Index(tests) = 2 - 1
    BY <2>1, IndexFirst
  <2> QED BY <1>1, <1>3, <2>2
<1>4. CASE ~p /\ ~q
  <2>1. ~ \E i \in DOMAIN tests : tests[i]
    BY <1>1, <1>4
  <2>2. Index(tests) = Invalid
    BY <2>1, Zenon DEF Index
  <2> QED BY <1>1, <1>4, <2>2
<1> QED BY <1>2, <1>3, <1>4

LEMMA IndexOfThree ==
  ASSUME NEW p \in BOOLEAN, NEW q \in BOOLEAN, NEW r \in BOOLEAN
  PROVE  Index(<<p, q, r>>) = IF p THEN 0 ELSE IF q THEN 1 ELSE IF r THEN 2 ELSE Invalid
<1>1. PICK tests \in Seq(BOOLEAN) :
        tests = <<p, q, r>> /\ Len(tests) = 3 /\ tests[1] = p /\ tests[2] = q /\ tests[3] = r
  <2>1. /\ <<p, q, r>> \in Seq(BOOLEAN) /\ Len(<<p, q, r>>) = 3
        /\ <<p, q, r>>[1] = p /\ <<p, q, r>>[2] = q /\ <<p, q, r>>[3] = r
    OBVIOUS
  <2> QED BY <2>1, Zenon
<1>2. CASE p
  <2>1. 1 \in 1 .. Len(tests) /\ tests[1] = TRUE /\ (\A i \in 1 .. 1 - 1 : tests[i] = FALSE)
    BY <1>1, <1>2
  <2>2. Index(tests) = 1 - 1
    BY <2>1, IndexFirst
  <2> QED BY <1>1, <1>2, <2>2
<1>3. CASE ~p /\ q
  <2>1. 2 \in 1 .. Len(tests) /\ tests[2] = TRUE /\ (\A i \in 1 .. 2 - 1 : tests[i] = FALSE)
    BY <1>1, <1>3
  <2>2. Index(tests) = 2 - 1
    BY <2>1, IndexFirst
  <2> QED BY <1>1, <1>3, <2>2
<1>4. CASE ~p /\ ~q /\ r
  <2>1. 3 \in 1 .. Len(tests) /\ tests[3] = TRUE
    BY <1>1, <1>4
  <2>2. \A i \in 1 .. 3 - 1 : tests[i] = FALSE
    <3>1. \A i \in 1 .. 3 - 1 : i = 1 \/ i = 2
      OBVIOUS
    <3> QED BY <1>1, <1>4, <3>1
  <2>3. Index(tests) = 3 - 1
    BY <2>1, <2>2, IndexFirst
  <2> QED BY <1>1, <1>4, <2>3
<1>5. CASE ~p /\ ~q /\ ~r
  <2>1. ~ \E i \in DOMAIN tests : tests[i]
    <3>1. \A i \in DOMAIN tests : i = 1 \/ i = 2 \/ i = 3
      BY <1>1
    <3> QED BY <1>1, <1>5, <3>1
  <2>2. Index(tests) = Invalid
    BY <2>1, Zenon DEF Index
  <2> QED BY <1>1, <1>5, <2>2
<1> QED BY <1>2, <1>3, <1>4, <1>5

\* The outcomes of two teams that win are written differently, and no draw.
LEMMA LongerApart ==
  ASSUME NEW S, NEW a \in Seq(S), NEW b \in Seq(S), NEW x \in S, NEW y \in S, NEW z
  PROVE  /\ a \o <<x, y>> \in Seq(S)
         /\ a \o <<x, y>> # <<z>>
         /\ a # b => a \o <<x, y>> # b \o <<x, y>>
<1>1. PICK c \in Seq(S) : c = <<x, y>> /\ Len(c) = 2
  <2>1. <<x, y>> \in Seq(S) /\ Len(<<x, y>>) = 2
    OBVIOUS
  <2> QED BY <2>1, Zenon
<1>2. a \o c \in Seq(S) /\ Len(a \o c) = Len(a) + 2 /\ (\A i \in 1 .. Len(a) : (a \o c)[i] = a[i])
  BY <1>1
<1>3. b \o c \in Seq(S) /\ Len(b \o c) = Len(b) + 2 /\ (\A i \in 1 .. Len(b) : (b \o c)[i] = b[i])
  BY <1>1
<1>4. a \o c # <<z>>
  <2>1. Len(a) \in Nat /\ Len(<<z>>) = 1
    OBVIOUS
  <2> QED BY <1>2, <2>1
<1>5. ASSUME a \o c = b \o c PROVE a = b
  <2>1. Len(a) = Len(b)
    BY <1>2, <1>3, <1>5
  <2>2. \A i \in 1 .. Len(a) : a[i] = b[i]
    BY <1>2, <1>3, <1>5, <2>1
  <2> QED BY <2>1, <2>2
<1> QED BY <1>1, <1>2, <1>4, <1>5, Zenon

\* A win is not a draw, and different teams win differently.
LEMMA WinningApart ==
  ASSUME NEW a \in Text, NEW b \in Text
  PROVE  /\ Winning(a) \in Text /\ Winning(a) # <<"draw">>
         /\ a # b => Winning(a) # Winning(b)
<1>1. a \in Seq(Token) /\ b \in Seq(Token)
  BY DEF Text
<1>2. "_" \in Token /\ "win" \in Token
  BY Underscore, Tokens, Zenon
<1>3. /\ a \o <<"_", "win">> \in Seq(Token)
      /\ a \o <<"_", "win">> # <<"draw">>
      /\ a # b => a \o <<"_", "win">> # b \o <<"_", "win">>
  BY <1>1, <1>2, LongerApart, Zenon
<1> QED BY <1>3, Zenon DEF Text, Winning

\* What an outcome's string is, and what it means, by the type of the kind.
LEMMA WrittenAs ==
  ASSUME NEW teams, NEW kind, NEW v
  PROVE  /\ kind.type = "occur" => OutcomeString(teams, kind, v) = <<"true">>
         /\ kind.type = "vs" =>
              OutcomeString(teams, kind, v) = IF v = 2 THEN <<"draw">> ELSE Winning(teams[v + 1])
         /\ kind.type = "winner" => OutcomeString(teams, kind, v) = teams[v + 1]
         /\ kind.type = "price" => OutcomeString(teams, kind, v) = <<Decimal[v]>>
         /\ IsPredicate(kind) =>
              OutcomeString(teams, kind, v) = IF v = 0 THEN <<"false">> ELSE <<"true">>
BY DEF OutcomeString, IsPredicate

\* How the outcomes of each kind are read.
LEMMA ReadOccur ==
  ASSUME NEW teams, NEW kind, NEW text, kind.type = "occur"
  PROVE  TryFromIdAndOutcome(teams, kind, text) = IF text = <<"true">> THEN 0 ELSE Invalid
BY DEF TryFromIdAndOutcome, IsPredicate

\* The index of a text among others.
LEMMA WhichOfTwo ==
  ASSUME NEW x, NEW a, NEW b
  PROVE  Index(<<x = a, x = b>>) = IF x = a THEN 0 ELSE IF x = b THEN 1 ELSE Invalid
<1>1. PICK p \in BOOLEAN, q \in BOOLEAN :
        (p <=> x = a) /\ (q <=> x = b) /\ Index(<<x = a, x = b>>) = Index(<<p, q>>)
  BY Zenon
<1>2. Index(<<p, q>>) = IF p THEN 0 ELSE IF q THEN 1 ELSE Invalid
  BY IndexOfTwo, Zenon
<1> QED BY <1>1, <1>2, Zenon

LEMMA WhichOfThree ==
  ASSUME NEW x, NEW a, NEW b, NEW c
  PROVE  Index(<<x = a, x = b, x = c>>) =
           IF x = a THEN 0 ELSE IF x = b THEN 1 ELSE IF x = c THEN 2 ELSE Invalid
<1>1. PICK p \in BOOLEAN, q \in BOOLEAN, r \in BOOLEAN :
        /\ (p <=> x = a) /\ (q <=> x = b) /\ (r <=> x = c)
        /\ Index(<<x = a, x = b, x = c>>) = Index(<<p, q, r>>)
  BY Zenon
<1>2. Index(<<p, q, r>>) = IF p THEN 0 ELSE IF q THEN 1 ELSE IF r THEN 2 ELSE Invalid
  BY IndexOfThree, Zenon
<1> QED BY <1>1, <1>2, Zenon

LEMMA ReadVs ==
  ASSUME NEW teams, NEW kind, NEW text, kind.type = "vs", Len(teams) = 2
  PROVE  TryFromIdAndOutcome(teams, kind, text) =
           IF text = Winning(teams[1]) THEN 0 ELSE IF text = Winning(teams[2]) THEN 1
           ELSE IF text = <<"draw">> THEN 2 ELSE Invalid
<1>1. TryFromIdAndOutcome(teams, kind, text) =
        Index(<<text = Winning(teams[1]), text = Winning(teams[2]), text = <<"draw">> >>)
  BY DEF TryFromIdAndOutcome, IsPredicate
<1> QED BY <1>1, WhichOfThree

LEMMA ReadWinner ==
  ASSUME NEW teams, NEW kind, NEW text, kind.type = "winner", Len(teams) = 2
  PROVE  TryFromIdAndOutcome(teams, kind, text) =
           IF text = teams[1] THEN 0 ELSE IF text = teams[2] THEN 1 ELSE Invalid
<1>1. TryFromIdAndOutcome(teams, kind, text) = Index(<<text = teams[1], text = teams[2]>>)
  BY DEF TryFromIdAndOutcome, IsPredicate
<1> QED BY <1>1, WhichOfTwo

LEMMA ReadPrice ==
  ASSUME NEW teams, NEW kind, NEW text, kind.type = "price"
  PROVE  TryFromIdAndOutcome(teams, kind, text) = Number(text)
BY DEF TryFromIdAndOutcome, IsPredicate

LEMMA ReadPredicate ==
  ASSUME NEW teams, NEW kind, NEW text, kind.type \in {"eq", "gt"}
  PROVE  TryFromIdAndOutcome(teams, kind, text) =
           IF text = <<"false">> THEN 0 ELSE IF text = <<"true">> THEN 1 ELSE Invalid
<1>1. TryFromIdAndOutcome(teams, kind, text) = Index(<<text = <<"false">>, text = <<"true">> >>)
  BY DEF TryFromIdAndOutcome, IsPredicate
<1> QED BY <1>1, WhichOfTwo

\* What an event that is accepted is about.
LEMMA AcceptedByKind ==
  ASSUME NEW e
  PROVE  /\ EventKind(e) = Invalid => TryFrom(e) = Invalid
         /\ EventKind(e) # Invalid =>
              /\ EventKind(e).type = "eq" => TryFrom(e) = TryFromEq(e, EventKind(e))
              /\ EventKind(e).type \in {"vs", "winner"} => TryFrom(e) = TryFromTeams(e)
              /\ EventKind(e).type \notin {"eq", "vs", "winner"} => TryFrom(e) = e
<1>1. EventKind(e) = Invalid => TryFrom(e) = Invalid
  BY Zenon DEF TryFrom
<1>2. EventKind(e) # Invalid =>
        TryFrom(e) = CASE EventKind(e).type = "eq" -> TryFromEq(e, EventKind(e))
                       [] EventKind(e).type \in {"vs", "winner"} -> TryFromTeams(e)
                       [] OTHER -> e
  BY Zenon DEF TryFrom
<1> QED BY <1>1, <1>2

\* An id is parsed to itself, if to anything.
LEMMA TryFromResults == ASSUME NEW e PROVE TryFrom(e) \in {Invalid, Panics, e}
<1>1. TryFromEq(e, EventKind(e)) \in {Invalid, Panics, e}
  BY Zenon DEF TryFromEq
<1>2. TryFromTeams(e) \in {Invalid, e}
  BY Zenon DEF TryFromTeams
<1> QED BY <1>1, <1>2, AcceptedByKind

\* What is accepted is unchanged, and has a kind and, for a match, two teams.
LEMMA AcceptedKinds ==
  ASSUME NEW e, e.kind \in Text, TryFrom(e) \notin {Invalid, Panics}
  PROVE  /\ TryFrom(e) = e
         /\ EventKind(e) \in Kind /\ EventKind(e) # Invalid
         /\ EventKind(e).type \in {"vs", "winner"} => Len(e.teams) = 2 /\ e.teams[1] # e.teams[2]
<1>1. EventKind(e) \in Kind \union {Invalid}
  BY ParsedIsKind, Zenon DEF EventKind
<1>2. EventKind(e) # Invalid
  BY AcceptedByKind, Zenon
<1>3. CASE EventKind(e).type = "eq"
  <2>1. TryFromEq(e, EventKind(e)) \in {Invalid, Panics, e}
    BY Zenon DEF TryFromEq
  <2>2. TryFrom(e) = e
    BY <1>2, <1>3, <2>1, AcceptedByKind
  <2> QED BY <1>1, <1>2, <1>3, <2>2
<1>4. CASE EventKind(e).type \in {"vs", "winner"}
  <2>1. /\ TryFromTeams(e) \in {Invalid, e}
        /\ TryFromTeams(e) # Invalid => Len(e.teams) = 2 /\ e.teams[1] # e.teams[2]
    BY Zenon DEF TryFromTeams
  <2> QED BY <1>1, <1>2, <1>4, <2>1, AcceptedByKind
<1>5. CASE EventKind(e).type \notin {"eq", "vs", "winner"}
  BY <1>1, <1>2, <1>5, AcceptedByKind
<1> QED BY <1>3, <1>4, <1>5

\* The types of kinds, and the teams of an event.
LEMMA TypesOfKinds ==
  ASSUME NEW kind \in Kind
  PROVE  kind.type \in {"vs", "winner", "occur", "price", "eq", "gt"}
<1>1. \A k \in PlainKind : k.type \in {"vs", "winner", "occur", "price"}
  BY PlainKinds, KindFields
<1> QED BY <1>1, Kinds

\* Both elements of a pair.
LEMMA TwoOfThem ==
  ASSUME NEW S, NEW pair \in Seq(S), Len(pair) = 2
  PROVE  pair[1] \in S /\ pair[2] \in S
OBVIOUS

\* Every outcome's string parses back to it, whatever team wins.
LEMMA ParsesBack ==
  ASSUME NEW teams \in Seq(Text), NEW kind \in Kind, NEW v \in Word,
         kind.type \in {"vs", "winner"} => Len(teams) = 2 /\ teams[1] # teams[2],
         kind.type = "price" \/ v < NOutcomes(kind)
  PROVE  TryFromIdAndOutcome(teams, kind, OutcomeString(teams, kind, v)) = v
<1>1. v \in Nat
  BY Numerals
<1>2. CASE kind.type = "price"
  <2>1. Number(<<Decimal[v]>>) = v
    BY Numerals
  <2>2. PICK text : text = OutcomeString(teams, kind, v)
    OBVIOUS
  <2>3. text = <<Decimal[v]>>
    BY <1>2, <2>2, WrittenAs
  <2>4. TryFromIdAndOutcome(teams, kind, text) = Number(text)
    BY <1>2, ReadPrice, Zenon
  <2> QED BY <2>1, <2>2, <2>3, <2>4, Zenon
<1>3. CASE kind.type = "occur"
  <2>1. NOutcomes(kind) = 1
    BY <1>3 DEF NOutcomes, NOutcomesForNonce
  <2>2. v = 0
    BY <1>1, <1>3, <2>1
  <2>3. PICK text : text = OutcomeString(teams, kind, v)
    OBVIOUS
  <2>4. text = <<"true">>
    BY <1>3, <2>3, WrittenAs
  <2>5. TryFromIdAndOutcome(teams, kind, text) = IF text = <<"true">> THEN 0 ELSE Invalid
    BY <1>3, ReadOccur, Zenon
  <2> QED BY <2>2, <2>3, <2>4, <2>5, Zenon
<1>4. CASE kind.type = "winner"
  <2>t. Len(teams) = 2 /\ teams[1] \in Text /\ teams[2] \in Text /\ teams[1] # teams[2]
    <3>1. Len(teams) = 2 /\ teams[1] # teams[2]
      BY <1>4
    <3> QED BY <3>1, TwoOfThem, Zenon
  <2>1. NOutcomes(kind) = 2
    BY <1>4 DEF NOutcomes, NOutcomesForNonce
  <2>2. v = 0 \/ v = 1
    BY <1>1, <1>4, <2>1
  <2>3. PICK text : text = OutcomeString(teams, kind, v)
    OBVIOUS
  <2>4. text = teams[v + 1]
    BY <1>4, <2>3, WrittenAs, Zenon
  <2>5. TryFromIdAndOutcome(teams, kind, text) =
          IF text = teams[1] THEN 0 ELSE IF text = teams[2] THEN 1 ELSE Invalid
    BY <1>4, <2>t, ReadWinner
  <2>6. v = 0 => text = teams[1]
    BY <2>4
  <2>7. v = 1 => text = teams[2]
    BY <2>4
  <2> QED BY <2>t, <2>2, <2>3, <2>5, <2>6, <2>7, Zenon
<1>5. CASE kind.type = "vs"
  <2>t. Len(teams) = 2 /\ teams[1] \in Text /\ teams[2] \in Text /\ teams[1] # teams[2]
    <3>1. Len(teams) = 2 /\ teams[1] # teams[2]
      BY <1>5
    <3> QED BY <3>1, TwoOfThem, Zenon
  <2>1. NOutcomes(kind) = 3
    BY <1>5 DEF NOutcomes, NOutcomesForNonce
  <2>2. v = 0 \/ v = 1 \/ v = 2
    BY <1>1, <1>5, <2>1
  <2>3. PICK text : text = OutcomeString(teams, kind, v)
    OBVIOUS
  <2>4. text = IF v = 2 THEN <<"draw">> ELSE Winning(teams[v + 1])
    BY <1>5, <2>3, WrittenAs, Zenon
  <2>5. TryFromIdAndOutcome(teams, kind, text) =
          IF text = Winning(teams[1]) THEN 0 ELSE IF text = Winning(teams[2]) THEN 1
          ELSE IF text = <<"draw">> THEN 2 ELSE Invalid
    BY <1>5, <2>t, ReadVs
  <2>6. /\ Winning(teams[1]) # <<"draw">> /\ Winning(teams[2]) # <<"draw">>
        /\ Winning(teams[1]) # Winning(teams[2])
    BY <2>t, WinningApart, Zenon
  <2>7. v = 0 => text = Winning(teams[1])
    BY <2>4
  <2>8. v = 1 => text = Winning(teams[2])
    BY <2>4
  <2>9. v = 2 => text = <<"draw">>
    BY <2>4
  <2> QED BY <2>2, <2>3, <2>5, <2>6, <2>7, <2>8, <2>9, Zenon
<1>6. CASE kind.type \in {"eq", "gt"}
  <2>1. NOutcomes(kind) = 2
    BY <1>6 DEF NOutcomes, NOutcomesForNonce
  <2>2. v = 0 \/ v = 1
    BY <1>1, <1>6, <2>1
  <2>n. IsPredicate(kind)
    BY <1>6 DEF IsPredicate
  <2>3. PICK text : text = OutcomeString(teams, kind, v)
    OBVIOUS
  <2>4. text = IF v = 0 THEN <<"false">> ELSE <<"true">>
    BY <2>n, <2>3, WrittenAs, Zenon
  <2>5. TryFromIdAndOutcome(teams, kind, text) =
          IF text = <<"false">> THEN 0 ELSE IF text = <<"true">> THEN 1 ELSE Invalid
    BY <1>6, ReadPredicate
  <2>6. <<"true">> # <<"false">>
    OBVIOUS
  <2>7. v = 0 => text = <<"false">>
    BY <2>4
  <2>8. v = 1 => text = <<"true">>
    BY <2>4
  <2> QED BY <2>2, <2>3, <2>5, <2>6, <2>7, <2>8, Zenon
<1> QED BY <1>2, <1>3, <1>4, <1>5, <1>6, TypesOfKinds

\* A word is a number.
LEMMA WordsAreNumbers == Word \subseteq Nat
BY DEF Word

\* What is read as an outcome is one of the kind's outcomes.
LEMMA SmallWords == {0, 1, 2} \subseteq Word
<1>1. PICK k \in Nat : Width = (k + 1) + 1
  <2>1. Width - 2 \in Nat /\ Width = ((Width - 2) + 1) + 1
    BY WidthIsNumber
  <2> QED BY <2>1
<1>2. Pow2[k] \in Nat /\ Pow2[k] > 0 /\ Pow2[k + 1] = 2 * Pow2[k]
      /\ Pow2[(k + 1) + 1] = 2 * Pow2[k + 1]
  BY PowersOfTwo
<1>3. Pow2[Width] \in Nat /\ Pow2[Width] >= 4
  BY <1>1, <1>2
<1> QED BY <1>3 DEF Word

\* A text is read as an outcome of its kind, or not at all.
LEMMA ReadInRange ==
  ASSUME NEW teams, NEW kind \in Kind, NEW text, NEW value,
         kind.type \in {"vs", "winner"} => Len(teams) = 2,
         value = TryFromIdAndOutcome(teams, kind, text)
  PROVE  /\ value \in Word \union {Invalid}
         /\ value # Invalid => kind.type = "price" \/ value < NOutcomes(kind)
<1>1. CASE kind.type = "occur"
  <2>1. value \in {0, Invalid}
    BY <1>1, ReadOccur
  <2>2. NOutcomes(kind) = 1
    BY <1>1 DEF NOutcomes, NOutcomesForNonce
  <2> QED BY <2>1, <2>2, SmallWords
<1>2. CASE kind.type = "winner"
  <2>1. value \in {0, 1, Invalid}
    BY <1>2, ReadWinner
  <2>2. NOutcomes(kind) = 2
    BY <1>2 DEF NOutcomes, NOutcomesForNonce
  <2> QED BY <2>1, <2>2, SmallWords
<1>3. CASE kind.type = "vs"
  <2>1. value \in {0, 1, 2, Invalid}
    BY <1>3, ReadVs
  <2>2. NOutcomes(kind) = 3
    BY <1>3 DEF NOutcomes, NOutcomesForNonce
  <2> QED BY <2>1, <2>2, SmallWords
<1>4. CASE kind.type \in {"eq", "gt"}
  <2>1. value \in {0, 1, Invalid}
    BY <1>4, ReadPredicate
  <2>2. NOutcomes(kind) = 2
    BY <1>4 DEF NOutcomes, NOutcomesForNonce
  <2> QED BY <2>1, <2>2, SmallWords
<1>5. CASE kind.type = "price"
  BY <1>5, ReadPrice, NumberIsWord
<1> QED BY <1>1, <1>2, <1>3, <1>4, <1>5, TypesOfKinds

-----------------------------------------------------------------------------
(* Indexes.                                                                *)

\* What a price is attested as: itself, or the largest that fits its digits.
Attestable(n, value) == IF value <= Pow2[n] - 1 THEN value ELSE Pow2[n] - 1

\* A price has a nonce for each of its digits.
LEMMA PricesOfKinds ==
  ASSUME NEW kind \in Kind, kind.type = "price"
  PROVE  kind.digits \in 0 .. Width /\ NNonces(kind) = kind.digits
<1>1. kind \in PlainKind
  BY Kinds
<1>2. kind.digits \in 0 .. Width
  BY <1>1, PlainKinds, KindFields
<1> QED BY <1>2 DEF NNonces

\* The indexes of a price are its digits, capped; others have one index.
LEMMA IndexesOfPrice ==
  ASSUME NEW kind, kind.type = "price", NEW n \in 0 .. Width, kind.digits = n, NEW value \in Word
  PROVE  /\ Attestable(n, value) \in 0 .. Pow2[n] - 1
         /\ AttestationIndexes(kind, value) = BinaryDigits(n, Attestable(n, value))
<1>1. value \in Nat /\ n \in Nat
  BY WordsAreNumbers, WidthIsNumber
<1>2. PICK P \in Nat : P = Pow2[n] /\ P > 0
  BY LargestPrice
<1>3. Attestable(n, value) = (IF value <= P - 1 THEN value ELSE P - 1) /\ Attestable(n, value) \in 0 .. P - 1
  BY <1>1, <1>2 DEF Attestable
<1>4. PICK cap \in Nat :
        /\ cap = IF n = 0 THEN 0 ELSE (Pow2[Width] - 1) \div Pow2[Width - n]
        /\ cap = P - 1
  <2>1. CASE n = 0
    BY <1>2, <2>1, PowersOfTwo
  <2>2. CASE n # 0
    BY <1>2, <2>2, LargestPrice
  <2> QED BY <2>1, <2>2
<1>5. (IF value < cap THEN value ELSE cap) = Attestable(n, value)
  BY <1>1, <1>3, <1>4
<1>6. AttestationIndexes(kind, value) =
        [i \in 1 .. n |-> ((IF value < cap THEN value ELSE cap) \div Pow2[n - i]) % 2]
  BY <1>4, Zenon DEF AttestationIndexes
<1> QED BY <1>2, <1>3, <1>5, <1>6 DEF BinaryDigits

LEMMA IndexesOfOthers ==
  ASSUME NEW kind, kind.type # "price", NEW value
  PROVE  AttestationIndexes(kind, value) = <<value>> /\ NNonces(kind) = 1
BY DEF AttestationIndexes, NNonces

\* There is an index for every nonce, and each is an outcome of it.
LEMMA IndexesInRange ==
  ASSUME NEW kind \in Kind, NEW value \in Word, kind.type = "price" \/ value < NOutcomes(kind)
  PROVE  /\ NNonces(kind) \in Nat
         /\ AttestationIndexes(kind, value) \in Seq(0 .. 2)
         /\ Len(AttestationIndexes(kind, value)) = NNonces(kind)
         /\ \A i \in 1 .. NNonces(kind) :
              AttestationIndexes(kind, value)[i] < NOutcomesForNonce(kind)
<1>1. CASE kind.type = "price"
  <2>1. PICK n \in 0 .. Width : n = kind.digits /\ NNonces(kind) = n
    BY <1>1, PricesOfKinds
  <2>2. PICK x \in 0 .. Pow2[n] - 1 : AttestationIndexes(kind, value) = BinaryDigits(n, x)
    BY <1>1, <2>1, IndexesOfPrice, Zenon
  <2>3. n \in Nat
    BY WidthIsNumber
  <2>4. \A i \in 1 .. n : BinaryDigits(n, x)[i] \in {0, 1}
    BY <2>3, LeadingDigits, Zenon
  <2>5. PICK digits : digits = BinaryDigits(n, x)
    OBVIOUS
  <2>6. digits = [i \in 1 .. n |-> digits[i]]
    BY <2>5 DEF BinaryDigits
  <2>7. digits \in Seq(0 .. 2) /\ Len(digits) = n /\ \A i \in 1 .. n : digits[i] < 2
    BY <2>3, <2>4, <2>5, <2>6
  <2>8. NOutcomesForNonce(kind) = 2
    BY <1>1 DEF NOutcomesForNonce
  <2> QED BY <2>1, <2>2, <2>3, <2>5, <2>7, <2>8
<1>2. CASE kind.type # "price"
  <2>1. AttestationIndexes(kind, value) = <<value>> /\ NNonces(kind) = 1
    BY <1>2, IndexesOfOthers
  <2>2. NOutcomes(kind) = NOutcomesForNonce(kind) /\ NOutcomes(kind) \in 1 .. 3
    BY <1>2 DEF NOutcomes, NOutcomesForNonce
  <2>3. value \in 0 .. 2 /\ value < NOutcomesForNonce(kind)
    BY <1>2, <2>2, WordsAreNumbers
  <2>4. <<value>> \in Seq(0 .. 2) /\ Len(<<value>>) = 1 /\ <<value>>[1] = value
    BY <2>3
  <2> QED BY <2>1, <2>3, <2>4
<1> QED BY <1>1, <1>2

\* The digits of a price tell it from others, but for those that do not fit.
LEMMA IndexesTellApart ==
  ASSUME NEW kind, kind.type = "price", NEW n \in 0 .. Width, kind.digits = n,
         NEW v \in Word, NEW w \in Word
  PROVE  AttestationIndexes(kind, v) = AttestationIndexes(kind, w)
           <=> v = w \/ (v >= Pow2[n] - 1 /\ w >= Pow2[n] - 1)
<1>1. v \in Nat /\ w \in Nat /\ n \in Nat
  BY WordsAreNumbers, WidthIsNumber
<1>2. PICK P \in Nat : P = Pow2[n] /\ P > 0
  BY LargestPrice
<1>3. PICK x \in 0 .. Pow2[n] - 1 :
        x = Attestable(n, v) /\ AttestationIndexes(kind, v) = BinaryDigits(n, x)
  BY IndexesOfPrice
<1>4. PICK y \in 0 .. Pow2[n] - 1 :
        y = Attestable(n, w) /\ AttestationIndexes(kind, w) = BinaryDigits(n, y)
  BY IndexesOfPrice
<1>5. BinaryDigits(n, x) = BinaryDigits(n, y) => x = y
  <2>1. (CHOOSE D : AddsUp(D, n, BinaryDigits(n, x)))[n] = x
    BY <1>1, DigitsAddUp, Zenon
  <2>2. (CHOOSE D : AddsUp(D, n, BinaryDigits(n, y)))[n] = y
    BY <1>1, DigitsAddUp, Zenon
  <2> QED BY <2>1, <2>2, Zenon
<1>6. x = y <=> v = w \/ (v >= P - 1 /\ w >= P - 1)
  <2>1. x = (IF v <= P - 1 THEN v ELSE P - 1) /\ y = (IF w <= P - 1 THEN w ELSE P - 1)
    BY <1>2, <1>3, <1>4 DEF Attestable
  <2> QED BY <1>1, <1>2, <2>1
<1>7. AttestationIndexes(kind, v) = AttestationIndexes(kind, w) <=> x = y
  BY <1>3, <1>4, <1>5, Zenon
<1> QED BY <1>2, <1>6, <1>7

-----------------------------------------------------------------------------
(* What holds of an attestation.                                           *)

\* The indexes of an attested outcome are one for each nonce, and decode to it.
LEMMA Decodes ==
  ASSUME attested # None => /\ EventKind(id) \in Kind /\ outcome.value \in Word
                            /\ EventKind(id).type = "price" \/ outcome.value < NOutcomes(EventKind(id))
                            /\ attested.indexes = AttestationIndexes(EventKind(id), outcome.value)
  PROVE  IndexesDecode
<1> SUFFICES ASSUME attested # None PROVE IndexesDecode
  BY Zenon DEF IndexesDecode
<1>1. PICK kind \in Kind, value \in Word :
        /\ kind = EventKind(id) /\ value = outcome.value
        /\ kind.type = "price" \/ value < NOutcomes(kind)
        /\ attested.indexes = AttestationIndexes(kind, value)
  BY Zenon
<1>2. PICK n \in Nat : n = NNonces(kind)
  BY <1>1, IndexesInRange
<1>3. /\ Len(attested.indexes) = n
      /\ \A i \in 1 .. n : attested.indexes[i] < NOutcomesForNonce(kind)
  BY <1>1, <1>2, IndexesInRange
<1>4. kind.type = "price" =>
        (CHOOSE D : AddsUp(D, n, attested.indexes))[n] =
           IF value <= Pow2[n] - 1 THEN value ELSE Pow2[n] - 1
  <2> HAVE kind.type = "price"
  <2>1. n \in 0 .. Width /\ kind.digits = n
    BY <1>2, PricesOfKinds
  <2>2. /\ Attestable(n, value) \in 0 .. Pow2[n] - 1
        /\ AttestationIndexes(kind, value) = BinaryDigits(n, Attestable(n, value))
    BY <2>1, IndexesOfPrice
  <2>3. (CHOOSE D : AddsUp(D, n, BinaryDigits(n, Attestable(n, value))))[n] = Attestable(n, value)
    BY <2>2, DigitsAddUp, Zenon
  <2> QED BY <1>1, <2>2, <2>3, Zenon DEF Attestable
<1> QED BY <1>1, <1>2, <1>3, <1>4, Zenon DEF IndexesDecode, AddsUp

-----------------------------------------------------------------------------
(* Predicates.                                                             *)

\* The kinds that a predicate can be about: prices lose their digits.
Inner(kind) == IF kind.type = "price" THEN Price(0) ELSE kind

InnerKind == {Vs, Winner, Occur, Price(0)}

\* What can be inside of a predicate.
LEMMA InnerKinds ==
  /\ InnerKind \subseteq PlainKind
  /\ \A k \in InnerKind : /\ k.type \in {"vs", "winner", "occur", "price"}
                          /\ k.type = "price" => k.digits = 0 /\ k = Price(0)
                          /\ k.type # "price" => k # Price(0)
                          /\ FromWord(<<k.type>>) = k
  /\ \A kind \in PlainKind : Inner(kind) \in InnerKind /\ Inner(kind).type = kind.type
<1>1. 0 \in 0 .. Width
  BY WidthIsNumber
<1>2. InnerKind \subseteq PlainKind
  BY <1>1, PlainKinds DEF InnerKind
<1>3. ASSUME NEW k \in InnerKind
      PROVE  /\ k.type \in {"vs", "winner", "occur", "price"}
             /\ k.type = "price" => k.digits = 0 /\ k = Price(0)
             /\ k.type # "price" => k # Price(0)
  BY KindFields DEF InnerKind
<1>4. ASSUME NEW k \in InnerKind PROVE FromWord(<<k.type>>) = k
  <2>1. CASE k = Vs
    BY <2>1, KindFields, Words, Zenon
  <2>2. CASE k = Winner
    BY <2>2, KindFields, Words, Zenon
  <2>3. CASE k = Occur
    BY <2>3, KindFields, Words, Zenon
  <2>4. CASE k = Price(0)
    BY <2>4, KindFields, Words, Zenon
  <2> QED BY <2>1, <2>2, <2>3, <2>4 DEF InnerKind
<1>5. ASSUME NEW kind \in PlainKind
      PROVE  Inner(kind) \in InnerKind /\ Inner(kind).type = kind.type
  BY PlainKinds, KindFields DEF Inner, InnerKind
<1> QED BY <1>2, <1>3, <1>4, <1>5

\* How a predicate is displayed.
LEMMA OneAndTwo ==
  ASSUME NEW S, NEW w \in S, NEW x \in S, NEW y \in S
  PROVE  <<w>> \o <<x, y>> = <<w, x, y>>
<1>1. PICK a \in Seq(S), b \in Seq(S), d \in Seq(S) :
        a = <<w>> /\ b = <<x, y>> /\ d = <<w, x, y>>
  BY Single, Couple, Triple, Zenon
<1>2. /\ Len(a) = 1 /\ a[1] = w /\ Len(b) = 2 /\ b[1] = x /\ b[2] = y
      /\ Len(d) = 3 /\ d[1] = w /\ d[2] = x /\ d[3] = y
  <2>1. Len(a) = 1 /\ a[1] = w
    BY <1>1
  <2>2. Len(b) = 2 /\ b[1] = x /\ b[2] = y
    BY <1>1
  <2>3. Len(d) = 3 /\ d[1] = w /\ d[2] = x /\ d[3] = y
    BY <1>1
  <2> QED BY <2>1, <2>2, <2>3
<1>3. PICK c \in Seq(S) : c = a \o b
  <2>1. a \o b \in Seq(S)
    OBVIOUS
  <2> QED BY <2>1, Zenon
<1>4. /\ Len(c) = Len(a) + Len(b)
      /\ \A i \in 1 .. Len(a) : c[i] = a[i]
      /\ \A i \in 1 .. Len(b) : c[Len(a) + i] = b[i]
  BY <1>3
<1>5. Len(c) = 3 /\ c[1] = w /\ c[2] = x /\ c[3] = y
  <2>1. 1 \in 1 .. Len(a) /\ 1 \in 1 .. Len(b) /\ 2 \in 1 .. Len(b)
        /\ Len(a) + 1 = 2 /\ Len(a) + 2 = 3 /\ Len(a) + Len(b) = 3
    BY <1>2
  <2>2. c[2] = b[1] /\ c[3] = b[2] /\ c[1] = a[1]
    BY <1>4, <2>1
  <2> QED BY <1>2, <1>4, <2>1, <2>2
<1>6. \A i \in 1 .. Len(c) : c[i] = d[i]
  <2>1. \A i \in 1 .. Len(c) : i = 1 \/ i = 2 \/ i = 3
    BY <1>5
  <2> QED BY <1>2, <1>5, <2>1
<1>7. c = d
  BY <1>2, <1>5, <1>6
<1> QED BY <1>1, <1>3, <1>7, Zenon

\* How predicates are displayed.
LEMMA Displayed ==
  ASSUME NEW k \in InnerKind, NEW t, NEW v
  PROVE  /\ Display(Eq(k, t)) = <<k.type>> \o <<"=">> \o t
         /\ Display(Gt(k, v)) = <<k.type>> \o <<"_", Decimal[v]>>
<1>1. /\ k.type # "gt" /\ k.type # "eq" /\ "eq" # "gt"
      /\ k.type = "price" => k.digits = 0 /\ <<k.type>> = <<"price">>
  <2>1. k.type \in {"vs", "winner", "occur", "price"} /\ (k.type = "price" => k.digits = 0)
    BY InnerKinds, Zenon
  <2>2. "eq" # "gt"
    OBVIOUS
  <2>3. k.type # "gt" /\ k.type # "eq"
    BY <2>1
  <2> QED BY <2>1, <2>2, <2>3, Zenon
<1>2. /\ Eq(k, t).type = "eq" /\ Eq(k, t).inner = k /\ Eq(k, t).target = t
      /\ Gt(k, v).type = "gt" /\ Gt(k, v).inner = k /\ Gt(k, v).bound = v
  BY KindFields
<1>3. Display(Eq(k, t)) = <<k.type>> \o <<"=">> \o t
  <2> DEFINE K == Eq(k, t)
  <2>1. K.type = "eq" /\ K.inner = k /\ K.target = t
    BY <1>2, Zenon
  <2> HIDE DEF K
  <2>2. Display(K) = <<k.type>> \o <<"=">> \o t
    BY <1>1, <2>1 DEF Display
  <2> QED BY <2>2, Zenon DEF K
<1>4. Display(Gt(k, v)) = <<k.type>> \o <<"_", Decimal[v]>>
  BY <1>1, <1>2, Zenon DEF Display
<1> QED BY <1>3, <1>4, Zenon

\* How what is displayed is parsed again.
LEMMA EqualityParsed ==
  ASSUME NEW k \in InnerKind, NEW t \in Text
  PROVE  /\ Display(Eq(k, t)) \in Text
         /\ "?" \in Range(t) => FromStr(Display(Eq(k, t))) = Invalid
         /\ "?" \notin Range(t) => FromStr(Display(Eq(k, t))) = Eq(k, t)
<1>1. PICK w \in Token : w = k.type /\ w \in {"vs", "winner", "occur", "price"}
  BY InnerKinds, Tokens
<1>2. PICK a \in Text : a = <<w>>
  BY Single, Zenon DEF Text
<1>3. Len(a) = 1 /\ a[1] = w
  BY <1>2
<1>4. \A i \in 1 .. Len(a) : a[i] \notin {"?", "="}
  <2>1. \A i \in 1 .. Len(a) : i = 1
    BY <1>3
  <2>2. w \notin {"?", "="}
    BY <1>1
  <2> QED BY <1>3, <2>1, <2>2, Zenon
<1>5. \A i \in 1 .. Len(a) : a[i] # "_"
  <2>1. \A i \in 1 .. Len(a) : i = 1
    BY <1>3
  <2>2. w # "_"
    BY <1>1, Zenon
  <2> QED BY <1>3, <2>1, <2>2, Zenon
<1>6. FromBound(a) = k /\ k # Invalid
  <2>1. FromBound(a) = FromWord(a)
    BY <1>5, Bounds, Zenon
  <2>2. FromWord(a) = k
    BY <1>1, <1>2, InnerKinds, Zenon
  <2>3. k \in Kind
    BY InnerKinds, Kinds
  <2> QED BY <2>1, <2>2, <2>3, ErrorsAreNoValues
<1>7. Display(Eq(k, t)) = a \o <<"=">> \o t
  BY <1>1, <1>2, Displayed, Zenon
<1>8. a \o <<"=">> \o t \in Text
  <2>1. PICK e \in Token : e = "="
    BY Tokens
  <2>2. \A i \in 1 .. Len(a) : a[i] # e
    BY <1>4, <2>1
  <2>3. a \o <<e>> \o t \in Text
    BY <2>2, TextJoined, Zenon
  <2> QED BY <2>1, <2>3, Zenon
<1>9. "?" \in Range(t) => FromStr(a \o <<"=">> \o t) = Invalid
  BY <1>4, Marked, Zenon
<1>10. "?" \notin Range(t) => FromStr(a \o <<"=">> \o t) = Eq(k, t)
  <2>1. "?" \notin Range(t) =>
          FromStr(a \o <<"=">> \o t) = IF FromBound(a) = Invalid THEN Invalid ELSE Eq(FromBound(a), t)
    BY <1>4, Marked, Zenon
  <2> QED BY <1>6, <2>1, Zenon
<1> QED BY <1>7, <1>8, <1>9, <1>10, Zenon

\* A token that is none of three.
LEMMA NoneOfThree ==
  ASSUME NEW S, NEW w \in S, NEW x \in S, NEW y \in S, NEW z, w # z, x # z, y # z
  PROVE  \A i \in 1 .. Len(<<w, x, y>>) : <<w, x, y>>[i] # z
<1>1. PICK d \in Seq(S) : d = <<w, x, y>>
  BY Triple, Zenon
<1>2. Len(d) = 3 /\ d[1] = w /\ d[2] = x /\ d[3] = y
  BY <1>1
<1>3. \A i \in 1 .. Len(d) : i = 1 \/ i = 2 \/ i = 3
  BY <1>2
<1>4. \A i \in 1 .. Len(d) : d[i] # z
  BY <1>2, <1>3
<1> QED BY <1>1, <1>4, Zenon

\* A displayed bound is parsed as itself on a price, and on nothing else.
LEMMA BoundParsed ==
  ASSUME NEW k \in InnerKind, NEW v \in Word
  PROVE  /\ Display(Gt(k, v)) \in Text
         /\ k = Price(0) => FromStr(Display(Gt(k, v))) = Gt(k, v)
         /\ k # Price(0) => FromStr(Display(Gt(k, v))) = Invalid
<1>1. PICK w \in Token : w = k.type /\ w \in {"vs", "winner", "occur", "price"}
  BY InnerKinds, Tokens
<1>2. PICK d \in Token : d = Decimal[v]
  BY Numerals, Zenon
<1>3. d # "?" /\ d # "=" /\ d # "_"
  BY <1>2, Numerals, Zenon
<1>4. w # "?" /\ w # "="
  BY <1>1
<1>5. "_" # "?" /\ "_" # "=" /\ "_" \in Token
  BY Underscore, Zenon
<1>6. PICK name \in Text : name = <<w, "_", d>>
  BY <1>5, Triple, Zenon DEF Text
<1>7. /\ \A i \in 1 .. Len(name) : name[i] # "?"
      /\ \A i \in 1 .. Len(name) : name[i] # "="
  <2>1. \A z : w # z /\ "_" # z /\ d # z =>
           \A i \in 1 .. Len(<<w, "_", d>>) : <<w, "_", d>>[i] # z
    BY <1>5, NoneOfThree, Zenon
  <2>2. \A z : w # z /\ "_" # z /\ d # z => \A i \in 1 .. Len(name) : name[i] # z
    BY <1>6, <2>1, Zenon
  <2> QED BY <1>3, <1>4, <1>5, <2>2, Zenon
<1>8. FromStr(name) = FromBound(name)
  <2>1. Cut(name, "?") = <<name>>
    BY <1>7, TextWhole, Zenon
  <2>2. FromStr(name) = FromName(name)
    BY <2>1, TextByParts, Zenon
  <2>3. FromName(name) = FromBound(name)
    BY <1>7, Names, Zenon
  <2> QED BY <2>2, <2>3, Zenon
<1>9. Display(Gt(k, v)) = name
  <2>1. Display(Gt(k, v)) = <<w>> \o <<"_", d>>
    BY <1>1, <1>2, Displayed, Zenon
  <2>2. <<w>> \o <<"_", d>> = <<w, "_", d>>
    BY <1>5, OneAndTwo, Zenon
  <2> QED BY <1>6, <2>1, <2>2, Zenon
<1>10. CASE k = Price(0)
  <2>1. w = "price"
    BY <1>1, <1>10, KindFields
  <2>2. FromBound(name) = Gt(Price(0), v)
    BY <1>2, <1>6, <2>1, Bounds, Zenon
  <2> QED BY <1>8, <1>9, <1>10, <2>2, Zenon
<1>11. CASE k # Price(0)
  <2>1. w # "price"
    BY <1>1, <1>11, InnerKinds, Zenon
  <2>2. w # "_"
    BY <1>1, Zenon
  <2>3. FromBound(name) = Invalid
    BY <1>6, <2>1, <2>2, Bounds, Zenon
  <2> QED BY <1>8, <1>9, <1>11, <2>3, Zenon
<1> QED BY <1>10, <1>11, Zenon

\* Strings of outcomes are texts, and have no question marks but from teams.
LEMMA LongerWithout ==
  ASSUME NEW S, NEW a \in Seq(S), NEW x \in S, NEW y \in S, NEW z,
         x # z, y # z, z \notin Range(a)
  PROVE  z \notin Range(a \o <<x, y>>)
<1>1. PICK c \in Seq(S) : c = <<x, y>> /\ Len(c) = 2 /\ c[1] = x /\ c[2] = y
  <2>1. <<x, y>> \in Seq(S) /\ Len(<<x, y>>) = 2 /\ <<x, y>>[1] = x /\ <<x, y>>[2] = y
    OBVIOUS
  <2> QED BY <2>1, Zenon
<1>2. PICK b : b = a \o c
  OBVIOUS
<1>3. /\ b \in Seq(S) /\ Len(b) = Len(a) + Len(c)
      /\ \A i \in 1 .. Len(a) : b[i] = a[i]
      /\ \A i \in 1 .. Len(c) : b[Len(a) + i] = c[i]
  BY <1>2
<1>4. \A i \in 1 .. Len(a) : a[i] # z
  BY DEF Range
<1>5. ASSUME NEW i \in 1 .. Len(b) PROVE b[i] # z
  <2>1. CASE i \in 1 .. Len(a)
    BY <1>3, <1>4, <2>1
  <2>2. CASE i \notin 1 .. Len(a)
    <3>1. i - Len(a) = 1 \/ i - Len(a) = 2
      BY <1>1, <1>3, <2>2
    <3>2. i = Len(a) + (i - Len(a)) /\ 1 \in 1 .. Len(c) /\ 2 \in 1 .. Len(c)
      BY <1>1
    <3>3. b[i] = c[i - Len(a)]
      BY <1>3, <3>1, <3>2
    <3> QED BY <1>1, <3>1, <3>3
  <2> QED BY <2>1, <2>2
<1>6. DOMAIN b = 1 .. Len(b)
  BY <1>3
<1>7. z \notin Range(b)
  BY <1>5, <1>6 DEF Range
<1> QED BY <1>1, <1>2, <1>7, Zenon

\* A token that is not the one.
LEMMA RangeOfOne ==
  ASSUME NEW S, NEW w \in S, NEW z, w # z
  PROVE  z \notin Range(<<w>>)
BY DEF Range

\* An outcome is written as a text, without question marks if the teams have none.
LEMMA OutcomeTexts ==
  ASSUME NEW teams \in Seq(Text), NEW kind \in Kind, NEW v \in Word,
         kind.type \in {"vs", "winner"} => Len(teams) = 2,
         kind.type = "price" \/ v < NOutcomes(kind)
  PROVE  /\ OutcomeString(teams, kind, v) \in Text
         /\ (\A i \in DOMAIN teams : "?" \notin Range(teams[i]))
              => "?" \notin Range(OutcomeString(teams, kind, v))
<1> DEFINE text == OutcomeString(teams, kind, v)
           unmarked == \A i \in DOMAIN teams : "?" \notin Range(teams[i])
<1>1. v \in Nat
  BY WordsAreNumbers
<1>2. ASSUME NEW w \in Token PROVE <<w>> \in Text /\ (w # "?" => "?" \notin Range(<<w>>))
  <2>1. <<w>> \in Text
    BY Single, Zenon DEF Text
  <2> QED BY <2>1, RangeOfOne, Zenon
<1>t. /\ "true" \in Token /\ "true" # "?" /\ "false" \in Token /\ "false" # "?"
      /\ "draw" \in Token /\ "draw" # "?"
  BY Tokens
<1>3. CASE kind.type = "price"
  <2>1. Decimal[v] \in Token /\ Decimal[v] # "?"
    BY Numerals, Zenon
  <2>2. text = <<Decimal[v]>>
    BY <1>3, WrittenAs
  <2> QED BY <1>2, <2>1, <2>2, Zenon
<1>4. CASE kind.type = "occur"
  <2>1. text = <<"true">>
    BY <1>4, WrittenAs
  <2> QED BY <1>2, <1>t, <2>1, Zenon
<1>5. CASE kind.type \in {"eq", "gt"}
  <2>1. text = <<"false">> \/ text = <<"true">>
    BY <1>5, WrittenAs DEF IsPredicate
  <2> QED BY <1>2, <1>t, <2>1, Zenon
<1>6. ASSUME kind.type \in {"vs", "winner"}
      PROVE  /\ 1 \in DOMAIN teams /\ 2 \in DOMAIN teams
             /\ teams[1] \in Text /\ teams[2] \in Text
  <2>1. Len(teams) = 2 /\ DOMAIN teams = 1 .. 2
    BY <1>6
  <2> QED BY <2>1, TwoOfThem
<1>7. CASE kind.type = "winner"
  <2>1. v = 0 \/ v = 1
    <3>1. NOutcomes(kind) = 2
      BY <1>7 DEF NOutcomes, NOutcomesForNonce
    <3> QED BY <1>1, <1>7, <3>1
  <2>2. text = teams[v + 1]
    BY <1>7, WrittenAs
  <2>3. text = teams[1] \/ text = teams[2]
    <3> HIDE DEF text
    <3> QED BY <2>1, <2>2
  <2> QED BY <1>6, <1>7, <2>3, Zenon
<1>8. CASE kind.type = "vs"
  <2>1. v = 0 \/ v = 1 \/ v = 2
    <3>1. NOutcomes(kind) = 3
      BY <1>8 DEF NOutcomes, NOutcomesForNonce
    <3> QED BY <1>1, <1>8, <3>1
  <2>2. text = IF v = 2 THEN <<"draw">> ELSE Winning(teams[v + 1])
    BY <1>8, WrittenAs
  <2>3. text = <<"draw">> \/ text = Winning(teams[1]) \/ text = Winning(teams[2])
    <3> HIDE DEF text
    <3> QED BY <2>1, <2>2
  <2>4. ASSUME NEW i \in {1, 2}
        PROVE  Winning(teams[i]) \in Text /\ (unmarked => "?" \notin Range(Winning(teams[i])))
    <3>1. i \in DOMAIN teams /\ teams[i] \in Text
      BY <1>6, <1>8
    <3>2. Winning(teams[i]) \in Text
      BY <3>1, WinningApart, Zenon
    <3>3. "_" \in Token /\ "win" \in Token /\ "_" # "?" /\ "win" # "?"
      BY Underscore, Tokens, Zenon
    <3>4. "?" \notin Range(teams[i]) => "?" \notin Range(teams[i] \o <<"_", "win">>)
      BY <3>1, <3>3, LongerWithout, Zenon DEF Text
    <3> QED BY <3>1, <3>2, <3>4, Zenon DEF Winning
  <2> QED BY <1>2, <1>t, <2>3, <2>4, Zenon
<1> QED BY <1>3, <1>4, <1>5, <1>7, <1>8, TypesOfKinds

\* The outcomes of a price are written alike whatever its digits.
LEMMA InnerOutcomes ==
  ASSUME NEW teams, NEW kind \in PlainKind, NEW v
  PROVE  /\ OutcomeString(teams, Inner(kind), v) = OutcomeString(teams, kind, v)
         /\ kind.type = "price" \/ v < NOutcomes(kind)
              => Inner(kind).type = "price" \/ v < NOutcomes(Inner(kind))
<1>1. CASE kind.type = "price"
  <2>1. Inner(kind).type = "price"
    BY <1>1, InnerKinds
  <2>2. OutcomeString(teams, Inner(kind), v) = <<Decimal[v]>>
    BY <2>1, WrittenAs
  <2>3. OutcomeString(teams, kind, v) = <<Decimal[v]>>
    BY <1>1, WrittenAs
  <2> QED BY <2>1, <2>2, <2>3, Zenon
<1>2. CASE kind.type # "price"
  BY <1>2, Zenon DEF Inner
<1> QED BY <1>1, <1>2

\* An event, and what is derived from it.
EventLike == [teams : TeamTexts, kind : Text]

\* The id of a predicate.
LEMMA PredicateIds ==
  ASSUME NEW e \in EventLike, NEW value
  PROVE  LET kind == EventKind(e) IN
         /\ \A text \in Text : [e EXCEPT !.kind = text] \in EventLike
         /\ Predicate(e, "eq", value) =
              [e EXCEPT !.kind = Display(Eq(Inner(kind), OutcomeString(e.teams, kind, value)))]
         /\ Predicate(e, "gt", value) = [e EXCEPT !.kind = Display(Gt(Inner(kind), value))]
<1>1. \A text \in Text : [e EXCEPT !.kind = text] \in EventLike
  BY DEF EventLike
<1>2. "gt" # "eq"
  OBVIOUS
<1>3. Predicate(e, "eq", value) =
        [e EXCEPT !.kind = Display(Eq(Inner(EventKind(e)), OutcomeString(e.teams, EventKind(e), value)))]
  BY Zenon DEF Predicate, Inner
<1>4. Predicate(e, "gt", value) = [e EXCEPT !.kind = Display(Gt(Inner(EventKind(e)), value))]
  BY <1>2, Zenon DEF Predicate, Inner
<1> QED BY <1>1, <1>3, <1>4, Zenon

\* The kind of a predicate that is derived, as its id is parsed again.
LEMMA DerivedKinds ==
  ASSUME NEW e \in EventLike, NEW kind \in PlainKind, kind = EventKind(e), NEW value \in Word,
         kind.type \in {"vs", "winner"} => Len(e.teams) = 2,
         kind.type = "price" \/ value < NOutcomes(kind),
         NEW text, text = OutcomeString(e.teams, kind, value)
  PROVE  /\ Predicate(e, "eq", value) \in EventLike /\ Predicate(e, "eq", value).teams = e.teams
         /\ "?" \in Range(text) => EventKind(Predicate(e, "eq", value)) = Invalid
         /\ "?" \notin Range(text) => EventKind(Predicate(e, "eq", value)) = Eq(Inner(kind), text)
         /\ Predicate(e, "gt", value) \in EventLike /\ Predicate(e, "gt", value).teams = e.teams
         /\ kind.type = "price" => EventKind(Predicate(e, "gt", value)) = Gt(Price(0), value)
         /\ kind.type # "price" => EventKind(Predicate(e, "gt", value)) = Invalid
<1>1. e.teams \in Seq(Text)
  BY TextsComeIn DEF EventLike
<1>2. text \in Text
  BY <1>1, OutcomeTexts, Kinds
<1>3. PICK inner \in InnerKind : inner = Inner(kind) /\ inner.type = kind.type
  BY InnerKinds
<1>4. \A k : [e EXCEPT !.kind = k].kind = k /\ [e EXCEPT !.kind = k].teams = e.teams
  BY DEF EventLike
<1>5. PICK p : p = Display(Eq(inner, text))
  OBVIOUS
<1>6. /\ p \in Text
      /\ "?" \in Range(text) => FromStr(p) = Invalid
      /\ "?" \notin Range(text) => FromStr(p) = Eq(inner, text)
  BY <1>2, <1>5, EqualityParsed, Zenon
<1>7. Predicate(e, "eq", value) = [e EXCEPT !.kind = p]
  BY <1>3, <1>5, PredicateIds, Zenon
<1>8. PICK q : q = Display(Gt(inner, value))
  OBVIOUS
<1>9. /\ q \in Text
      /\ inner = Price(0) => FromStr(q) = Gt(inner, value)
      /\ inner # Price(0) => FromStr(q) = Invalid
  BY <1>8, BoundParsed, Zenon
<1>10. Predicate(e, "gt", value) = [e EXCEPT !.kind = q]
  BY <1>3, <1>8, PredicateIds, Zenon
<1>11. inner = Price(0) <=> kind.type = "price"
  BY <1>3, InnerKinds, Zenon
<1>12. [e EXCEPT !.kind = p] \in EventLike /\ [e EXCEPT !.kind = q] \in EventLike
  BY <1>6, <1>9, PredicateIds, Zenon
<1> QED BY <1>3, <1>4, <1>6, <1>7, <1>9, <1>10, <1>11, <1>12, ZenonT(60) DEF EventKind

\* The id of a predicate is accepted, but for question marks.
LEMMA DerivedAccepted ==
  ASSUME NEW e \in EventLike, NEW kind \in PlainKind, kind = EventKind(e), NEW value \in Word,
         kind.type \in {"vs", "winner"} => Len(e.teams) = 2 /\ e.teams[1] # e.teams[2],
         kind.type = "price" \/ value < NOutcomes(kind)
  PROVE  /\ "?" \notin Range(OutcomeString(e.teams, kind, value)) =>
              TryFrom(Predicate(e, "eq", value)) = Predicate(e, "eq", value)
         /\ kind.type = "price" => TryFrom(Predicate(e, "gt", value)) = Predicate(e, "gt", value)
<1>1. PICK text : text = OutcomeString(e.teams, kind, value)
  OBVIOUS
<1>2. e.teams \in Seq(Text)
  BY TextsComeIn DEF EventLike
<1>3. PICK inner \in InnerKind : inner = Inner(kind) /\ inner.type = kind.type
  BY InnerKinds
<1>4. inner \in Kind
  BY InnerKinds, Kinds
<1>5. text = OutcomeString(e.teams, inner, value)
  BY <1>1, <1>3, InnerOutcomes, Zenon
<1>6. TryFromIdAndOutcome(e.teams, inner, text) = value
  <2>1. inner.type \in {"vs", "winner"} => Len(e.teams) = 2 /\ e.teams[1] # e.teams[2]
    BY <1>3
  <2>2. inner.type = "price" \/ value < NOutcomes(inner)
    BY <1>3, InnerOutcomes
  <2> QED BY <1>2, <1>4, <1>5, <2>1, <2>2, ParsesBack, Zenon
<1>7. value \notin {Invalid, Panics}
  BY ErrorsAreNoValues
<1>8. ASSUME "?" \notin Range(text)
      PROVE  TryFrom(Predicate(e, "eq", value)) = Predicate(e, "eq", value)
  <2>1. PICK p : p = Predicate(e, "eq", value)
    OBVIOUS
  <2>2. p.teams = e.teams /\ EventKind(p) = Eq(inner, text)
    BY <1>1, <1>3, <1>8, <2>1, DerivedKinds
  <2>3. /\ Eq(inner, text).type = "eq" /\ Eq(inner, text).inner = inner
        /\ Eq(inner, text).target = text
    BY KindFields
  <2>4. Eq(inner, text) # Invalid
    <3>1. text \in Text
      BY <1>1, <1>2, OutcomeTexts, Kinds
    <3>2. Eq(inner, text) \in Kind
      BY <3>1, InnerKinds, Kinds
    <3> QED BY <3>2, ErrorsAreNoValues, Zenon
  <2>5. TryFrom(p) = TryFromEq(p, Eq(inner, text))
    BY <2>2, <2>3, <2>4, AcceptedByKind, Zenon
  <2>6. TryFromEq(p, Eq(inner, text)) = p
    BY <1>6, <1>7, <2>2, <2>3, Zenon DEF TryFromEq
  <2> QED BY <2>1, <2>5, <2>6, Zenon
<1>9. ASSUME kind.type = "price"
      PROVE  TryFrom(Predicate(e, "gt", value)) = Predicate(e, "gt", value)
  <2>1. PICK p : p = Predicate(e, "gt", value)
    OBVIOUS
  <2>2. EventKind(p) = Gt(Price(0), value)
    BY <1>1, <1>9, <2>1, DerivedKinds
  <2>3. Gt(Price(0), value).type = "gt"
    BY KindFields
  <2>4. Gt(Price(0), value) # Invalid
    BY Kinds, ErrorsAreNoValues
  <2> QED BY <2>1, <2>2, <2>3, <2>4, AcceptedByKind
<1> QED BY <1>1, <1>8, <1>9, Zenon

\* A predicate whose id is accepted is settled by what it says of the value.
LEMMA DerivedSettled ==
  ASSUME NEW e \in EventLike, NEW kind \in PlainKind, kind = EventKind(e),
         NEW value \in Word, NEW v \in Word, NEW type \in {"eq", "gt"},
         kind.type \in {"vs", "winner"} => Len(e.teams) = 2 /\ e.teams[1] # e.teams[2],
         kind.type = "price" \/ value < NOutcomes(kind),
         kind.type = "price" \/ v < NOutcomes(kind),
         TryFrom(Predicate(e, type, value)) \notin {Invalid, Panics}
  PROVE  PredicateOutcome(EventKind(Predicate(e, type, value)), OutcomeString(e.teams, kind, v))
           = IF type = "eq" THEN IF v = value THEN 1 ELSE 0 ELSE IF v > value THEN 1 ELSE 0
<1>1. PICK p : p = Predicate(e, type, value)
  OBVIOUS
<1>2. EventKind(p) # Invalid
  BY <1>1, AcceptedByKind, Zenon
<1>3. PICK was : was = OutcomeString(e.teams, kind, v)
  OBVIOUS
<1>4. e.teams \in Seq(Text) /\ kind \in Kind
  BY TextsComeIn, Kinds DEF EventLike
<1>5. CASE type = "eq"
  <2>1. PICK text : text = OutcomeString(e.teams, kind, value)
    OBVIOUS
  <2>2. EventKind(p) = Eq(Inner(kind), text)
    BY <1>1, <1>2, <1>5, <2>1, DerivedKinds
  <2>3. Eq(Inner(kind), text).type = "eq" /\ Eq(Inner(kind), text).target = text
    BY KindFields
  <2>4. PredicateOutcome(EventKind(p), was) = IF was = text THEN 1 ELSE 0
    BY <2>2, <2>3, Zenon DEF PredicateOutcome
  <2>5. was = text => v = value
    <3>1. TryFromIdAndOutcome(e.teams, kind, was) = v
      BY <1>3, <1>4, ParsesBack, Zenon
    <3>2. TryFromIdAndOutcome(e.teams, kind, text) = value
      BY <1>4, <2>1, ParsesBack, Zenon
    <3> QED BY <3>1, <3>2, Zenon
  <2>6. v = value => was = text
    BY <1>3, <2>1, Zenon
  <2> QED BY <1>1, <1>3, <1>5, <2>4, <2>5, <2>6, Zenon
<1>6. CASE type = "gt"
  <2>1. kind.type = "price"
    BY <1>1, <1>2, <1>6, DerivedKinds
  <2>2. EventKind(p) = Gt(Price(0), value)
    BY <1>1, <1>6, <2>1, DerivedKinds
  <2>3. was = <<Decimal[v]>>
    BY <1>3, <2>1, WrittenAs
  <2>4. Number(was) = v
    BY <2>3, Numerals, Zenon
  <2>5. Gt(Price(0), value).type = "gt" /\ Gt(Price(0), value).bound = value /\ "gt" # "eq"
    BY KindFields
  <2>6. PredicateOutcome(EventKind(p), was) = IF v > value THEN 1 ELSE 0
    BY <2>2, <2>4, <2>5, Zenon DEF PredicateOutcome
  <2> QED BY <1>1, <1>3, <1>6, <2>5, <2>6, Zenon
<1> QED BY <1>5, <1>6
=============================================================================
