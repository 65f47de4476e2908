----------------------------- MODULE WireProofs -----------------------------
(***************************************************************************)
(* Machine-checked proofs about the bytes on the wire.                     *)
(*                                                                         *)
(* About Session, for any senders, messages, room on the connection and    *)
(* ways in which the socket cuts the stream: what the reader returns are   *)
(* the messages sent, whole and in the order of the lock.                  *)
(*                                                                         *)
(* About Serializer, for any block size, widths and well-typed items: a    *)
(* ByteArray is a string of bytes, curr_ never leaves the block of         *)
(* position_, and every value that has an encoding is read as it was       *)
(* written.                                                                *)
(*                                                                         *)
(* The encodings are part of the proofs; what they take from outside is    *)
(* what a power is, in PowerAssumption, which TLC evaluates.  The theorems *)
(* of the library that take a predicate are out of the provers' reach, so  *)
(* induction is about sets here: Least, SetInduction, StrongInduction.  A  *)
(* recursive function is a CHOOSE; each is shown to exist before it is     *)
(* unfolded.                                                               *)
(***************************************************************************)
EXTENDS Session, Serializer, SequenceTheorems, WellFoundedInduction, TLAPS

\* The contents of a cell: a byte, or fresh memory.
Cells == Byte \cup {Junk}

-----------------------------------------------------------------------------
\* Quotient and remainder, of which the provers know little for a variable divisor.
LEMMA DivMod ==
    ASSUME NEW g \in Nat, NEW b \in Nat, b > 0
    PROVE  g \div b \in Nat /\ g % b \in 0 .. b - 1 /\ g = (g \div b) * b + (g % b)
<1>1. g \div b \in Nat /\ g % b \in 0 .. b - 1
  OBVIOUS
<1>2. \A q, r : q = g \div b /\ r = g % b => q * b + r = g
  OBVIOUS
<1> QED
  BY <1>1, <1>2, Zenon

\* The quotient and the remainder are the only ones.
LEMMA DivUnique ==
    ASSUME NEW b \in Nat, b > 0, NEW q \in Nat, NEW r \in 0 .. b - 1
    PROVE  (q * b + r) \div b = q /\ (q * b + r) % b = r
  OBVIOUS

\* A place below k blocks of b is in one of them.
LEMMA DivLess ==
    ASSUME NEW b \in Nat, b > 0, NEW k \in Nat, NEW g \in Nat, g < b * k
    PROVE  g \div b + 1 \in 1 .. k
<1>1. PICK q \in Nat, r \in 0 .. b - 1 : q = g \div b /\ g = q * b + r
  BY DivMod
<1>2. q * b < b * k
  BY <1>1
<1>3. q < k
  BY <1>2
<1> QED
  BY <1>1, <1>3

\* Going n on from g.
LEMMA DivPlus ==
    ASSUME NEW b \in Nat, b > 0, NEW g \in Nat, NEW n \in Nat
    PROVE  /\ (g + n) \div b = g \div b + ((g % b) + n) \div b
           /\ (g + n) % b = ((g % b) + n) % b
<1>1. PICK q \in Nat, r \in 0 .. b - 1 : q = g \div b /\ r = g % b /\ g = q * b + r
  BY DivMod
<1>2. r + n \in Nat
  OBVIOUS
<1>3. PICK q1 \in Nat, r1 \in 0 .. b - 1 :
         q1 = (r + n) \div b /\ r1 = (r + n) % b /\ r + n = q1 * b + r1
  BY <1>2, DivMod
<1>4. g + n = (q + q1) * b + r1 /\ q + q1 \in Nat
  BY <1>1, <1>3
<1>5. (g + n) \div b = q + q1 /\ (g + n) % b = r1
  BY <1>4, DivUnique
<1> QED
  BY <1>1, <1>3, <1>5

-----------------------------------------------------------------------------
\* Induction on the natural numbers, about a set instead of a predicate.
LEMMA Least ==
    ASSUME NEW T, T \subseteq Nat, T # {}
    PROVE  \E x \in T : \A y \in T : x <= y
<1>1. PICK R : R = OpToRel(<, Nat)
  OBVIOUS
<1>2. IsWellFoundedOn(R, Nat)
  BY <1>1, NatLessThanWellFounded, Zenon
<1>3. \A i, j \in Nat : i < j => <<i, j>> \in R
  BY <1>1 DEF OpToRel
<1>4. PICK x \in T : \A y \in T : ~ (<<y, x>> \in R)
  BY <1>2, WFMin, Zenon
<1>5. ASSUME NEW y \in T PROVE x <= y
  <2>1. x \in Nat /\ y \in Nat
    OBVIOUS
  <2>2. ~ (y < x)
    BY <1>3, <1>4, <2>1, Zenon
  <2> QED
    BY <2>1, <2>2
<1> QED
  BY <1>5

\* From 0 to all of them, one by one.
LEMMA SetInduction ==
    ASSUME NEW S, 0 \in S, \A n \in Nat : n \in S => n + 1 \in S
    PROVE  Nat \subseteq S
<1> SUFFICES ASSUME Nat \ S # {} PROVE FALSE
  OBVIOUS
<1>1. PICK x \in Nat \ S : \A y \in Nat \ S : x <= y
  BY Least, Zenon
<1>2. x # 0 /\ x - 1 \in Nat
  BY <1>1
<1>3. x - 1 \in S
  BY <1>1, <1>2
<1>4. (x - 1) + 1 \in S /\ (x - 1) + 1 = x
  BY <1>2, <1>3
<1> QED
  BY <1>1, <1>4

\* The same, with all smaller numbers as the hypothesis.
LEMMA StrongInduction ==
    ASSUME NEW S, \A n \in Nat : (\A k \in Nat : k < n => k \in S) => n \in S
    PROVE  Nat \subseteq S
<1> SUFFICES ASSUME Nat \ S # {} PROVE FALSE
  OBVIOUS
<1>1. PICK x \in Nat \ S : \A y \in Nat \ S : x <= y
  BY Least, Zenon
<1>2. ASSUME NEW k \in Nat, k < x PROVE k \in S
  BY <1>1, <1>2
<1> QED
  BY <1>1, <1>2

-----------------------------------------------------------------------------
\* Powers of two.
PowerMax == 2 * ByteBits + Width + 1

\* PowerAssumption for the powers of two, which are positive numbers.
LEMMA PowersOfTwo ==
    /\ PowerMax \in Nat /\ 2 ^ 0 = 1
    /\ \A k \in 0 .. PowerMax : 2 ^ k \in Nat /\ 2 ^ k > 0
    /\ \A k \in 1 .. PowerMax : 2 ^ k = 2 * 2 ^ (k - 1)
<1>1. PowerMax \in Nat /\ PowerMax - 1 = 2 * ByteBits + Width
  BY CodecAssumption DEF PowerMax
<1>2. 2 ^ 0 = 1 /\ \A k \in 0 .. PowerMax - 1 : 2 ^ (k + 1) = 2 * 2 ^ k
  BY <1>1, PowerAssumption, Zenon DEF PowerLaw
<1>3. \A k \in 1 .. PowerMax : 2 ^ k = 2 * 2 ^ (k - 1)
  <2>1. ASSUME NEW k \in 1 .. PowerMax PROVE 2 ^ k = 2 * 2 ^ (k - 1)
    <3>1. PICK j \in 0 .. PowerMax - 1 : j = k - 1 /\ j + 1 = k
      BY <1>1
    <3>2. 2 ^ (j + 1) = 2 * 2 ^ j
      BY <1>2
    <3> QED
      BY <3>1, <3>2, Zenon
  <2> QED
    BY <2>1
<1>4. PICK S : S = {k \in Nat : k <= PowerMax => 2 ^ k \in Nat /\ 2 ^ k > 0}
  OBVIOUS
<1>5. 0 \in S
  BY <1>2, <1>4
<1>6. ASSUME NEW n \in Nat, n \in S PROVE n + 1 \in S
  <2> SUFFICES ASSUME n + 1 <= PowerMax PROVE 2 ^ (n + 1) \in Nat /\ 2 ^ (n + 1) > 0
    BY <1>4
  <2>1. n \in 0 .. PowerMax - 1
    BY <1>1
  <2>2. 2 ^ n \in Nat /\ 2 ^ n > 0
    BY <1>1, <1>4, <1>6, <2>1
  <2>3. 2 ^ (n + 1) = 2 * 2 ^ n
    BY <1>2, <2>1
  <2> QED
    BY <2>2, <2>3
<1>7. Nat \subseteq S
  BY <1>5, <1>6, SetInduction
<1>8. \A k \in 0 .. PowerMax : 2 ^ k \in Nat /\ 2 ^ k > 0
  BY <1>1, <1>4, <1>7
<1> QED
  BY <1>1, <1>2, <1>3, <1>8

\* The product of two powers of two.
LEMMA PowerPlus ==
    ASSUME NEW a \in Nat, NEW b \in Nat, a + b <= PowerMax
    PROVE  2 ^ (a + b) = 2 ^ a * 2 ^ b
<1>1. /\ PowerMax \in Nat /\ 2 ^ 0 = 1
      /\ \A k \in 0 .. PowerMax : 2 ^ k \in Nat
      /\ \A k \in 1 .. PowerMax : 2 ^ k = 2 * 2 ^ (k - 1)
  BY PowersOfTwo
<1>2. PICK S : S = {k \in Nat : a + k <= PowerMax => 2 ^ (a + k) = 2 ^ a * 2 ^ k}
  OBVIOUS
<1>3. 0 \in S
  <2>1. a + 0 = a /\ a \in 0 .. PowerMax
    BY <1>1
  <2>2. 2 ^ a \in Nat
    BY <1>1, <2>1
  <2>3. 2 ^ a = 2 ^ a * 1
    BY <2>2
  <2>4. 2 ^ (a + 0) = 2 ^ a * 2 ^ 0
    BY <1>1, <2>1, <2>3, Zenon
  <2> QED
    BY <1>2, <2>4
<1>4. ASSUME NEW n \in Nat, n \in S PROVE n + 1 \in S
  <2> SUFFICES ASSUME a + (n + 1) <= PowerMax PROVE 2 ^ (a + (n + 1)) = 2 ^ a * 2 ^ (n + 1)
    BY <1>2
  <2>1. 2 ^ (a + n) = 2 ^ a * 2 ^ n
    BY <1>1, <1>2, <1>4
  <2>2. PICK k : k = a + (n + 1)
    OBVIOUS
  <2>3. k \in 1 .. PowerMax /\ k - 1 = a + n /\ n + 1 \in 1 .. PowerMax /\ (n + 1) - 1 = n
        /\ a \in 0 .. PowerMax /\ n \in 0 .. PowerMax
    BY <1>1, <2>2
  <2>4. 2 ^ k = 2 * 2 ^ (k - 1) /\ 2 ^ (n + 1) = 2 * 2 ^ ((n + 1) - 1) /\ 2 ^ a \in Nat /\ 2 ^ n \in Nat
    BY <1>1, <2>3, Zenon
  <2>5. 2 ^ k = 2 * 2 ^ (a + n) /\ 2 ^ (n + 1) = 2 * 2 ^ n
    BY <2>3, <2>4, Zenon
  <2>6. \A x, y \in Nat : 2 * (x * y) = x * (2 * y)
    OBVIOUS
  <2>7. 2 * (2 ^ a * 2 ^ n) = 2 ^ a * (2 * 2 ^ n)
    BY <2>4, <2>6, Zenon
  <2> QED
    BY <2>1, <2>2, <2>5, <2>7, Zenon
<1>5. Nat \subseteq S
  BY <1>3, <1>4, SetInduction
<1> QED
  BY <1>2, <1>5

\* A varint byte: half of the values of a byte say that more follow.
LEMMA MoreFacts ==
    /\ More \in Nat /\ More > 1 /\ More ^ 0 = 1 /\ 2 ^ ByteBits = 2 * More
    /\ Byte = 0 .. 2 * More - 1
    /\ \A k \in 0 .. Groups : More ^ (k + 1) = More * More ^ k
<1>1. /\ PowerMax \in Nat /\ 2 ^ 0 = 1
      /\ \A k \in 0 .. PowerMax : 2 ^ k \in Nat /\ 2 ^ k > 0
      /\ \A k \in 1 .. PowerMax : 2 ^ k = 2 * 2 ^ (k - 1)
  BY PowersOfTwo
<1>2. /\ ByteBits \in 1 .. PowerMax /\ ByteBits - 1 \in 1 .. PowerMax /\ ByteBits - 1 \in 0 .. PowerMax
      /\ ByteBits - 1 - 1 \in 0 .. PowerMax
  BY CodecAssumption DEF PowerMax
<1>3. 2 ^ ByteBits = 2 * More /\ More \in Nat
  BY <1>1, <1>2 DEF More
<1>4. More > 1
  <2>1. PICK x \in Nat : x = 2 ^ (ByteBits - 1 - 1) /\ x > 0
    BY <1>1, <1>2, Zenon
  <2>2. More = 2 * x
    BY <1>1, <1>2, <2>1, Zenon DEF More
  <2> QED
    BY <2>1, <2>2
<1>5. More ^ 0 = 1 /\ \A k \in 0 .. Groups : More ^ (k + 1) = More * More ^ k
  BY PowerAssumption, Zenon DEF PowerLaw
<1> QED
  BY <1>3, <1>4, <1>5 DEF Byte

\* The bytes of a varint are enough for the bits of an integer.
LEMMA GroupsSuffice == Groups \in Nat \ {0} /\ 2 ^ Width \in Nat \ {0} /\ 2 ^ Width <= More ^ Groups
<1> DEFINE c == ByteBits - 1
<1>1. c \in Nat /\ c > 0 /\ Width \in Nat /\ Width > 0 /\ Width + ByteBits - 2 \in Nat
      /\ Width + ByteBits - 2 = Width + c - 1
  BY CodecAssumption
<1> HIDE DEF c
<1>2. PICK G \in Nat, r \in 0 .. c - 1 : G = (Width + c - 1) \div c /\ Width + c - 1 = G * c + r
  BY <1>1, DivMod
<1>3. G = Groups
  BY <1>1, <1>2 DEF Groups, c
<1>4. G * c >= Width /\ G > 0 /\ G * c <= Width + c - 1
  BY <1>1, <1>2
<1>5. PowerMax \in Nat /\ Width + c - 1 <= PowerMax /\ Width \in 0 .. PowerMax
  BY CodecAssumption DEF PowerMax, c
<1>6. 2 ^ Width \in Nat /\ 2 ^ Width > 0
  BY <1>5, PowersOfTwo
<1>7. PICK S : S = {k \in Nat : k <= G => More ^ k = 2 ^ (k * c)}
  OBVIOUS
<1>8. 0 \in S
  <2>1. 0 * c = 0 /\ 0 <= G
    BY <1>1
  <2>2. More ^ 0 = 2 ^ (0 * c)
    BY <2>1, MoreFacts, PowersOfTwo, Zenon
  <2> QED
    BY <1>7, <2>2
<1>9. ASSUME NEW n \in Nat, n \in S PROVE n + 1 \in S
  <2> SUFFICES ASSUME n + 1 <= G PROVE More ^ (n + 1) = 2 ^ ((n + 1) * c)
    BY <1>7
  <2>1. n \in 0 .. Groups /\ n <= G
    BY <1>3
  <2>2. More ^ (n + 1) = More * More ^ n
    BY <2>1, MoreFacts
  <2>3. More ^ n = 2 ^ (n * c)
    BY <1>7, <1>9, <2>1
  <2>4. PICK p \in Nat : p = n * c /\ (n + 1) * c = c + p
    BY <1>1
  <2>5. c + p <= PowerMax
    <3>1. (n + 1) * c <= G * c
      BY <1>1
    <3> QED
      BY <1>1, <1>4, <1>5, <2>4, <3>1
  <2>6. 2 ^ (c + p) = 2 ^ c * 2 ^ p
    BY <1>1, <2>5, PowerPlus
  <2>7. More = 2 ^ c
    BY DEF More, c
  <2> QED
    BY <2>2, <2>3, <2>4, <2>6, <2>7, Zenon
<1>10. More ^ G = 2 ^ (G * c)
  <2>1. Nat \subseteq S
    BY <1>8, <1>9, SetInduction
  <2> QED
    BY <1>7, <2>1
<1>11. PICK d \in Nat : Width + d = G * c
  <2>1. G * c - Width \in Nat /\ Width + (G * c - Width) = G * c
    BY <1>1, <1>4
  <2> QED
    BY <2>1
<1>12. 2 ^ (Width + d) = 2 ^ Width * 2 ^ d /\ 2 ^ d \in Nat /\ 2 ^ d > 0
  <2>1. Width + d <= PowerMax /\ d \in 0 .. PowerMax
    BY <1>1, <1>4, <1>5, <1>11
  <2> QED
    BY <1>1, <2>1, PowerPlus, PowersOfTwo
<1>13. \A x, y \in Nat : y > 0 => x <= x * y
  OBVIOUS
<1>14. 2 ^ Width <= More ^ G
  BY <1>6, <1>10, <1>11, <1>12, <1>13, Zenon
<1> QED
  BY <1>3, <1>4, <1>6, <1>14

-----------------------------------------------------------------------------
\* lowestFirst(s, b) is what the sums of its recursion come to.
LEMMA SumIs ==
    ASSUME NEW s, NEW b, Len(s) \in Nat, NEW g, g[0] = 0,
           \A i \in 1 .. Len(s) : g[i] = g[i - 1] + s[i] * b ^ (i - 1)
    PROVE  lowestFirst(s, b) = g[Len(s)]
<1>0. PICK n \in Nat : n = Len(s)
  OBVIOUS
<1> DEFINE step(f) == [i \in 0 .. n |-> IF i = 0 THEN 0 ELSE f[i - 1] + s[i] * b ^ (i - 1)]
           sum == CHOOSE f : f = step(f)
<1>1. \E f : f = step(f)
  <2>1. PICK f : f = [i \in 0 .. n |-> g[i]]
    OBVIOUS
  <2>2. ASSUME NEW i \in 0 .. n PROVE f[i] = IF i = 0 THEN 0 ELSE f[i - 1] + s[i] * b ^ (i - 1)
    <3>1. CASE i = 0
      BY <2>1, <3>1
    <3>2. CASE i # 0
      <4>1. i \in 1 .. n /\ i - 1 \in 0 .. n
        BY <3>2
      <4>2. g[i] = g[i - 1] + s[i] * b ^ (i - 1) /\ f[i] = g[i] /\ f[i - 1] = g[i - 1]
        BY <1>0, <2>1, <4>1, Zenon
      <4> QED
        BY <3>2, <4>2, Zenon
    <3> QED
      BY <3>1, <3>2
  <2>3. f = step(f)
    BY <2>1, <2>2, Zenon
  <2> QED
    BY <2>3
<1>2. sum = step(sum)
  BY <1>1
<1>3. lowestFirst(s, b) = sum[n]
  BY <1>0, Zenon DEF lowestFirst
<1> HIDE DEF sum
<1>4. \A i \in 0 .. n : sum[i] = IF i = 0 THEN 0 ELSE sum[i - 1] + s[i] * b ^ (i - 1)
  BY <1>2
<1>5. PICK S : S = {k \in Nat : k <= n => sum[k] = g[k]}
  OBVIOUS
<1>6. 0 \in S
  BY <1>4, <1>5
<1>7. ASSUME NEW k \in Nat, k \in S PROVE k + 1 \in S
  <2> SUFFICES ASSUME k + 1 <= n PROVE sum[k + 1] = g[k + 1]
    BY <1>5
  <2>1. PICK i : i = k + 1 /\ i \in 1 .. n /\ i \in 0 .. n /\ i - 1 = k /\ i # 0 /\ k <= n
    OBVIOUS
  <2>2. sum[k] = g[k]
    BY <1>5, <1>7, <2>1
  <2> QED
    BY <1>0, <1>4, <2>1, <2>2
<1>8. Nat \subseteq S
  BY <1>6, <1>7, SetInduction
<1> QED
  BY <1>0, <1>3, <1>5, <1>8

\* writeUint takes the lowest bits and goes on with the others.
LEMMA WriteUintIs ==
    ASSUME NEW u \in 0 .. 2 ^ Width - 1
    PROVE  writeUint(u) =
             IF u < More THEN <<u>> ELSE <<More + (u % More)>> \o writeUint(u \div More)
<1> DEFINE N == 2 ^ Width - 1
           body(e, v) == IF v < More THEN <<v>> ELSE <<More + (v % More)>> \o e[v \div More]
           step(e) == [v \in 0 .. N |-> body(e, v)]
           enc == CHOOSE e : e = step(e)
<1>1. N \in Nat
  BY GroupsSuffice
<1>2. More \in Nat /\ More > 1
  BY MoreFacts
<1>3. \A x \in Nat : x \div More \in Nat /\ x \div More <= x /\ (x > 0 => x \div More < x)
  <2>1. ASSUME NEW x \in Nat PROVE x \div More \in Nat /\ x \div More <= x /\ (x > 0 => x \div More < x)
    <3>1. PICK q \in Nat, r \in 0 .. More - 1 : q = x \div More /\ x = q * More + r
      BY <1>2, DivMod
    <3>2. q + q <= q * More
      BY <1>2
    <3> QED
      BY <1>2, <3>1, <3>2
  <2> QED
    BY <2>1
<1>4. \E e : e = step(e)
  <2>1. PICK S : S = {n \in Nat : \E e : \A v \in 0 .. n : e[v] = body(e, v)}
    OBVIOUS
  <2>2. 0 \in S
    <3>1. PICK e : e = [v \in 0 .. 0 |-> <<v>>]
      OBVIOUS
    <3>2. ASSUME NEW v \in 0 .. 0 PROVE e[v] = body(e, v)
      <4>1. v < More /\ e[v] = <<v>>
        BY <1>2, <3>1
      <4> QED
        BY <4>1, Zenon
    <3> QED
      BY <2>1, <3>2
  <2>3. ASSUME NEW n \in Nat, n \in S PROVE n + 1 \in S
    <3>1. PICK e : \A v \in 0 .. n : e[v] = body(e, v)
      BY <2>1, <2>3
    <3> HIDE DEF body
    <3>2. PICK h : h = [v \in 0 .. n + 1 |-> IF v <= n THEN e[v] ELSE body(e, v)]
      OBVIOUS
    <3>3. ASSUME NEW v \in 0 .. n + 1 PROVE h[v] = body(e, v)
      BY <3>1, <3>2
    <3>4. ASSUME NEW v \in 0 .. n + 1 PROVE body(e, v) = body(h, v)
      <4>1. CASE v < More
        BY <4>1, Zenon DEF body
      <4>2. CASE ~(v < More)
        <5>1. v \in Nat /\ v > 0 /\ v <= n + 1
          BY <1>2, <4>2
        <5>2. v \div More \in 0 .. n /\ v \div More \in 0 .. n + 1 /\ v \div More <= n
          BY <1>3, <5>1
        <5>3. h[v \div More] = e[v \div More]
          BY <3>2, <5>2
        <5> QED
          BY <4>2, <5>3, Zenon DEF body
      <4> QED
        BY <4>1, <4>2
    <3>5. \A v \in 0 .. n + 1 : h[v] = body(h, v)
      BY <3>3, <3>4, Zenon
    <3> QED
      BY <2>1, <3>5
  <2>4. N \in S
    BY <1>1, <2>2, <2>3, SetInduction
  <2>5. PICK e : \A v \in 0 .. N : e[v] = body(e, v)
    BY <2>1, <2>4
  <2> HIDE DEF N
  <2>6. PICK f : f = [v \in 0 .. N |-> e[v]]
    OBVIOUS
  <2>7. ASSUME NEW v \in 0 .. N PROVE body(e, v) = body(f, v)
    <3>1. v \in Nat /\ v \div More \in 0 .. N
      BY <1>1, <1>3
    <3>2. f[v \div More] = e[v \div More]
      BY <2>6, <3>1
    <3> QED
      BY <3>2, Zenon DEF body
  <2> HIDE DEF body
  <2>8. ASSUME NEW v \in 0 .. N PROVE f[v] = body(f, v)
    BY <2>5, <2>6, <2>7
  <2>9. f = [v \in 0 .. N |-> body(f, v)]
    BY <2>6, <2>8
  <2> QED
    BY <2>9
<1>5. enc = step(enc)
  BY <1>4
<1>6. \A v : writeUint(v) = enc[v]
  BY Zenon DEF writeUint
<1> HIDE DEF enc, N
<1>7. \A v \in 0 .. N : enc[v] = body(enc, v)
  BY <1>5, Zenon
<1>8. u \in 0 .. N
  BY Zenon DEF N
<1> QED
  BY <1>6, <1>7, <1>8, Zenon

\* The weights of the bytes of a varint are numbers.
LEMMA MorePowers == \A k \in 0 .. Groups + 1 : More ^ k \in Nat
<1>1. /\ More \in Nat /\ More ^ 0 = 1 /\ \A i \in 0 .. Groups : More ^ (i + 1) = More * More ^ i
  BY MoreFacts
<1>2. Groups \in Nat
  BY GroupsSuffice
<1>3. PICK S : S = {k \in Nat : k <= Groups + 1 => More ^ k \in Nat}
  OBVIOUS
<1>4. 0 \in S
  BY <1>1, <1>3
<1>5. ASSUME NEW n \in Nat, n \in S PROVE n + 1 \in S
  <2> SUFFICES ASSUME n + 1 <= Groups + 1 PROVE More ^ (n + 1) \in Nat
    BY <1>3
  <2>1. n \in 0 .. Groups /\ n <= Groups + 1
    BY <1>2
  <2>2. More ^ n \in Nat /\ More ^ (n + 1) = More * More ^ n
    BY <1>1, <1>3, <1>5, <2>1
  <2> QED
    BY <1>1, <2>2
<1>6. Nat \subseteq S
  BY <1>4, <1>5, SetInduction
<1> QED
  BY <1>2, <1>3, <1>6

\* The bytes s, at most n, are the varint of u: all but the last have the bit that says
\* that more follow, and the sums of a reader come to u.
Varint(u, s, n) ==
    /\ s \in Seq(Byte) /\ Len(s) \in 1 .. n /\ s[Len(s)] < More
    /\ \A i \in 1 .. Len(s) - 1 : ~(s[i] < More)
    /\ \E g \in [0 .. Len(s) -> Nat] :
          /\ g[0] = 0 /\ g[Len(s)] = u
          /\ \A i \in 1 .. Len(s) : g[i] = g[i - 1] + (s[i] % More) * More ^ (i - 1)

\* The last byte of a varint is one by itself.
LEMMA VarintLast ==
    ASSUME NEW u \in Nat, u < More, NEW n \in Nat, n > 0
    PROVE  Varint(u, <<u>>, n)
<1>1. More \in Nat /\ More > 1 /\ More ^ 0 = 1 /\ Byte = 0 .. 2 * More - 1
  BY MoreFacts
<1>2. PICK s : s = <<u>>
  OBVIOUS
<1>3. s \in Seq(Byte) /\ Len(s) = 1 /\ s[1] = u
  BY <1>1, <1>2
<1>4. PICK g : g = [i \in 0 .. 1 |-> IF i = 0 THEN 0 ELSE u]
  OBVIOUS
<1>5. g \in [0 .. 1 -> Nat] /\ g[0] = 0 /\ g[1] = u
  BY <1>4
<1>6. u % More = u
  BY <1>1
<1>7. g[1] = g[1 - 1] + (s[1] % More) * More ^ (1 - 1)
  <2>1. 1 - 1 = 0 /\ u = 0 + u * 1
    OBVIOUS
  <2> QED
    BY <1>1, <1>3, <1>5, <1>6, <2>1, Zenon
<1>8. \A i \in 1 .. 1 : g[i] = g[i - 1] + (s[i] % More) * More ^ (i - 1)
  <2>1. \A i \in 1 .. 1 : i = 1
    OBVIOUS
  <2> QED
    BY <1>7, <2>1, Zenon
<1>9. 1 \in 1 .. n /\ \A i \in 1 .. 1 - 1 : ~(s[i] < More)
  OBVIOUS
<1>10. Varint(u, s, n)
  BY <1>3, <1>5, <1>8, <1>9, Zenon DEF Varint
<1> QED
  BY <1>2, <1>10

\* One more byte in front of a varint.
LEMMA VarintMore ==
    ASSUME NEW q \in Nat, NEW t, NEW k \in Nat, k + 1 <= Groups, Varint(q, t, k),
           NEW r \in 0 .. More - 1
    PROVE  Varint(q * More + r, <<More + r>> \o t, k + 1)
<1>1. /\ More \in Nat /\ More > 1 /\ More ^ 0 = 1 /\ Byte = 0 .. 2 * More - 1
      /\ \A i \in 0 .. Groups : More ^ (i + 1) = More * More ^ i
  BY MoreFacts
<1>0. r \in Nat /\ r < More /\ More + r \in Byte /\ (More + r) % More = r
  <2>1. PICK M \in Nat : M = More /\ M > 1
    BY <1>1
  <2>2. r \in 0 .. M - 1 /\ M > 0 /\ 1 \in Nat
    BY <2>1
  <2>3. (1 * M + r) % M = r
    BY <2>2, DivUnique
  <2>4. 1 * M + r = M + r /\ M + r \in 0 .. 2 * M - 1 /\ r \in Nat /\ r < M
    BY <2>2
  <2> QED
    BY <1>1, <2>1, <2>3, <2>4, Zenon
<1>2. PICK m \in Nat : m = Len(t) /\ m \in 1 .. k
  BY DEF Varint
<1>3. /\ t \in Seq(Byte) /\ t[m] < More /\ \A i \in 1 .. m - 1 : ~(t[i] < More)
  BY <1>2, Zenon DEF Varint
<1>4. PICK g \in [0 .. m -> Nat] :
          /\ g[0] = 0 /\ g[m] = q
          /\ \A i \in 1 .. m : g[i] = g[i - 1] + (t[i] % More) * More ^ (i - 1)
  BY <1>2, Zenon DEF Varint
<1>5. PICK s : s = <<More + r>> \o t
  OBVIOUS
<1>6. s \in Seq(Byte) /\ Len(s) = m + 1 /\ s[1] = More + r /\ \A i \in 1 .. m : s[i + 1] = t[i]
  <2>1. PICK f : f = <<More + r>> /\ f \in Seq(Byte) /\ Len(f) = 1 /\ f[1] = More + r
    <3>1. PICK x \in Byte : x = More + r
      BY <1>0
    <3>2. <<x>> \in Seq(Byte) /\ Len(<<x>>) = 1 /\ <<x>>[1] = x
      OBVIOUS
    <3> QED
      BY <3>1, <3>2, Zenon
  <2>2. /\ f \o t \in Seq(Byte) /\ Len(f \o t) = Len(f) + Len(t)
        /\ \A i \in 1 .. Len(f) + Len(t) : (f \o t)[i] = IF i <= Len(f) THEN f[i] ELSE t[i - Len(f)]
    BY <1>3, <2>1, ConcatProperties
  <2>3. /\ s \in Seq(Byte) /\ Len(s) = 1 + m
        /\ \A i \in 1 .. 1 + m : s[i] = IF i <= 1 THEN f[i] ELSE t[i - 1]
    BY <1>2, <1>5, <2>1, <2>2, Zenon
  <2>4. 1 \in 1 .. 1 + m /\ 1 <= 1 /\ 1 + m = m + 1
    OBVIOUS
  <2>5. ASSUME NEW i \in 1 .. m PROVE s[i + 1] = t[i]
    <3>1. i + 1 \in 1 .. 1 + m /\ ~(i + 1 <= 1) /\ (i + 1) - 1 = i
      OBVIOUS
    <3> QED
      BY <2>3, <3>1, Zenon
  <2> QED
    BY <2>1, <2>3, <2>4, <2>5, Zenon
<1>7. PICK h : h = [i \in 0 .. m + 1 |-> IF i = 0 THEN 0 ELSE r + More * g[i - 1]]
  OBVIOUS
<1>8. h \in [0 .. m + 1 -> Nat]
  <2>1. ASSUME NEW i \in 0 .. m + 1, i # 0 PROVE r + More * g[i - 1] \in Nat
    <3>1. g[i - 1] \in Nat
      BY <2>1
    <3> QED
      <4>1. \A a, b, c \in Nat : a + b * c \in Nat
        OBVIOUS
      <4> QED
        BY <1>0, <1>1, <3>1, <4>1, Zenon
  <2> QED
    BY <1>7, <2>1
<1>9. h[0] = 0 /\ \A i \in 0 .. m : h[i + 1] = r + More * g[i]
  BY <1>7
<1>10. h[m + 1] = q * More + r
  <2>1. m \in 0 .. m
    OBVIOUS
  <2>2. h[m + 1] = r + More * q
    BY <1>4, <1>9, <2>1, Zenon
  <2> QED
    BY <1>1, <2>2
<1>11. ASSUME NEW i \in 1 .. m + 1 PROVE h[i] = h[i - 1] + (s[i] % More) * More ^ (i - 1)
  <2>1. CASE i = 1
    <3>1. (More + r) % More = r
      BY <1>0
    <3>2. h[0 + 1] = r + More * g[0] /\ 0 + 1 = 1 /\ 1 - 1 = 0
      BY <1>9
    <3>3. h[1] = r
      <4>1. r + More * 0 = r
        BY <1>0, <1>1
      <4> QED
        BY <1>4, <3>2, <4>1, Zenon
    <3>4. h[1] = h[0] + r * 1
      BY <1>0, <1>9, <3>3
    <3> QED
      BY <1>1, <1>6, <2>1, <3>1, <3>2, <3>4, Zenon
  <2>2. CASE i # 1
    <3>1. PICK j \in 1 .. m : i = j + 1 /\ i - 1 = j
      BY <2>2
    <3>2. PICK l \in 0 .. m : l = j - 1 /\ l + 1 = j
      OBVIOUS
    <3>3. g[j] = g[l] + (t[j] % More) * More ^ l
      BY <1>4, <3>2, Zenon
    <3>4. j \in 0 .. m
      OBVIOUS
    <3>5. h[i] = r + More * g[j] /\ h[j] = r + More * g[l]
      BY <1>9, <3>1, <3>2, <3>4, Zenon
    <3>6. More ^ j = More * More ^ l
      <4>1. l \in 0 .. Groups
        BY <1>2, GroupsSuffice
      <4> QED
        BY <1>1, <3>2, <4>1, Zenon
    <3>7. s[i] = t[j]
      BY <1>6, <3>1, Zenon
    <3>8. t[j] % More \in Nat /\ g[l] \in Nat /\ g[j] \in Nat
      <4>1. t[j] \in Nat
        <5>1. t[j] \in Byte
          BY <1>2, <1>3
        <5> QED
          BY <1>1, <5>1
      <4>2. \A x, y \in Nat : y > 0 => x % y \in Nat
        OBVIOUS
      <4>3. More > 0
        BY <1>1
      <4> QED
        BY <1>1, <3>4, <4>1, <4>2, <4>3, Zenon
    <3>9. PICK P : P = More ^ l
      OBVIOUS
    <3>10. P \in Nat
      <4>1. l \in 0 .. Groups + 1
        BY <1>2, GroupsSuffice
      <4> QED
        BY <3>9, <4>1, MorePowers
    <3>12. r + More * (g[l] + (t[j] % More) * P) = (r + More * g[l]) + (t[j] % More) * (More * P)
      <4>1. PICK a \in Nat, b \in Nat : a = g[l] /\ b = t[j] % More
        BY <3>8, Zenon
      <4>2. r + More * (a + b * P) = (r + More * a) + b * (More * P)
        BY <1>0, <1>1, <3>10
      <4> QED
        BY <4>1, <4>2, Zenon
    <3>13. h[i] = h[j] + (t[j] % More) * More ^ j
      BY <3>3, <3>5, <3>6, <3>9, <3>12, Zenon
    <3> QED
      BY <3>1, <3>7, <3>13, Zenon
  <2> QED
    BY <2>1, <2>2
<1>12. s[m + 1] < More
  BY <1>3, <1>2, <1>6
<1>13. \A i \in 1 .. (m + 1) - 1 : ~(s[i] < More)
  <2>1. ASSUME NEW i \in 1 .. m PROVE ~(s[i] < More)
    <3>1. CASE i = 1
      BY <1>1, <1>6, <3>1
    <3>2. CASE i # 1
      <4>1. PICK j \in 1 .. m - 1 : i = j + 1
        <5>1. i - 1 \in 1 .. m - 1 /\ i = (i - 1) + 1
          BY <3>2
        <5> QED
          BY <5>1
      <4>2. j \in 1 .. m
        OBVIOUS
      <4> QED
        BY <1>3, <1>6, <4>1, <4>2, Zenon
    <3> QED
      BY <3>1, <3>2
  <2> QED
    BY <2>1
<1>14. m + 1 \in 1 .. k + 1
  BY <1>2
<1>15. Varint(q * More + r, s, k + 1)
  BY <1>6, <1>8, <1>9, <1>10, <1>11, <1>12, <1>13, <1>14, Zenon DEF Varint
<1> QED
  BY <1>5, <1>15

\* writeUint writes a varint, of no more bytes than its value needs.
LEMMA WriteUintVarint ==
    ASSUME NEW u \in 0 .. 2 ^ Width - 1
    PROVE  Varint(u, writeUint(u), Groups)
<1>1. /\ More \in Nat /\ More > 1 /\ More ^ 0 = 1
      /\ \A i \in 0 .. Groups : More ^ (i + 1) = More * More ^ i
  BY MoreFacts
<1>2. Groups \in Nat \ {0} /\ 2 ^ Width \in Nat \ {0} /\ 2 ^ Width <= More ^ Groups
  BY GroupsSuffice
<1>3. \A k \in 0 .. Groups + 1 : More ^ k \in Nat
  BY MorePowers
<1>4. PICK S : S = {v \in Nat : v < 2 ^ Width =>
                      \A n \in 1 .. Groups : v < More ^ n => Varint(v, writeUint(v), n)}
  OBVIOUS
<1>5. ASSUME NEW v \in Nat, \A k \in Nat : k < v => k \in S PROVE v \in S
  <2> SUFFICES ASSUME v < 2 ^ Width, NEW n \in 1 .. Groups, v < More ^ n
               PROVE  Varint(v, writeUint(v), n)
    BY <1>4
  <2>0. v \in 0 .. 2 ^ Width - 1
    BY <1>2
  <2>1. CASE v < More
    <3>1. writeUint(v) = <<v>>
      BY <2>0, <2>1, WriteUintIs, Zenon
    <3>2. n \in Nat /\ n > 0
      BY <1>2
    <3> QED
      BY <2>1, <3>1, <3>2, VarintLast, Zenon
  <2>2. CASE ~(v < More)
    <3>1. writeUint(v) = <<More + (v % More)>> \o writeUint(v \div More)
      BY <2>0, <2>2, WriteUintIs, Zenon
    <3>2. PICK q \in Nat, r \in 0 .. More - 1 : q = v \div More /\ r = v % More /\ v = q * More + r
      BY <1>1, DivMod
    <3>3. PICK k \in Nat : n = k + 1
      <4>1. n - 1 \in Nat /\ n = (n - 1) + 1
        BY <1>2
      <4> QED
        BY <4>1
    <3>4. k \in 0 .. Groups /\ k \in 0 .. Groups + 1 /\ k + 1 <= Groups
      BY <1>2, <3>3
    <3>5. PICK P \in Nat : P = More ^ k /\ More ^ n = More * P
      BY <1>1, <1>3, <3>3, <3>4, Zenon
    <3>6. q * More + r < More * P
      BY <3>2, <3>5, Zenon
    <3>7. q < P
      BY <1>1, <3>6
    <3>8. k # 0
      <4>1. CASE k = 0
        <5>1. P = 1
          BY <1>1, <3>5, <4>1, Zenon
        <5> QED
          BY <1>1, <2>2, <3>2, <3>6, <5>1
      <4> QED
        BY <4>1
    <3>9. k \in 1 .. Groups
      BY <3>4, <3>8
    <3>10. q < v /\ q < 2 ^ Width
      <4>1. q + q <= q * More
        BY <1>1
      <4>2. v > 0
        BY <1>1, <2>2
      <4>3. q < v
        BY <1>1, <3>2, <4>1, <4>2
      <4> QED
        BY <1>2, <4>3
    <3>11. q \in S
      BY <1>5, <3>10
    <3>12. q < More ^ k
      BY <3>5, <3>7, Zenon
    <3>13. Varint(q, writeUint(q), k)
      BY <1>4, <3>9, <3>10, <3>11, <3>12, Zenon
    <3>14. Varint(q * More + r, <<More + r>> \o writeUint(q), k + 1)
      BY <3>4, <3>13, VarintMore, Zenon
    <3> QED
      BY <3>1, <3>2, <3>3, <3>14, Zenon
  <2> QED
    BY <2>1, <2>2
<1>6. Nat \subseteq S
  BY <1>5, StrongInduction
<1>7. u \in Nat /\ u < 2 ^ Width /\ Groups \in 1 .. Groups
  BY <1>2
<1>8. More ^ Groups \in Nat
  <2>1. Groups \in 0 .. Groups + 1
    BY <1>2
  <2> QED
    BY <1>3, <2>1, Zenon
<1>9. u < More ^ Groups
  BY <1>2, <1>7, <1>8
<1> QED
  BY <1>4, <1>6, <1>7, <1>9

\* A byte as a digit, and the powers of an integer of one and of two bytes.
LEMMA ByteFacts ==
    /\ 2 ^ ByteBits \in Nat /\ 2 ^ ByteBits > 1 /\ Byte = 0 .. 2 ^ ByteBits - 1
    /\ (2 ^ ByteBits) ^ 0 = 1 /\ (2 ^ ByteBits) ^ 1 = 2 ^ ByteBits
    /\ 2 ^ (0 * ByteBits) = 1 /\ 2 ^ (1 * ByteBits) = 2 ^ ByteBits
    /\ 2 ^ (2 * ByteBits) = 2 ^ ByteBits * 2 ^ ByteBits
<1>1. PICK B : B = 2 ^ ByteBits
  OBVIOUS
<1>2. B \in Nat /\ B > 1
  BY <1>1, MoreFacts
<1>3. B ^ 0 = 1 /\ B ^ 1 = B
  <2>1. B ^ 0 = 1 /\ \A k \in 0 .. 1 : B ^ (k + 1) = B * B ^ k
    BY <1>1, PowerAssumption, Zenon DEF PowerLaw
  <2>2. 0 \in 0 .. 1 /\ 0 + 1 = 1 /\ B * 1 = B
    BY <1>2
  <2> QED
    BY <2>1, <2>2, Zenon
<1>4. 0 * ByteBits = 0 /\ 1 * ByteBits = ByteBits /\ 2 * ByteBits = ByteBits + ByteBits
      /\ ByteBits \in Nat /\ ByteBits + ByteBits <= PowerMax
  BY CodecAssumption DEF PowerMax
<1>5. 2 ^ (ByteBits + ByteBits) = B * B
  BY <1>1, <1>4, PowerPlus, Zenon
<1>6. 2 ^ 0 = 1
  BY PowersOfTwo
<1> QED
  BY <1>1, <1>2, <1>3, <1>4, <1>5, <1>6, Zenon DEF Byte

\* Half of the values of an integer of w bits.
LEMMA HalfRange ==
    ASSUME NEW w \in 1 .. PowerMax
    PROVE  2 ^ (w - 1) \in Nat /\ 2 ^ (w - 1) > 0 /\ 2 ^ w = 2 * 2 ^ (w - 1)
<1>1. w - 1 \in 0 .. PowerMax
  BY PowersOfTwo
<1> QED
  BY <1>1, PowersOfTwo

\* Two's complement.
LEMMA SignedRoundTrip ==
    ASSUME NEW w \in 1 .. PowerMax, NEW v \in -(2 ^ (w - 1)) .. 2 ^ (w - 1) - 1
    PROVE  asSigned(w, v % 2 ^ w) = v
<1>1. PICK H \in Nat : H = 2 ^ (w - 1) /\ H > 0
  BY HalfRange
<1>2. 2 ^ w = 2 * H
  BY <1>1, HalfRange, Zenon
<1>3. v \in -H .. H - 1
  BY <1>1
<1>4. v \in Int /\ -H <= v /\ v < H
  BY <1>3
<1>5. PICK x : x = v % (2 * H)
  OBVIOUS
<1>6. x = IF v >= 0 THEN v ELSE v + 2 * H
  <2>1. CASE v >= 0
    BY <1>4, <1>5, <2>1
  <2>2. CASE v < 0
    <3>1. PICK y \in Nat : y = v + 2 * H /\ y < 2 * H
      BY <1>4, <2>2
    <3>2. v % (2 * H) = y
      BY <1>1, <1>4, <2>2, <3>1
    <3> QED
      BY <1>4, <1>5, <2>2, <3>1, <3>2
  <2> QED
    BY <1>4, <2>1, <2>2
<1>7. (IF x >= H THEN x - 2 * H ELSE x) = v
  BY <1>4, <1>6
<1> QED
  BY <1>1, <1>2, <1>5, <1>7, Zenon DEF asSigned

\* DecodeZigzag undoes EncodeZigzag, which leaves no value outside the integers of Width bits.
LEMMA ZigzagRoundTrip ==
    ASSUME NEW v \in -(2 ^ (Width - 1)) .. 2 ^ (Width - 1) - 1
    PROVE  EncodeZigzag(v) \in 0 .. 2 ^ Width - 1 /\ DecodeZigzag(EncodeZigzag(v)) = v
<1>0. Width \in 1 .. PowerMax
  BY CodecAssumption DEF PowerMax
<1>1. PICK H \in Nat : H = 2 ^ (Width - 1) /\ H > 0
  BY <1>0, HalfRange
<1>2. 2 ^ Width = 2 * H
  BY <1>0, <1>1, HalfRange, Zenon
<1>3. v \in -H .. H - 1
  BY <1>1
<1>4. v \in Int /\ -H <= v /\ v < H
  BY <1>3
<1>5. PICK d : d = (2 * v) % (2 * H)
  OBVIOUS
<1>6. PICK u : u = IF v < 0 THEN 2 * H - 1 - d ELSE d
  OBVIOUS
<1>7. EncodeZigzag(v) = u
  BY <1>2, <1>5, <1>6, Zenon DEF EncodeZigzag
<1>8. u = IF v < 0 THEN 2 * (-v - 1) + 1 ELSE 2 * v
  <2>1. CASE v >= 0
    BY <1>4, <1>5, <1>6, <2>1
  <2>2. CASE v < 0
    <3>1. PICK y \in Nat : y = 2 * v + 2 * H /\ y < 2 * H
      BY <1>4, <2>2
    <3>2. d = y
      BY <1>1, <1>4, <1>5, <2>2, <3>1
    <3> QED
      BY <1>4, <1>6, <2>2, <3>1, <3>2
  <2> QED
    BY <1>4, <2>1, <2>2
<1>9. u \in 0 .. 2 * H - 1
  BY <1>4, <1>8
<1>10. DecodeZigzag(u) = v
  BY <1>4, <1>8 DEF DecodeZigzag
<1> QED
  BY <1>2, <1>7, <1>9, <1>10, Zenon

\* An integer of one or two bytes, lowest byte first.
LEMMA FixedIs ==
    ASSUME NEW n \in {1, 2}, NEW v \in Int
    PROVE  /\ fixed(n, v) \in Seq(Byte) /\ Len(fixed(n, v)) = n
           /\ lowestFirst(fixed(n, v), 2 ^ ByteBits) = v % 2 ^ (n * ByteBits)
<1>1. PICK B \in Nat : B = 2 ^ ByteBits /\ B > 1
  BY ByteFacts
<1>2. /\ Byte = 0 .. B - 1 /\ B ^ 0 = 1 /\ B ^ 1 = B
      /\ 2 ^ (0 * ByteBits) = 1 /\ 2 ^ (1 * ByteBits) = B /\ 2 ^ (2 * ByteBits) = B * B
  BY <1>1, ByteFacts, Zenon
<1>3. PICK M \in Nat : M = 2 ^ (n * ByteBits) /\ M = IF n = 1 THEN B ELSE B * B
  BY <1>2
<1>4. PICK x \in Nat : x = v % M /\ x < M
  <2>1. M > 0
    BY <1>1, <1>3
  <2> QED
    BY <2>1
<1>5. PICK s : s = fixed(n, v)
  OBVIOUS
<1>6. s = [i \in 1 .. n |-> (x \div 2 ^ ((i - 1) * ByteBits)) % B]
  BY <1>1, <1>3, <1>4, <1>5, Zenon DEF fixed
<1>7. 1 - 1 = 0 /\ 2 - 1 = 1 /\ 1 \in 1 .. n
  OBVIOUS
<1>8. x \div 1 = x /\ x % B \in 0 .. B - 1
  BY <1>1
<1>9. s[1] = x % B
  <2>1. s[1] = (x \div 2 ^ ((1 - 1) * ByteBits)) % B
    BY <1>6, <1>7, Zenon
  <2> QED
    BY <1>2, <1>7, <1>8, <2>1, Zenon
<1>10. n = 2 => s[2] = (x \div B) % B
  <2>1. ASSUME n = 2 PROVE s[2] = (x \div 2 ^ ((2 - 1) * ByteBits)) % B
    <3>1. 2 \in 1 .. n
      BY <2>1
    <3> QED
      BY <1>6, <3>1, Zenon
  <2> QED
    BY <1>2, <1>7, <2>1, Zenon
<1>11. \A i \in 1 .. n : i = 1 \/ (i = 2 /\ n = 2)
  OBVIOUS
<1>12. \A y \in Nat : y % B \in 0 .. B - 1 /\ y \div B \in Nat
  BY <1>1
<1>13. ASSUME NEW i \in 1 .. n PROVE s[i] \in Byte
  BY <1>2, <1>9, <1>10, <1>11, <1>12, Zenon
<1>14. DOMAIN s = 1 .. n /\ s = [i \in 1 .. n |-> s[i]]
  BY <1>6, Zenon
<1>15. s \in [1 .. n -> Byte]
  BY <1>13, <1>14, Zenon
<1>16. s \in Seq(Byte) /\ Len(s) = n
  <2>1. n \in Nat
    OBVIOUS
  <2> QED
    BY <1>15, <2>1, IsASeq
<1>17. PICK g : g = [i \in 0 .. 2 |-> IF i = 0 THEN 0 ELSE IF i = 1 THEN x % B ELSE x]
  OBVIOUS
<1>18. g[0] = 0 /\ g[1] = x % B /\ g[2] = x
  BY <1>17
<1>19. g[n] = x
  <2>1. CASE n = 1
    BY <1>1, <1>3, <1>4, <1>18, <2>1
  <2>2. CASE n = 2
    BY <1>18, <2>2
  <2> QED
    BY <2>1, <2>2
<1>20. g[1] = g[0] + s[1] * B ^ 0
  <2>1. \A y \in Nat : y = 0 + y * 1
    OBVIOUS
  <2>2. x % B \in Nat
    BY <1>8
  <2> QED
    <3>1. PICK y \in Nat : y = x % B
      BY <2>2, Zenon
    <3>2. y = 0 + y * 1
      BY <2>1, Zenon
    <3> QED
      BY <1>2, <1>9, <1>18, <3>1, <3>2, Zenon
<1>21. n = 2 => g[2] = g[1] + s[2] * B ^ 1
  <2>1. ASSUME n = 2 PROVE x = (x % B) + ((x \div B) % B) * B
    <3>1. PICK q \in Nat, r \in 0 .. B - 1 : q = x \div B /\ r = x % B /\ x = q * B + r
      BY <1>1, DivMod
    <3>2. x < B * B
      BY <1>3, <1>4, <2>1
    <3>3. q < B
      <4>1. q * B < B * B
        BY <3>1, <3>2
      <4> QED
        BY <4>1
    <3>4. q % B = q
      BY <1>1, <3>3
    <3>5. x = r + q * B
      BY <1>1, <3>1
    <3> QED
      BY <3>1, <3>4, <3>5, Zenon
  <2> QED
    BY <1>2, <1>10, <1>18, <2>1, Zenon
<1>22. \A i \in 1 .. n : g[i] = g[i - 1] + s[i] * B ^ (i - 1)
  BY <1>7, <1>11, <1>20, <1>21, Zenon
<1>23. lowestFirst(s, B) = x
  <2>1. Len(s) \in Nat
    BY <1>16
  <2>2. \A i \in 1 .. Len(s) : g[i] = g[i - 1] + s[i] * B ^ (i - 1)
    BY <1>16, <1>22, Zenon
  <2>3. lowestFirst(s, B) = g[Len(s)]
    BY <1>18, <2>1, <2>2, SumIs, Zenon
  <2> QED
    BY <1>16, <1>19, <2>3, Zenon
<1> QED
  BY <1>1, <1>3, <1>4, <1>5, <1>16, <1>23, Zenon

-----------------------------------------------------------------------------
\* Session.
Bytes == Byte \cup {MAGIC, VERSION}

\* Strings of bytes: one after the other, the first n, and those that follow them.
Cat(a, b) == a \o b
First(w, n) == SubSeq(w, 1, n)
After(w, n) == SubSeq(w, n + 1, Len(w))

\* The first BASE_LENGTH bytes of a frame.
Header(m) ==
    <<MAGIC, VERSION, m.type>> \o fixed(FieldBytes, m.id) \o fixed(FieldBytes, Len(m.content))

\* What decodeMeta makes of them.
Meta(m) == [magic |-> MAGIC, type |-> m.type, id |-> m.id, length |-> Len(m.content)]

\* The places where the frames of the messages q end in the string of bytes s.
Cuts(q, s, cut) ==
    /\ cut \in [0 .. Len(q) -> Nat] /\ cut[0] = 0 /\ cut[Len(q)] = Len(s)
    /\ \A i, j \in 0 .. Len(q) : i <= j => cut[i] <= cut[j]
    /\ \A i \in 1 .. Len(q) :
          /\ cut[i] = cut[i - 1] + Len(encode(q[i]))
          /\ \A k \in 1 .. Len(encode(q[i])) : s[cut[i - 1] + k] = encode(q[i])[k]

\* s is the frames of q, one after the other.
Joined(q, s) == \E cut : Cuts(q, s, cut)

\* The messages on their way, and the bytes the reader has of the first one, those on
\* the connection and those the owner of the lock has still to write.
Pending == After(sent, Len(received))
Rest == IF mutex = None THEN <<>> ELSE left[mutex]
Consumed ==
    IF pc["reader"] = "header" THEN buffer ELSE Cat(Header(Pending[1]), buffer)
Stream == Cat(Consumed, Cat(wire, Rest))

\* The sender inside sendResponse has the lock.
SendInv ==
    /\ pc \in [Senders \cup {"reader"} -> {"idle", "write", "spin", "header", "content", "stopped"}]
    /\ todo \in [Senders -> Seq(Messages)] /\ left \in [Senders -> Seq(Bytes)]
    /\ mutex \in Senders \cup {None}
    /\ \A f \in Senders : mutex = f <=> pc[f] # "idle"
    /\ wire \in Seq(Bytes) /\ buffer \in Seq(Bytes)
    /\ sent \in Seq(Messages)

\* What was received is what was sent, in this order.
Received ==
    /\ received \in Seq(Messages) /\ Len(received) <= Len(sent)
    /\ \A i \in 1 .. Len(received) : received[i] = sent[i]

\* While the reader can read, the bytes on their way are the frames of the messages on
\* their way, and the header it has decoded is that of the first one.
FrameInv ==
    inUp /\ pc["reader"] \in {"header", "content"} =>
        /\ Joined(Pending, Stream)
        /\ pc["reader"] = "header" => Len(buffer) < BASE_LENGTH
        /\ pc["reader"] = "content" =>
              Pending # <<>> /\ request = Meta(Pending[1]) /\ Len(buffer) < request.length

SessionInv == SendInv /\ Received /\ FrameInv

\* All of it, as long as no read has timed out.
QuietInv == timeouts \in 0 .. MaxTimeouts /\ (timeouts = 0 => surplus = 0 /\ SessionInv)

-----------------------------------------------------------------------------
\* What a concatenation is.
LEMMA CatFacts ==
    ASSUME NEW a \in Seq(Bytes), NEW b \in Seq(Bytes)
    PROVE  /\ Cat(a, b) \in Seq(Bytes) /\ Len(Cat(a, b)) = Len(a) + Len(b)
           /\ \A i \in 1 .. Len(a) : Cat(a, b)[i] = a[i]
           /\ \A i \in 1 .. Len(b) : Cat(a, b)[Len(a) + i] = b[i]
  BY ConcatProperties DEF Cat

\* Brackets do not matter.
LEMMA CatAssociative ==
    ASSUME NEW a \in Seq(Bytes), NEW b \in Seq(Bytes), NEW c \in Seq(Bytes)
    PROVE  Cat(Cat(a, b), c) = Cat(a, Cat(b, c))
  BY ConcatAssociative DEF Cat

\* Nothing before or after a string is nothing.
LEMMA CatEmpty ==
    ASSUME NEW a \in Seq(Bytes)
    PROVE  Cat(a, <<>>) = a /\ Cat(<<>>, a) = a
  BY ConcatEmptySeq DEF Cat

\* Two cuts of a string at the same place are the same.
LEMMA SameFront ==
    ASSUME NEW a \in Seq(Bytes), NEW b \in Seq(Bytes), NEW c \in Seq(Bytes), NEW d \in Seq(Bytes),
           Cat(a, b) = Cat(c, d), Len(a) = Len(c)
    PROVE  a = c /\ b = d
<1>0. Len(a) \in Nat /\ Len(b) \in Nat /\ Len(c) \in Nat /\ Len(d) \in Nat
  OBVIOUS
<1>1. /\ \A i \in 1 .. Len(a) : Cat(a, b)[i] = a[i]
      /\ \A i \in 1 .. Len(c) : Cat(c, d)[i] = c[i]
  BY CatFacts, Zenon
<1>2. a = c
  BY <1>1, SeqEqual
<1>3. Len(Cat(a, b)) = Len(a) + Len(b) /\ Len(Cat(c, d)) = Len(c) + Len(d)
  BY CatFacts
<1>4. Len(b) = Len(d)
  BY <1>0, <1>3
<1>5. \A i \in 1 .. Len(b) : Cat(a, b)[Len(a) + i] = b[i]
  BY CatFacts
<1>6. \A i \in 1 .. Len(d) : Cat(c, d)[Len(c) + i] = d[i]
  BY CatFacts
<1> QED
  BY <1>2, <1>4, <1>5, <1>6, SeqEqual

\* What is split at any place is joined again.
LEMMA SplitJoin ==
    ASSUME NEW w \in Seq(Bytes), NEW n \in 1 .. Len(w)
    PROVE  /\ First(w, n) \in Seq(Bytes) /\ Len(First(w, n)) = n
           /\ After(w, n) \in Seq(Bytes) /\ Len(After(w, n)) = Len(w) - n
           /\ Cat(First(w, n), After(w, n)) = w
<1>1. /\ First(w, n) \in Seq(Bytes) /\ Len(First(w, n)) = n
      /\ \A i \in 1 .. n : First(w, n)[i] = w[i]
  BY DEF First
<1>2. /\ After(w, n) \in Seq(Bytes) /\ Len(After(w, n)) = Len(w) - n
      /\ \A i \in 1 .. Len(w) - n : After(w, n)[i] = w[n + i]
  BY DEF After
<1>3. /\ Cat(First(w, n), After(w, n)) \in Seq(Bytes)
      /\ Len(Cat(First(w, n), After(w, n))) = n + (Len(w) - n)
      /\ \A i \in 1 .. n : Cat(First(w, n), After(w, n))[i] = First(w, n)[i]
      /\ \A i \in 1 .. Len(w) - n : Cat(First(w, n), After(w, n))[n + i] = After(w, n)[i]
  <2>1. /\ Cat(First(w, n), After(w, n)) \in Seq(Bytes)
        /\ Len(Cat(First(w, n), After(w, n))) = Len(First(w, n)) + Len(After(w, n))
        /\ \A i \in 1 .. Len(First(w, n)) : Cat(First(w, n), After(w, n))[i] = First(w, n)[i]
        /\ \A i \in 1 .. Len(After(w, n)) :
              Cat(First(w, n), After(w, n))[Len(First(w, n)) + i] = After(w, n)[i]
    BY <1>1, <1>2, CatFacts, Zenon
  <2> QED
    BY <1>1, <1>2, <2>1, Zenon
<1>4. ASSUME NEW i \in 1 .. Len(w) PROVE Cat(First(w, n), After(w, n))[i] = w[i]
  <2>1. CASE i <= n
    BY <1>1, <1>3, <2>1
  <2>2. CASE i > n
    <3>1. i - n \in 1 .. Len(w) - n /\ n + (i - n) = i
      BY <2>2
    <3> QED
      BY <1>2, <1>3, <3>1
  <2> QED
    BY <2>1, <2>2
<1>5. Len(Cat(First(w, n), After(w, n))) = Len(w)
  BY <1>3
<1>6. Cat(First(w, n), After(w, n)) = w
  BY <1>3, <1>4, <1>5, SeqEqual
<1> QED
  BY <1>1, <1>2, <1>6

\* Bytes moved from the front of what follows to the end of what precedes.
LEMMA MoveFront ==
    ASSUME NEW c \in Seq(Bytes), NEW w \in Seq(Bytes), NEW r \in Seq(Bytes), NEW n \in 1 .. Len(w)
    PROVE  Cat(Cat(c, First(w, n)), Cat(After(w, n), r)) = Cat(c, Cat(w, r))
<1>1. /\ First(w, n) \in Seq(Bytes) /\ After(w, n) \in Seq(Bytes)
      /\ Cat(First(w, n), After(w, n)) = w
  BY SplitJoin
<1>2. Cat(After(w, n), r) \in Seq(Bytes)
  BY <1>1, CatFacts
<1>3. Cat(Cat(c, First(w, n)), Cat(After(w, n), r))
        = Cat(c, Cat(First(w, n), Cat(After(w, n), r)))
  BY <1>1, <1>2, CatAssociative
<1>4. Cat(First(w, n), Cat(After(w, n), r)) = Cat(Cat(First(w, n), After(w, n)), r)
  BY <1>1, CatAssociative
<1> QED
  BY <1>1, <1>3, <1>4

-----------------------------------------------------------------------------
\* A field of two bytes is a sequence.
LEMMA FieldIsSeq ==
    ASSUME NEW S, NEW x \in [1 .. 2 -> S]
    PROVE  x \in Seq(S) /\ Len(x) = 2
<1>1. x \in Seq(S)
  BY SeqDef
<1>2. DOMAIN x = 1 .. Len(x) /\ Len(x) \in Nat
  BY <1>1, LenProperties
<1> QED
  BY <1>1, <1>2

\* writeFuint32 and readFuint32 agree on every value of a field.
LEMMA FieldRoundTrip ==
    ASSUME NEW v \in FieldValues
    PROVE  /\ fixed(FieldBytes, v) \in [1 .. 2 -> Byte]
           /\ lowestFirst(fixed(FieldBytes, v), 2 ^ ByteBits) = v
<1>1. PICK B \in Nat : B = 2 ^ ByteBits /\ B > 1 /\ 2 ^ (2 * ByteBits) = B * B
  BY ByteFacts
<1>2. v \in 0 .. B * B - 1
  BY <1>1, Zenon DEF FieldValues, FieldBytes
<1>3. v \in Int /\ v % (B * B) = v
  <2>1. PICK M \in Nat : M = B * B
    BY <1>1
  <2>2. v \in Nat /\ v < M
    BY <1>2, <2>1
  <2>3. v % M = v
    BY <2>2
  <2> QED
    BY <2>1, <2>2, <2>3
<1>4. /\ fixed(2, v) \in Seq(Byte) /\ Len(fixed(2, v)) = 2
      /\ lowestFirst(fixed(2, v), 2 ^ ByteBits) = v % 2 ^ (2 * ByteBits)
  <2>1. 2 \in {1, 2}
    OBVIOUS
  <2> QED
    BY <1>3, <2>1, FixedIs, Zenon
<1>5. fixed(2, v) \in [1 .. 2 -> Byte]
  BY <1>4, LenProperties
<1> QED
  BY <1>1, <1>3, <1>4, <1>5, Zenon DEF FieldBytes

\* Two bytes of a string are a field.
LEMMA PairAt ==
    ASSUME NEW h \in Seq(Bytes), NEW k \in 1 .. Len(h) - 1, NEW z \in Seq(Bytes), Len(z) = 2,
           h[k] = z[1], h[k + 1] = z[2]
    PROVE  SubSeq(h, k, k + 1) = z
<1>1. \A i \in k .. k + 1 : h[i] \in Bytes
  OBVIOUS
<1>2. /\ SubSeq(h, k, k + 1) \in Seq(Bytes) /\ Len(SubSeq(h, k, k + 1)) = 2
      /\ \A i \in 1 .. 2 : SubSeq(h, k, k + 1)[i] = h[k + i - 1]
  OBVIOUS
<1> QED
  BY <1>2, SeqEqual

\* Where the fields of a header are.
LEMMA HeaderFields ==
    ASSUME NEW p \in Seq(Bytes), Len(p) = 3, NEW x \in Seq(Bytes), Len(x) = 2,
           NEW y \in Seq(Bytes), Len(y) = 2, NEW h, h = Cat(Cat(p, x), y)
    PROVE  /\ h \in Seq(Bytes) /\ Len(h) = 7 /\ h[1] = p[1] /\ h[3] = p[3]
           /\ SubSeq(h, 4, 5) = x /\ SubSeq(h, 6, 7) = y
<1>1. /\ Cat(p, x) \in Seq(Bytes) /\ Len(Cat(p, x)) = 3 + 2
      /\ \A i \in 1 .. 3 : Cat(p, x)[i] = p[i]
      /\ \A i \in 1 .. 2 : Cat(p, x)[3 + i] = x[i]
  <2>1. /\ Cat(p, x) \in Seq(Bytes) /\ Len(Cat(p, x)) = Len(p) + Len(x)
        /\ \A i \in 1 .. Len(p) : Cat(p, x)[i] = p[i]
        /\ \A i \in 1 .. Len(x) : Cat(p, x)[Len(p) + i] = x[i]
    BY CatFacts, Zenon
  <2> QED
    BY <2>1, Zenon
<1>2. /\ h \in Seq(Bytes) /\ Len(h) = 5 + 2
      /\ \A i \in 1 .. 5 : h[i] = Cat(p, x)[i]
      /\ \A i \in 1 .. 2 : h[5 + i] = y[i]
  <2>1. Len(Cat(p, x)) = 5
    BY <1>1
  <2>2. /\ h \in Seq(Bytes) /\ Len(h) = Len(Cat(p, x)) + Len(y)
        /\ \A i \in 1 .. Len(Cat(p, x)) : h[i] = Cat(p, x)[i]
        /\ \A i \in 1 .. Len(y) : h[Len(Cat(p, x)) + i] = y[i]
    <3>1. PICK c \in Seq(Bytes) : c = Cat(p, x)
      BY <1>1, Zenon
    <3>2. /\ Cat(c, y) \in Seq(Bytes) /\ Len(Cat(c, y)) = Len(c) + Len(y)
          /\ \A i \in 1 .. Len(c) : Cat(c, y)[i] = c[i]
          /\ \A i \in 1 .. Len(y) : Cat(c, y)[Len(c) + i] = y[i]
      BY CatFacts, Zenon
    <3> QED
      BY <3>1, <3>2, Zenon
  <2> QED
    BY <2>1, <2>2, Zenon
<1>3. /\ h[1] = p[1] /\ h[3] = p[3] /\ h[4] = x[1] /\ h[5] = x[2] /\ h[6] = y[1] /\ h[7] = y[2]
  BY <1>1, <1>2
<1>4. Len(h) = 7
  BY <1>2
<1>5. SubSeq(h, 4, 4 + 1) = x /\ SubSeq(h, 6, 6 + 1) = y
  BY <1>2, <1>3, <1>4, PairAt
<1> QED
  BY <1>2, <1>3, <1>5

\* decodeMeta, with the places of the fields.
LEMMA MetaFields ==
    ASSUME NEW h
    PROVE  decodeMeta(h) = [magic |-> h[1], type |-> h[3],
                            id |-> lowestFirst(SubSeq(h, 4, 5), 2 ^ ByteBits),
                            length |-> lowestFirst(SubSeq(h, 6, 7), 2 ^ ByteBits)]
<1>1. 4 + FieldBytes - 1 = 5 /\ 4 + FieldBytes = 6 /\ 6 + FieldBytes - 1 = 7
  BY DEF FieldBytes
<1> QED
  BY <1>1, Zenon DEF decodeMeta

\* A frame is its header and its content, and the header decodes to what was encoded.
LEMMA FrameParts ==
    ASSUME NEW m \in Messages
    PROVE  /\ Header(m) \in Seq(Bytes) /\ Len(Header(m)) = BASE_LENGTH
           /\ m.content \in Seq(Bytes) /\ encode(m) = Cat(Header(m), m.content)
           /\ encode(m) \in Seq(Bytes) /\ decodeMeta(Header(m)) = Meta(m)
           /\ m = [type |-> m.type, id |-> m.id, content |-> m.content]
<1>1. /\ m.type \in Byte /\ m.id \in FieldValues /\ m.content \in Seq(Byte)
      /\ Len(m.content) \in FieldValues
      /\ m = [type |-> m.type, id |-> m.id, content |-> m.content]
  BY DEF Messages
<1>2. ASSUME NEW v \in FieldValues
      PROVE  /\ fixed(FieldBytes, v) \in Seq(Bytes) /\ Len(fixed(FieldBytes, v)) = 2
             /\ lowestFirst(fixed(FieldBytes, v), 2 ^ ByteBits) = v
  <2>1. /\ fixed(FieldBytes, v) \in [1 .. 2 -> Byte]
        /\ lowestFirst(fixed(FieldBytes, v), 2 ^ ByteBits) = v
    BY FieldRoundTrip
  <2>2. fixed(FieldBytes, v) \in [1 .. 2 -> Bytes]
    BY <2>1 DEF Bytes
  <2> QED
    BY <2>1, <2>2, FieldIsSeq
<1>3. PICK p : p = <<MAGIC, VERSION, m.type>>
  OBVIOUS
<1>4. p \in Seq(Bytes) /\ Len(p) = 3 /\ p[1] = MAGIC /\ p[3] = m.type
  BY <1>1, <1>3 DEF Bytes
<1>5. m.content \in Seq(Bytes)
  BY <1>1 DEF Bytes
<1>6. Header(m) = Cat(Cat(p, fixed(FieldBytes, m.id)), fixed(FieldBytes, Len(m.content)))
  BY <1>3 DEF Header, Cat
<1>7. /\ Header(m) \in Seq(Bytes) /\ Len(Header(m)) = 7
      /\ Header(m)[1] = MAGIC /\ Header(m)[3] = m.type
      /\ SubSeq(Header(m), 4, 5) = fixed(FieldBytes, m.id)
      /\ SubSeq(Header(m), 6, 7) = fixed(FieldBytes, Len(m.content))
  BY <1>1, <1>2, <1>4, <1>6, HeaderFields
<1>8. encode(m) = Cat(Header(m), m.content)
  BY DEF encode, Header, Cat
<1>9. encode(m) \in Seq(Bytes)
  BY <1>5, <1>7, <1>8, CatFacts
<1>10. decodeMeta(Header(m)) = Meta(m)
  BY <1>1, <1>2, <1>7, MetaFields DEF Meta
<1> QED
  BY <1>1, <1>5, <1>7, <1>8, <1>9, <1>10 DEF BASE_LENGTH, FieldBytes

-----------------------------------------------------------------------------
\* No frames are no bytes.
LEMMA JoinedEmpty ==
    /\ Joined(<<>>, <<>>)
    /\ \A s \in Seq(Bytes) : Joined(<<>>, s) => s = <<>>
<1>1. Cuts(<<>>, <<>>, [i \in 0 .. 0 |-> 0])
  BY DEF Cuts
<1>2. ASSUME NEW s \in Seq(Bytes), Joined(<<>>, s) PROVE s = <<>>
  <2>1. PICK cut : Cuts(<<>>, s, cut)
    BY <1>2 DEF Joined
  <2>2. Len(s) = 0
    BY <2>1 DEF Cuts
  <2> QED
    BY <2>2, EmptySeq
<1> QED
  BY <1>1, <1>2 DEF Joined

\* Another frame at the end.
LEMMA JoinedAppend ==
    ASSUME NEW q \in Seq(Messages), NEW s \in Seq(Bytes), Joined(q, s), NEW m \in Messages
    PROVE  Joined(Append(q, m), Cat(s, encode(m)))
<1>1. PICK cut : Cuts(q, s, cut)
  BY DEF Joined
<1>2. \A x \in Messages : encode(x) \in Seq(Bytes) /\ Len(encode(x)) \in Nat
  BY FrameParts
<1>3. PICK r : r = Append(q, m)
  OBVIOUS
<1>4. PICK z : z = Cat(s, encode(m))
  OBVIOUS
<1>5. PICK N \in Nat : N = Len(q)
  OBVIOUS
<1>6. Len(r) = N + 1 /\ r[N + 1] = m /\ \A i \in 1 .. N : r[i] = q[i] /\ q[i] \in Messages
  BY <1>3, <1>5
<1>7. PICK L \in Nat : L = Len(s)
  OBVIOUS
<1>8. PICK E \in Nat : E = Len(encode(m))
  BY <1>2
<1>9. /\ Len(z) = L + E /\ \A i \in 1 .. L : z[i] = s[i]
      /\ \A i \in 1 .. E : z[L + i] = encode(m)[i]
  <2>1. /\ Len(z) = Len(s) + Len(encode(m)) /\ \A i \in 1 .. Len(s) : z[i] = s[i]
        /\ \A i \in 1 .. Len(encode(m)) : z[Len(s) + i] = encode(m)[i]
    BY <1>2, <1>4, CatFacts, Zenon
  <2> QED
    BY <1>7, <1>8, <2>1, Zenon
<1>10. /\ cut \in [0 .. N -> Nat] /\ cut[0] = 0 /\ cut[N] = L
       /\ \A i, j \in 0 .. N : i <= j => cut[i] <= cut[j]
       /\ \A i \in 1 .. N :
             /\ cut[i] = cut[i - 1] + Len(encode(q[i]))
             /\ \A k \in 1 .. Len(encode(q[i])) : s[cut[i - 1] + k] = encode(q[i])[k]
  BY <1>1, <1>5, <1>7 DEF Cuts
<1>11. PICK new : new = [i \in 0 .. N + 1 |-> IF i = N + 1 THEN L + E ELSE cut[i]]
  OBVIOUS
<1>12. /\ new \in [0 .. N + 1 -> Nat] /\ new[0] = 0 /\ new[N + 1] = L + E
       /\ \A i \in 0 .. N : new[i] = cut[i]
  BY <1>10, <1>11
<1>13. ASSUME NEW i \in 0 .. N + 1, NEW j \in 0 .. N + 1, i <= j PROVE new[i] <= new[j]
  <2>1. CASE j = N + 1 /\ i = N + 1
    BY <1>12, <2>1
  <2>2. CASE j = N + 1 /\ i # N + 1
    <3>1. i \in 0 .. N /\ N \in 0 .. N /\ i <= N
      BY <2>2
    <3>2. cut[i] <= cut[N] /\ cut[i] \in Nat
      BY <1>10, <3>1
    <3> QED
      BY <1>10, <1>12, <2>2, <3>1, <3>2
  <2>3. CASE j # N + 1
    <3>1. i \in 0 .. N /\ j \in 0 .. N
      BY <1>13, <2>3
    <3> QED
      BY <1>10, <1>12, <1>13, <3>1
  <2> QED
    BY <2>1, <2>2, <2>3
<1>14. ASSUME NEW i \in 1 .. N + 1
       PROVE  /\ new[i] = new[i - 1] + Len(encode(r[i]))
              /\ \A k \in 1 .. Len(encode(r[i])) : z[new[i - 1] + k] = encode(r[i])[k]
  <2>1. CASE i = N + 1
    <3>1. r[i] = m /\ new[i - 1] = L /\ new[i] = L + E
      BY <1>6, <1>10, <1>12, <2>1
    <3> QED
      BY <1>8, <1>9, <3>1
  <2>2. CASE i \in 1 .. N
    <3>1. /\ r[i] = q[i] /\ new[i - 1] = cut[i - 1] /\ new[i] = cut[i] /\ cut[i] <= L
          /\ cut[i - 1] \in Nat /\ cut[i] \in Nat
      <4>1. i \in 0 .. N /\ i - 1 \in 0 .. N /\ N \in 0 .. N /\ i <= N
        BY <2>2
      <4>2. r[i] = q[i] /\ new[i - 1] = cut[i - 1] /\ new[i] = cut[i]
        BY <1>6, <1>12, <2>2, <4>1, Zenon
      <4>3. cut[i] <= cut[N] /\ cut[N] = L
        BY <1>10, <4>1, Zenon
      <4>4. cut[i - 1] \in Nat /\ cut[i] \in Nat
        BY <1>10, <4>1
      <4> QED
        BY <4>2, <4>3, <4>4
    <3>2. /\ cut[i] = cut[i - 1] + Len(encode(q[i])) /\ Len(encode(q[i])) \in Nat
          /\ \A k \in 1 .. Len(encode(q[i])) : s[cut[i - 1] + k] = encode(q[i])[k]
      BY <1>2, <1>6, <1>10, <2>2
    <3>3. ASSUME NEW k \in 1 .. Len(encode(q[i])) PROVE z[cut[i - 1] + k] = s[cut[i - 1] + k]
      <4>1. cut[i - 1] + k \in 1 .. L
        BY <3>1, <3>2
      <4> QED
        BY <1>9, <4>1
    <3> QED
      BY <3>1, <3>2, <3>3
  <2> QED
    BY <2>1, <2>2
<1>15. Cuts(r, z, new)
  BY <1>6, <1>9, <1>12, <1>13, <1>14 DEF Cuts
<1> QED
  BY <1>3, <1>4, <1>15 DEF Joined

\* The first frame, and those that follow.
LEMMA JoinedHead ==
    ASSUME NEW q \in Seq(Messages), q # <<>>, NEW s \in Seq(Bytes), Joined(q, s)
    PROVE  \E t \in Seq(Bytes) : s = Cat(encode(q[1]), t) /\ Joined(Tail(q), t)
<1>1. PICK cut : Cuts(q, s, cut)
  BY DEF Joined
<1>2. PICK N \in Nat : N = Len(q)
  OBVIOUS
<1>3. N >= 1 /\ 1 \in 1 .. N
  BY <1>2, EmptySeq
<1>4. PICK r : r = Tail(q)
  OBVIOUS
<1>5. Len(r) = N - 1 /\ \A i \in 1 .. N - 1 : r[i] = q[i + 1]
  BY <1>2, <1>4, HeadTailProperties
<1>6. \A i \in 1 .. N : /\ q[i] \in Messages /\ encode(q[i]) \in Seq(Bytes)
                        /\ Len(encode(q[i])) \in Nat
  <2>1. \A i \in 1 .. N : q[i] \in Messages
    BY <1>2
  <2> QED
    BY <2>1, FrameParts
<1>7. PICK L \in Nat : L = Len(s)
  OBVIOUS
<1>8. PICK E \in Nat : E = Len(encode(q[1]))
  BY <1>3, <1>6
<1>9. /\ cut \in [0 .. N -> Nat] /\ cut[0] = 0 /\ cut[N] = L
      /\ \A i, j \in 0 .. N : i <= j => cut[i] <= cut[j]
      /\ \A i \in 1 .. N :
            /\ cut[i] = cut[i - 1] + Len(encode(q[i]))
            /\ \A k \in 1 .. Len(encode(q[i])) : s[cut[i - 1] + k] = encode(q[i])[k]
  BY <1>1, <1>2, <1>7 DEF Cuts
<1>10. cut[1] = E /\ E <= L /\ \A k \in 1 .. E : s[k] = encode(q[1])[k]
  <2>1. /\ cut[1] = cut[0] + Len(encode(q[1]))
        /\ \A k \in 1 .. Len(encode(q[1])) : s[cut[0] + k] = encode(q[1])[k]
    <3>1. 1 - 1 = 0
      OBVIOUS
    <3> QED
      BY <1>3, <1>9, <3>1
  <2>2. cut[1] <= cut[N]
    BY <1>3, <1>9
  <2> QED
    BY <1>8, <1>9, <2>1, <2>2
<1>11. PICK t \in Seq(Bytes) : Len(t) = L - E /\ \A i \in 1 .. L - E : t[i] = s[E + i]
  <2>1. /\ SubSeq(s, E + 1, L) \in Seq(Bytes) /\ Len(SubSeq(s, E + 1, L)) = L - E
        /\ \A i \in 1 .. L - E : SubSeq(s, E + 1, L)[i] = s[E + i]
    BY <1>7, <1>10
  <2> QED
    BY <2>1
<1>12. s = Cat(encode(q[1]), t)
  <2>1. PICK e \in Seq(Bytes) : e = encode(q[1])
    BY <1>3, <1>6
  <2>2. /\ Cat(e, t) \in Seq(Bytes) /\ Len(Cat(e, t)) = Len(e) + Len(t)
        /\ \A i \in 1 .. Len(e) : Cat(e, t)[i] = e[i]
        /\ \A i \in 1 .. Len(t) : Cat(e, t)[Len(e) + i] = t[i]
    BY CatFacts, Zenon
  <2>3. Len(e) = E /\ \A i \in 1 .. E : s[i] = e[i]
    BY <1>8, <1>10, <2>1
  <2>4. ASSUME NEW i \in 1 .. L PROVE s[i] = Cat(e, t)[i]
    <3>1. CASE i \in 1 .. E
      BY <2>2, <2>3, <3>1
    <3>2. CASE i \notin 1 .. E
      <4>1. i - E \in 1 .. L - E /\ i = E + (i - E)
        BY <1>10, <3>2
      <4>2. PICK j \in 1 .. L - E : i = E + j
        BY <4>1
      <4>3. Cat(e, t)[E + j] = t[j]
        BY <1>11, <2>2, <2>3
      <4> QED
        BY <1>11, <4>2, <4>3
    <3> QED
      BY <3>1, <3>2
  <2>5. Len(Cat(e, t)) = L
    BY <1>10, <1>11, <2>2, <2>3
  <2> QED
    BY <1>7, <2>1, <2>2, <2>4, <2>5, SeqEqual
<1>13. PICK new : new = [i \in 0 .. N - 1 |-> cut[i + 1] - E]
  OBVIOUS
<1>14. \A i \in 0 .. N - 1 : i + 1 \in 0 .. N /\ cut[i + 1] \in Nat /\ E <= cut[i + 1]
  <2>1. ASSUME NEW i \in 0 .. N - 1 PROVE i + 1 \in 0 .. N /\ cut[i + 1] \in Nat /\ E <= cut[i + 1]
    <3>1. i + 1 \in 0 .. N /\ 1 \in 0 .. N /\ 1 <= i + 1
      BY <1>3
    <3> QED
      BY <1>9, <1>10, <3>1
  <2> QED
    BY <2>1
<1>15. /\ new \in [0 .. N - 1 -> Nat] /\ new[0] = 0 /\ new[N - 1] = L - E
       /\ \A i \in 0 .. N - 1 : new[i] = cut[i + 1] - E
  <2>1. \A i \in 0 .. N - 1 : cut[i + 1] - E \in Nat
    BY <1>14
  <2>2. 0 \in 0 .. N - 1 /\ N - 1 \in 0 .. N - 1 /\ (N - 1) + 1 = N /\ 0 + 1 = 1
    BY <1>3
  <2>3. \A i \in 0 .. N - 1 : new[i] = cut[i + 1] - E
    BY <1>13
  <2>4. new \in [0 .. N - 1 -> Nat]
    BY <1>13, <2>1
  <2>5. new[0] = cut[1] - E
    BY <2>2, <2>3
  <2>6. new[N - 1] = cut[N] - E
    BY <2>2, <2>3
  <2>7. cut[1] - E = 0
    BY <1>10
  <2>8. cut[N] - E = L - E
    BY <1>9
  <2> QED
    BY <2>3, <2>4, <2>5, <2>6, <2>7, <2>8, Zenon
<1>16. ASSUME NEW i \in 0 .. N - 1, NEW j \in 0 .. N - 1, i <= j PROVE new[i] <= new[j]
  <2>1. cut[i + 1] <= cut[j + 1]
    <3>1. i + 1 \in 0 .. N /\ j + 1 \in 0 .. N /\ i + 1 <= j + 1
      BY <1>16
    <3> QED
      BY <1>9, <3>1
  <2>2. new[i] = cut[i + 1] - E /\ new[j] = cut[j + 1] - E
    BY <1>15, Zenon
  <2>3. PICK a \in Nat, b \in Nat : a = cut[i + 1] /\ b = cut[j + 1]
    BY <1>14, Zenon
  <2>4. a <= b => a - E <= b - E
    OBVIOUS
  <2> QED
    BY <2>1, <2>2, <2>3, <2>4, Zenon
<1>17. ASSUME NEW i \in 1 .. N - 1
       PROVE  /\ new[i] = new[i - 1] + Len(encode(r[i]))
              /\ \A k \in 1 .. Len(encode(r[i])) : t[new[i - 1] + k] = encode(r[i])[k]
  <2>1. /\ i + 1 \in 1 .. N /\ i \in 0 .. N - 1 /\ i - 1 \in 0 .. N - 1
        /\ (i + 1) - 1 = i /\ (i - 1) + 1 = i
    OBVIOUS
  <2>2. /\ new[i] = cut[i + 1] - E /\ new[i - 1] = cut[i] - E /\ r[i] = q[i + 1]
        /\ cut[i] \in Nat /\ cut[i + 1] \in Nat /\ E <= cut[i]
    BY <1>5, <1>14, <1>15, <2>1
  <2>3. /\ cut[i + 1] = cut[i] + Len(encode(r[i])) /\ Len(encode(r[i])) \in Nat
        /\ \A k \in 1 .. Len(encode(r[i])) : s[cut[i] + k] = encode(r[i])[k]
    BY <1>6, <1>9, <2>1, <2>2
  <2>4. cut[i + 1] <= L
    BY <1>3, <1>9, <2>1
  <2>5. ASSUME NEW k \in 1 .. Len(encode(r[i])) PROVE t[new[i - 1] + k] = s[cut[i] + k]
    <3>1. (cut[i] - E) + k \in 1 .. L - E /\ E + ((cut[i] - E) + k) = cut[i] + k
      <4>1. PICK a \in Nat, M \in Nat : a = cut[i] /\ M = Len(encode(r[i]))
        BY <2>2, <2>3
      <4>2. a + M <= L /\ E <= a /\ k \in 1 .. M
        BY <2>2, <2>3, <2>4, <4>1
      <4>3. (a - E) + k \in 1 .. L - E /\ E + ((a - E) + k) = a + k
        BY <4>2
      <4> QED
        BY <4>1, <4>3
    <3>2. PICK j \in 1 .. L - E : j = (cut[i] - E) + k
      BY <3>1
    <3>3. t[j] = s[E + j]
      BY <1>11
    <3> QED
      BY <2>2, <3>1, <3>2, <3>3
  <2>6. new[i] = new[i - 1] + Len(encode(r[i]))
    BY <2>2, <2>3
  <2>7. \A k \in 1 .. Len(encode(r[i])) : t[new[i - 1] + k] = encode(r[i])[k]
    BY <2>3, <2>5, Zenon
  <2> QED
    BY <2>6, <2>7, Zenon
<1>18. Cuts(r, t, new)
  BY <1>5, <1>11, <1>15, <1>16, <1>17 DEF Cuts
<1> QED
  BY <1>4, <1>12, <1>18 DEF Joined

\* As many bytes as a header has, before the rest of a stream of frames, are the header
\* of the first one.
LEMMA HeaderRead ==
    ASSUME NEW q \in Seq(Messages), NEW b \in Seq(Bytes), NEW w \in Seq(Bytes),
           Len(b) = BASE_LENGTH, Joined(q, Cat(b, w))
    PROVE  /\ q # <<>> /\ q[1] \in Messages /\ b = Header(q[1])
           /\ \E t \in Seq(Bytes) : w = Cat(q[1].content, t) /\ Joined(Tail(q), t)
<1>1. Cat(b, w) \in Seq(Bytes) /\ Len(Cat(b, w)) = Len(b) + Len(w)
  BY CatFacts, Zenon
<1>2. q # <<>>
  <2>1. Len(Cat(b, w)) # 0
    BY <1>1 DEF BASE_LENGTH, FieldBytes
  <2>2. Cat(b, w) # <<>>
    BY <2>1, EmptySeq
  <2> QED
    BY <1>1, <2>2, JoinedEmpty
<1>3. PICK m \in Messages : m = q[1]
  BY <1>2, EmptySeq
<1>4. PICK t \in Seq(Bytes) : Cat(b, w) = Cat(encode(m), t) /\ Joined(Tail(q), t)
  BY <1>1, <1>2, <1>3, JoinedHead
<1>5. /\ Header(m) \in Seq(Bytes) /\ Len(Header(m)) = BASE_LENGTH /\ m.content \in Seq(Bytes)
      /\ encode(m) = Cat(Header(m), m.content)
  BY FrameParts
<1>6. Cat(encode(m), t) = Cat(Header(m), Cat(m.content, t)) /\ Cat(m.content, t) \in Seq(Bytes)
  <2>1. Cat(Cat(Header(m), m.content), t) = Cat(Header(m), Cat(m.content, t))
    BY <1>5, CatAssociative, Zenon
  <2>2. Cat(m.content, t) \in Seq(Bytes)
    BY <1>5, CatFacts, Zenon
  <2> QED
    BY <1>5, <2>1, <2>2, Zenon
<1>7. Len(b) = Len(Header(m)) /\ Cat(b, w) = Cat(Header(m), Cat(m.content, t))
  BY <1>4, <1>5, <1>6, Zenon
<1>8. b = Header(m) /\ w = Cat(m.content, t)
  <2>1. \A c, d \in Seq(Bytes) : Cat(b, w) = Cat(c, d) /\ Len(b) = Len(c) => b = c /\ w = d
    BY SameFront, Zenon
  <2> QED
    BY <1>5, <1>6, <1>7, <2>1, Zenon
<1> QED
  BY <1>2, <1>3, <1>4, <1>8

\* As many bytes as the content has, after the header, are the content.
LEMMA ContentRead ==
    ASSUME NEW q \in Seq(Messages), q # <<>>, NEW b \in Seq(Bytes), NEW w \in Seq(Bytes),
           Len(b) = Len(q[1].content), Joined(q, Cat(Cat(Header(q[1]), b), w))
    PROVE  q[1] \in Messages /\ b = q[1].content /\ Joined(Tail(q), w)
<1>1. PICK m \in Messages : m = q[1]
  BY EmptySeq
<1>2. /\ Header(m) \in Seq(Bytes) /\ Len(Header(m)) = BASE_LENGTH /\ m.content \in Seq(Bytes)
      /\ encode(m) = Cat(Header(m), m.content)
  BY FrameParts
<1>3. /\ Cat(b, w) \in Seq(Bytes) /\ Cat(Cat(Header(m), b), w) = Cat(Header(m), Cat(b, w))
      /\ Cat(Header(m), Cat(b, w)) \in Seq(Bytes)
  BY <1>2, CatAssociative, CatFacts
<1>4. PICK t \in Seq(Bytes) : Cat(Header(m), Cat(b, w)) = Cat(encode(m), t) /\ Joined(Tail(q), t)
  BY <1>1, <1>3, JoinedHead
<1>5. Cat(encode(m), t) = Cat(Header(m), Cat(m.content, t)) /\ Cat(m.content, t) \in Seq(Bytes)
  <2>1. Cat(Cat(Header(m), m.content), t) = Cat(Header(m), Cat(m.content, t))
    BY <1>2, CatAssociative, Zenon
  <2>2. Cat(m.content, t) \in Seq(Bytes)
    BY <1>2, CatFacts, Zenon
  <2> QED
    BY <1>2, <2>1, <2>2, Zenon
<1>6. Cat(b, w) = Cat(m.content, t)
  <2>1. Cat(Header(m), Cat(b, w)) = Cat(Header(m), Cat(m.content, t))
    BY <1>4, <1>5, Zenon
  <2> QED
    BY <1>2, <1>3, <1>5, <2>1, SameFront, Zenon
<1>7. b = m.content /\ w = t
  <2>1. Len(b) = Len(m.content)
    BY <1>1, Zenon
  <2> QED
    BY <1>2, <1>6, <2>1, SameFront, Zenon
<1> QED
  BY <1>1, <1>4, <1>7

-----------------------------------------------------------------------------
\* The messages on their way.
LEMMA PendingFacts ==
    ASSUME NEW s \in Seq(Messages), NEW n \in 0 .. Len(s)
    PROVE  /\ After(s, n) \in Seq(Messages) /\ Len(After(s, n)) = Len(s) - n
           /\ \A i \in 1 .. Len(s) - n : After(s, n)[i] = s[n + i]
  BY DEF After

\* One more is sent.
LEMMA PendingGrows ==
    ASSUME NEW s \in Seq(Messages), NEW n \in 0 .. Len(s), NEW m \in Messages
    PROVE  After(Append(s, m), n) = Append(After(s, n), m)
<1>1. PICK z : z = Append(s, m)
  OBVIOUS
<1>2. /\ z \in Seq(Messages) /\ Len(z) = Len(s) + 1 /\ z[Len(s) + 1] = m
      /\ \A i \in 1 .. Len(s) : z[i] = s[i]
  BY <1>1, AppendProperties
<1>3. PICK N \in Nat : N = Len(s) /\ n \in 0 .. N
  OBVIOUS
<1>4. /\ After(s, n) \in Seq(Messages) /\ Len(After(s, n)) = N - n
      /\ \A i \in 1 .. N - n : After(s, n)[i] = s[n + i]
  <2>1. /\ After(s, n) \in Seq(Messages) /\ Len(After(s, n)) = Len(s) - n
        /\ \A i \in 1 .. Len(s) - n : After(s, n)[i] = s[n + i]
    BY PendingFacts, Zenon
  <2> QED
    BY <1>3, <2>1, Zenon
<1>5. n \in 0 .. Len(z) /\ Len(z) = N + 1
  BY <1>2, <1>3
<1>6. /\ After(z, n) \in Seq(Messages) /\ Len(After(z, n)) = Len(z) - n
      /\ \A i \in 1 .. Len(z) - n : After(z, n)[i] = z[n + i]
  BY <1>2, <1>5, PendingFacts, Zenon
<1>7. PICK r : r = Append(After(s, n), m)
  OBVIOUS
<1>8. /\ r \in Seq(Messages) /\ Len(r) = Len(After(s, n)) + 1
      /\ r[Len(After(s, n)) + 1] = m
      /\ \A i \in 1 .. Len(After(s, n)) : r[i] = After(s, n)[i]
  BY <1>4, <1>7, AppendProperties
<1>9. PICK K \in Nat : K = N - n
  <2>1. N - n \in Nat
    BY <1>3
  <2> QED
    BY <2>1, Zenon
<1>10. Len(r) = K + 1 /\ Len(After(z, n)) = K + 1 /\ n + K = N
  <2>1. (N - n) + 1 = K + 1 /\ (N + 1) - n = K + 1 /\ n + K = N
    BY <1>3, <1>9
  <2> QED
    BY <1>4, <1>5, <1>6, <1>8, <2>1, Zenon
<1>11. \A i \in 1 .. K : r[i] = s[n + i]
  BY <1>4, <1>8, <1>9
<1>12. \A i \in 1 .. K : n + i \in 1 .. N /\ i \in 1 .. K + 1
  BY <1>3, <1>10
<1>13. \A i \in 1 .. K + 1 : After(z, n)[i] = z[n + i]
  <2>1. Len(z) - n = K + 1
    BY <1>3, <1>5, <1>9
  <2> QED
    BY <1>6, <2>1, Zenon
<1>14. ASSUME NEW i \in 1 .. K + 1 PROVE r[i] = After(z, n)[i]
  <2>1. CASE i = K + 1
    <3>1. r[K + 1] = m
      BY <1>4, <1>8, <1>9, Zenon
    <3>2. n + i = N + 1
      BY <1>3, <1>10, <2>1
    <3>3. After(z, n)[i] = z[N + 1]
      BY <1>13, <3>2
    <3> QED
      BY <1>2, <1>3, <2>1, <3>1, <3>3, Zenon
  <2>2. CASE i # K + 1
    <3>1. i \in 1 .. K
      BY <2>2
    <3> QED
      BY <1>2, <1>3, <1>11, <1>12, <1>13, <3>1
  <2> QED
    BY <2>1, <2>2
<1>15. r = After(z, n)
  BY <1>6, <1>8, <1>10, <1>14, SeqEqual
<1> QED
  BY <1>1, <1>7, <1>15

\* One more is received.
LEMMA PendingShrinks ==
    ASSUME NEW s \in Seq(Messages), NEW n \in 0 .. Len(s), After(s, n) # <<>>
    PROVE  /\ n + 1 \in 0 .. Len(s) /\ After(s, n)[1] = s[n + 1]
           /\ After(s, n + 1) = Tail(After(s, n))
<1>1. /\ After(s, n) \in Seq(Messages) /\ Len(After(s, n)) = Len(s) - n
      /\ \A i \in 1 .. Len(s) - n : After(s, n)[i] = s[n + i]
  BY PendingFacts
<1>2. n + 1 \in 0 .. Len(s) /\ 1 \in 1 .. Len(s) - n
  <2>1. Len(After(s, n)) \in Nat \ {0}
    BY <1>1, EmptySeq
  <2> QED
    BY <1>1, <2>1
<1>3. /\ After(s, n + 1) \in Seq(Messages) /\ Len(After(s, n + 1)) = Len(s) - (n + 1)
      /\ \A i \in 1 .. Len(s) - (n + 1) : After(s, n + 1)[i] = s[(n + 1) + i]
  BY <1>2, PendingFacts
<1>a. PICK r : r = Tail(After(s, n))
  OBVIOUS
<1>4. /\ r \in Seq(Messages) /\ r = Tail(After(s, n)) /\ Len(r) = Len(After(s, n)) - 1
      /\ \A i \in 1 .. Len(r) : r[i] = After(s, n)[i + 1]
  BY <1>1, <1>a, HeadTailProperties
<1>5. Len(r) = Len(After(s, n + 1))
  BY <1>1, <1>3, <1>4
<1>6. ASSUME NEW i \in 1 .. Len(r) PROVE r[i] = After(s, n + 1)[i]
  <2>1. i + 1 \in 1 .. Len(s) - n /\ i \in 1 .. Len(s) - (n + 1) /\ n + (i + 1) = (n + 1) + i
    BY <1>1, <1>4
  <2> QED
    BY <1>1, <1>3, <1>4, <2>1
<1>7. After(s, n + 1) = Tail(After(s, n))
  BY <1>3, <1>4, <1>5, <1>6, SeqEqual
<1> QED
  BY <1>1, <1>2, <1>7

-----------------------------------------------------------------------------
\* What the parts of the stream are made of.
LEMMA StreamTypes ==
    ASSUME SendInv, Received, pc["reader"] # "header" => Pending # <<>>
    PROVE  /\ Pending \in Seq(Messages) /\ Len(received) \in 0 .. Len(sent)
           /\ Rest \in Seq(Bytes) /\ Cat(wire, Rest) \in Seq(Bytes)
           /\ Consumed \in Seq(Bytes) /\ Stream \in Seq(Bytes)
<1>1. Len(received) \in 0 .. Len(sent) /\ sent \in Seq(Messages)
  BY DEF SendInv, Received
<1>2. Pending \in Seq(Messages)
  BY <1>1, PendingFacts DEF Pending
<1>3. Rest \in Seq(Bytes)
  BY EmptySeq DEF SendInv, Rest
<1>4. wire \in Seq(Bytes) /\ buffer \in Seq(Bytes)
  BY DEF SendInv
<1>5. Cat(wire, Rest) \in Seq(Bytes)
  BY <1>3, <1>4, CatFacts, Zenon
<1>6. Consumed \in Seq(Bytes)
  <2>1. CASE pc["reader"] = "header"
    BY <1>4, <2>1 DEF Consumed
  <2>2. CASE pc["reader"] # "header"
    <3>1. Pending[1] \in Messages
      BY <1>2, <2>2, EmptySeq
    <3>2. Header(Pending[1]) \in Seq(Bytes)
      BY <3>1, FrameParts, Zenon
    <3>3. Cat(Header(Pending[1]), buffer) \in Seq(Bytes)
      BY <1>4, <3>2, CatFacts, Zenon
    <3> QED
      BY <2>2, <3>3 DEF Consumed
  <2> QED
    BY <2>1, <2>2
<1>7. Stream \in Seq(Bytes)
  BY <1>5, <1>6, CatFacts, Zenon DEF Stream
<1> QED
  BY <1>1, <1>2, <1>3, <1>5, <1>6, <1>7

\* Steps of the senders and closings that keep what is still to be read.
LEMMA Unread ==
    ASSUME FrameInv, inUp' => inUp, pc'["reader"] = pc["reader"],
           UNCHANGED <<sent, received, buffer, request>>,
           inUp' => Cat(wire', Rest') = Cat(wire, Rest)
    PROVE  FrameInv'
<1>1. Pending' = Pending
  BY DEF Pending
<1>2. Consumed' = Consumed
  BY <1>1 DEF Consumed
<1>3. inUp' => Stream' = Stream
  BY <1>2 DEF Stream
<1> QED
  BY <1>1, <1>3 DEF FrameInv

\* sendResponse adds a frame to the stream.
LEMMA SendResponseStep ==
    ASSUME SessionInv, NEW f \in Senders, SendResponse(f)
    PROVE  SessionInv'
<1>0. /\ SendInv /\ Received /\ f # "reader" /\ f # None /\ mutex = None /\ todo[f] \in Seq(Messages)
      /\ todo[f] # <<>> /\ sent \in Seq(Messages)
  BY SessionAssumption DEF SessionInv, SendInv, SendResponse
<1>1. PICK m : m = Head(todo[f])
  OBVIOUS
<1>2. m \in Messages /\ Tail(todo[f]) \in Seq(Messages)
  BY <1>0, <1>1, HeadTailProperties
<1>3. encode(m) \in Seq(Bytes)
  BY <1>2, FrameParts, Zenon
<1>4. /\ sent' = Append(sent, m) /\ mutex' = f /\ left' = [left EXCEPT ![f] = encode(m)]
      /\ todo' = [todo EXCEPT ![f] = Tail(todo[f])] /\ pc' = [pc EXCEPT ![f] = "write"]
      /\ UNCHANGED <<buffer, request, received, wire, inUp>>
  BY <1>1 DEF SendResponse, goto, recvVars
<1>5. sent' \in Seq(Messages) /\ Len(sent') = Len(sent) + 1 /\ \A i \in 1 .. Len(sent) : sent'[i] = sent[i]
  BY <1>0, <1>2, <1>4, AppendProperties
<1>6. SendInv'
  <2>1. todo' \in [Senders -> Seq(Messages)]
    BY <1>0, <1>2, <1>4 DEF SendInv
  <2>2. left' \in [Senders -> Seq(Bytes)]
    BY <1>0, <1>3, <1>4 DEF SendInv
  <2>3. pc' \in [Senders \cup {"reader"} -> {"idle", "write", "spin", "header", "content", "stopped"}]
    BY <1>0, <1>4 DEF SendInv
  <2>4. ASSUME NEW g \in Senders PROVE mutex' = g <=> pc'[g] # "idle"
    <3>1. mutex # g /\ pc[g] = "idle"
      BY <1>0, SessionAssumption DEF SendInv
    <3>2. pc'[g] = IF g = f THEN "write" ELSE pc[g]
      BY <1>0, <1>4 DEF SendInv
    <3> QED
      BY <1>4, <3>1, <3>2
  <2> QED
    BY <1>0, <1>4, <1>5, <2>1, <2>2, <2>3, <2>4 DEF SendInv
<1>7. Received'
  <2>1. \A i \in 1 .. Len(received) : i \in 1 .. Len(sent)
    BY <1>0 DEF Received
  <2> QED
    BY <1>0, <1>4, <1>5, <2>1 DEF Received
<1>8. FrameInv'
  <2> SUFFICES ASSUME inUp, pc["reader"] \in {"header", "content"}
               PROVE  /\ Joined(Pending', Stream')
                      /\ pc["reader"] = "header" => Len(buffer) < BASE_LENGTH
                      /\ pc["reader"] = "content" =>
                            Pending' # <<>> /\ request = Meta(Pending'[1]) /\ Len(buffer) < request.length
    BY <1>0, <1>4 DEF FrameInv, SendInv
  <2>1. /\ Joined(Pending, Stream)
        /\ pc["reader"] = "header" => Len(buffer) < BASE_LENGTH
        /\ pc["reader"] = "content" =>
              Pending # <<>> /\ request = Meta(Pending[1]) /\ Len(buffer) < request.length
    BY DEF SessionInv, FrameInv
  <2>2. /\ Pending \in Seq(Messages) /\ Len(received) \in 0 .. Len(sent)
        /\ Consumed \in Seq(Bytes) /\ Stream \in Seq(Bytes)
    BY <1>0, <2>1, StreamTypes
  <2>3. Pending' = Append(Pending, m)
    BY <1>0, <1>2, <1>4, <2>2, PendingGrows DEF Pending
  <2>4. Pending # <<>> => Pending'[1] = Pending[1] /\ Pending' # <<>>
    BY <1>2, <2>2, <2>3, EmptySeq, AppendProperties
  <2>5. Consumed' = Consumed
    BY <1>0, <1>4, <2>1, <2>4 DEF Consumed, SendInv
  <2>6. Rest = <<>> /\ Rest' = encode(m)
    BY <1>0, <1>4 DEF Rest, SendInv
  <2>7. wire \in Seq(Bytes)
    BY <1>0 DEF SendInv
  <2>8. Stream = Cat(Consumed, wire)
    BY <2>6, <2>7, CatEmpty, Zenon DEF Stream
  <2>9. Stream' = Cat(Consumed, Cat(wire, encode(m)))
    BY <1>4, <2>5, <2>6, Zenon DEF Stream
  <2>10. Stream' = Cat(Stream, encode(m))
    <3>1. Cat(Consumed, Cat(wire, encode(m))) = Cat(Cat(Consumed, wire), encode(m))
      BY <1>3, <2>2, <2>7, CatAssociative, Zenon
    <3> QED
      BY <2>8, <2>9, <3>1, Zenon
  <2>11. Joined(Pending', Stream')
    BY <1>2, <2>1, <2>2, <2>3, <2>10, JoinedAppend
  <2> QED
    BY <2>1, <2>4, <2>11
<1> QED
  BY <1>6, <1>7, <1>8 DEF SessionInv

\* A write moves bytes from the sender to the connection.
LEMMA WritePartStep ==
    ASSUME SessionInv, NEW f \in Senders, WritePart(f)
    PROVE  SessionInv'
<1>0. /\ SendInv /\ Received /\ FrameInv /\ f # "reader" /\ f # None /\ mutex = f
      /\ left[f] \in Seq(Bytes) /\ wire \in Seq(Bytes) /\ left \in [Senders -> Seq(Bytes)]
  BY SessionAssumption DEF SessionInv, SendInv, WritePart
<1>1. PICK n \in 1 .. Len(left[f]) :
         /\ wire' = IF inUp THEN Cat(wire, First(left[f], n)) ELSE wire
         /\ left' = [left EXCEPT ![f] = After(left[f], n)]
         /\ IF n = Len(left[f]) THEN mutex' = None /\ pc' = [pc EXCEPT ![f] = "idle"]
                                ELSE UNCHANGED <<mutex, pc>>
  BY DEF WritePart, Cat, First, After, goto
<1>2. UNCHANGED <<todo, sent, buffer, request, received, inUp>>
  BY DEF WritePart, recvVars
<1>3. /\ First(left[f], n) \in Seq(Bytes) /\ After(left[f], n) \in Seq(Bytes)
      /\ Len(After(left[f], n)) = Len(left[f]) - n
      /\ Cat(First(left[f], n), After(left[f], n)) = left[f]
  BY <1>0, SplitJoin, Zenon
<1>4. Cat(wire, First(left[f], n)) \in Seq(Bytes)
  BY <1>0, <1>3, CatFacts, Zenon
<1>5. SendInv'
  <2>1. wire' \in Seq(Bytes) /\ left' \in [Senders -> Seq(Bytes)]
    BY <1>0, <1>1, <1>3, <1>4
  <2>2. /\ mutex' \in Senders \cup {None}
        /\ pc' \in [Senders \cup {"reader"} -> {"idle", "write", "spin", "header", "content", "stopped"}]
    BY <1>0, <1>1 DEF SendInv
  <2>3. ASSUME NEW g \in Senders PROVE mutex' = g <=> pc'[g] # "idle"
    <3>1. CASE n = Len(left[f])
      BY <1>0, <1>1, <3>1, SessionAssumption DEF SendInv
    <3>2. CASE n # Len(left[f])
      BY <1>0, <1>1, <3>2 DEF SendInv
    <3> QED
      BY <3>1, <3>2
  <2> QED
    BY <1>0, <1>2, <2>1, <2>2, <2>3 DEF SendInv
<1>6. Received'
  BY <1>0, <1>2 DEF Received
<1>7. Rest = left[f] /\ Rest' = After(left[f], n)
  <2>1. left'[f] = After(left[f], n)
    BY <1>0, <1>1
  <2>2. CASE n = Len(left[f])
    <3>1. Len(After(left[f], n)) = 0
      BY <1>0, <1>3, <2>2
    <3> QED
      BY <1>0, <1>1, <1>3, <2>2, <3>1, EmptySeq DEF Rest
  <2>3. CASE n # Len(left[f])
    BY <1>0, <1>1, <2>1, <2>3 DEF Rest
  <2> QED
    BY <2>2, <2>3
<1>8. inUp' => Cat(wire', Rest') = Cat(wire, Rest)
  <2>1. Cat(Cat(wire, First(left[f], n)), After(left[f], n))
          = Cat(wire, Cat(First(left[f], n), After(left[f], n)))
    BY <1>0, <1>3, CatAssociative, Zenon
  <2>2. inUp' => wire' = Cat(wire, First(left[f], n))
    BY <1>1, <1>2
  <2> QED
    BY <1>3, <1>7, <2>1, <2>2, Zenon
<1>9. pc'["reader"] = pc["reader"]
  BY <1>0, <1>1 DEF SendInv
<1>10. FrameInv'
  BY <1>0, <1>2, <1>8, <1>9, Unread
<1> QED
  BY <1>5, <1>6, <1>10 DEF SessionInv

\* A write that fails keeps the lock and the rest of its frame.
LEMMA WriteFailsStep ==
    ASSUME SessionInv, NEW f \in Senders, WriteFails(f)
    PROVE  SessionInv'
<1>0. /\ SendInv /\ Received /\ FrameInv /\ f # "reader" /\ pc[f] = "write"
      /\ pc' = [pc EXCEPT ![f] = "spin"]
      /\ UNCHANGED <<todo, mutex, left, sent, buffer, request, received, wire, inUp>>
  BY SessionAssumption DEF SessionInv, WriteFails, goto, sendVars, recvVars
<1>1. SendInv' /\ pc'["reader"] = pc["reader"]
  BY <1>0 DEF SendInv
<1>2. Received'
  BY <1>0 DEF Received
<1>3. Rest' = Rest
  BY <1>0 DEF Rest
<1>4. FrameInv'
  BY <1>0, <1>1, <1>3, Unread
<1> QED
  BY <1>1, <1>2, <1>4 DEF SessionInv

\* The end of the stream, a failing read and the closing of either end.
LEMMA EndStep ==
    ASSUME SessionInv, ReadEof \/ ReadFails \/ CloseOut \/ CloseIn
    PROVE  SessionInv'
<1>0. /\ SendInv /\ Received /\ FrameInv
      /\ UNCHANGED <<todo, mutex, left, sent, buffer, request, received>>
      /\ \A f \in Senders : f # "reader"
  BY SessionAssumption
     DEF SessionInv, ReadEof, ReadFails, CloseOut, CloseIn, sendVars, recvVars
<1>1. Received'
  BY <1>0 DEF Received
<1>2. CASE ReadEof \/ ReadFails
  <2>1. \/ pc' = [pc EXCEPT !["reader"] = "stopped"]
        \/ pc' = [pc EXCEPT !["reader"] = "spin"]
    BY <1>2 DEF ReadEof, ReadFails, goto
  <2>2. wire' = wire
    BY <1>2 DEF ReadEof, ReadFails
  <2>3. SendInv' /\ pc'["reader"] \notin {"header", "content"}
    BY <1>0, <2>1, <2>2 DEF SendInv
  <2> QED
    BY <1>1, <2>3 DEF SessionInv, FrameInv
<1>3. CASE CloseOut
  <2>1. UNCHANGED <<pc, wire, inUp>>
    BY <1>3 DEF CloseOut
  <2>2. SendInv' /\ Rest' = Rest
    BY <1>0, <2>1 DEF SendInv, Rest
  <2>3. FrameInv'
    BY <1>0, <2>1, <2>2, Unread
  <2> QED
    BY <1>1, <2>2, <2>3 DEF SessionInv
<1>4. CASE CloseIn
  <2>1. pc' = pc /\ inUp' = FALSE /\ wire' = <<>>
    BY <1>4 DEF CloseIn
  <2>2. SendInv'
    BY <1>0, <2>1, EmptySeq DEF SendInv
  <2> QED
    BY <1>1, <2>1, <2>2 DEF SessionInv, FrameInv
<1> QED
  BY <1>2, <1>3, <1>4

\* A message complete at the reader is the first of those on their way.
LEMMA Delivered ==
    ASSUME SendInv, Received, Pending # <<>>, UNCHANGED sent,
           received' = Append(received, Pending[1])
    PROVE  Received' /\ Pending' = Tail(Pending)
<1>1. Len(received) \in 0 .. Len(sent) /\ sent \in Seq(Messages) /\ received \in Seq(Messages)
  BY DEF SendInv, Received
<1>2. /\ Len(received) + 1 \in 0 .. Len(sent) /\ Pending[1] = sent[Len(received) + 1]
      /\ After(sent, Len(received) + 1) = Tail(Pending)
  BY <1>1, PendingShrinks, Zenon DEF Pending
<1>3. Pending[1] \in Messages
  BY <1>1, <1>2
<1>4. /\ received' \in Seq(Messages) /\ Len(received') = Len(received) + 1
      /\ \A i \in 1 .. Len(received) : received'[i] = received[i]
      /\ received'[Len(received) + 1] = Pending[1]
  BY <1>1, <1>3, AppendProperties
<1>5. ASSUME NEW i \in 1 .. Len(received') PROVE received'[i] = sent[i]
  <2>1. CASE i = Len(received) + 1
    BY <1>2, <1>4, <2>1
  <2>2. CASE i # Len(received) + 1
    <3>1. i \in 1 .. Len(received)
      BY <1>1, <1>4, <2>2
    <3> QED
      BY <1>4, <3>1 DEF Received
  <2> QED
    BY <2>1, <2>2
<1>6. Received'
  BY <1>1, <1>2, <1>4, <1>5 DEF Received
<1>7. Pending' = Tail(Pending)
  BY <1>2, <1>4, Zenon DEF Pending
<1> QED
  BY <1>6, <1>7
-----------------------------------------------------------------------------
\* Both loops of the reader move bytes from the connection into its buffer.
LEMMA ReadPart ==
    ASSUME SessionInv, inUp, pc["reader"] \in {"header", "content"},
           NEW n \in 1 .. Len(wire)
    PROVE  /\ Cat(buffer, First(wire, n)) \in Seq(Bytes)
           /\ Len(Cat(buffer, First(wire, n))) = Len(buffer) + n
           /\ After(wire, n) \in Seq(Bytes) /\ Rest \in Seq(Bytes)
           /\ Cat(After(wire, n), Rest) \in Seq(Bytes)
           /\ Pending \in Seq(Messages) /\ Consumed \in Seq(Bytes)
           /\ Cat(Cat(Consumed, First(wire, n)), Cat(After(wire, n), Rest)) = Stream
           /\ First(wire, n) \in Seq(Bytes)
<1>1. SendInv /\ Received /\ wire \in Seq(Bytes) /\ buffer \in Seq(Bytes)
  BY DEF SessionInv, SendInv
<1>2. pc["reader"] # "header" => Pending # <<>>
  BY DEF SessionInv, FrameInv
<1>3. Pending \in Seq(Messages) /\ Rest \in Seq(Bytes) /\ Consumed \in Seq(Bytes)
  BY <1>1, <1>2, StreamTypes
<1>4. /\ First(wire, n) \in Seq(Bytes) /\ Len(First(wire, n)) = n /\ After(wire, n) \in Seq(Bytes)
  BY <1>1, SplitJoin, Zenon
<1>5. /\ Cat(buffer, First(wire, n)) \in Seq(Bytes)
      /\ Len(Cat(buffer, First(wire, n))) = Len(buffer) + n
  <2>1. /\ Cat(buffer, First(wire, n)) \in Seq(Bytes)
        /\ Len(Cat(buffer, First(wire, n))) = Len(buffer) + Len(First(wire, n))
    BY <1>1, <1>4, CatFacts, Zenon
  <2> QED
    BY <1>4, <2>1, Zenon
<1>6. Cat(After(wire, n), Rest) \in Seq(Bytes)
  BY <1>3, <1>4, CatFacts, Zenon
<1>7. Cat(Cat(Consumed, First(wire, n)), Cat(After(wire, n), Rest)) = Stream
  BY <1>1, <1>3, MoveFront, Zenon DEF Stream
<1> QED
  BY <1>3, <1>4, <1>5, <1>6, <1>7

\* What a step of the reader leaves to the senders.
LEMMA ReaderOnly ==
    ASSUME SendInv, NEW l \in {"header", "content"}, pc' = [pc EXCEPT !["reader"] = l],
           wire' \in Seq(Bytes), buffer' \in Seq(Bytes), UNCHANGED sendVars
    PROVE  SendInv' /\ pc'["reader"] = l /\ Rest' = Rest
<1>1. UNCHANGED <<todo, mutex, left, sent>>
  BY DEF sendVars
<1>2. /\ pc' \in [Senders \cup {"reader"} -> {"idle", "write", "spin", "header", "content", "stopped"}]
      /\ pc'["reader"] = l
  BY DEF SendInv
<1>3. ASSUME NEW g \in Senders PROVE pc'[g] = pc[g]
  <2>1. g # "reader"
    BY SessionAssumption
  <2> QED
    BY <2>1 DEF SendInv
<1>4. SendInv'
  BY <1>1, <1>2, <1>3 DEF SendInv
<1>5. Rest' = Rest
  BY <1>1 DEF Rest
<1> QED
  BY <1>2, <1>4, <1>5

\* A part of the header is read: the frame goes on, is complete without content, or its
\* content follows.
LEMMA ReadHeaderStep ==
    ASSUME SessionInv, surplus = 0, ReadHeader
    PROVE  SessionInv'
<1>0. /\ SendInv /\ Received /\ FrameInv /\ pc["reader"] = "header" /\ inUp
      /\ UNCHANGED sendVars /\ inUp' = inUp
      /\ Len(buffer) \in Nat /\ Len(wire) \in Nat /\ BASE_LENGTH = 7
      /\ pc \in [Senders \cup {"reader"} -> {"idle", "write", "spin", "header", "content", "stopped"}]
      /\ sent' = sent
  BY DEF SessionInv, SendInv, ReadHeader, BASE_LENGTH, FieldBytes, sendVars
<1>01. PICK n \in 1 .. headerBytes - Len(buffer) :
         /\ n <= Len(wire)
         /\ IF Len(Cat(buffer, First(wire, n))) = headerBytes
              THEN HeaderDone(decodeMeta(Cat(buffer, First(wire, n))))
              ELSE buffer' = Cat(buffer, First(wire, n)) /\ UNCHANGED <<pc, request, surplus, received>>
         /\ wire' = After(wire, n)
  BY DEF ReadHeader, Cat, First, After
<1>02. headerBytes = BASE_LENGTH
  BY <1>0 DEF headerBytes
<1>1. /\ n \in 1 .. BASE_LENGTH - Len(buffer) /\ n <= Len(wire)
      /\ IF Len(Cat(buffer, First(wire, n))) = BASE_LENGTH
           THEN HeaderDone(decodeMeta(Cat(buffer, First(wire, n))))
           ELSE buffer' = Cat(buffer, First(wire, n)) /\ UNCHANGED <<pc, request, received>>
      /\ wire' = After(wire, n)
  BY <1>01, <1>02
<1>2. n \in 1 .. Len(wire) /\ Len(buffer) + n <= BASE_LENGTH
  BY <1>0, <1>1
<1>3. PICK b : b = Cat(buffer, First(wire, n))
  OBVIOUS
<1>4. PICK w : w = Cat(After(wire, n), Rest)
  OBVIOUS
<1>5. Consumed = buffer /\ Joined(Pending, Stream)
  BY <1>0 DEF Consumed, FrameInv
<1>6. /\ b \in Seq(Bytes) /\ Len(b) = Len(buffer) + n /\ w \in Seq(Bytes) /\ Rest \in Seq(Bytes)
      /\ wire' \in Seq(Bytes) /\ Pending \in Seq(Messages) /\ Cat(b, w) = Stream
  BY <1>0, <1>1, <1>2, <1>3, <1>4, <1>5, ReadPart
<1>7. pc = [pc EXCEPT !["reader"] = "header"]
  BY <1>0
<1>8. CASE Len(b) # BASE_LENGTH
  <2>1. buffer' = b /\ UNCHANGED <<pc, request, received>>
    BY <1>1, <1>3, <1>8
  <2>2. SendInv' /\ pc'["reader"] = "header" /\ Rest' = Rest
    BY <1>0, <1>6, <1>7, <2>1, ReaderOnly
  <2>3. Pending' = Pending /\ Received'
    BY <1>0, <2>1 DEF Pending, Received
  <2>4. Stream' = Cat(b, w)
    BY <1>1, <1>4, <2>1, <2>2 DEF Stream, Consumed
  <2>5. Len(b) < BASE_LENGTH
    BY <1>0, <1>2, <1>6, <1>8
  <2> QED
    BY <1>5, <1>6, <2>1, <2>2, <2>3, <2>4, <2>5 DEF SessionInv, FrameInv
<1>9. CASE Len(b) = BASE_LENGTH
  <2>1. HeaderDone(decodeMeta(b))
    BY <1>1, <1>3, <1>9
  <2>2. /\ Pending # <<>> /\ Pending[1] \in Messages /\ b = Header(Pending[1])
        /\ \E t \in Seq(Bytes) : w = Cat(Pending[1].content, t) /\ Joined(Tail(Pending), t)
    BY <1>5, <1>6, <1>9, HeaderRead
  <2>3. PICK m \in Messages : m = Pending[1]
    BY <2>2
  <2>4. PICK t \in Seq(Bytes) : w = Cat(m.content, t) /\ Joined(Tail(Pending), t)
    BY <2>2, <2>3
  <2>5. /\ b = Header(m) /\ decodeMeta(b) = Meta(m) /\ m.content \in Seq(Bytes)
        /\ m = [type |-> m.type, id |-> m.id, content |-> m.content]
    BY <2>2, <2>3, FrameParts
  <2>6. /\ Meta(m).magic = MAGIC /\ Meta(m).type = m.type /\ Meta(m).id = m.id
        /\ Meta(m).length = Len(m.content)
    BY DEF Meta
  <2>7. HeaderDone(Meta(m)) /\ buffer' = <<>> /\ <<>> \in Seq(Bytes) /\ Len(<<>>) = 0
    BY <2>1, <2>5, EmptySeq DEF HeaderDone
  <2>8. CASE Len(m.content) = 0
    <3>1. m.content = <<>>
      BY <2>5, <2>8, EmptySeq
    <3>2. /\ received' = Append(received, [type |-> m.type, id |-> m.id, content |-> <<>>])
          /\ UNCHANGED <<pc, request>>
      BY <2>6, <2>7, <2>8 DEF HeaderDone
    <3>3. received' = Append(received, Pending[1])
      BY <2>3, <2>5, <3>1, <3>2
    <3>4. Received' /\ Pending' = Tail(Pending)
      BY <1>0, <2>2, <3>3, Delivered
    <3>5. SendInv' /\ pc'["reader"] = "header" /\ Rest' = Rest
      BY <1>0, <1>6, <1>7, <2>7, <3>2, ReaderOnly
    <3>6. w = t
      BY <2>4, <3>1, CatEmpty, Zenon
    <3>7. Stream' = Cat(<<>>, w)
      BY <1>1, <1>4, <2>7, <3>5 DEF Stream, Consumed
    <3>8. Stream' = t
      BY <3>6, <3>7, CatEmpty, Zenon
    <3>9. Joined(Pending', Stream')
      BY <2>4, <3>4, <3>8
    <3>10. Len(buffer') < BASE_LENGTH
      BY <1>0, <2>7
    <3> QED
      BY <3>4, <3>5, <3>9, <3>10 DEF SessionInv, FrameInv
  <2>9. CASE Len(m.content) # 0
    <3>1. /\ pc' = [pc EXCEPT !["reader"] = "content"] /\ request' = Meta(m)
          /\ received' = received
      BY <2>6, <2>7, <2>9 DEF HeaderDone, goto
    <3>2. SendInv' /\ pc'["reader"] = "content" /\ Rest' = Rest
      BY <1>0, <1>6, <2>7, <3>1, ReaderOnly
    <3>3. Pending' = Pending /\ Received'
      BY <1>0, <3>1 DEF Pending, Received
    <3>4. Consumed' = Cat(b, <<>>)
      BY <2>3, <2>5, <2>7, <3>2, <3>3 DEF Consumed
    <3>5. Consumed' = b
      BY <1>6, <3>4, CatEmpty, Zenon
    <3>6. Stream' = Stream
      BY <1>1, <1>4, <1>6, <3>2, <3>5 DEF Stream
    <3>7. Len(buffer') < request'.length
      BY <2>5, <2>6, <2>7, <2>9, <3>1
    <3> QED
      BY <1>5, <2>2, <2>3, <3>1, <3>2, <3>3, <3>6, <3>7 DEF SessionInv, FrameInv
  <2> QED
    BY <2>8, <2>9
<1> QED
  BY <1>8, <1>9

\* A part of the content is read: the frame goes on, or it is the message that was sent.
LEMMA ReadContentStep ==
    ASSUME SessionInv, ReadContent
    PROVE  SessionInv'
<1>0. /\ SendInv /\ Received /\ FrameInv /\ pc["reader"] = "content" /\ inUp
      /\ UNCHANGED sendVars /\ inUp' = inUp
      /\ Len(buffer) \in Nat /\ Len(wire) \in Nat /\ buffer \in Seq(Bytes) /\ BASE_LENGTH = 7
      /\ pc \in [Senders \cup {"reader"} -> {"idle", "write", "spin", "header", "content", "stopped"}]
      /\ sent' = sent
  BY DEF SessionInv, SendInv, ReadContent, sendVars, BASE_LENGTH, FieldBytes
<1>1. PICK n \in 1 .. request.length - Len(buffer) :
         /\ n <= Len(wire)
         /\ IF Len(Cat(buffer, First(wire, n))) = request.length
              THEN /\ received' = Append(received, [type |-> request.type, id |-> request.id,
                                                    content |-> Cat(buffer, First(wire, n))])
                   /\ buffer' = <<>> /\ pc' = [pc EXCEPT !["reader"] = "header"]
              ELSE buffer' = Cat(buffer, First(wire, n)) /\ UNCHANGED <<pc, request, received>>
         /\ wire' = After(wire, n)
  BY DEF ReadContent, Cat, First, After, goto
<1>2. /\ Joined(Pending, Stream) /\ Pending # <<>> /\ request = Meta(Pending[1])
      /\ Pending \in Seq(Messages)
  BY <1>0, StreamTypes DEF FrameInv
<1>3. PICK m \in Messages : m = Pending[1]
  BY <1>2, EmptySeq
<1>4. /\ request.type = m.type /\ request.id = m.id /\ request.length = Len(m.content)
      /\ request = Meta(m)
  BY <1>2, <1>3 DEF Meta
<1>5. /\ Header(m) \in Seq(Bytes) /\ m.content \in Seq(Bytes)
      /\ m = [type |-> m.type, id |-> m.id, content |-> m.content]
  BY FrameParts
<1>6. n \in 1 .. Len(wire) /\ Len(buffer) + n <= Len(m.content) /\ Len(m.content) \in Nat
  BY <1>0, <1>1, <1>4, <1>5
<1>7. PICK b : b = Cat(buffer, First(wire, n))
  OBVIOUS
<1>8. PICK w : w = Cat(After(wire, n), Rest)
  OBVIOUS
<1>9. /\ b \in Seq(Bytes) /\ Len(b) = Len(buffer) + n /\ w \in Seq(Bytes) /\ Rest \in Seq(Bytes)
      /\ wire' \in Seq(Bytes) /\ First(wire, n) \in Seq(Bytes)
      /\ Cat(Cat(Consumed, First(wire, n)), w) = Stream
  BY <1>0, <1>1, <1>6, <1>7, <1>8, ReadPart
<1>10. Cat(Cat(Header(m), b), w) = Stream
  <2>1. Consumed = Cat(Header(m), buffer)
    BY <1>0, <1>3 DEF Consumed
  <2>2. Cat(Cat(Header(m), buffer), First(wire, n)) = Cat(Header(m), b)
    <3>1. Header(m) \in Seq(Bytes) /\ buffer \in Seq(Bytes) /\ First(wire, n) \in Seq(Bytes)
      BY <1>0, <1>5, <1>9
    <3>2. Cat(Cat(Header(m), buffer), First(wire, n)) = Cat(Header(m), Cat(buffer, First(wire, n)))
      BY <3>1, CatAssociative, Zenon
    <3> QED
      BY <1>7, <3>2, Zenon
  <2> QED
    BY <1>9, <2>1, <2>2, Zenon
<1>11. pc = [pc EXCEPT !["reader"] = "content"]
  BY <1>0
<1>12. CASE Len(b) # Len(m.content)
  <2>1. buffer' = b /\ UNCHANGED <<pc, request, received>>
    BY <1>1, <1>4, <1>7, <1>12
  <2>2. SendInv' /\ pc'["reader"] = "content" /\ Rest' = Rest
    BY <1>0, <1>9, <1>11, <2>1, ReaderOnly
  <2>3. Pending' = Pending /\ Received'
    BY <1>0, <2>1 DEF Pending, Received
  <2>4. Stream' = Cat(Cat(Header(m), b), w)
    BY <1>1, <1>3, <1>8, <2>1, <2>2, <2>3 DEF Stream, Consumed
  <2>5. Len(buffer') < request'.length
    <3>0. Len(b) \in Nat /\ Len(b) = Len(buffer) + n
      BY <1>9
    <3>1. Len(b) < Len(m.content)
      BY <1>6, <1>12, <3>0
    <3> QED
      BY <1>4, <2>1, <3>1
  <2> QED
    BY <1>2, <1>10, <2>1, <2>2, <2>3, <2>4, <2>5 DEF SessionInv, FrameInv
<1>13. CASE Len(b) = Len(m.content)
  <2>1. /\ received' = Append(received, [type |-> m.type, id |-> m.id, content |-> b])
        /\ buffer' = <<>> /\ pc' = [pc EXCEPT !["reader"] = "header"]
    BY <1>1, <1>4, <1>7, <1>13
  <2>2. b = m.content /\ Joined(Tail(Pending), w)
    <3>1. /\ Len(b) = Len(Pending[1].content)
          /\ Joined(Pending, Cat(Cat(Header(Pending[1]), b), w))
      BY <1>2, <1>3, <1>10, <1>13
    <3>2. b = Pending[1].content /\ Joined(Tail(Pending), w)
      BY <1>2, <1>9, <3>1, ContentRead
    <3> QED
      BY <1>3, <3>2
  <2>3. received' = Append(received, Pending[1])
    BY <1>3, <1>5, <2>1, <2>2
  <2>4. Received' /\ Pending' = Tail(Pending)
    BY <1>0, <1>2, <2>3, Delivered
  <2>5. <<>> \in Seq(Bytes) /\ Len(<<>>) = 0
    BY EmptySeq
  <2>6. SendInv' /\ pc'["reader"] = "header" /\ Rest' = Rest
    BY <1>0, <1>9, <2>1, <2>5, ReaderOnly
  <2>7. Stream' = Cat(<<>>, w)
    BY <1>1, <1>8, <2>1, <2>6 DEF Stream, Consumed
  <2>8. Stream' = w
    BY <1>9, <2>7, CatEmpty, Zenon
  <2>9. Joined(Pending', Stream') /\ Len(buffer') < BASE_LENGTH
    BY <1>0, <2>1, <2>2, <2>4, <2>5, <2>8
  <2> QED
    BY <2>4, <2>6, <2>9 DEF SessionInv, FrameInv
<1> QED
  BY <1>12, <1>13

-----------------------------------------------------------------------------
\* Nothing is sent, nothing is on its way.
LEMMA SessionInit == Init => SessionInv
<1> SUFFICES ASSUME Init PROVE SessionInv
  OBVIOUS
<1>1. <<>> \in Seq(Bytes) /\ <<>> \in Seq(Messages) /\ Len(<<>>) = 0
  BY EmptySeq
<1>2. /\ sent = <<>> /\ received = <<>> /\ buffer = <<>> /\ wire = <<>> /\ mutex = None
      /\ pc["reader"] = "header"
      /\ pc = [f \in Senders \cup {"reader"} |-> IF f = "reader" THEN "header" ELSE "idle"]
  BY DEF Init
<1>3. SendInv
  <2>1. \A f \in Senders : mutex = f <=> pc[f] # "idle"
    BY <1>2, SessionAssumption
  <2>2. /\ pc \in [Senders \cup {"reader"} -> {"idle", "write", "spin", "header", "content", "stopped"}]
        /\ left \in [Senders -> Seq(Bytes)] /\ todo \in [Senders -> Seq(Messages)]
    BY <1>1, <1>2, SessionAssumption DEF Init
  <2> QED
    BY <1>1, <1>2, <2>1, <2>2 DEF SendInv
<1>4. Received
  BY <1>1, <1>2 DEF Received
<1>5. Pending = <<>>
  BY <1>1, <1>2, EmptySeq DEF Pending, After
<1>6. Stream = <<>>
  <2>1. Stream = Cat(<<>>, Cat(<<>>, <<>>))
    BY <1>2 DEF Stream, Consumed, Rest
  <2> QED
    BY <1>1, <2>1, CatEmpty, Zenon
<1>7. FrameInv
  BY <1>1, <1>2, <1>5, <1>6, JoinedEmpty DEF FrameInv, BASE_LENGTH, FieldBytes
<1> QED
  BY <1>3, <1>4, <1>7 DEF SessionInv

\* Every step keeps the invariant, up to the first time-out.
LEMMA SessionStep ==
    ASSUME SessionInv, surplus = 0, [Next]_vars, ~ReadTimesOut
    PROVE  SessionInv'
<1>1. ASSUME NEW f \in Senders, SendStep(f) PROVE SessionInv'
  BY <1>1, SendResponseStep, WritePartStep, WriteFailsStep DEF SendStep
<1>2. CASE RecvStep
  <2>1. ~ReadBefore
    BY DEF ReadBefore
  <2> QED
    BY <1>2, <2>1, ReadHeaderStep, ReadContentStep, EndStep DEF RecvStep
<1>3. CASE CloseOut \/ CloseIn
  BY <1>3, EndStep
<1>4. CASE UNCHANGED vars
  <2>1. UNCHANGED <<pc, todo, mutex, left, sent, buffer, request, received, wire, inUp>>
    BY <1>4 DEF vars, sendVars, recvVars
  <2>2. SendInv' /\ Received' /\ Rest' = Rest
    BY <2>1 DEF SessionInv, SendInv, Received, Rest
  <2>3. FrameInv'
    BY <2>1, <2>2, Unread DEF SessionInv
  <2> QED
    BY <2>2, <2>3 DEF SessionInv
<1> QED
  BY <1>1, <1>2, <1>3, <1>4 DEF Next

\* Only ReadTimesOut counts a time-out, and without one nothing beyond the frame is read.
LEMMA TimeoutsOnly ==
    ASSUME timeouts \in 0 .. MaxTimeouts, timeouts = 0 => surplus = 0, [Next]_vars
    PROVE  \/ ReadTimesOut /\ timeouts' = timeouts + 1 /\ timeouts' <= MaxTimeouts
           \/ timeouts' = timeouts /\ (timeouts = 0 => surplus' = 0) /\ ~ReadTimesOut
<1>1. MaxTimeouts \in Nat
  BY SessionAssumption
<1>2. CASE ReadTimesOut
  BY <1>1, <1>2 DEF ReadTimesOut
<1>3. CASE ReadHeader
  BY <1>1, <1>3 DEF ReadHeader, HeaderDone, ReadTimesOut
<1>4. CASE ReadContent \/ ReadBefore \/ ReadEof \/ ReadFails
  BY <1>1, <1>4 DEF ReadContent, ReadBefore, ReadEof, ReadFails, recvVars, ReadTimesOut
<1>5. CASE CloseOut \/ CloseIn \/ UNCHANGED vars
  BY <1>1, <1>5 DEF CloseOut, CloseIn, vars, recvVars, ReadTimesOut
<1>6. ASSUME NEW f \in Senders, SendStep(f)
      PROVE  timeouts' = timeouts /\ surplus' = surplus /\ ~ReadTimesOut
  BY <1>1, <1>6 DEF SendStep, SendResponse, WritePart, WriteFails, recvVars, ReadTimesOut
<1> QED
  BY <1>2, <1>3, <1>4, <1>5, <1>6 DEF Next, RecvStep

LEMMA QuietStep == QuietInv /\ [Next]_vars => QuietInv'
<1> SUFFICES ASSUME QuietInv, [Next]_vars PROVE QuietInv'
  OBVIOUS
<1>1. MaxTimeouts \in Nat /\ timeouts \in 0 .. MaxTimeouts /\ (timeouts = 0 => surplus = 0)
  BY SessionAssumption DEF QuietInv
<1>2. \/ ReadTimesOut /\ timeouts' = timeouts + 1 /\ timeouts' <= MaxTimeouts
      \/ timeouts' = timeouts /\ (timeouts = 0 => surplus' = 0) /\ ~ReadTimesOut
  BY <1>1, TimeoutsOnly
<1>3. CASE ReadTimesOut /\ timeouts' = timeouts + 1 /\ timeouts' <= MaxTimeouts
  BY <1>1, <1>3 DEF QuietInv
<1>4. CASE timeouts' = timeouts /\ (timeouts = 0 => surplus' = 0) /\ ~ReadTimesOut
  BY <1>1, <1>4, SessionStep DEF QuietInv
<1> QED
  BY <1>2, <1>3, <1>4

\* What was received is a prefix of what was sent.
LEMMA ReceivedIsPrefix == SessionInv => IsPrefix(received, sent)
<1> SUFFICES ASSUME SessionInv PROVE IsPrefix(received, sent)
  OBVIOUS
<1>1. /\ received \in Seq(Messages) /\ sent \in Seq(Messages) /\ Len(received) <= Len(sent)
      /\ \A i \in 1 .. Len(received) : received[i] = sent[i]
  BY DEF SessionInv, SendInv, Received
<1>2. SubSeq(received, 1, Len(received)) = SubSeq(sent, 1, Len(received))
  <2>1. PICK a : a = SubSeq(received, 1, Len(received))
    OBVIOUS
  <2>2. PICK b : b = SubSeq(sent, 1, Len(received))
    OBVIOUS
  <2>3. /\ a \in Seq(Messages) /\ Len(a) = Len(received)
        /\ \A i \in 1 .. Len(received) : a[i] = received[i]
    BY <1>1, <2>1
  <2>4. /\ b \in Seq(Messages) /\ Len(b) = Len(received)
        /\ \A i \in 1 .. Len(received) : b[i] = sent[i]
    BY <1>1, <2>2
  <2>5. a = b
    BY <1>1, <2>3, <2>4, SeqEqual
  <2> QED
    BY <2>1, <2>2, <2>5
<1> QED
  BY <1>1, <1>2 DEF IsPrefix

LEMMA QuietInit == Init => QuietInv
<1>1. Init => SessionInv
  BY SessionInit
<1>2. Init => timeouts = 0 /\ surplus = 0 /\ MaxTimeouts \in Nat
  BY SessionAssumption DEF Init
<1> QED
  BY <1>1, <1>2 DEF QuietInv

\* For any number of senders and messages and whatever parts the socket takes and gives:
\* as long as no read has timed out, what recvRequest returns are the messages as they were
\* sent, whole and in the order in which their senders got the lock, also when either end
\* closes within a frame (rpc_session.cc:9-41, stream.cc:4-51).
THEOREM FramesIntactHolds == Spec => []FramesIntact
<1>1. Init => QuietInv
  BY QuietInit
<1>2. QuietInv /\ [Next]_vars => QuietInv'
  BY QuietStep
<1>3. QuietInv => FramesIntact
  BY ReceivedIsPrefix DEF QuietInv, FramesIntact
<1> QED
  BY <1>1, <1>2, <1>3, PTL DEF Spec

\* A connection whose socket has no receive time-out, every one but that of RPCServer to its
\* registry: what recvRequest returns is always a prefix of what was sent.
THEOREM IntactWithoutTimeout == ASSUME MaxTimeouts = 0 PROVE Spec => []IsPrefix(received, sent)
<1>1. Init => QuietInv
  BY QuietInit
<1>2. QuietInv /\ [Next]_vars => QuietInv'
  BY QuietStep
<1>3. QuietInv => IsPrefix(received, sent)
  BY ReceivedIsPrefix DEF QuietInv
<1> QED
  BY <1>1, <1>2, <1>3, PTL DEF Spec
-----------------------------------------------------------------------------
\* w stands in s from place p on.
In(w, s, p) == p + Len(w) <= Len(s) /\ \A i \in 1 .. Len(w) : s[p + i] = w[i]

\* readUint finds the value at the front of the bytes and takes no more than its varint.
LEMMA ReadUintIs ==
    ASSUME NEW u \in 0 .. 2 ^ Width - 1, NEW s \in Seq(Cells), In(writeUint(u), s, 0)
    PROVE  readUint(s) = [val |-> u, len |-> Len(writeUint(u))]
<1>1. More \in Nat /\ More > 1 /\ Byte = 0 .. 2 * More - 1
  BY MoreFacts
<1>2. PICK w : w = writeUint(u)
  OBVIOUS
<1>3. Varint(u, w, Groups)
  BY <1>2, WriteUintVarint
<1>4. PICK m \in 1 .. Groups : m = Len(w)
  BY <1>3 DEF Varint
<1>5. Groups \in Nat /\ 2 ^ Width \in Nat
  BY GroupsSuffice
<1>6. /\ w \in Seq(Byte) /\ w[m] < More /\ \A i \in 1 .. m - 1 : ~(w[i] < More)
  BY <1>3, <1>4, Zenon DEF Varint
<1>7. PICK g \in [0 .. m -> Nat] :
          /\ g[0] = 0 /\ g[m] = u
          /\ \A i \in 1 .. m : g[i] = g[i - 1] + (w[i] % More) * More ^ (i - 1)
  BY <1>3, <1>4, Zenon DEF Varint
<1>8. m <= Len(s) /\ \A i \in 1 .. m : s[i] = w[i]
  <2>1. 0 + Len(w) <= Len(s) /\ \A i \in 1 .. Len(w) : s[0 + i] = w[i]
    BY <1>2, Zenon DEF In
  <2>2. 0 + m <= Len(s) /\ \A i \in 1 .. m : s[0 + i] = w[i]
    BY <1>4, <2>1, Zenon
  <2>3. 0 + m = m /\ \A i \in 1 .. m : 0 + i = i
    BY <1>4
  <2> QED
    BY <2>2, <2>3, Zenon
<1> DEFINE last == {i \in 1 .. Groups : i <= Len(s) /\ s[i] < More}
<1>9. m \in last
  <2>1. m \in 1 .. m
    BY <1>4, <1>5
  <2> QED
    BY <1>6, <1>8, <2>1
<1>10. \A i \in last : m <= i
  <2>1. ASSUME NEW i \in last, i < m PROVE FALSE
    <3>1. i \in 1 .. m - 1 /\ i \in 1 .. m
      BY <1>5, <2>1
    <3> QED
      BY <1>6, <1>8, <3>1
  <2> QED
    BY <1>5, <2>1
<1>11. last # {} /\ Min(last) = m
  <2>1. \A x \in last : (\A y \in last : x <= y) => x = m
    BY <1>5, <1>9, <1>10
  <2> QED
    BY <1>9, <1>10, <2>1, Zenon DEF Min
<1> HIDE DEF last
<1>12. PICK d : d = [i \in 1 .. m |-> s[i] % More]
  OBVIOUS
<1>13. readUint(s) = [val |-> lowestFirst(d, More) % 2 ^ Width, len |-> m]
  BY <1>11, <1>12, Zenon DEF readUint, last
<1>14. Len(d) = m
  <2>1. ASSUME NEW i \in 1 .. m PROVE s[i] % More \in Nat
    <3>1. s[i] \in Byte
      BY <1>4, <1>6, <1>8
    <3>2. s[i] \in Nat
      BY <1>1, <3>1
    <3> QED
      BY <1>1, <3>2
  <2>2. d \in [1 .. m -> Nat] /\ m \in Nat
    BY <1>5, <1>12, <2>1
  <2> QED
    BY <2>2, IsASeq
<1>15. \A i \in 1 .. m : g[i] = g[i - 1] + d[i] * More ^ (i - 1)
  BY <1>7, <1>8, <1>12
<1>16. lowestFirst(d, More) = u
  <2>1. Len(d) \in Nat
    BY <1>5, <1>14
  <2>2. lowestFirst(d, More) = g[Len(d)]
    BY <1>7, <1>14, <1>15, <2>1, SumIs
  <2> QED
    BY <1>7, <1>14, <2>2, Zenon
<1>17. u % 2 ^ Width = u
  <2>1. \A x, y \in Nat : x < y => x % y = x
    OBVIOUS
  <2>2. u \in Nat /\ u < 2 ^ Width
    BY <1>5
  <2> QED
    BY <1>5, <2>1, <2>2, Zenon
<1> QED
  BY <1>2, <1>4, <1>13, <1>16, <1>17, Zenon

-----------------------------------------------------------------------------
\* The types that Serializer has an encoding for.
Encoded == DOMAIN bytesOf \cup {"u32", "i32", "string", "stringF"}

\* What arrives of a value.
Arrived(t, v) == IF t \in Encoded THEN v ELSE Unset

\* The types of fixed size, and that they have one or two bytes.
LEMMA TypeNames ==
    /\ DOMAIN bytesOf = {"bool", "u8", "i8", "u16", "i16", "float"}
    /\ \A t \in DOMAIN bytesOf : bytesOf[t] \in {1, 2}
  BY DEF bytesOf

\* n bytes at the front of s.
LEMMA FrontIs ==
    ASSUME NEW w \in Seq(Byte), NEW s \in Seq(Cells), NEW p \in Nat, In(w, s, p)
    PROVE  SubSeq(s, p + 1, p + Len(w)) = w
<1>1. PICK n \in Nat : n = Len(w)
  OBVIOUS
<1>2. p + n <= Len(s) /\ \A i \in 1 .. n : s[p + i] = w[i]
  BY <1>1, Zenon DEF In
<1>3. PICK x : x = SubSeq(s, p + 1, p + n)
  OBVIOUS
<1>4. x \in Seq(Cells) /\ Len(x) = n /\ \A i \in 1 .. n : x[i] = s[p + i]
  BY <1>2, <1>3
<1>5. w \in Seq(Cells)
  BY DEF Cells
<1>6. x = w
  BY <1>1, <1>2, <1>4, <1>5, SeqEqual
<1> QED
  BY <1>1, <1>3, <1>6, Zenon

\* What is written one after the other stands one after the other.
LEMMA InConcat ==
    ASSUME NEW a \in Seq(Byte), NEW b \in Seq(Byte), NEW s \in Seq(Cells), NEW p \in Nat, In(a \o b, s, p)
    PROVE  In(a, s, p) /\ In(b, s, p + Len(a)) /\ a \o b \in Seq(Byte) /\ Len(a \o b) = Len(a) + Len(b)
<1>1. PICK m \in Nat, n \in Nat : m = Len(a) /\ n = Len(b)
  OBVIOUS
<1>2. PICK w : w = a \o b
  OBVIOUS
<1>3. /\ w \in Seq(Byte) /\ Len(w) = m + n
      /\ \A i \in 1 .. m + n : w[i] = IF i <= m THEN a[i] ELSE b[i - m]
  <2>1. /\ a \o b \in Seq(Byte) /\ Len(a \o b) = Len(a) + Len(b)
        /\ \A i \in 1 .. Len(a) + Len(b) : (a \o b)[i] = IF i <= Len(a) THEN a[i] ELSE b[i - Len(a)]
    BY ConcatProperties
  <2> QED
    BY <1>1, <1>2, <2>1, Zenon
<1>4. p + (m + n) <= Len(s) /\ \A i \in 1 .. m + n : s[p + i] = w[i]
  BY <1>2, <1>3, Zenon DEF In
<1>5. p + m <= Len(s) /\ \A i \in 1 .. m : s[p + i] = a[i]
  BY <1>3, <1>4
<1>6. (p + m) + n <= Len(s) /\ \A i \in 1 .. n : s[(p + m) + i] = b[i]
  <2>1. ASSUME NEW i \in 1 .. n PROVE s[(p + m) + i] = b[i]
    <3>1. PICK j \in 1 .. m + n : j = m + i /\ p + j = (p + m) + i /\ ~(j <= m) /\ j - m = i
      OBVIOUS
    <3> QED
      BY <1>3, <1>4, <3>1, Zenon
  <2> QED
    BY <1>4, <2>1
<1> QED
  BY <1>1, <1>2, <1>3, <1>5, <1>6, Zenon DEF In

\* The fixed encodings.
LEMMA ReadFixed ==
    ASSUME NEW t \in DOMAIN bytesOf, NEW v, Fits(t, v)
    PROVE  /\ write(t, v) \in Seq(Byte)
           /\ \A s \in Seq(Cells) : In(write(t, v), s, 0) =>
                 read(t, s) = [val |-> v, len |-> Len(write(t, v))]
<1>1. PICK n \in {1, 2} : n = bytesOf[t]
  BY TypeNames
<1>0. t # "u32" /\ t # "i32" /\ t # "string" /\ t # "stringF"
  BY TypeNames
<1>2. write(t, v) = fixed(n, v)
  BY <1>0, <1>1 DEF write
<1>3. PICK w \in 1 .. PowerMax : w = n * ByteBits
  <2>1. n * ByteBits \in 1 .. PowerMax
    BY CodecAssumption DEF PowerMax
  <2> QED
    BY <2>1
<1>4. PICK H \in Nat : H = 2 ^ (w - 1) /\ H > 0 /\ 2 ^ w = 2 * H
  BY HalfRange
<1>5. v \in Int /\ (IF t \in {"i8", "i16"} THEN v \in -H .. H - 1 ELSE v \in 0 .. 2 * H - 1)
  <2>1. CASE t \in {"i8", "i16"}
    <3>1. v \in -(2 ^ (bytesOf[t] * ByteBits - 1)) .. 2 ^ (bytesOf[t] * ByteBits - 1) - 1
      BY <2>1, Zenon DEF Fits
    <3>2. v \in -H .. H - 1
      BY <1>1, <1>3, <1>4, <3>1, Zenon
    <3> QED
      BY <2>1, <3>2
  <2>2. CASE t \notin {"i8", "i16"}
    <3>1. t \in DOMAIN bytesOf \ {"i8", "i16"}
      BY <2>2
    <3>2. v \in 0 .. 2 ^ (bytesOf[t] * ByteBits) - 1
      BY <1>0, <2>2, <3>1 DEF Fits
    <3>3. v \in 0 .. 2 * H - 1
      BY <1>1, <1>3, <1>4, <3>2, Zenon
    <3> QED
      BY <2>2, <3>3
  <2> QED
    BY <2>1, <2>2
<1>6. /\ fixed(n, v) \in Seq(Byte) /\ Len(fixed(n, v)) = n
      /\ lowestFirst(fixed(n, v), 2 ^ ByteBits) = v % 2 ^ w
  BY <1>3, <1>5, FixedIs, Zenon
<1>7. ASSUME NEW s \in Seq(Cells), In(fixed(n, v), s, 0)
      PROVE  read(t, s) = [val |-> v, len |-> n]
  <2>1. SubSeq(s, 1, n) = fixed(n, v)
    <3>1. PICK x \in Seq(Byte) : x = fixed(n, v) /\ Len(x) = n
      BY <1>6
    <3>2. SubSeq(s, 0 + 1, 0 + Len(x)) = x
      BY <1>7, <3>1, FrontIs, Zenon
    <3>3. 0 + 1 = 1 /\ 0 + n = n
      OBVIOUS
    <3> QED
      BY <3>1, <3>2, <3>3, Zenon
  <2>2. lowestFirst(SubSeq(s, 1, n), 2 ^ ByteBits) = v % 2 ^ w
    BY <1>6, <2>1, Zenon
  <2>3. CASE t \in {"i8", "i16"}
    <3>1. read(t, s) = [val |-> asSigned(w, v % 2 ^ w), len |-> n]
      BY <1>1, <1>3, <2>2, <2>3, Zenon DEF read
    <3>2. v \in -(2 ^ (w - 1)) .. 2 ^ (w - 1) - 1
      BY <1>4, <1>5, <2>3, Zenon
    <3>3. asSigned(w, v % 2 ^ w) = v
      BY <3>2, SignedRoundTrip
    <3> QED
      BY <3>1, <3>3, Zenon
  <2>4. CASE t \notin {"i8", "i16"}
    <3>1. t \in DOMAIN bytesOf \ {"i8", "i16"}
      BY <2>4
    <3>2. read(t, s) = [val |-> v % 2 ^ w, len |-> n]
      BY <1>0, <1>1, <2>2, <2>4, <3>1 DEF read
    <3>3. v \in Nat /\ v < 2 * H
      BY <1>5, <2>4
    <3>4. v % (2 * H) = v
      BY <1>4, <3>3
    <3> QED
      BY <1>4, <3>2, <3>4, Zenon
  <2> QED
    BY <2>3, <2>4
<1> QED
  BY <1>2, <1>6, <1>7, Zenon

\* The other types are none of them.
LEMMA TypesApart ==
    \A t \in {"u32", "i32", "string", "stringF"} : t \notin DOMAIN bytesOf /\ t \notin {"i8", "i16"}
  BY TypeNames

\* A varint is a string of bytes.
LEMMA WriteUintBytes ==
    ASSUME NEW u \in 0 .. 2 ^ Width - 1
    PROVE  writeUint(u) \in Seq(Byte) /\ Len(writeUint(u)) \in Nat
  BY WriteUintVarint DEF Varint

\* The integers that are written as varints, the signed ones through the zigzag.
LEMMA ReadVarint ==
    ASSUME NEW t \in {"u32", "i32"}, NEW v, Fits(t, v)
    PROVE  /\ write(t, v) \in Seq(Byte)
           /\ \A s \in Seq(Cells) : In(write(t, v), s, 0) =>
                 read(t, s) = [val |-> v, len |-> Len(write(t, v))]
<1>0. t \notin DOMAIN bytesOf /\ t \notin {"i8", "i16"} /\ t # "string" /\ t # "stringF"
  BY TypesApart
<1>1. CASE t = "u32"
  <2>1. v \in 0 .. 2 ^ Width - 1
    BY <1>0, <1>1 DEF Fits
  <2>2. write(t, v) = writeUint(v)
    BY <1>0, <1>1 DEF write
  <2>3. \A s : read(t, s) = readUint(s)
    BY <1>0, <1>1 DEF read
  <2> QED
    BY <2>1, <2>2, <2>3, WriteUintBytes, ReadUintIs, Zenon
<1>2. CASE t = "i32"
  <2>1. v \in -(2 ^ (Width - 1)) .. 2 ^ (Width - 1) - 1
    BY <1>0, <1>2 DEF Fits
  <2>2. write(t, v) = writeUint(EncodeZigzag(v))
    BY <1>0, <1>2 DEF write
  <2>3. \A s : read(t, s) = [val |-> DecodeZigzag(readUint(s).val), len |-> readUint(s).len]
    BY <1>0, <1>2 DEF read
  <2>4. PICK u \in 0 .. 2 ^ Width - 1 : u = EncodeZigzag(v) /\ DecodeZigzag(u) = v
    BY <2>1, ZigzagRoundTrip, Zenon
  <2>5. ASSUME NEW s \in Seq(Cells), In(writeUint(u), s, 0)
        PROVE  read(t, s) = [val |-> v, len |-> Len(writeUint(u))]
    <3>1. readUint(s) = [val |-> u, len |-> Len(writeUint(u))]
      BY <2>5, ReadUintIs, Zenon
    <3>2. readUint(s).val = u /\ readUint(s).len = Len(writeUint(u))
      BY <3>1
    <3> QED
      BY <2>3, <2>4, <3>2, Zenon
  <2> QED
    BY <2>2, <2>4, <2>5, WriteUintBytes, Zenon
<1> QED
  BY <1>1, <1>2

\* A text after its length l.
LEMMA TextIs ==
    ASSUME NEW l \in Seq(Byte), NEW v \in Seq(Byte)
    PROVE  /\ writeText(l, v) \in Seq(Byte)
           /\ \A s \in Seq(Cells) : In(writeText(l, v), s, 0) =>
                 /\ In(l, s, 0)
                 /\ readText(Len(l), Len(v), s) = [val |-> v, len |-> Len(writeText(l, v))]
<1>1. writeText(l, v) = l \o v
  BY DEF writeText
<1>2. l \o v \in Seq(Byte)
  BY ConcatProperties
<1>3. ASSUME NEW s \in Seq(Cells), In(l \o v, s, 0)
      PROVE  In(l, s, 0) /\ readText(Len(l), Len(v), s) = [val |-> v, len |-> Len(l \o v)]
  <2>1. 0 \in Nat /\ Len(l) \in Nat /\ 0 + Len(l) = Len(l)
    OBVIOUS
  <2>2. In(l, s, 0) /\ In(v, s, 0 + Len(l)) /\ Len(l \o v) = Len(l) + Len(v)
    BY <1>3, <2>1, InConcat, Zenon
  <2>3. In(v, s, Len(l))
    BY <2>1, <2>2, Zenon
  <2>4. SubSeq(s, Len(l) + 1, Len(l) + Len(v)) = v
    BY <2>1, <2>3, FrontIs, Zenon
  <2> QED
    BY <2>2, <2>4, Zenon DEF readText
<1> QED
  BY <1>1, <1>2, <1>3, Zenon

\* The texts, with their length as a varint and of fixed size.
LEMMA ReadString ==
    ASSUME NEW t \in {"string", "stringF"}, NEW v, Fits(t, v)
    PROVE  /\ write(t, v) \in Seq(Byte)
           /\ \A s \in Seq(Cells) : In(write(t, v), s, 0) =>
                 read(t, s) = [val |-> v, len |-> Len(write(t, v))]
<1>0. t \notin DOMAIN bytesOf /\ t \notin {"i8", "i16"} /\ t # "u32" /\ t # "i32"
  BY TypesApart
<1>1. CASE t = "string"
  <2>1. v \in Seq(Byte) /\ Len(v) < 2 ^ Width
    BY <1>0, <1>1 DEF Fits
  <2>2. PICK u \in 0 .. 2 ^ Width - 1 : u = Len(v)
    <3>1. Len(v) \in Nat /\ 2 ^ Width \in Nat
      BY <2>1, GroupsSuffice
    <3> QED
      BY <2>1, <3>1
  <2>3. PICK l \in Seq(Byte) : l = writeUint(u)
    BY WriteUintBytes
  <2>4. write(t, v) = writeText(l, v)
    BY <1>0, <1>1, <2>2, <2>3 DEF write
  <2>5. \A s : read(t, s) = readText(readUint(s).len, readUint(s).val, s)
    BY <1>0, <1>1 DEF read
  <2>6. ASSUME NEW s \in Seq(Cells), In(writeText(l, v), s, 0)
        PROVE  read(t, s) = [val |-> v, len |-> Len(writeText(l, v))]
    <3>1. In(l, s, 0) /\ readText(Len(l), Len(v), s) = [val |-> v, len |-> Len(writeText(l, v))]
      BY <2>1, <2>6, TextIs, Zenon
    <3>2. readUint(s) = [val |-> u, len |-> Len(l)]
      BY <2>3, <3>1, ReadUintIs, Zenon
    <3>3. readUint(s).val = u /\ readUint(s).len = Len(l)
      BY <3>2
    <3> QED
      BY <2>2, <2>5, <3>1, <3>3, Zenon
  <2> QED
    BY <2>1, <2>4, <2>6, TextIs, Zenon
<1>2. CASE t = "stringF"
  <2>1. v \in Seq(Byte) /\ Len(v) < 2 ^ ByteBits
    BY <1>0, <1>2 DEF Fits
  <2>2. PICK B \in Nat : B = 2 ^ ByteBits /\ B > 1 /\ Byte = 0 .. B - 1
    BY ByteFacts
  <2>3. PICK u \in Nat : u = Len(v) /\ u < B
    BY <2>1, <2>2
  <2>4. fixed(1, u) \in Seq(Byte) /\ Len(fixed(1, u)) = 1
    <3>1. 1 \in {1, 2} /\ u \in Int
      OBVIOUS
    <3> QED
      BY <3>1, FixedIs, Zenon
  <2>5. fixed(1, u)[1] = u
    <3>1. 1 * ByteBits = ByteBits /\ (1 - 1) * ByteBits = 0 /\ 1 \in 1 .. 1
      BY CodecAssumption
    <3>2. 2 ^ 0 = 1
      BY PowersOfTwo
    <3>3. u % B = u /\ u \div 1 = u
      BY <2>2, <2>3
    <3>4. fixed(1, u)[1] = ((u % 2 ^ (1 * ByteBits)) \div 2 ^ ((1 - 1) * ByteBits)) % 2 ^ ByteBits
      BY <3>1, Zenon DEF fixed
    <3> QED
      BY <2>2, <3>1, <3>2, <3>3, <3>4, Zenon
  <2>6. PICK l \in Seq(Byte) : l = fixed(1, u) /\ Len(l) = 1 /\ l[1] = u
    BY <2>4, <2>5
  <2>7. write(t, v) = writeText(l, v)
    BY <1>0, <1>2, <2>3, <2>6 DEF write
  <2>8. \A s : read(t, s) = readText(1, s[1], s)
    BY <1>0, <1>2 DEF read
  <2>9. ASSUME NEW s \in Seq(Cells), In(writeText(l, v), s, 0)
        PROVE  read(t, s) = [val |-> v, len |-> Len(writeText(l, v))]
    <3>1. In(l, s, 0) /\ readText(Len(l), Len(v), s) = [val |-> v, len |-> Len(writeText(l, v))]
      BY <2>1, <2>9, TextIs, Zenon
    <3>2. s[1] = u
      <4>1. 0 + 1 = 1 /\ 1 \in 1 .. 1
        OBVIOUS
      <4>2. s[0 + 1] = l[1]
        BY <2>6, <3>1, <4>1, Zenon DEF In
      <4> QED
        BY <2>6, <4>1, <4>2, Zenon
    <3> QED
      BY <2>3, <2>6, <2>8, <3>1, <3>2, Zenon
  <2> QED
    BY <2>1, <2>7, <2>9, TextIs, Zenon
<1> QED
  BY <1>1, <1>2

\* Serializer::read takes back what Serializer::write put there; for a type without an
\* encoding neither does anything.
LEMMA ReadIs ==
    ASSUME NEW t, NEW v, Fits(t, v)
    PROVE  /\ write(t, v) \in Seq(Byte) /\ (write(t, v) # <<>> => Arrived(t, v) = v)
           /\ \A s \in Seq(Cells) : In(write(t, v), s, 0) =>
                 read(t, s) = [val |-> Arrived(t, v), len |-> Len(write(t, v))]
<1>1. CASE t \in Encoded
  <2>1. Arrived(t, v) = v
    BY <1>1 DEF Arrived
  <2>2. t \in DOMAIN bytesOf \/ t \in {"u32", "i32"} \/ t \in {"string", "stringF"}
    BY <1>1 DEF Encoded
  <2>3. /\ write(t, v) \in Seq(Byte)
        /\ \A s \in Seq(Cells) : In(write(t, v), s, 0) =>
              read(t, s) = [val |-> v, len |-> Len(write(t, v))]
    <3>1. CASE t \in DOMAIN bytesOf
      BY <3>1, ReadFixed, Zenon
    <3>2. CASE t \in {"u32", "i32"}
      BY <3>2, ReadVarint, Zenon
    <3>3. CASE t \in {"string", "stringF"}
      BY <3>3, ReadString, Zenon
    <3> QED
      BY <2>2, <3>1, <3>2, <3>3, Zenon
  <2> QED
    BY <2>1, <2>3, Zenon
<1>2. CASE t \notin Encoded
  <2>1. Arrived(t, v) = Unset
    BY <1>2 DEF Arrived
  <2>2. t \notin DOMAIN bytesOf /\ t # "u32" /\ t # "i32" /\ t # "string" /\ t # "stringF"
        /\ t \notin {"i8", "i16"}
    BY <1>2, TypeNames DEF Encoded
  <2>3. write(t, v) = <<>>
    BY <2>2 DEF write
  <2>4. \A s : read(t, s) = [val |-> Unset, len |-> 0]
    BY <2>2 DEF read
  <2>5. <<>> \in Seq(Byte) /\ Len(<<>>) = 0
    OBVIOUS
  <2> QED
    BY <2>1, <2>3, <2>4, <2>5, Zenon
<1> QED
  BY <1>1, <1>2

-----------------------------------------------------------------------------
\* The strings q stand in s one after the other from p on: the i-th one ends at at[i].
Laid(q, s, p, at) ==
    /\ at \in [0 .. Len(q) -> Nat] /\ at[0] = p
    /\ \A i \in 1 .. Len(q) : at[i] = at[i - 1] + Len(q[i]) /\ In(q[i], s, at[i - 1])

\* FlattenSeq lays its strings one after the other.
LEMMA FlattenUnfolds ==
    ASSUME NEW q, NEW n \in Nat, n = Len(q), n > 0
    PROVE  \E f : /\ f[1] = q[1] /\ FlattenSeq(q) = f[n]
                  /\ \A i \in 2 .. n : f[i] = f[i - 1] \o q[i]
<1> DEFINE step(f) == [i \in 1 .. n |-> IF i = 1 THEN q[i] ELSE f[i - 1] \o q[i]]
           flatten == CHOOSE f : f = step(f)
<1>1. \E f : f = step(f)
  <2>1. PICK S : S = {k \in Nat : \E f : \A i \in 1 .. k : f[i] = IF i = 1 THEN q[i] ELSE f[i - 1] \o q[i]}
    OBVIOUS
  <2>2. 0 \in S
    <3>1. \A f : \A i \in 1 .. 0 : f[i] = IF i = 1 THEN q[i] ELSE f[i - 1] \o q[i]
      OBVIOUS
    <3> QED
      BY <2>1, <3>1
  <2>3. ASSUME NEW k \in Nat, k \in S PROVE k + 1 \in S
    <3>1. PICK f : \A i \in 1 .. k : f[i] = IF i = 1 THEN q[i] ELSE f[i - 1] \o q[i]
      BY <2>1, <2>3
    <3>2. PICK x : x = IF k + 1 = 1 THEN q[k + 1] ELSE f[k] \o q[k + 1]
      OBVIOUS
    <3>3. PICK h : h = [i \in 1 .. k + 1 |-> IF i = k + 1 THEN x ELSE f[i]]
      OBVIOUS
    <3>4. ASSUME NEW i \in 1 .. k + 1 PROVE h[i] = IF i = 1 THEN q[i] ELSE h[i - 1] \o q[i]
      <4>0. i # 1 => i - 1 \in 1 .. k + 1 /\ i - 1 # k + 1
        OBVIOUS
      <4>1. i # 1 => h[i - 1] = f[i - 1]
        BY <3>3, <4>0, Zenon
      <4>2. CASE i = k + 1
        <5>1. h[i] = x /\ i - 1 = k
          BY <3>3, <4>2
        <5> QED
          BY <3>2, <4>1, <4>2, <5>1, Zenon
      <4>3. CASE i # k + 1
        <5>1. i \in 1 .. k
          BY <4>3
        <5>2. h[i] = f[i]
          BY <3>3, <4>3, Zenon
        <5> QED
          BY <3>1, <4>1, <5>1, <5>2, Zenon
      <4> QED
        BY <4>2, <4>3
    <3> QED
      BY <2>1, <3>4
  <2>4. n \in S
    BY <2>2, <2>3, SetInduction
  <2>5. PICK f : \A i \in 1 .. n : f[i] = IF i = 1 THEN q[i] ELSE f[i - 1] \o q[i]
    BY <2>1, <2>4
  <2>6. PICK h : h = [i \in 1 .. n |-> f[i]]
    OBVIOUS
  <2>7. ASSUME NEW i \in 1 .. n PROVE h[i] = IF i = 1 THEN q[i] ELSE h[i - 1] \o q[i]
    <3>1. i # 1 => i - 1 \in 1 .. n
      OBVIOUS
    <3>2. h[i] = f[i] /\ (i # 1 => h[i - 1] = f[i - 1])
      BY <2>6, <3>1, Zenon
    <3> QED
      BY <2>5, <3>2, Zenon
  <2>8. h = step(h)
    BY <2>6, <2>7
  <2> QED
    BY <2>8
<1>2. flatten = step(flatten)
  BY <1>1
<1>3. FlattenSeq(q) = flatten[n]
  <2>1. Len(q) # 0
    OBVIOUS
  <2> QED
    BY <2>1, Zenon DEF FlattenSeq
<1> HIDE DEF flatten
<1>4. \A i \in 1 .. n : flatten[i] = IF i = 1 THEN q[i] ELSE flatten[i - 1] \o q[i]
  BY <1>2, Zenon
<1>5. 1 \in 1 .. n /\ \A i \in 2 .. n : i \in 1 .. n /\ i # 1
  OBVIOUS
<1>6. flatten[1] = q[1] /\ \A i \in 2 .. n : flatten[i] = flatten[i - 1] \o q[i]
  BY <1>4, <1>5, Zenon
<1> QED
  BY <1>3, <1>6

\* Where the strings of FlattenSeq(q) are found again.
LEMMA FlattenLaid ==
    ASSUME NEW q \in Seq(Seq(Byte))
    PROVE  /\ FlattenSeq(q) \in Seq(Byte)
           /\ \A s \in Seq(Cells), p \in Nat : In(FlattenSeq(q), s, p) =>
                 \E at : Laid(q, s, p, at) /\ at[Len(q)] = p + Len(FlattenSeq(q))
<1>1. PICK n \in Nat : n = Len(q)
  OBVIOUS
<1>2. CASE n = 0
  <2>1. FlattenSeq(q) = q /\ q = <<>>
    BY <1>1, <1>2, EmptySeq DEF FlattenSeq
  <2>2. FlattenSeq(q) \in Seq(Byte) /\ Len(FlattenSeq(q)) = 0
    BY <2>1
  <2>3. ASSUME NEW s \in Seq(Cells), NEW p \in Nat
        PROVE  \E at : Laid(q, s, p, at) /\ at[n] = p + 0
    <3>1. PICK at : at = [i \in 0 .. 0 |-> p]
      OBVIOUS
    <3>2. at \in [0 .. 0 -> Nat] /\ at[0] = p /\ p = p + 0
      BY <3>1
    <3>3. \A i \in 1 .. 0 : at[i] = at[i - 1] + Len(q[i]) /\ In(q[i], s, at[i - 1])
      OBVIOUS
    <3> QED
      BY <1>1, <1>2, <3>2, <3>3, Zenon DEF Laid
  <2> QED
    BY <1>1, <2>2, <2>3, Zenon
<1>3. CASE n > 0
  <2>1. PICK f : /\ f[1] = q[1] /\ FlattenSeq(q) = f[n]
                 /\ \A i \in 2 .. n : f[i] = f[i - 1] \o q[i]
    BY <1>1, <1>3, FlattenUnfolds
  <2>2. \A i \in 1 .. n : q[i] \in Seq(Byte)
    BY <1>1
  <2> DEFINE Holds(k, x) ==
               /\ x \in Seq(Byte)
               /\ \A s \in Seq(Cells), p \in Nat : In(x, s, p) =>
                     \E at \in [0 .. k -> Nat] :
                        /\ at[0] = p /\ at[k] = p + Len(x)
                        /\ \A i \in 1 .. k : at[i] = at[i - 1] + Len(q[i]) /\ In(q[i], s, at[i - 1])
  <2>3. PICK S : S = {k \in Nat : k \in 1 .. n => Holds(k, f[k])}
    OBVIOUS
  <2>4. 0 \in S
    BY <2>3
  <2>5. ASSUME NEW k \in Nat, k \in S, k + 1 \in 1 .. n PROVE Holds(k + 1, f[k + 1])
    <3>1. CASE k = 0
      <4>1. 1 \in 1 .. n /\ k + 1 = 1
        BY <2>5, <3>1
      <4>2. f[1] \in Seq(Byte)
        BY <2>1, <2>2, <4>1, Zenon
      <4>3. ASSUME NEW s \in Seq(Cells), NEW p \in Nat, In(f[1], s, p)
            PROVE  \E at \in [0 .. 1 -> Nat] :
                        /\ at[0] = p /\ at[1] = p + Len(f[1])
                        /\ \A i \in 1 .. 1 : at[i] = at[i - 1] + Len(q[i]) /\ In(q[i], s, at[i - 1])
        <5>1. PICK m \in Nat : m = Len(f[1])
          BY <4>2
        <5>2. PICK at : at = [i \in 0 .. 1 |-> IF i = 0 THEN p ELSE p + m]
          OBVIOUS
        <5>3. at \in [0 .. 1 -> Nat] /\ at[0] = p /\ at[1] = p + m
          BY <5>2
        <5>4. \A i \in 1 .. 1 : i = 1 /\ i - 1 = 0
          OBVIOUS
        <5>5. \A i \in 1 .. 1 : at[i] = at[i - 1] + Len(q[i]) /\ In(q[i], s, at[i - 1])
          BY <2>1, <4>3, <5>1, <5>3, <5>4, Zenon
        <5> QED
          BY <5>1, <5>3, <5>5, Zenon
      <4>4. Holds(1, f[1])
        BY <4>2, <4>3
      <4> HIDE DEF Holds
      <4> QED
        BY <4>1, <4>4, Zenon
    <3>2. CASE k # 0
      <4>1. k \in 1 .. n /\ k + 1 \in 2 .. n /\ (k + 1) - 1 = k
        BY <2>5, <3>2
      <4>2. Holds(k, f[k])
        BY <2>3, <2>5, <4>1, Zenon
      <4>3. PICK a \in Seq(Byte), b \in Seq(Byte) : a = f[k] /\ b = q[k + 1]
        BY <2>2, <2>5, <4>2, Zenon
      <4>4. f[k + 1] = a \o b
        BY <2>1, <4>1, <4>3, Zenon
      <4>5. a \o b \in Seq(Byte)
        BY ConcatProperties
      <4>6. ASSUME NEW s \in Seq(Cells), NEW p \in Nat, In(a \o b, s, p)
            PROVE  \E at \in [0 .. k + 1 -> Nat] :
                        /\ at[0] = p /\ at[k + 1] = p + Len(a \o b)
                        /\ \A i \in 1 .. k + 1 : at[i] = at[i - 1] + Len(q[i]) /\ In(q[i], s, at[i - 1])
        <5>1. In(a, s, p) /\ In(b, s, p + Len(a)) /\ Len(a \o b) = Len(a) + Len(b)
          BY <4>6, InConcat, Zenon
        <5>2. PICK g \in [0 .. k -> Nat] :
                 /\ g[0] = p /\ g[k] = p + Len(a)
                 /\ \A i \in 1 .. k : g[i] = g[i - 1] + Len(q[i]) /\ In(q[i], s, g[i - 1])
          BY <4>2, <4>3, <5>1, Zenon
        <5>3. PICK m \in Nat, l \in Nat : m = Len(a) /\ l = Len(b)
          OBVIOUS
        <5>4. PICK at : at = [i \in 0 .. k + 1 |-> IF i = k + 1 THEN p + (m + l) ELSE g[i]]
          OBVIOUS
        <5>5. at \in [0 .. k + 1 -> Nat] /\ at[k + 1] = p + (m + l) /\ \A i \in 0 .. k : at[i] = g[i]
          BY <5>4
        <5>6. ASSUME NEW i \in 1 .. k + 1
              PROVE  at[i] = at[i - 1] + Len(q[i]) /\ In(q[i], s, at[i - 1])
          <6>1. CASE i = k + 1
            <7>1. i - 1 = k /\ k \in 0 .. k /\ (p + m) + l = p + (m + l)
              BY <6>1
            <7>2. at[i - 1] = p + m
              BY <5>2, <5>3, <5>5, <7>1, Zenon
            <7> QED
              BY <4>3, <5>1, <5>3, <5>5, <6>1, <7>1, <7>2, Zenon
          <6>2. CASE i # k + 1
            <7>1. i \in 1 .. k /\ i \in 0 .. k /\ i - 1 \in 0 .. k
              BY <6>2
            <7> QED
              BY <5>2, <5>5, <7>1, Zenon
          <6> QED
            BY <6>1, <6>2
        <5>7. at[0] = p
          <6>1. 0 \in 0 .. k
            OBVIOUS
          <6> QED
            BY <5>2, <5>5, <6>1, Zenon
        <5> QED
          BY <5>1, <5>3, <5>5, <5>6, <5>7, Zenon
      <4>7. Holds(k + 1, a \o b)
        BY <4>5, <4>6
      <4> HIDE DEF Holds
      <4> QED
        BY <4>4, <4>7, Zenon
    <3> QED
      BY <3>1, <3>2
  <2>6. n \in S
    <3> HIDE DEF Holds
    <3>1. \A k \in Nat : k \in S => k + 1 \in S
      BY <2>3, <2>5
    <3> QED
      BY <2>4, <3>1, SetInduction
  <2>7. n \in 1 .. n
    BY <1>3
  <2>8. Holds(n, FlattenSeq(q))
    <3> HIDE DEF Holds
    <3> QED
      BY <2>1, <2>3, <2>6, <2>7, Zenon
  <2>9. ASSUME NEW s \in Seq(Cells), NEW p \in Nat, In(FlattenSeq(q), s, p)
        PROVE  \E at : Laid(q, s, p, at) /\ at[Len(q)] = p + Len(FlattenSeq(q))
    <3>1. PICK at \in [0 .. n -> Nat] :
             /\ at[0] = p /\ at[n] = p + Len(FlattenSeq(q))
             /\ \A i \in 1 .. n : at[i] = at[i - 1] + Len(q[i]) /\ In(q[i], s, at[i - 1])
      BY <2>8, <2>9, Zenon
    <3>2. Laid(q, s, p, at)
      BY <1>1, <3>1, Zenon DEF Laid
    <3> QED
      BY <1>1, <3>1, <3>2, Zenon
  <2> QED
    BY <2>8, <2>9
<1> QED
  BY <1>2, <1>3

\* The bytes from p on are a string of their own, as the reader of the next value sees them.
LEMMA InRest ==
    ASSUME NEW w \in Seq(Byte), NEW s \in Seq(Cells), NEW p \in Nat, In(w, s, p)
    PROVE  SubSeq(s, p + 1, Len(s)) \in Seq(Cells) /\ In(w, SubSeq(s, p + 1, Len(s)), 0)
<1>1. PICK n \in Nat, m \in Nat : n = Len(w) /\ m = Len(s)
  OBVIOUS
<1>2. p + n <= m /\ \A i \in 1 .. n : s[p + i] = w[i]
  BY <1>1, Zenon DEF In
<1>3. PICK x : x = SubSeq(s, p + 1, m)
  OBVIOUS
<1>4. x \in Seq(Cells) /\ Len(x) = m - p /\ \A i \in 1 .. m - p : x[i] = s[p + i]
  BY <1>1, <1>2, <1>3
<1>5. 0 + n <= m - p /\ \A i \in 1 .. n : x[0 + i] = w[i]
  <2>1. 0 + n <= m - p /\ \A i \in 1 .. n : i \in 1 .. m - p /\ 0 + i = i
    BY <1>2
  <2> QED
    BY <1>2, <1>4, <2>1, Zenon
<1>6. In(w, x, 0)
  BY <1>1, <1>4, <1>5, Zenon DEF In
<1> QED
  BY <1>1, <1>3, <1>4, <1>6, Zenon

\* One more element at the end of a sequence.
LEMMA AppendIs ==
    ASSUME NEW a, NEW k \in Nat
    PROVE  Append([j \in 1 .. k |-> a[j]], a[k + 1]) = [j \in 1 .. k + 1 |-> a[j]]
<1>1. PICK V : V = {a[j] : j \in 1 .. k + 1}
  OBVIOUS
<1>2. PICK x : x = [j \in 1 .. k |-> a[j]]
  OBVIOUS
<1>3. x \in Seq(V) /\ Len(x) = k
  <2>1. x \in [1 .. k -> V]
    BY <1>1, <1>2
  <2> QED
    BY <2>1, IsASeq
<1>4. PICK y : y = [j \in 1 .. k + 1 |-> a[j]]
  OBVIOUS
<1>5. y \in Seq(V) /\ Len(y) = k + 1
  <2>1. y \in [1 .. k + 1 -> V]
    BY <1>1, <1>4
  <2>2. k + 1 \in Nat
    OBVIOUS
  <2> QED
    BY <2>1, <2>2, IsASeq
<1>6. PICK e \in V : e = a[k + 1]
  BY <1>1
<1>7. PICK z : z = Append(x, e)
  OBVIOUS
<1>8. /\ z \in Seq(V) /\ Len(z) = k + 1
      /\ \A i \in 1 .. k + 1 : z[i] = IF i = k + 1 THEN e ELSE x[i]
  <2>1. /\ Append(x, e) \in Seq(V) /\ Len(Append(x, e)) = Len(x) + 1
        /\ \A i \in 1 .. Len(x) + 1 : Append(x, e)[i] = IF i = Len(x) + 1 THEN e ELSE x[i]
    BY <1>3, AppendProperties
  <2> QED
    BY <1>3, <1>7, <2>1, Zenon
<1>9. ASSUME NEW i \in 1 .. k + 1 PROVE z[i] = y[i]
  <2>1. CASE i = k + 1
    BY <1>4, <1>6, <1>8, <2>1, Zenon
  <2>2. CASE i # k + 1
    <3>1. i \in 1 .. k
      BY <2>2
    <3> QED
      BY <1>2, <1>4, <1>8, <2>2, <3>1, Zenon
  <2> QED
    BY <2>1, <2>2
<1>10. z = y
  BY <1>5, <1>8, <1>9, SeqEqual
<1> QED
  BY <1>2, <1>4, <1>6, <1>7, <1>10, Zenon

\* readRow is what the steps of its recursion come to.
RowStep(ts, s, i, p) ==
    LET f == read(ts[i], SubSeq(s, p.len + 1, Len(s))) IN
    [val |-> Append(p.val, f.val), len |-> p.len + f.len]

\* A sequence of results that follows RowStep ends in that of readRow.
LEMMA ReadRowSteps ==
    ASSUME NEW ts, NEW s, NEW n \in Nat, n = Len(ts), NEW g, g[0] = [val |-> <<>>, len |-> 0],
           \A i \in 1 .. n : g[i] = RowStep(ts, s, i, g[i - 1])
    PROVE  readRow(ts, s) = g[n]
<1> DEFINE step(f) == [i \in 0 .. n |-> IF i = 0 THEN [val |-> <<>>, len |-> 0]
                                        ELSE RowStep(ts, s, i, f[i - 1])]
           upTo == CHOOSE f : f = step(f)
<1>1. \E f : f = step(f)
  <2>1. PICK f : f = [i \in 0 .. n |-> g[i]]
    OBVIOUS
  <2>2. ASSUME NEW i \in 0 .. n
        PROVE  f[i] = IF i = 0 THEN [val |-> <<>>, len |-> 0] ELSE RowStep(ts, s, i, f[i - 1])
    <3>1. CASE i = 0
      BY <2>1, <3>1, Zenon
    <3>2. CASE i # 0
      <4>1. i \in 1 .. n /\ i - 1 \in 0 .. n
        BY <3>2
      <4>2. f[i] = g[i] /\ f[i - 1] = g[i - 1]
        BY <2>1, <4>1, Zenon
      <4> QED
        BY <3>2, <4>1, <4>2, Zenon
    <3> QED
      BY <3>1, <3>2
  <2>3. f = step(f)
    BY <2>1, <2>2
  <2> QED
    BY <2>3
<1>2. upTo = step(upTo)
  BY <1>1
<1>3. readRow(ts, s) = upTo[n]
  BY Zenon DEF readRow, RowStep
<1> HIDE DEF upTo
<1>4. \A i \in 0 .. n : upTo[i] = IF i = 0 THEN [val |-> <<>>, len |-> 0]
                                  ELSE RowStep(ts, s, i, upTo[i - 1])
  BY <1>2, Zenon
<1>5. PICK S : S = {k \in Nat : k <= n => upTo[k] = g[k]}
  OBVIOUS
<1>6. 0 \in S
  <2>1. 0 \in 0 .. n
    OBVIOUS
  <2>2. upTo[0] = g[0]
    BY <1>4, <2>1, Zenon
  <2> QED
    BY <1>5, <2>2
<1>7. ASSUME NEW k \in Nat, k \in S PROVE k + 1 \in S
  <2> SUFFICES ASSUME k + 1 <= n PROVE upTo[k + 1] = g[k + 1]
    BY <1>5
  <2>1. PICK i : i = k + 1 /\ i \in 1 .. n /\ i \in 0 .. n /\ i - 1 = k /\ i # 0 /\ k <= n
    OBVIOUS
  <2>2. upTo[k] = g[k]
    BY <1>5, <1>7, <2>1
  <2> QED
    BY <1>4, <2>1, <2>2, Zenon
<1>8. n \in S /\ n <= n
  BY <1>6, <1>7, SetInduction
<1> QED
  BY <1>3, <1>5, <1>8

\* What arrives of a row.
ArrivedRow(ts, row) == [j \in 1 .. Len(ts) |-> Arrived(ts[j], row[j])]

\* readRow takes back what writeRow put there.
LEMMA ReadRowIs ==
    ASSUME NEW ts \in Seq(STRING), NEW row, \A f \in DOMAIN ts : Fits(ts[f], row[f])
    PROVE  /\ writeRow(ts, row) \in Seq(Byte)
           /\ \A s \in Seq(Cells) : In(writeRow(ts, row), s, 0) =>
                 readRow(ts, s) = [val |-> ArrivedRow(ts, row), len |-> Len(writeRow(ts, row))]
<1>1. PICK n \in Nat : n = Len(ts) /\ DOMAIN ts = 1 .. n
  OBVIOUS
<1>2. ASSUME NEW i \in 1 .. n
      PROVE  /\ write(ts[i], row[i]) \in Seq(Byte)
             /\ \A s \in Seq(Cells) : In(write(ts[i], row[i]), s, 0) =>
                   read(ts[i], s) = [val |-> Arrived(ts[i], row[i]), len |-> Len(write(ts[i], row[i]))]
  <2>1. Fits(ts[i], row[i])
    BY <1>1, Zenon
  <2> QED
    BY <2>1, ReadIs, Zenon
<1>3. PICK q : q = [i \in 1 .. n |-> write(ts[i], row[i])]
  OBVIOUS
<1>4. q \in Seq(Seq(Byte)) /\ Len(q) = n
  <2>1. q \in [1 .. n -> Seq(Byte)]
    BY <1>2, <1>3, Zenon
  <2> QED
    BY <2>1, IsASeq
<1>5. writeRow(ts, row) = FlattenSeq(q)
  BY <1>1, <1>3, Zenon DEF writeRow
<1>6. FlattenSeq(q) \in Seq(Byte)
  BY <1>4, FlattenLaid
<1>7. ASSUME NEW s \in Seq(Cells), In(FlattenSeq(q), s, 0)
      PROVE  readRow(ts, s) = [val |-> ArrivedRow(ts, row), len |-> Len(FlattenSeq(q))]
  <2>1. 0 \in Nat
    OBVIOUS
  <2>2. PICK at : Laid(q, s, 0, at) /\ at[Len(q)] = 0 + Len(FlattenSeq(q))
    BY <1>4, <1>7, <2>1, FlattenLaid, Zenon
  <2>3. /\ at \in [0 .. n -> Nat] /\ at[0] = 0 /\ at[n] = 0 + Len(FlattenSeq(q))
        /\ \A i \in 1 .. n : at[i] = at[i - 1] + Len(q[i]) /\ In(q[i], s, at[i - 1])
    BY <1>4, <2>2, Zenon DEF Laid
  <2>4. PICK a : a = [j \in 1 .. n |-> Arrived(ts[j], row[j])]
    OBVIOUS
  <2>5. PICK g : g = [i \in 0 .. n |-> [val |-> [j \in 1 .. i |-> a[j]], len |-> at[i]]]
    OBVIOUS
  <2>6. g[0] = [val |-> <<>>, len |-> 0]
    <3>1. [j \in 1 .. 0 |-> a[j]] = <<>> /\ 0 \in 0 .. n
      OBVIOUS
    <3>2. g[0] = [val |-> [j \in 1 .. 0 |-> a[j]], len |-> at[0]]
      BY <2>5, <3>1, Zenon
    <3> QED
      BY <2>3, <3>1, <3>2, Zenon
  <2>7. ASSUME NEW i \in 1 .. n PROVE g[i] = RowStep(ts, s, i, g[i - 1])
    <3>1. PICK k \in 0 .. n : k = i - 1 /\ i = k + 1 /\ k \in Nat /\ i \in 0 .. n
      OBVIOUS
    <3>2. PICK w \in Seq(Byte) : w = write(ts[i], row[i]) /\ w = q[i]
      BY <1>2, <1>3, Zenon
    <3>3. at[i] = at[k] + Len(w) /\ In(w, s, at[k]) /\ at[k] \in Nat
      BY <2>3, <3>1, <3>2, Zenon
    <3>4. PICK x \in Seq(Cells) : x = SubSeq(s, at[k] + 1, Len(s)) /\ In(w, x, 0)
      BY <3>3, InRest, Zenon
    <3>5. read(ts[i], x) = [val |-> a[i], len |-> Len(w)]
      BY <1>2, <2>4, <3>2, <3>4, Zenon
    <3>6. PICK p : p = g[k] /\ p = [val |-> [j \in 1 .. k |-> a[j]], len |-> at[k]]
      BY <2>5, <3>1, Zenon
    <3>7. p.val = [j \in 1 .. k |-> a[j]] /\ p.len = at[k]
      BY <3>6
    <3>8. read(ts[i], x).val = a[i] /\ read(ts[i], x).len = Len(w)
      BY <3>5
    <3>9. RowStep(ts, s, i, p) = [val |-> Append([j \in 1 .. k |-> a[j]], a[i]), len |-> at[k] + Len(w)]
      BY <3>4, <3>7, <3>8, Zenon DEF RowStep
    <3>10. Append([j \in 1 .. k |-> a[j]], a[i]) = [j \in 1 .. i |-> a[j]]
      <4>1. Append([j \in 1 .. k |-> a[j]], a[k + 1]) = [j \in 1 .. k + 1 |-> a[j]]
        BY <3>1, AppendIs
      <4> QED
        BY <3>1, <4>1, Zenon
    <3>11. g[i] = [val |-> [j \in 1 .. i |-> a[j]], len |-> at[i]]
      BY <2>5, <3>1, Zenon
    <3> QED
      BY <3>1, <3>3, <3>6, <3>9, <3>10, <3>11, Zenon
  <2>8. readRow(ts, s) = g[n]
    <3>1. n = Len(ts) /\ \A i \in 1 .. n : g[i] = RowStep(ts, s, i, g[i - 1])
      BY <1>1, <2>7
    <3> QED
      BY <2>6, <3>1, ReadRowSteps
  <2>9. g[n] = [val |-> [j \in 1 .. n |-> a[j]], len |-> at[n]]
    <3>1. n \in 0 .. n
      OBVIOUS
    <3> QED
      BY <2>5, <3>1, Zenon
  <2>10. [j \in 1 .. n |-> a[j]] = ArrivedRow(ts, row)
    <3>1. a = [j \in 1 .. n |-> a[j]]
      BY <2>4
    <3> QED
      BY <1>1, <2>4, <3>1, Zenon DEF ArrivedRow
  <2>11. at[n] = Len(FlattenSeq(q))
    <3>1. Len(FlattenSeq(q)) \in Nat
      BY <1>6
    <3>2. \A x \in Nat : 0 + x = x
      OBVIOUS
    <3> QED
      BY <2>3, <3>1, <3>2, Zenon
  <2> QED
    BY <2>8, <2>9, <2>10, <2>11, Zenon
<1> QED
  BY <1>5, <1>6, <1>7, Zenon

-----------------------------------------------------------------------------
\* deserialize is what the steps of its recursion come to, after the size of a container.
HeadOf(container, s) == IF container THEN readUint(s) ELSE [val |-> 1, len |-> 0]

ItemStep(ts, s, p) ==
    LET r == readRow(ts, SubSeq(s, p.len + 1, Len(s))) IN
    [val |-> Append(p.val, r.val), len |-> p.len + r.len]

\* A sequence of results that follows ItemStep ends in that of deserialize.
LEMMA DeserializeSteps ==
    ASSUME NEW c, NEW ts, NEW s, NEW n \in Nat, n = HeadOf(c, s).val,
           NEW g, g[0] = [val |-> <<>>, len |-> HeadOf(c, s).len],
           \A i \in 1 .. n : g[i] = ItemStep(ts, s, g[i - 1])
    PROVE  deserialize(c, ts, s) = g[n]
<1>0. PICK z : z = [val |-> <<>>, len |-> HeadOf(c, s).len]
  OBVIOUS
<1> DEFINE step(f) == [i \in 0 .. n |-> IF i = 0 THEN z ELSE ItemStep(ts, s, f[i - 1])]
           upTo == CHOOSE f : f = step(f)
<1>1. \E f : f = step(f)
  <2>1. PICK f : f = [i \in 0 .. n |-> g[i]]
    OBVIOUS
  <2>2. ASSUME NEW i \in 0 .. n PROVE f[i] = IF i = 0 THEN z ELSE ItemStep(ts, s, f[i - 1])
    <3>1. CASE i = 0
      BY <1>0, <2>1, <3>1, Zenon
    <3>2. CASE i # 0
      <4>1. i \in 1 .. n /\ i - 1 \in 0 .. n
        BY <3>2
      <4>2. f[i] = g[i] /\ f[i - 1] = g[i - 1]
        BY <2>1, <4>1, Zenon
      <4> QED
        BY <3>2, <4>1, <4>2, Zenon
    <3> QED
      BY <3>1, <3>2
  <2>3. f = step(f)
    BY <2>1, <2>2
  <2> QED
    BY <2>3
<1>2. upTo = step(upTo)
  BY <1>1
<1>3. deserialize(c, ts, s) = upTo[n]
  <2>1. deserialize(c, ts, s) =
           (CHOOSE f : f = [i \in 0 .. HeadOf(c, s).val |->
               IF i = 0 THEN [val |-> <<>>, len |-> HeadOf(c, s).len]
               ELSE ItemStep(ts, s, f[i - 1])])[HeadOf(c, s).val]
    BY Zenon DEF deserialize, ItemStep, HeadOf
  <2> QED
    BY <1>0, <2>1, ZenonT(60)
<1> HIDE DEF upTo
<1>4. \A i \in 0 .. n : upTo[i] = IF i = 0 THEN z ELSE ItemStep(ts, s, upTo[i - 1])
  BY <1>2, Zenon
<1>5. PICK S : S = {k \in Nat : k <= n => upTo[k] = g[k]}
  OBVIOUS
<1>6. 0 \in S
  <2>1. 0 \in 0 .. n
    OBVIOUS
  <2>2. upTo[0] = g[0]
    BY <1>0, <1>4, <2>1, Zenon
  <2> QED
    BY <1>5, <2>2
<1>7. ASSUME NEW k \in Nat, k \in S PROVE k + 1 \in S
  <2> SUFFICES ASSUME k + 1 <= n PROVE upTo[k + 1] = g[k + 1]
    BY <1>5
  <2>1. PICK i : i = k + 1 /\ i \in 1 .. n /\ i \in 0 .. n /\ i - 1 = k /\ i # 0 /\ k <= n
    OBVIOUS
  <2>2. upTo[k] = g[k]
    BY <1>5, <1>7, <2>1
  <2> QED
    BY <1>4, <2>1, <2>2, Zenon
<1>8. n \in S /\ n <= n
  BY <1>6, <1>7, SetInduction
<1> QED
  BY <1>3, <1>5, <1>8

\* What arrives of an item.
ArrivedItem(item) == [r \in 1 .. Len(item.rows) |-> ArrivedRow(item.of, item.rows[r])]

\* s >> v takes back what s << v put there.
LEMMA DeserializeIs ==
    ASSUME NEW item \in Items
    PROVE  /\ serialize(item) \in Seq(Byte)
           /\ \A s \in Seq(Cells) : In(serialize(item), s, 0) =>
                 deserialize(item.container, item.of, s)
                    = [val |-> ArrivedItem(item), len |-> Len(serialize(item))]
<1>1. /\ item.container \in BOOLEAN /\ item.of \in Seq(STRING)
      /\ DOMAIN item.rows = 1 .. Len(item.rows)
      /\ Len(item.rows) \in IF item.container THEN 0 .. 2 ^ Width - 1 ELSE {1}
      /\ \A r \in DOMAIN item.rows : \A f \in DOMAIN item.of : Fits(item.of[f], item.rows[r][f])
  BY ItemsAssumption, Zenon
<1>2. PICK ts, c, rows :
         /\ ts \in Seq(STRING) /\ c \in BOOLEAN
         /\ ts = item.of /\ rows = item.rows /\ c = item.container
  BY <1>1, Zenon
<1>3. PICK n : n = Len(rows) /\ n \in Nat /\ (c => n \in 0 .. 2 ^ Width - 1) /\ (~c => n = 1)
               /\ DOMAIN rows = 1 .. n
  <2>1. PICK n : n = Len(rows)
    OBVIOUS
  <2>2. n \in (IF c THEN 0 .. 2 ^ Width - 1 ELSE {1}) /\ DOMAIN rows = 1 .. n
    BY <1>1, <1>2, <2>1, Zenon
  <2>3. 2 ^ Width \in Nat
    BY GroupsSuffice
  <2>4. CASE c
    BY <2>1, <2>2, <2>3, <2>4
  <2>5. CASE ~c
    BY <2>1, <2>2, <2>5
  <2> QED
    BY <2>4, <2>5
<1>4. ASSUME NEW r \in 1 .. n
      PROVE  /\ writeRow(ts, rows[r]) \in Seq(Byte)
             /\ \A s \in Seq(Cells) : In(writeRow(ts, rows[r]), s, 0) =>
                 readRow(ts, s) = [val |-> ArrivedRow(ts, rows[r]), len |-> Len(writeRow(ts, rows[r]))]
  <2>1. \A f \in DOMAIN ts : Fits(ts[f], rows[r][f])
    BY <1>1, <1>2, <1>3, Zenon
  <2> QED
    BY <1>2, <2>1, ReadRowIs, Zenon
<1>5. PICK q : q = [i \in 1 .. n |-> writeRow(ts, rows[i])]
  OBVIOUS
<1>6. q \in Seq(Seq(Byte)) /\ Len(q) = n
  <2>1. q \in [1 .. n -> Seq(Byte)]
    BY <1>4, <1>5, Zenon
  <2> QED
    BY <1>3, <2>1, IsASeq
<1>7. PICK h : h = IF c THEN writeUint(n) ELSE <<>>
  OBVIOUS
<1>8. h \in Seq(Byte)
  <2>1. CASE c
    BY <1>3, <1>7, <2>1, WriteUintBytes, Zenon
  <2>2. CASE ~c
    BY <1>7, <2>2
  <2> QED
    BY <2>1, <2>2
<1>9. PICK b \in Seq(Byte) : b = FlattenSeq(q)
  BY <1>6, FlattenLaid
<1>10. serialize(item) = h \o b
  BY <1>2, <1>3, <1>5, <1>7, <1>9, Zenon DEF serialize
<1>11. h \o b \in Seq(Byte)
  BY <1>8, ConcatProperties
<1>12. ASSUME NEW s \in Seq(Cells), In(h \o b, s, 0)
       PROVE  deserialize(c, ts, s) = [val |-> ArrivedItem(item), len |-> Len(h \o b)]
  <2>1. 0 \in Nat /\ Len(h) \in Nat /\ 0 + Len(h) = Len(h)
    BY <1>8
  <2>2. In(h, s, 0) /\ In(b, s, 0 + Len(h)) /\ Len(h \o b) = Len(h) + Len(b)
    BY <1>8, <1>12, <2>1, InConcat, Zenon
  <2>3. PICK p0 \in Nat : p0 = Len(h) /\ In(b, s, p0)
    BY <2>1, <2>2, Zenon
  <2>4. HeadOf(c, s).val = n /\ HeadOf(c, s).len = p0
    <3>1. CASE c
      <4>1. readUint(s) = [val |-> n, len |-> p0]
        BY <1>3, <1>7, <2>2, <2>3, <3>1, ReadUintIs, Zenon
      <4>2. HeadOf(c, s) = readUint(s)
        BY <3>1, Zenon DEF HeadOf
      <4> QED
        BY <4>1, <4>2
    <3>2. CASE ~c
      <4>1. HeadOf(c, s) = [val |-> 1, len |-> 0]
        BY <3>2, Zenon DEF HeadOf
      <4>2. Len(<<>>) = 0
        OBVIOUS
      <4>3. p0 = 0 /\ n = 1
        BY <1>3, <1>7, <2>3, <3>2, <4>2, Zenon
      <4> QED
        BY <4>1, <4>3
    <3> QED
      BY <3>1, <3>2
  <2>5. PICK at : Laid(q, s, p0, at) /\ at[Len(q)] = p0 + Len(b)
    BY <1>6, <1>9, <2>3, FlattenLaid, Zenon
  <2>6. /\ at \in [0 .. n -> Nat] /\ at[0] = p0 /\ at[n] = p0 + Len(b)
        /\ \A i \in 1 .. n : at[i] = at[i - 1] + Len(q[i]) /\ In(q[i], s, at[i - 1])
    BY <1>6, <2>5, Zenon DEF Laid
  <2>7. PICK a : a = [j \in 1 .. n |-> ArrivedRow(ts, rows[j])]
    OBVIOUS
  <2>8. PICK g : g = [i \in 0 .. n |-> [val |-> [j \in 1 .. i |-> a[j]], len |-> at[i]]]
    OBVIOUS
  <2>9. g[0] = [val |-> <<>>, len |-> HeadOf(c, s).len]
    <3>1. [j \in 1 .. 0 |-> a[j]] = <<>> /\ 0 \in 0 .. n
      BY <1>3
    <3>2. g[0] = [val |-> [j \in 1 .. 0 |-> a[j]], len |-> at[0]]
      BY <2>8, <3>1, Zenon
    <3> QED
      BY <2>4, <2>6, <3>1, <3>2, Zenon
  <2>10. ASSUME NEW i \in 1 .. n PROVE g[i] = ItemStep(ts, s, g[i - 1])
    <3>1. PICK k \in 0 .. n : k = i - 1 /\ i = k + 1 /\ k \in Nat /\ i \in 0 .. n
      BY <1>3
    <3>2. PICK w \in Seq(Byte) : w = writeRow(ts, rows[i]) /\ w = q[i]
      BY <1>4, <1>5, Zenon
    <3>3. at[i] = at[k] + Len(w) /\ In(w, s, at[k]) /\ at[k] \in Nat
      BY <2>6, <3>1, <3>2, Zenon
    <3>4. PICK x \in Seq(Cells) : x = SubSeq(s, at[k] + 1, Len(s)) /\ In(w, x, 0)
      BY <3>3, InRest, Zenon
    <3>5. readRow(ts, x) = [val |-> a[i], len |-> Len(w)]
      BY <1>4, <2>7, <3>2, <3>4, Zenon
    <3>6. PICK p : p = g[k] /\ p = [val |-> [j \in 1 .. k |-> a[j]], len |-> at[k]]
      BY <2>8, <3>1, Zenon
    <3>7. p.val = [j \in 1 .. k |-> a[j]] /\ p.len = at[k]
      BY <3>6
    <3>8. readRow(ts, x).val = a[i] /\ readRow(ts, x).len = Len(w)
      BY <3>5
    <3>9. ItemStep(ts, s, p) = [val |-> Append([j \in 1 .. k |-> a[j]], a[i]), len |-> at[k] + Len(w)]
      BY <3>4, <3>7, <3>8, Zenon DEF ItemStep
    <3>10. Append([j \in 1 .. k |-> a[j]], a[i]) = [j \in 1 .. i |-> a[j]]
      <4>1. Append([j \in 1 .. k |-> a[j]], a[k + 1]) = [j \in 1 .. k + 1 |-> a[j]]
        BY <3>1, AppendIs
      <4> QED
        BY <3>1, <4>1, Zenon
    <3>11. g[i] = [val |-> [j \in 1 .. i |-> a[j]], len |-> at[i]]
      BY <2>8, <3>1, Zenon
    <3> QED
      BY <3>1, <3>3, <3>6, <3>9, <3>10, <3>11, Zenon
  <2>11. deserialize(c, ts, s) = g[n]
    <3>1. n = HeadOf(c, s).val /\ n \in Nat /\ \A i \in 1 .. n : g[i] = ItemStep(ts, s, g[i - 1])
      BY <1>3, <2>4, <2>10
    <3> QED
      BY <2>9, <3>1, DeserializeSteps
  <2>12. g[n] = [val |-> [j \in 1 .. n |-> a[j]], len |-> at[n]]
    <3>1. n \in 0 .. n
      BY <1>3
    <3> QED
      BY <2>8, <3>1, Zenon
  <2>13. [j \in 1 .. n |-> a[j]] = ArrivedItem(item)
    <3>1. a = [j \in 1 .. n |-> a[j]]
      BY <2>7
    <3> QED
      BY <1>2, <1>3, <2>7, <3>1, Zenon DEF ArrivedItem
  <2> QED
    BY <2>2, <2>3, <2>6, <2>11, <2>12, <2>13, Zenon
<1> QED
  BY <1>2, <1>10, <1>11, <1>12, Zenon

-----------------------------------------------------------------------------
\* A cell, a block, and the byte at place g of the blocks m, counted from 0.
Block == [0 .. Base - 1 -> Cells]
At(m, g) == m[g \div Base + 1][g % Base]

\* Every place of the blocks is in one of them.
LEMMA PlaceInBlock ==
    ASSUME NEW m \in Seq(Block), NEW g \in Nat, g < Base * Len(m)
    PROVE  g \div Base + 1 \in 1 .. Len(m) /\ g % Base \in 0 .. Base - 1 /\ At(m, g) \in Cells
<1>1. Base \in Nat /\ Base > 0 /\ Len(m) \in Nat
  BY ByteArrayAssumption
<1>2. g \div Base + 1 \in 1 .. Len(m)
  BY <1>1, DivLess
<1>3. g % Base \in 0 .. Base - 1
  BY <1>1, DivMod
<1>4. m[g \div Base + 1] \in Block
  BY <1>2, ElementOfSeq
<1> QED
  BY <1>2, <1>3, <1>4 DEF At, Block

\* Blocks that are appended change nothing in those that were there.
LEMMA AtConcat ==
    ASSUME NEW m \in Seq(Block), NEW x \in Seq(Block), NEW g \in Nat, g < Base * Len(m)
    PROVE  At(m \o x, g) = At(m, g)
<1>1. g \div Base + 1 \in 1 .. Len(m)
  BY PlaceInBlock
<1>2. (m \o x)[g \div Base + 1] = m[g \div Base + 1]
  BY <1>1, ConcatProperties
<1> QED
  BY <1>2 DEF At

\* n fresh blocks.
LEMMA BlanksAre ==
    ASSUME NEW n \in Nat
    PROVE  blanks(n) \in Seq(Block) /\ Len(blanks(n)) = n
<1>1. blank \in Block
  BY DEF blank, Block, Cells
<1>2. blanks(n) \in [1 .. n -> Block]
  BY <1>1 DEF blanks
<1> QED
  BY <1>2, IsASeq

\* The loop of write(): the bytes w go to the places from p on, the others stay.
LEMMA StoredAt ==
    ASSUME NEW m \in Seq(Block), NEW c \in Nat \ {0}, NEW o \in 0 .. Base - 1, NEW w \in Seq(Cells),
           NEW p, p = (c - 1) * Base + o
    PROVE  /\ stored(m, c, o, w) \in Seq(Block) /\ Len(stored(m, c, o, w)) = Len(m)
           /\ \A g \in Nat : g < Base * Len(m) =>
                At(stored(m, c, o, w), g) = IF g - p + 1 \in 1 .. Len(w) THEN w[g - p + 1] ELSE At(m, g)
<1>1. Base \in Nat /\ Base > 0 /\ Len(m) \in Nat /\ DOMAIN w = 1 .. Len(w)
  BY ByteArrayAssumption
<1> DEFINE byte(k, j) == LET i == (k - c) * Base + j - o + 1 IN
                         IF i \in DOMAIN w THEN w[i] ELSE m[k][j]
           row(k) == [j \in 0 .. Base - 1 |-> byte(k, j)]
<1>2. stored(m, c, o, w) = [k \in 1 .. Len(m) |-> row(k)]
  BY DEF stored
<1>3. ASSUME NEW k \in 1 .. Len(m), NEW j \in 0 .. Base - 1 PROVE byte(k, j) \in Cells
  <2>1. m[k] \in Block
    BY ElementOfSeq
  <2>2. m[k][j] \in Cells
    BY <2>1 DEF Block
  <2>3. \A i \in DOMAIN w : w[i] \in Cells
    BY <1>1
  <2> QED
    BY <2>2, <2>3
<1>4. ASSUME NEW k \in 1 .. Len(m) PROVE row(k) \in Block
  BY <1>3 DEF Block
<1> HIDE DEF row
<1>5. stored(m, c, o, w) \in Seq(Block) /\ Len(stored(m, c, o, w)) = Len(m)
  <2>1. [k \in 1 .. Len(m) |-> row(k)] \in [1 .. Len(m) -> Block]
    BY <1>4
  <2> QED
    BY <1>1, <1>2, <2>1, IsASeq
<1>6. ASSUME NEW g \in Nat, g < Base * Len(m)
      PROVE  At(stored(m, c, o, w), g) = IF g - p + 1 \in 1 .. Len(w) THEN w[g - p + 1] ELSE At(m, g)
  <2>1. PICK k \in 1 .. Len(m) : k = g \div Base + 1
    BY <1>6, PlaceInBlock
  <2>2. PICK j \in 0 .. Base - 1 : j = g % Base
    BY <1>6, PlaceInBlock
  <2>3. g = (k - 1) * Base + j
    <3>1. g = (g \div Base) * Base + (g % Base) /\ g \div Base \in Nat
      BY <1>1, DivMod
    <3>2. g \div Base = k - 1
      BY <2>1, <3>1
    <3> QED
      BY <2>2, <3>1, <3>2
  <2>4. (k - c) * Base + j - o + 1 = g - p + 1
    BY <1>1, <2>3
  <2>5. At(stored(m, c, o, w), g) = row(k)[j]
    BY <1>2, <2>1, <2>2 DEF At
  <2>6. row(k)[j] = byte(k, j)
    BY DEF row
  <2>7. At(m, g) = m[k][j]
    BY <2>1, <2>2 DEF At
  <2> QED
    BY <1>1, <2>4, <2>5, <2>6, <2>7
<1> QED
  BY <1>5, <1>6

-----------------------------------------------------------------------------
\* What CurrInStep says as long as nothing was read beyond the end, with the first block,
\* which is always there, and the bytes of the last transfer.
InStep ==
    /\ mem \in Seq([0 .. Base - 1 -> Byte \cup {Junk}])
    /\ capacity = Base * Len(mem) /\ size <= capacity /\ position \in 0 .. size
    /\ curr = position \div Base + 1

ArrayInv == InStep /\ Len(mem) > 0 /\ size \in Nat /\ io \in Seq(Cells)

\* What it says in the words of these lemmas.
LEMMA ArrayFacts ==
    ASSUME ArrayInv
    PROVE  /\ mem \in Seq(Block) /\ Len(mem) \in Nat /\ capacity = Base * Len(mem) /\ capacity \in Nat
           /\ size <= capacity /\ size \in Nat /\ position \in Nat /\ position <= size
           /\ Base \in Nat /\ Base > 0
           /\ curr \in Nat \ {0} /\ curr = position \div Base + 1
           /\ offset \in 0 .. Base - 1 /\ position = (curr - 1) * Base + offset
<1>1. Base \in Nat /\ Base > 0
  BY ByteArrayAssumption
<1>2. mem \in Seq(Block) /\ Len(mem) \in Nat /\ capacity = Base * Len(mem)
  BY DEF ArrayInv, InStep, Block, Cells
<1>3. size <= capacity /\ size \in Nat /\ position \in Nat /\ position <= size
      /\ curr = position \div Base + 1
  BY DEF ArrayInv, InStep
<1>4. capacity \in Nat
  BY <1>1, <1>2
<1>5. /\ position \div Base \in Nat /\ position % Base \in 0 .. Base - 1
      /\ position = (position \div Base) * Base + (position % Base)
  BY <1>1, <1>3, DivMod
<1>6. curr \in Nat \ {0} /\ curr - 1 = position \div Base
  BY <1>3, <1>5
<1> QED
  BY <1>1, <1>2, <1>3, <1>4, <1>5, <1>6 DEF offset

\* As many blocks as n bytes need.
LEMMA BlocksFor ==
    ASSUME NEW n \in Nat
    PROVE  /\ blocksFor(n) \in Nat /\ n <= Base * blocksFor(n)
           /\ Base * blocksFor(n) < n + Base
<1>1. Base \in Nat /\ Base > 0 /\ n + Base - 1 \in Nat
  BY ByteArrayAssumption
<1>2. PICK q \in Nat, r \in 0 .. Base - 1 :
         q = (n + Base - 1) \div Base /\ n + Base - 1 = q * Base + r
  BY <1>1, DivMod
<1>3. n <= Base * q /\ Base * q < n + Base
  BY <1>1, <1>2
<1> QED
  BY <1>2, <1>3 DEF blocksFor

\* addCapacity(n): there is room for n bytes at the position, and curr_ is where it was,
\* also when it was nullptr.
LEMMA Growth ==
    ASSUME ArrayInv, NEW n \in Nat
    PROVE  /\ extra(n) \in Nat /\ currFor(n) = curr
           /\ position + n <= Base * (Len(mem) + extra(n))
<1>1. /\ Len(mem) \in Nat /\ capacity = Base * Len(mem) /\ position \in Nat /\ position <= capacity
      /\ Base \in Nat /\ Base > 0 /\ curr = position \div Base + 1 /\ capacity \in Nat
  BY ArrayFacts
<1>2. extra(n) \in Nat /\ position + n <= Base * (Len(mem) + extra(n))
  <2>1. CASE n <= capacity - position
    BY <1>1, <2>1 DEF extra
  <2>2. CASE ~(n <= capacity - position)
    <3>1. PICK x \in Nat : x = n - (capacity - position)
      BY <1>1, <2>2
    <3>2. blocksFor(x) \in Nat /\ x <= Base * blocksFor(x)
      BY BlocksFor
    <3>3. extra(n) = blocksFor(x)
      BY <2>2, <3>1 DEF extra
    <3>4. position + n = Base * Len(mem) + x
      BY <1>1, <3>1
    <3> QED
      BY <1>1, <3>2, <3>3, <3>4
  <2> QED
    BY <2>1, <2>2
<1>3. currFor(n) = curr
  <2>1. CASE capacity = position
    <3>1. position = Len(mem) * Base + 0
      BY <1>1, <2>1
    <3>2. position \div Base = Len(mem)
      <4>1. 0 \in 0 .. Base - 1
        BY <1>1
      <4> QED
        BY <1>1, <3>1, <4>1, DivUnique
    <3> QED
      BY <1>1, <2>1, <3>2 DEF currFor
  <2>2. CASE capacity # position
    BY <2>2 DEF currFor
  <2> QED
    BY <2>1, <2>2
<1> QED
  BY <1>2, <1>3

\* The first n bytes of the blocks m.
Flat(m, n) == [i \in 1 .. n |-> At(m, i - 1)]

\* It has n bytes, the ones at the places before n.
LEMMA FlatOf ==
    ASSUME NEW m \in Seq(Block), NEW n \in Nat, n <= Base * Len(m)
    PROVE  /\ Flat(m, n) \in Seq(Cells) /\ Len(Flat(m, n)) = n
           /\ \A i \in 1 .. n : Flat(m, n)[i] = At(m, i - 1)
<1>1. ASSUME NEW i \in 1 .. n PROVE At(m, i - 1) \in Cells
  <2>1. i - 1 \in Nat /\ i - 1 < Base * Len(m)
    BY ByteArrayAssumption
  <2> QED
    BY <2>1, PlaceInBlock
<1>2. Flat(m, n) \in [1 .. n -> Cells]
  BY <1>1 DEF Flat
<1> QED
  BY <1>2, IsASeq DEF Flat

\* The string of bytes that was written.
LEMMA FlatIs ==
    ASSUME ArrayInv
    PROVE  /\ flat \in Seq(Cells) /\ Len(flat) = size
           /\ \A i \in 1 .. size : flat[i] = At(mem, i - 1)
<1>1. mem \in Seq(Block) /\ size \in Nat /\ size <= Base * Len(mem)
  BY ArrayFacts
<1>2. flat = Flat(mem, size)
  BY DEF flat, Flat, At
<1> QED
  BY <1>1, <1>2, FlatOf

\* What write() and a receive have in common: room for n bytes, of which w are stored.
LEMMA StoreEffect ==
    ASSUME ArrayInv, NEW n \in Nat, NEW w \in Seq(Cells), Len(w) <= n,
           mem' = stored(mem \o blanks(extra(n)), currFor(n), offset, w),
           capacity' = capacity + extra(n) * Base,
           size' = larger(size, position + Len(w))
    PROVE  /\ mem' \in Seq(Block) /\ Len(mem') = Len(mem) + extra(n)
           /\ capacity' = Base * Len(mem') /\ size' \in Nat /\ size' <= capacity'
           /\ size <= size' /\ position + Len(w) <= size'
           /\ \A g \in Nat : g < size' =>
                At(mem', g) = IF g - position + 1 \in 1 .. Len(w) THEN w[g - position + 1] ELSE At(mem, g)
<1>1. /\ mem \in Seq(Block) /\ Len(mem) \in Nat /\ capacity = Base * Len(mem) /\ capacity \in Nat
      /\ size <= capacity /\ size \in Nat /\ position \in Nat /\ position <= size
      /\ Base \in Nat /\ Base > 0 /\ curr \in Nat \ {0} /\ offset \in 0 .. Base - 1
      /\ position = (curr - 1) * Base + offset
  BY ArrayFacts
<1>2. /\ extra(n) \in Nat /\ currFor(n) = curr
      /\ position + n <= Base * (Len(mem) + extra(n))
  BY Growth
<1>3. PICK e \in Nat : e = extra(n)
  BY <1>2
<1>4. PICK m : m = mem \o blanks(e)
  OBVIOUS
<1>5. blanks(e) \in Seq(Block) /\ Len(blanks(e)) = e
  BY BlanksAre
<1>6. m \in Seq(Block) /\ Len(m) = Len(mem) + e
  BY <1>1, <1>4, <1>5, ConcatProperties
<1>7. /\ mem' \in Seq(Block) /\ Len(mem') = Len(m)
      /\ \A g \in Nat : g < Base * Len(m) =>
            At(mem', g) = IF g - position + 1 \in 1 .. Len(w) THEN w[g - position + 1] ELSE At(m, g)
  <2>1. mem' = stored(m, curr, offset, w)
    BY <1>2, <1>3, <1>4
  <2>2. /\ stored(m, curr, offset, w) \in Seq(Block) /\ Len(stored(m, curr, offset, w)) = Len(m)
        /\ \A g \in Nat : g < Base * Len(m) =>
              At(stored(m, curr, offset, w), g) =
                IF g - position + 1 \in 1 .. Len(w) THEN w[g - position + 1] ELSE At(m, g)
    <3>1. /\ m \in Seq(Block) /\ curr \in Nat \ {0} /\ offset \in 0 .. Base - 1 /\ w \in Seq(Cells)
          /\ position = (curr - 1) * Base + offset
      BY <1>1, <1>6
    <3>2. PICK o \in 0 .. Base - 1 : o = offset
      BY <3>1
    <3>3. PICK c \in Nat \ {0} : c = curr
      BY <3>1
    <3>4. PICK p : p = position
      OBVIOUS
    <3>5. p = (c - 1) * Base + o
      BY <3>1, <3>2, <3>3, <3>4
    <3>6. /\ stored(m, c, o, w) \in Seq(Block) /\ Len(stored(m, c, o, w)) = Len(m)
          /\ \A g \in Nat : g < Base * Len(m) =>
              At(stored(m, c, o, w), g) =
                IF g - p + 1 \in 1 .. Len(w) THEN w[g - p + 1] ELSE At(m, g)
      BY <3>1, <3>5, StoredAt, SMTT(30)
    <3> QED
      BY <3>2, <3>3, <3>4, <3>6, Zenon
  <2> QED
    BY <2>1, <2>2, Zenon
<1>8. capacity' = Base * Len(mem') /\ Len(mem') = Len(mem) + extra(n)
  BY <1>1, <1>3, <1>6, <1>7
<1>9. /\ size' \in Nat /\ size <= size' /\ position + Len(w) <= size'
      /\ size' = size \/ size' = position + Len(w)
  <2>1. Len(w) \in Nat
    OBVIOUS
  <2> QED
    BY <1>1, <2>1 DEF larger
<1>10. size' <= capacity'
  <2>1. Len(w) \in Nat /\ position + Len(w) <= position + n
    BY <1>1
  <2>2. capacity' = Base * (Len(mem) + extra(n)) /\ capacity' \in Nat
    <3>1. PICK k \in Nat : k = Len(mem) + extra(n)
      BY <1>1, <1>2
    <3>2. Base * k \in Nat
      BY <1>1
    <3> QED
      BY <1>8, <3>1, <3>2, Zenon
  <2>3. size <= capacity'
    BY <1>1, <1>2
  <2>4. position + Len(w) <= capacity'
    BY <1>1, <1>2, <2>1, <2>2
  <2> QED
    BY <1>9, <2>3, <2>4
<1>11. ASSUME NEW g \in Nat, g < size'
       PROVE  At(mem', g) = IF g - position + 1 \in 1 .. Len(w) THEN w[g - position + 1] ELSE At(mem, g)
  <2>1. g < Base * Len(m)
    <3>1. capacity' = Base * Len(m) /\ capacity' \in Nat
      BY <1>1, <1>6, <1>7, <1>8
    <3> QED
      BY <1>9, <1>10, <1>11, <3>1
  <2>2. At(mem', g) = IF g - position + 1 \in 1 .. Len(w) THEN w[g - position + 1] ELSE At(m, g)
    BY <1>7, <2>1
  <2>3. CASE g - position + 1 \in 1 .. Len(w)
    BY <2>2, <2>3
  <2>4. CASE g - position + 1 \notin 1 .. Len(w)
    <3>1. g < size
      <4>1. Len(w) \in Nat
        OBVIOUS
      <4> QED
        BY <1>1, <1>9, <1>11, <2>4, <4>1
    <3>2. g < Base * Len(mem)
      BY <1>1, <3>1
    <3>3. At(m, g) = At(mem, g)
      BY <1>1, <1>4, <1>5, <3>2, AtConcat
    <3> QED
      BY <2>2, <2>4, <3>3
  <2> QED
    BY <2>3, <2>4
<1> QED
  BY <1>7, <1>8, <1>9, <1>10, <1>11

-----------------------------------------------------------------------------
\* curr_ after n bytes, as the loops of read and write count them.
LEMMA CurrForward ==
    ASSUME ArrayInv, NEW n \in Nat
    PROVE  /\ curr + (offset + n) \div Base = (position + n) \div Base + 1
           /\ (offset + n) % Base = (position + n) % Base
<1>1. /\ position \in Nat /\ Base \in Nat /\ Base > 0 /\ curr = position \div Base + 1
      /\ offset \in 0 .. Base - 1
  BY ArrayFacts
<1>2. /\ (position + n) \div Base = position \div Base + (offset + n) \div Base
      /\ (position + n) % Base = (offset + n) % Base
  BY <1>1, DivPlus DEF offset
<1>3. position \div Base \in Nat /\ (offset + n) \div Base \in Nat
  <2>1. offset + n \in Nat
    BY <1>1
  <2> QED
    BY <1>1, <2>1, DivMod
<1> QED
  BY <1>1, <1>2, <1>3

\* curr_ after the search of setPosition.
LEMMA SeekIs ==
    ASSUME NEW v \in Nat
    PROVE  (IF v = 0 THEN 1 ELSE LET k == blocksFor(v) IN IF v = k * Base THEN k + 1 ELSE k)
             = v \div Base + 1
<1>1. Base \in Nat /\ Base > 0
  BY ByteArrayAssumption
<1>2. PICK k \in Nat : k = blocksFor(v) /\ v <= Base * k /\ Base * k < v + Base
  BY BlocksFor
<1>3. PICK q \in Nat, r \in 0 .. Base - 1 : q = v \div Base /\ v = q * Base + r
  BY <1>1, DivMod
<1>4. CASE v = 0
  <2>1. q = 0
    BY <1>1, <1>3, <1>4
  <2>2. v \div Base + 1 = 1
    BY <1>3, <2>1
  <2> QED
    BY <1>4, <2>2, Zenon
<1>5. CASE v # 0 /\ v = k * Base
  <2>1. v = k * Base + 0 /\ 0 \in 0 .. Base - 1
    BY <1>1, <1>5
  <2>2. v \div Base = k
    BY <1>1, <2>1, DivUnique
  <2> QED
    BY <1>2, <1>5, <2>2
<1>6. CASE v # 0 /\ v # k * Base
  <2>1. k \in Nat \ {0} /\ v - (k - 1) * Base \in 0 .. Base - 1 /\ v = (k - 1) * Base + (v - (k - 1) * Base)
    BY <1>1, <1>2, <1>6
  <2>2. v \div Base = k - 1
    <3>1. PICK r1 \in 0 .. Base - 1 : r1 = v - (k - 1) * Base
      BY <2>1
    <3>2. PICK j \in Nat : j = k - 1
      BY <2>1
    <3>3. v = j * Base + r1
      BY <2>1, <3>1, <3>2
    <3> QED
      BY <1>1, <3>2, <3>3, DivUnique
  <2> QED
    BY <1>2, <1>6, <2>1, <2>2
<1> QED
  BY <1>4, <1>5, <1>6

\* The bytes read() takes are those of the string from the position on.
LEMMA FetchIs ==
    ASSUME ArrayInv, NEW n \in Nat, position + n <= size
    PROVE  /\ fetch(n) \in Seq(Cells) /\ Len(fetch(n)) = n
           /\ \A i \in 1 .. n : fetch(n)[i] = flat[position + i]
           /\ fetch(n) = SubSeq(flat, position + 1, position + n)
<1>1. position \in Nat /\ size \in Nat
  BY ArrayFacts
<1>2. /\ flat \in Seq(Cells) /\ Len(flat) = size
      /\ \A i \in 1 .. size : flat[i] = At(mem, i - 1)
  BY FlatIs
<1> DEFINE cell(i) == LET o == offset + i - 1 IN mem[curr + o \div Base][o % Base]
<1>3. fetch(n) = [i \in 1 .. n |-> cell(i)]
  BY DEF fetch
<1>4. ASSUME NEW i \in 1 .. n PROVE cell(i) = flat[position + i] /\ position + i \in 1 .. size
  <2>1. PICK j \in Nat : j = i - 1 /\ i = j + 1
    OBVIOUS
  <2>2. /\ curr + (offset + j) \div Base = (position + j) \div Base + 1
        /\ (offset + j) % Base = (position + j) % Base
    BY CurrForward
  <2>3. offset + i - 1 = offset + j
    <3>1. offset \in 0 .. Base - 1
      BY ArrayFacts
    <3> QED
      BY <2>1, <3>1, ByteArrayAssumption
  <2>4. cell(i) = At(mem, position + j)
    BY <2>2, <2>3, Zenon DEF At
  <2>5. position + i \in 1 .. size /\ (position + i) - 1 = position + j
    BY <1>1, <2>1
  <2> QED
    BY <1>2, <2>4, <2>5
<1> HIDE DEF cell
<1>5. fetch(n) \in Seq(Cells) /\ Len(fetch(n)) = n /\ \A i \in 1 .. n : fetch(n)[i] = flat[position + i]
  <2>1. \A i \in 1 .. size : flat[i] \in Cells
    BY <1>2
  <2>2. fetch(n) \in [1 .. n -> Cells]
    BY <1>3, <1>4, <2>1
  <2> QED
    BY <1>3, <1>4, <2>2, IsASeq
<1>6. PICK s : s = SubSeq(flat, position + 1, position + n)
  OBVIOUS
<1>7. s \in Seq(Cells) /\ Len(s) = n /\ \A i \in 1 .. n : s[i] = flat[position + i]
  <2>1. PICK p \in Nat : p = position /\ p + n <= Len(flat)
    BY <1>1, <1>2
  <2>2. PICK f \in Seq(Cells) : f = flat
    BY <1>2
  <2>3. /\ SubSeq(f, p + 1, p + n) \in Seq(Cells) /\ Len(SubSeq(f, p + 1, p + n)) = n
        /\ \A i \in 1 .. n : SubSeq(f, p + 1, p + n)[i] = f[p + i]
    BY <2>1, <2>2
  <2> QED
    BY <1>6, <2>1, <2>2, <2>3
<1>8. fetch(n) = s
  BY <1>5, <1>7, SeqEqual
<1> QED
  BY <1>5, <1>6, <1>8

\* A string that has the bytes w from p on and those of f elsewhere.
LEMMA Overwrite ==
    ASSUME NEW f \in Seq(Cells), NEW h \in Seq(Cells), NEW w \in Seq(Cells), NEW p \in Nat,
           p <= Len(f), Len(h) = larger(Len(f), p + Len(w)),
           \A i \in 1 .. Len(h) : h[i] = IF i - p \in 1 .. Len(w) THEN w[i - p] ELSE f[i]
    PROVE  h = SubSeq(f, 1, p) \o w \o SubSeq(f, p + Len(w) + 1, Len(f))
<1>1. PICK F \in Nat, W \in Nat, H \in Nat : F = Len(f) /\ W = Len(w) /\ H = Len(h)
  OBVIOUS
<1>2. PICK a : a = SubSeq(f, 1, p)
  OBVIOUS
<1>3. a \in Seq(Cells) /\ Len(a) = p /\ \A i \in 1 .. p : a[i] = f[i]
  BY <1>2
<1>4. PICK c : c = SubSeq(f, p + W + 1, F)
  OBVIOUS
<1>5. /\ c \in Seq(Cells) /\ Len(c) = IF p + W <= F THEN F - (p + W) ELSE 0
      /\ \A i \in 1 .. Len(c) : c[i] = f[p + W + i]
  BY <1>1, <1>4
<1>C. PICK C \in Nat : C = Len(c) /\ H = (p + W) + C /\ \A i \in 1 .. C : c[i] = f[p + W + i]
  <2>1. c \in Seq(Cells)
    BY <1>5
  <2>2. PICK C \in Nat : C = Len(c)
    BY <2>1, LenProperties
  <2>3. C = IF p + W <= F THEN F - (p + W) ELSE 0
    BY <1>5, <2>2, Zenon
  <2>4. H = IF F > p + W THEN F ELSE p + W
    BY <1>1, Zenon DEF larger
  <2>5. H = (p + W) + C
    BY <2>3, <2>4
  <2> QED
    BY <1>5, <2>2, <2>5
<1>6. PICK b : b = a \o w
  OBVIOUS
<1>7. /\ b \in Seq(Cells) /\ Len(b) = p + W
      /\ \A i \in 1 .. p : b[i] = a[i]
      /\ \A i \in 1 .. W : b[p + i] = w[i]
  <2>1. /\ a \o w \in Seq(Cells) /\ Len(a \o w) = Len(a) + Len(w)
        /\ \A i \in 1 .. Len(a) + Len(w) : (a \o w)[i] = IF i <= Len(a) THEN a[i] ELSE w[i - Len(a)]
    BY <1>3, ConcatProperties
  <2>2. b \in Seq(Cells) /\ Len(b) = p + W
        /\ \A i \in 1 .. p + W : b[i] = IF i <= p THEN a[i] ELSE w[i - p]
    BY <1>1, <1>3, <1>6, <2>1, Zenon
  <2>3. ASSUME NEW i \in 1 .. p PROVE b[i] = a[i]
    <3>1. i \in 1 .. p + W /\ i <= p
      BY <1>1
    <3> QED
      BY <2>2, <3>1, Zenon
  <2>4. ASSUME NEW i \in 1 .. W PROVE b[p + i] = w[i]
    <3>1. p + i \in 1 .. p + W /\ ~(p + i <= p) /\ (p + i) - p = i
      BY <1>1
    <3> QED
      BY <2>2, <3>1, Zenon
  <2> QED
    BY <2>2, <2>3, <2>4, Zenon
<1>8. PICK d : d = b \o c
  OBVIOUS
<1>9. /\ d \in Seq(Cells) /\ Len(d) = H
      /\ \A i \in 1 .. p + W : d[i] = b[i]
      /\ \A i \in 1 .. C : d[p + W + i] = c[i]
  <2>1. /\ b \o c \in Seq(Cells) /\ Len(b \o c) = Len(b) + Len(c)
        /\ \A i \in 1 .. Len(b) + Len(c) : (b \o c)[i] = IF i <= Len(b) THEN b[i] ELSE c[i - Len(b)]
    <3>1. b \in Seq(Cells) /\ c \in Seq(Cells)
      BY <1>5, <1>7, Zenon
    <3> QED
      BY <3>1, ConcatProperties
  <2>3. /\ d \in Seq(Cells) /\ Len(d) = (p + W) + C
        /\ \A i \in 1 .. (p + W) + C : d[i] = IF i <= p + W THEN b[i] ELSE c[i - (p + W)]
    BY <1>7, <1>8, <1>C, <2>1, Zenon
  <2>4. ASSUME NEW i \in 1 .. p + W PROVE d[i] = b[i]
    <3>1. i \in 1 .. (p + W) + C /\ i <= p + W
      BY <1>1, <1>C
    <3> QED
      BY <2>3, <3>1, Zenon
  <2>5. ASSUME NEW i \in 1 .. C PROVE d[p + W + i] = c[i]
    <3>1. p + W + i \in 1 .. (p + W) + C /\ ~(p + W + i <= p + W) /\ (p + W + i) - (p + W) = i
      BY <1>1, <1>C
    <3> QED
      BY <2>3, <3>1, Zenon
  <2> QED
    BY <1>C, <2>3, <2>4, <2>5, Zenon
<1>10. ASSUME NEW i \in 1 .. H PROVE h[i] = d[i]
  <2>1. h[i] = IF i - p \in 1 .. W THEN w[i - p] ELSE f[i]
    BY <1>1
  <2>2. CASE i \in 1 .. p
    <3>1. i - p \notin 1 .. W /\ i \in 1 .. p + W
      BY <2>2
    <3> QED
      BY <1>3, <1>7, <1>9, <2>1, <2>2, <3>1
  <2>3. CASE i - p \in 1 .. W
    <3>1. PICK j \in 1 .. W : j = i - p /\ i = p + j
      BY <2>3
    <3>2. i \in 1 .. p + W
      BY <3>1
    <3> QED
      BY <1>7, <1>9, <2>1, <3>1, <3>2
  <2>4. CASE i \notin 1 .. p /\ i - p \notin 1 .. W
    <3>3. PICK j \in 1 .. C : i = p + W + j
      <4>1. i - (p + W) \in 1 .. C /\ i = p + W + (i - (p + W))
        BY <1>C, <2>4
      <4> QED
        BY <4>1
    <3> QED
      BY <1>C, <1>9, <2>1, <2>4, <3>3
  <2> QED
    BY <2>2, <2>3, <2>4
<1>11. h = d
  BY <1>1, <1>9, <1>10, SeqEqual
<1> QED
  BY <1>1, <1>2, <1>4, <1>6, <1>8, <1>11

-----------------------------------------------------------------------------
\* The string after bytes were stored: a write of the abstract specification.
LEMMA StoreIsWrite ==
    ASSUME ArrayInv, NEW n \in Nat, NEW w \in Seq(Cells), w # <<>>, Len(w) <= n,
           mem' = stored(mem \o blanks(extra(n)), currFor(n), offset, w),
           capacity' = capacity + extra(n) * Base,
           position' = position + Len(w), size' = larger(size, position + Len(w)),
           curr' = position' \div Base + 1, io' = w
    PROVE  ArrayInv' /\ Abstract!Write
<1>1. /\ mem' \in Seq(Block) /\ Len(mem') = Len(mem) + extra(n)
      /\ capacity' = Base * Len(mem') /\ size' \in Nat /\ size' <= capacity'
      /\ size <= size' /\ position + Len(w) <= size'
      /\ \A g \in Nat : g < size' =>
           At(mem', g) = IF g - position + 1 \in 1 .. Len(w) THEN w[g - position + 1] ELSE At(mem, g)
  BY StoreEffect
<1>2. /\ Len(mem) \in Nat /\ Len(mem) > 0 /\ extra(n) \in Nat /\ position \in Nat /\ size \in Nat
      /\ position <= size
  BY ArrayFacts, Growth DEF ArrayInv
<1>3. Len(w) \in Nat
  OBVIOUS
<1>4. ArrayInv'
  <2>1. position' \in 0 .. size'
    BY <1>1, <1>2, <1>3
  <2>2. Len(mem') > 0
    BY <1>1, <1>2
  <2> QED
    BY <1>1, <2>1, <2>2 DEF ArrayInv, InStep, Block, Cells
<1>5. /\ flat \in Seq(Cells) /\ Len(flat) = size
      /\ \A i \in 1 .. size : flat[i] = At(mem, i - 1)
  BY FlatIs
<1>6. PICK h : h = Flat(mem', size')
  OBVIOUS
<1>7. h \in Seq(Cells) /\ Len(h) = size' /\ \A i \in 1 .. size' : h[i] = At(mem', i - 1)
  BY <1>1, <1>6, FlatOf
<1>8. h = flat'
  BY <1>6, Zenon DEF flat, Flat, At
<1>9. ASSUME NEW i \in 1 .. Len(h)
      PROVE  h[i] = IF i - position \in 1 .. Len(w) THEN w[i - position] ELSE flat[i]
  <2>1. i \in 1 .. size' /\ i - 1 \in Nat /\ i - 1 < size' /\ (i - 1) - position + 1 = i - position
    BY <1>1, <1>2, <1>7
  <2>2. h[i] = IF i - position \in 1 .. Len(w) THEN w[i - position] ELSE At(mem, i - 1)
    BY <1>1, <1>7, <2>1
  <2>3. CASE i - position \in 1 .. Len(w)
    BY <2>2, <2>3
  <2>4. CASE i - position \notin 1 .. Len(w)
    <3>1. i \in 1 .. size
      <4>1. size' = size \/ size' = position + Len(w)
        BY DEF larger
      <4> QED
        BY <1>2, <1>3, <2>1, <2>4, <4>1
    <3> QED
      BY <1>5, <2>2, <2>4, <3>1
  <2> QED
    BY <2>3, <2>4
<1>10. Len(h) = larger(Len(flat), position + Len(w))
  BY <1>5, <1>7
<1>11. h = SubSeq(flat, 1, position) \o w \o SubSeq(flat, position + Len(w) + 1, Len(flat))
  <2>1. PICK f \in Seq(Cells) : f = flat
    BY <1>5
  <2>2. PICK p \in Nat : p = position
    BY <1>2
  <2>3. p <= Len(f) /\ h \in Seq(Cells)
    BY <1>2, <1>5, <1>7, <2>1, <2>2
  <2>4. Len(h) = larger(Len(f), p + Len(w))
    BY <1>10, <2>1, <2>2, Zenon
  <2>5. \A i \in 1 .. Len(h) : h[i] = IF i - p \in 1 .. Len(w) THEN w[i - p] ELSE f[i]
    BY <1>9, <2>1, <2>2, Zenon
  <2>6. h = SubSeq(f, 1, p) \o w \o SubSeq(f, p + Len(w) + 1, Len(f))
    BY <2>3, <2>4, <2>5, Overwrite, Zenon
  <2> QED
    BY <2>1, <2>2, <2>6, Zenon
<1> QED
  BY <1>4, <1>8, <1>11 DEF Abstract!Write

\* write() (byte_array.cc:77-116) is a write of the abstract specification.
LEMMA WriteStep ==
    ASSUME ArrayInv, NEW w \in Seq(Cells), Write(w)
    PROVE  ArrayInv' /\ Abstract!Write
<1>1. PICK n \in Nat : n = Len(w)
  OBVIOUS
<1>2. /\ w # <<>> /\ mem' = stored(mem \o blanks(extra(n)), currFor(n), offset, w)
      /\ capacity' = capacity + extra(n) * Base /\ curr' = currFor(n) + (offset + n) \div Base
      /\ position' = position + n /\ size' = larger(size, position + n) /\ io' = w
  BY <1>1 DEF Write
<1>3. curr' = position' \div Base + 1
  BY <1>2, Growth, CurrForward
<1>4. n <= n
  OBVIOUS
<1>5. Len(w) <= n /\ position' = position + Len(w) /\ size' = larger(size, position + Len(w))
  BY <1>1, <1>2, <1>4, Zenon
<1> QED
  BY <1>2, <1>3, <1>5, StoreIsWrite, Zenon

\* A receive that fills part of its room is one, of the bytes that came, and one that brings
\* nothing leaves the string as it is (socket_stream.cc:18-29).
LEMMA ReceiveStep ==
    ASSUME ArrayInv, NEW w \in Seq(Cells), NEW len \in Nat, ReceiveInto(w, len)
    PROVE  ArrayInv' /\ Abstract!Next
<1>1. /\ Len(w) <= len
      /\ mem' = stored(mem \o blanks(extra(len)), currFor(len), offset, w)
      /\ capacity' = capacity + extra(len) * Base /\ io' = w
  BY DEF ReceiveInto
<1>2. CASE w # <<>>
  <2>1. seek(position + Len(w))
    BY <1>2 DEF ReceiveInto
  <2>2. position + Len(w) \in Nat
    <3>1. position \in Nat
      BY ArrayFacts
    <3>2. Len(w) \in Nat
      OBVIOUS
    <3> QED
      BY <3>1, <3>2
  <2>3. /\ position' = position + Len(w) /\ size' = larger(size, position + Len(w))
        /\ curr' = position' \div Base + 1
    BY <2>1, <2>2, SeekIs DEF seek
  <2>4. ArrayInv' /\ Abstract!Write
    BY <1>1, <1>2, <2>3, StoreIsWrite
  <2> QED
    BY <2>4 DEF Abstract!Next
<1>3. CASE w = <<>>
  <2>1. curr' = currFor(len) /\ position' = position /\ size' = size /\ io' = <<>>
    BY <1>1, <1>3 DEF ReceiveInto
  <2>2. /\ mem \in Seq(Block) /\ Len(mem) \in Nat /\ Len(mem) > 0 /\ position \in Nat /\ size \in Nat
        /\ position <= size /\ curr = position \div Base + 1 /\ currFor(len) = curr /\ extra(len) \in Nat
    BY ArrayFacts, Growth DEF ArrayInv
  <2>3. size' = larger(size, position + Len(w)) /\ Len(w) = 0
    BY <1>3, <2>1, <2>2 DEF larger
  <2>4. /\ mem' \in Seq(Block) /\ Len(mem') = Len(mem) + extra(len)
        /\ capacity' = Base * Len(mem') /\ size' \in Nat /\ size' <= capacity'
        /\ \A g \in Nat : g < size' =>
             At(mem', g) = IF g - position + 1 \in 1 .. Len(w) THEN w[g - position + 1] ELSE At(mem, g)
    BY <1>1, <2>3, StoreEffect
  <2>5. ArrayInv'
    <3>1. io' \in Seq(Cells) /\ Len(mem') > 0 /\ position' \in 0 .. size'
      BY <1>1, <2>1, <2>2, <2>4
    <3> QED
      BY <2>1, <2>2, <2>4, <3>1 DEF ArrayInv, InStep, Block, Cells
  <2>6. /\ flat \in Seq(Cells) /\ Len(flat) = size
        /\ \A i \in 1 .. size : flat[i] = At(mem, i - 1)
    BY FlatIs
  <2>7. PICK h : h = Flat(mem', size')
    OBVIOUS
  <2>8. h \in Seq(Cells) /\ Len(h) = size' /\ \A i \in 1 .. size' : h[i] = At(mem', i - 1)
    BY <2>4, <2>7, FlatOf
  <2>9. h = flat'
    BY <2>7, Zenon DEF flat, Flat, At
  <2>10. ASSUME NEW i \in 1 .. size PROVE h[i] = flat[i]
    <3>0. 1 .. Len(w) = {}
      BY <2>3
    <3>1. i - 1 \in Nat /\ i - 1 < size' /\ i \in 1 .. size'
      BY <2>1, <2>2
    <3>2. At(mem', i - 1) = At(mem, i - 1)
      BY <2>4, <3>0, <3>1
    <3> QED
      BY <2>6, <2>8, <3>1, <3>2
  <2>11. h = flat
    BY <2>1, <2>6, <2>8, <2>10, SeqEqual
  <2>12. SubSeq(flat, 1, Len(flat)) = flat /\ Len(flat) >= Len(flat)
    BY <2>6
  <2>13. Abstract!Seek
    BY <2>1, <2>2, <2>6, <2>9, <2>11, <2>12 DEF Abstract!Seek
  <2> QED
    BY <2>5, <2>13 DEF Abstract!Next
<1> QED
  BY <1>2, <1>3

\* read() and a send deliver the bytes from the position on.
LEMMA ReadStep ==
    ASSUME ArrayInv, NEW n \in 1 .. readable, Read(n) \/ SendFrom(n)
    PROVE  ArrayInv' /\ Abstract!Read
<1>1. /\ mem \in Seq(Block) /\ position \in Nat /\ size \in Nat /\ position <= size
      /\ capacity = Base * Len(mem) /\ size <= capacity
  BY ArrayFacts
<1>2. n \in Nat /\ n > 0 /\ position + n <= size /\ io' = fetch(n) /\ UNCHANGED <<mem, capacity>>
      /\ position' = position + n
  <2>1. io' = fetch(n) /\ mem' = mem /\ capacity' = capacity
        /\ position' = position + n
    BY Zenon DEF Read, SendFrom, seek
  <2> QED
    BY <1>1, <2>1 DEF readable
<1>3. size' = size /\ curr' = position' \div Base + 1
  <2>1. CASE Read(n)
    BY <1>2, <2>1, CurrForward DEF Read
  <2>2. CASE SendFrom(n)
    <3>1. position + n \in Nat
      BY <1>1, <1>2
    <3> QED
      BY <1>1, <1>2, <2>2, <3>1, SeekIs DEF SendFrom, seek, larger
  <2> QED
    BY <2>1, <2>2
<1>4. /\ fetch(n) \in Seq(Cells) /\ Len(fetch(n)) = n
      /\ fetch(n) = SubSeq(flat, position + 1, position + n)
  BY <1>2, FetchIs
<1>5. ArrayInv'
  <2>1. position' \in 0 .. size'
    BY <1>1, <1>2, <1>3
  <2> QED
    BY <1>1, <1>2, <1>3, <1>4, <2>1 DEF ArrayInv, InStep
<1>6. flat' = flat
  BY <1>2, <1>3 DEF flat
<1>7. Len(flat) = size
  BY FlatIs
<1>8. io' # <<>>
  <2>1. Len(io') # 0
    BY <1>2, <1>4
  <2>2. Len(<<>>) = 0
    OBVIOUS
  <2> QED
    BY <2>1, <2>2, Zenon
<1>9. Len(io') = n
  BY <1>2, <1>4
<1> QED
  BY <1>2, <1>4, <1>5, <1>6, <1>7, <1>8, <1>9 DEF Abstract!Read

\* setPosition() moves the position, and beyond the size it extends the string.
LEMMA SetPositionStep ==
    ASSUME ArrayInv, NEW v, SetPosition(v)
    PROVE  ArrayInv' /\ Abstract!Seek
<1>1. /\ mem \in Seq(Block) /\ position \in Nat /\ size \in Nat /\ position <= size
      /\ capacity = Base * Len(mem) /\ size <= capacity /\ capacity \in Nat
  BY ArrayFacts
<1>2. v \in Nat /\ v <= capacity /\ io' = <<>> /\ UNCHANGED <<mem, capacity>>
      /\ position' = v /\ size' = larger(size, v) /\ seek(v)
  BY <1>1 DEF SetPosition, seek
<1>3. curr' = v \div Base + 1
  BY <1>2, SeekIs DEF seek
<1>4. size' \in Nat /\ size <= size' /\ size' <= capacity /\ v <= size' /\ (size' = size \/ size' = v)
  BY <1>1, <1>2 DEF larger
<1>5. ArrayInv'
  <2>1. position' \in 0 .. size'
    BY <1>2, <1>4
  <2>2. <<>> \in Seq(Cells)
    BY EmptySeq
  <2> QED
    BY <1>2, <1>3, <1>4, <2>1, <2>2 DEF ArrayInv, InStep
<1>6. /\ flat \in Seq(Cells) /\ Len(flat) = size
      /\ \A i \in 1 .. size : flat[i] = At(mem, i - 1)
  BY FlatIs
<1>7. PICK h : h = Flat(mem, size')
  OBVIOUS
<1>8. h \in Seq(Cells) /\ Len(h) = size' /\ \A i \in 1 .. size' : h[i] = At(mem, i - 1)
  <2>1. size' <= Base * Len(mem)
    BY <1>1, <1>4
  <2> QED
    BY <1>1, <1>4, <1>7, <2>1, FlatOf
<1>9. h = flat'
  BY <1>2, <1>7, Zenon DEF flat, Flat, At
<1>10. SubSeq(h, 1, Len(flat)) = flat
  <2>1. PICK s : s = SubSeq(h, 1, size)
    OBVIOUS
  <2>2. s \in Seq(Cells) /\ Len(s) = size /\ \A i \in 1 .. size : s[i] = h[i]
    BY <1>1, <1>4, <1>8, <2>1
  <2>3. ASSUME NEW i \in 1 .. size
        PROVE  s[i] = flat[i]
    <3>1. i \in 1 .. size'
      BY <1>1, <1>4
    <3> QED
      BY <1>6, <1>8, <2>2, <3>1, Zenon
  <2>4. s = flat
    BY <1>6, <2>2, <2>3, SeqEqual
  <2> QED
    BY <1>6, <2>1, <2>4
<1>11. position' = Len(h) \/ (flat' = flat /\ position' <= Len(flat))
  <2>1. CASE size' = v
    BY <1>2, <1>8, <2>1
  <2>2. CASE size' = size
    BY <1>2, <1>4, <1>6, <2>2 DEF flat
  <2> QED
    BY <1>4, <2>1, <2>2
<1>12. Len(h) >= Len(flat)
  BY <1>1, <1>4, <1>6, <1>8
<1> QED
  BY <1>2, <1>5, <1>9, <1>10, <1>11, <1>12 DEF Abstract!Seek

\* clear() leaves the empty string.
LEMMA ClearStep ==
    ASSUME ArrayInv, Clear
    PROVE  ArrayInv' /\ Abstract!Assign
<1>1. mem \in Seq(Block) /\ Len(mem) \in Nat /\ Len(mem) > 0 /\ Base \in Nat /\ Base > 0
  BY ArrayFacts DEF ArrayInv
<1>2. mem[1] \in Block
  BY <1>1
<1>3. /\ mem' = <<mem[1]>> /\ curr' = 1 /\ position' = 0 /\ size' = 0 /\ capacity' = Base /\ io' = <<>>
  BY DEF Clear
<1>4. mem' \in Seq(Block) /\ Len(mem') = 1
  BY <1>2, <1>3
<1>5. position' \div Base = 0
  BY <1>1, <1>3
<1>6. <<>> \in Seq(Cells)
  BY EmptySeq
<1>7. ArrayInv'
  BY <1>1, <1>3, <1>4, <1>5, <1>6 DEF ArrayInv, InStep, Block, Cells
<1>8. flat' = <<>>
  BY <1>3 DEF flat
<1> QED
  BY <1>3, <1>7, <1>8 DEF Abstract!Assign

\* A fresh ByteArray holds the string it is written with.
LEMMA FreshStep ==
    ASSUME NEW w \in Seq(Cells), Fresh(w)
    PROVE  ArrayInv' /\ Abstract!Assign
<1>1. Base \in Nat /\ Base > 0 /\ Len(w) \in Nat
  BY ByteArrayAssumption
<1>2. PICK k \in Nat : k = larger(1, blocksFor(Len(w))) /\ k > 0 /\ Len(w) <= Base * k
  <2>1. blocksFor(Len(w)) \in Nat /\ Len(w) <= Base * blocksFor(Len(w))
    BY <1>1, BlocksFor
  <2> QED
    BY <1>1, <2>1 DEF larger
<1>3. /\ mem' = stored(blanks(k), 1, 0, w) /\ capacity' = k * Base
      /\ curr' = 1 /\ position' = 0 /\ size' = Len(w) /\ io' = w
  BY <1>2 DEF Fresh
<1>4. blanks(k) \in Seq(Block) /\ Len(blanks(k)) = k
  BY BlanksAre
<1>5. /\ mem' \in Seq(Block) /\ Len(mem') = k
      /\ \A g \in Nat : g < Base * k =>
           At(mem', g) = IF g - 0 + 1 \in 1 .. Len(w) THEN w[g - 0 + 1] ELSE At(blanks(k), g)
  <2>1. 0 = (1 - 1) * Base + 0 /\ 0 \in 0 .. Base - 1 /\ 1 \in Nat \ {0}
    BY <1>1
  <2>2. PICK b \in Seq(Block) : b = blanks(k) /\ Len(b) = k
    BY <1>4
  <2>3. PICK c \in Nat \ {0}, o \in 0 .. Base - 1, p \in Nat :
           c = 1 /\ o = 0 /\ p = 0 /\ p = (c - 1) * Base + o
    BY <1>1, <2>1
  <2>4. /\ stored(b, c, o, w) \in Seq(Block) /\ Len(stored(b, c, o, w)) = Len(b)
        /\ \A g \in Nat : g < Base * Len(b) =>
             At(stored(b, c, o, w), g) = IF g - p + 1 \in 1 .. Len(w) THEN w[g - p + 1] ELSE At(b, g)
    BY <2>3, StoredAt
  <2>5. mem' = stored(b, c, o, w)
    BY <1>3, <2>2, <2>3, Zenon
  <2> QED
    BY <2>2, <2>3, <2>4, <2>5, Zenon
<1>6. ArrayInv'
  <2>1. size' \in Nat /\ position' \in 0 .. size'
    BY <1>1, <1>3
  <2>2. 0 \div Base = 0
    BY <1>1
  <2>3. curr' = position' \div Base + 1
    BY <1>3, <2>2
  <2>4. k * Base = Base * k /\ Len(w) <= k * Base
    BY <1>1, <1>2
  <2>5. capacity' = Base * Len(mem') /\ size' <= capacity' /\ Len(mem') > 0
    BY <1>2, <1>3, <1>5, <2>4, Zenon
  <2> QED
    BY <1>3, <1>5, <2>1, <2>3, <2>5, Zenon DEF ArrayInv, InStep, Block, Cells
<1>7. PICK h : h = Flat(mem', size')
  OBVIOUS
<1>8. h \in Seq(Cells) /\ Len(h) = Len(w) /\ \A i \in 1 .. Len(w) : h[i] = At(mem', i - 1)
  <2>1. size' \in Nat /\ size' <= Base * Len(mem') /\ size' = Len(w)
    BY <1>1, <1>2, <1>3, <1>5
  <2> QED
    BY <1>5, <1>7, <2>1, FlatOf
<1>9. ASSUME NEW i \in 1 .. Len(w) PROVE h[i] = w[i]
  <2>1. i - 1 \in Nat /\ i - 1 < Base * k /\ (i - 1) - 0 + 1 = i
    BY <1>1, <1>2
  <2> QED
    BY <1>5, <1>8, <2>1
<1>10. h = w
  BY <1>8, <1>9, SeqEqual
<1>11. h = flat'
  BY <1>7, Zenon DEF flat, Flat, At
<1> QED
  BY <1>3, <1>6, <1>10, <1>11 DEF Abstract!Assign

-----------------------------------------------------------------------------
\* The items after the first k stand in s one after the other from place p on, to its end.
Queued(items, k, s, p) ==
    \E at \in [k .. Len(items) -> Nat] :
        /\ at[k] = p /\ at[Len(items)] = Len(s) /\ \A i \in k .. Len(items) : p <= at[i]
        /\ \A i \in k + 1 .. Len(items) :
              /\ at[i] = at[i - 1] + Len(serialize(items[i]))
              /\ In(serialize(items[i]), s, at[i - 1])

\* One more item is written at the end.
LEMMA QueuedAppend ==
    ASSUME NEW items \in Seq(Items), NEW item \in Items, NEW s \in Seq(Cells),
           Queued(items, 0, s, 0), NEW w \in Seq(Byte), w = serialize(item)
    PROVE  Queued(Append(items, item), 0, s \o w, 0)
<1>1. PICK n \in Nat, m \in Nat, l \in Nat : n = Len(items) /\ m = Len(s) /\ l = Len(w)
  OBVIOUS
<1>2. PICK at \in [0 .. n -> Nat] :
        /\ at[0] = 0 /\ at[n] = m
        /\ \A i \in 0 + 1 .. n : /\ at[i] = at[i - 1] + Len(serialize(items[i]))
                                 /\ In(serialize(items[i]), s, at[i - 1])
  BY <1>1, Zenon DEF Queued
<1>3. PICK x : x = Append(items, item)
  OBVIOUS
<1>4. x \in Seq(Items) /\ Len(x) = n + 1 /\ \A i \in 1 .. n + 1 : x[i] = IF i = n + 1 THEN item ELSE items[i]
  <2>1. /\ Append(items, item) \in Seq(Items) /\ Len(Append(items, item)) = Len(items) + 1
        /\ \A i \in 1 .. Len(items) : Append(items, item)[i] = items[i]
        /\ Append(items, item)[Len(items) + 1] = item
    BY AppendProperties
  <2>2. x \in Seq(Items) /\ Len(x) = n + 1 /\ (\A i \in 1 .. n : x[i] = items[i]) /\ x[n + 1] = item
    BY <1>1, <1>3, <2>1, Zenon
  <2>3. \A i \in 1 .. n + 1 : i = n + 1 \/ (i # n + 1 /\ i \in 1 .. n)
    OBVIOUS
  <2> QED
    BY <2>2, <2>3, Zenon
<1>5. w \in Seq(Cells)
  BY DEF Cells
<1>6. PICK z : z = s \o w
  OBVIOUS
<1>7. /\ z \in Seq(Cells) /\ Len(z) = m + l
      /\ \A i \in 1 .. m : z[i] = s[i]
      /\ \A i \in 1 .. l : z[m + i] = w[i]
  <2>1. /\ s \o w \in Seq(Cells) /\ Len(s \o w) = Len(s) + Len(w)
        /\ \A i \in 1 .. Len(s) + Len(w) : (s \o w)[i] = IF i <= Len(s) THEN s[i] ELSE w[i - Len(s)]
    BY <1>5, ConcatProperties
  <2>2. /\ z \in Seq(Cells) /\ Len(z) = m + l
        /\ \A i \in 1 .. m + l : z[i] = IF i <= m THEN s[i] ELSE w[i - m]
    BY <1>1, <1>6, <2>1, Zenon
  <2>3. ASSUME NEW i \in 1 .. m PROVE z[i] = s[i]
    <3>1. i \in 1 .. m + l /\ i <= m
      OBVIOUS
    <3> QED
      BY <2>2, <3>1, Zenon
  <2>4. ASSUME NEW i \in 1 .. l PROVE z[m + i] = w[i]
    <3>1. PICK j \in 1 .. m + l : j = m + i /\ ~(j <= m) /\ j - m = i
      OBVIOUS
    <3> QED
      BY <2>2, <3>1, Zenon
  <2> QED
    BY <2>2, <2>3, <2>4
<1>8. PICK g : g = [i \in 0 .. n + 1 |-> IF i = n + 1 THEN m + l ELSE at[i]]
  OBVIOUS
<1>9. g \in [0 .. n + 1 -> Nat] /\ g[n + 1] = m + l /\ \A i \in 0 .. n : g[i] = at[i]
  BY <1>8
<1>10. g[0] = 0 /\ g[n] = m /\ \A i \in 0 .. n + 1 : 0 <= g[i]
  <2>1. 0 \in 0 .. n /\ n \in 0 .. n
    OBVIOUS
  <2>2. g[0] = 0 /\ g[n] = m
    BY <1>2, <1>9, <2>1, Zenon
  <2> QED
    BY <1>9, <2>2
<1>11. ASSUME NEW i \in 0 + 1 .. n + 1
       PROVE  g[i] = g[i - 1] + Len(serialize(x[i])) /\ In(serialize(x[i]), z, g[i - 1])
  <2>0. i \in 1 .. n + 1
    OBVIOUS
  <2>1. CASE i = n + 1
    <3>1. i - 1 = n
      BY <2>1
    <3>2. serialize(x[i]) = w
      BY <1>4, <2>0, <2>1, Zenon
    <3>3. In(w, z, m)
      <4>1. m + l <= m + l
        OBVIOUS
      <4> QED
        BY <1>1, <1>7, <4>1, Zenon DEF In
    <3> QED
      BY <1>1, <1>9, <1>10, <2>1, <3>1, <3>2, <3>3, Zenon
  <2>2. CASE i # n + 1
    <3>1. i \in 0 + 1 .. n /\ i \in 0 .. n /\ i - 1 \in 0 .. n
      BY <2>2
    <3>2. PICK v : v = serialize(x[i]) /\ v = serialize(items[i])
      BY <1>4, <2>0, <2>2, Zenon
    <3>3. g[i] = at[i] /\ g[i - 1] = at[i - 1] /\ at[i] = at[i - 1] + Len(v) /\ In(v, s, at[i - 1])
      BY <1>2, <1>9, <3>1, <3>2, Zenon
    <3>4. PICK p \in Nat : p = at[i - 1]
      BY <3>1
    <3>5. v \in Seq(Byte)
      <4>1. items[i] \in Items
        BY <1>1, <3>1
      <4> QED
        BY <3>2, <4>1, DeserializeIs, Zenon
    <3>6. PICK e \in Nat : e = Len(v)
      BY <3>5
    <3>7. p + e <= m /\ \A j \in 1 .. e : s[p + j] = v[j]
      BY <1>1, <3>3, <3>4, <3>6, Zenon DEF In
    <3>8. p + e <= m + l /\ \A j \in 1 .. e : p + j \in 1 .. m
      BY <3>7
    <3>9. \A j \in 1 .. e : z[p + j] = v[j]
      BY <1>7, <3>7, <3>8, Zenon
    <3>10. In(v, z, p)
      BY <1>7, <3>6, <3>8, <3>9, Zenon DEF In
    <3> QED
      BY <3>2, <3>3, <3>4, <3>10, Zenon
  <2> QED
    BY <2>1, <2>2
<1>12. Queued(x, 0, z, 0)
  BY <1>4, <1>7, <1>9, <1>10, <1>11, Zenon DEF Queued
<1> QED
  BY <1>3, <1>6, <1>12, Zenon

\* The first of the items that are left is read.
LEMMA QueuedNext ==
    ASSUME NEW items \in Seq(Items), NEW k \in Nat, k < Len(items), NEW s \in Seq(Cells), NEW p \in Nat,
           Queued(items, k, s, p)
    PROVE  /\ In(serialize(items[k + 1]), s, p)
           /\ Queued(items, k + 1, s, p + Len(serialize(items[k + 1])))
<1>1. PICK n \in Nat : n = Len(items)
  OBVIOUS
<1>2. PICK at \in [k .. n -> Nat] :
        /\ at[k] = p /\ at[n] = Len(s) /\ \A i \in k .. n : p <= at[i]
        /\ \A i \in k + 1 .. n : /\ at[i] = at[i - 1] + Len(serialize(items[i]))
                                 /\ In(serialize(items[i]), s, at[i - 1])
  BY <1>1, Zenon DEF Queued
<1>3. k + 1 \in k + 1 .. n /\ (k + 1) - 1 = k /\ k + 1 \in k .. n /\ k \in k .. n /\ n \in k + 1 .. n
  BY <1>1
<1>4. at[k + 1] = p + Len(serialize(items[k + 1])) /\ In(serialize(items[k + 1]), s, p)
  BY <1>2, <1>3, Zenon
<1>5. PICK g : g = [i \in k + 1 .. n |-> at[i]]
  OBVIOUS
<1>6. g \in [k + 1 .. n -> Nat] /\ \A i \in k + 1 .. n : g[i] = at[i]
  BY <1>5
<1>7. PICK r \in Nat : r = at[k + 1]
  BY <1>3
<1>8. g[k + 1] = r /\ g[n] = Len(s)
  BY <1>2, <1>3, <1>6, <1>7, Zenon
<1>9. ASSUME NEW i \in (k + 1) + 1 .. n
      PROVE  g[i] = g[i - 1] + Len(serialize(items[i])) /\ In(serialize(items[i]), s, g[i - 1])
  <2>1. i \in k + 1 .. n /\ i - 1 \in k + 1 .. n
    OBVIOUS
  <2> QED
    BY <1>2, <1>6, <2>1, Zenon
<1>10. \A i \in k + 1 .. n : r <= g[i]
  <2>1. PICK S : S = {j \in Nat : k + 1 + j <= n => r <= at[k + 1 + j]}
    OBVIOUS
  <2>2. 0 \in S
    BY <1>7, <2>1
  <2>3. ASSUME NEW j \in Nat, j \in S PROVE j + 1 \in S
    <3> SUFFICES ASSUME k + 1 + (j + 1) <= n PROVE r <= at[k + 1 + (j + 1)]
      BY <2>1
    <3>1. PICK i : i = k + 1 + (j + 1) /\ i \in k + 1 .. n /\ i - 1 = k + 1 + j /\ i \in k .. n
                   /\ i - 1 \in k .. n /\ i \in 1 .. n
      OBVIOUS
    <3>2. r <= at[i - 1]
      BY <2>1, <2>3, <3>1
    <3>3. serialize(items[i]) \in Seq(Byte)
      <4>1. items[i] \in Items
        BY <1>1, <3>1
      <4> QED
        BY <4>1, DeserializeIs, Zenon
    <3>4. PICK e \in Nat : e = Len(serialize(items[i]))
      BY <3>3
    <3>5. at[i] = at[i - 1] + e /\ at[i - 1] \in Nat
      BY <1>2, <3>1, <3>4, Zenon
    <3>6. r <= at[i]
      BY <3>2, <3>4, <3>5
    <3> QED
      BY <3>1, <3>6, Zenon
  <2>4. Nat \subseteq S
    BY <2>2, <2>3, SetInduction
  <2>5. ASSUME NEW i \in k + 1 .. n PROVE r <= at[i]
    <3>1. PICK j \in Nat : j = i - (k + 1) /\ i = k + 1 + j
      OBVIOUS
    <3> QED
      <4>1. j \in S /\ k + 1 + j <= n
        BY <2>4, <3>1
      <4>2. r <= at[k + 1 + j]
        BY <2>1, <4>1, Zenon
      <4> QED
        BY <3>1, <4>2, Zenon
  <2> QED
    BY <1>6, <2>5, Zenon
<1>11. Queued(items, k + 1, s, r)
  BY <1>1, <1>6, <1>8, <1>9, <1>10, Zenon DEF Queued
<1> QED
  BY <1>4, <1>7, <1>11, Zenon

\* What is left, in a string of its own.
LEMMA QueuedRest ==
    ASSUME NEW items \in Seq(Items), NEW k \in Nat, k <= Len(items), NEW s \in Seq(Cells),
           NEW p \in Nat, p <= Len(s), Queued(items, k, s, p)
    PROVE  Queued(items, k, SubSeq(s, p + 1, Len(s)), 0)
<1>1. PICK n \in Nat, m \in Nat : n = Len(items) /\ m = Len(s)
  OBVIOUS
<1>2. PICK at \in [k .. n -> Nat] :
        /\ at[k] = p /\ at[n] = m /\ \A i \in k .. n : p <= at[i]
        /\ \A i \in k + 1 .. n : /\ at[i] = at[i - 1] + Len(serialize(items[i]))
                                 /\ In(serialize(items[i]), s, at[i - 1])
  BY <1>1, Zenon DEF Queued
<1>3. PICK z : z = SubSeq(s, p + 1, m)
  OBVIOUS
<1>4. z \in Seq(Cells) /\ Len(z) = m - p /\ \A i \in 1 .. m - p : z[i] = s[p + i]
  BY <1>1, <1>3
<1>5. PICK g : g = [i \in k .. n |-> at[i] - p]
  OBVIOUS
<1>6. ASSUME NEW i \in k .. n PROVE g[i] \in Nat /\ g[i] = at[i] - p /\ 0 <= g[i]
  BY <1>2, <1>5
<1>7. g \in [k .. n -> Nat]
  BY <1>5, <1>6
<1>8. g[k] = 0 /\ g[n] = m - p
  <2>1. k \in k .. n /\ n \in k .. n /\ p - p = 0
    BY <1>1
  <2> QED
    BY <1>2, <1>6, <2>1, Zenon
<1>9. ASSUME NEW i \in k + 1 .. n
      PROVE  g[i] = g[i - 1] + Len(serialize(items[i])) /\ In(serialize(items[i]), z, g[i - 1])
  <2>1. i \in k .. n /\ i - 1 \in k .. n /\ i \in 1 .. n
    OBVIOUS
  <2>2. PICK v \in Seq(Byte) : v = serialize(items[i])
    <3>1. items[i] \in Items
      BY <1>1, <2>1
    <3> QED
      BY <3>1, DeserializeIs, Zenon
  <2>3. PICK e \in Nat : e = Len(v)
    OBVIOUS
  <2>4. PICK a \in Nat, b \in Nat : a = at[i - 1] /\ b = at[i]
    BY <2>1
  <2>5. b = a + e /\ In(v, s, a) /\ p <= a
    BY <1>2, <2>1, <2>2, <2>3, <2>4, Zenon
  <2>6. PICK c \in Nat : c = a - p /\ p + c = a
    BY <2>5
  <2>7. g[i - 1] = c /\ g[i] = c + e
    <3>1. g[i - 1] = a - p /\ g[i] = b - p
      BY <1>6, <2>1, <2>4, Zenon
    <3> QED
      BY <2>5, <2>6, <3>1
  <2>8. a + e <= m /\ \A j \in 1 .. e : s[a + j] = v[j]
    BY <1>1, <2>3, <2>5, Zenon DEF In
  <2>9. c + e <= m - p /\ \A j \in 1 .. e : c + j \in 1 .. m - p /\ p + (c + j) = a + j
    BY <2>6, <2>8
  <2>10. \A j \in 1 .. e : z[c + j] = v[j]
    BY <1>4, <2>8, <2>9, Zenon
  <2>11. In(v, z, c)
    BY <1>4, <2>3, <2>9, <2>10, Zenon DEF In
  <2> QED
    BY <2>2, <2>3, <2>7, <2>11, Zenon
<1>10. Queued(items, k, z, 0)
  <2>1. g[n] = Len(z) /\ (\A i \in k .. n : 0 <= g[i])
        /\ \A i \in k + 1 .. n : /\ g[i] = g[i - 1] + Len(serialize(items[i]))
                                 /\ In(serialize(items[i]), z, g[i - 1])
    BY <1>4, <1>6, <1>8, <1>9, Zenon
  <2> QED
    BY <1>1, <1>7, <1>8, <2>1, Zenon DEF Queued
<1> QED
  BY <1>1, <1>3, <1>10, Zenon

-----------------------------------------------------------------------------
\* What was read is what arrives of the first items, and what is left to read are the others.
SerializerInv ==
    /\ mode \in {"put", "get", "raw", "over", "crashed"}
    /\ mode # "over" => ArrayInv
    /\ mode = "over" => CurrInStep
    /\ written \in Seq(Items) /\ Len(got) \in 0 .. Len(written)
    /\ got = [j \in 1 .. Len(got) |-> ArrivedItem(written[j])]
    /\ mode = "put" => Len(got) = 0 /\ position = size /\ Queued(written, 0, flat, 0)
    /\ mode = "get" => Queued(written, Len(got), flat, position)

\* Nothing was written.
LEMMA NothingQueued == Queued(<<>>, 0, <<>>, 0)
<1>1. PICK e : e = <<>>
  OBVIOUS
<1>2. Len(e) = 0
  BY <1>1
<1>3. PICK g : g = [i \in 0 .. 0 |-> 0]
  OBVIOUS
<1>4. g \in [0 .. 0 -> Nat] /\ g[0] = 0 /\ (\A i \in 0 .. 0 : 0 <= g[i])
  BY <1>3
<1>5. \A i \in 0 + 1 .. 0 : g[i] = g[i - 1] + Len(serialize(e[i])) /\ In(serialize(e[i]), e, g[i - 1])
  OBVIOUS
<1>6. Queued(e, 0, e, 0)
  BY <1>2, <1>4, <1>5, Zenon DEF Queued
<1> QED
  BY <1>1, <1>6, Zenon

\* Without bytes the string is empty.
LEMMA FlatEmpty == size = 0 => flat = <<>>
  BY DEF flat

\* The initial states satisfy the invariant and are initial states of the abstract specification.
LEMMA SerializerStart == SerializerInit => SerializerInv /\ Abstract!Init
<1> SUFFICES ASSUME SerializerInit PROVE SerializerInv /\ Abstract!Init
  OBVIOUS
<1>1. mem = <<blank>> /\ curr = 1 /\ position = 0 /\ capacity = Base /\ size = 0 /\ io = <<>>
      /\ mode \in {"put", "raw"} /\ written = <<>> /\ got = <<>>
  BY DEF SerializerInit, ArrayInit
<1>2. Base \in Nat /\ Base > 0
  BY ByteArrayAssumption
<1>3. blank \in Block
  BY DEF blank, Block, Cells
<1>4. mem \in Seq(Block) /\ Len(mem) = 1
  BY <1>1, <1>3
<1>5. position \div Base = 0 /\ io \in Seq(Cells)
  BY <1>1, <1>2
<1>6. ArrayInv
  BY <1>1, <1>2, <1>4, <1>5 DEF ArrayInv, InStep, Block, Cells
<1>7. flat = <<>>
  BY <1>1, FlatEmpty
<1>8. written \in Seq(Items) /\ Len(written) = 0 /\ Len(got) = 0 /\ 0 \in 0 .. 0
  BY <1>1
<1>9. got = [j \in 1 .. 0 |-> ArrivedItem(written[j])]
  BY <1>1
<1>10. Queued(written, 0, flat, 0)
  BY <1>1, <1>7, NothingQueued, Zenon
<1>11. mode # "get" /\ mode # "over" /\ mode \in {"put", "get", "raw", "over", "crashed"}
  BY <1>1
<1>12. SerializerInv
  BY <1>1, <1>6, <1>8, <1>9, <1>10, <1>11, Zenon DEF SerializerInv
<1> QED
  BY <1>1, <1>7, <1>12, Zenon DEF Abstract!Init

\* A write at the end of the string.
LEMMA WriteAtEnd ==
    ASSUME NEW f \in Seq(Cells), NEW w \in Seq(Cells), NEW p \in Nat, p = Len(f)
    PROVE  SubSeq(f, 1, p) \o w \o SubSeq(f, p + Len(w) + 1, Len(f)) = f \o w
<1>1. SubSeq(f, 1, p) = f
  OBVIOUS
<1>2. PICK l \in Nat : l = Len(w)
  OBVIOUS
<1>3. SubSeq(f, p + l + 1, p) = <<>>
  OBVIOUS
<1>4. PICK x \in Seq(Cells) : x = f \o w
  BY ConcatProperties
<1>5. x \o <<>> = x
  BY ConcatEmptySeq
<1> QED
  BY <1>1, <1>2, <1>3, <1>4, <1>5, Zenon

\* s << v puts one more item at the end.
LEMMA PutStep ==
    ASSUME SerializerInv, Put
    PROVE  SerializerInv' /\ Abstract!Next
<1>1. PICK item \in Items : Write(serialize(item)) /\ written' = Append(written, item)
  BY DEF Put
<1>2. mode = "put" /\ mode' = mode /\ got' = got
  BY DEF Put
<1>3. PICK w \in Seq(Byte) : w = serialize(item)
  BY DeserializeIs
<1>4. w \in Seq(Cells)
  BY DEF Cells
<1>5. ArrayInv /\ Len(got) = 0 /\ position = size /\ Queued(written, 0, flat, 0) /\ written \in Seq(Items)
      /\ got = [j \in 1 .. Len(got) |-> ArrivedItem(written[j])]
  BY <1>2, Zenon DEF SerializerInv
<1>6. ArrayInv' /\ Abstract!Write
  BY <1>1, <1>3, <1>4, <1>5, WriteStep, Zenon
<1>7. io' = w
  BY <1>1, <1>3, Zenon DEF Write
<1>8. flat \in Seq(Cells) /\ Len(flat) = size /\ size \in Nat
  BY <1>5, FlatIs DEF ArrayInv
<1>9. flat' = flat \o w
  <2>1. flat' = SubSeq(flat, 1, position) \o w \o SubSeq(flat, position + Len(w) + 1, Len(flat))
    BY <1>6, <1>7, Zenon DEF Abstract!Write
  <2>2. PICK f \in Seq(Cells), p \in Nat : f = flat /\ p = position /\ p = Len(f)
    BY <1>5, <1>8, Zenon
  <2>3. SubSeq(f, 1, p) \o w \o SubSeq(f, p + Len(w) + 1, Len(f)) = f \o w
    BY <1>4, <2>2, WriteAtEnd, Zenon
  <2> QED
    BY <2>1, <2>2, <2>3, Zenon
<1>10. Queued(written', 0, flat', 0)
  <2>1. PICK x \in Seq(Items), f \in Seq(Cells) : x = written /\ f = flat
    BY <1>5, <1>8, Zenon
  <2>2. Queued(Append(x, item), 0, f \o w, 0)
    BY <1>3, <1>5, <2>1, QueuedAppend, Zenon
  <2> QED
    BY <1>1, <1>9, <2>1, <2>2, Zenon
<1>11. written' \in Seq(Items) /\ Len(written') \in Nat
  BY <1>1, <1>5
<1>12. position' = size'
  <2>1. /\ position' = position + Len(w) /\ size' = larger(size, position + Len(w))
    BY <1>1, <1>3, Zenon DEF Write
  <2>2. Len(w) \in Nat
    OBVIOUS
  <2> QED
    BY <1>5, <1>8, <2>1, <2>2 DEF larger
<1>13. Len(got') = 0 /\ Len(got') \in 0 .. Len(written')
  BY <1>2, <1>5, <1>11
<1>14. got' = [j \in 1 .. Len(got') |-> ArrivedItem(written'[j])]
  <2>1. [j \in 1 .. 0 |-> ArrivedItem(written'[j])] = [j \in 1 .. 0 |-> ArrivedItem(written[j])]
    OBVIOUS
  <2> QED
    BY <1>2, <1>5, <2>1, Zenon
<1>15. mode' # "get" /\ mode' # "over" /\ mode' \in {"put", "get", "raw", "over", "crashed"}
  BY <1>2
<1>16. SerializerInv'
  BY <1>6, <1>10, <1>11, <1>12, <1>13, <1>14, <1>15, Zenon DEF SerializerInv
<1> QED
  BY <1>6, <1>16, Zenon DEF Abstract!Next

\* s.reset() makes all of them readable.
LEMMA ResetStep ==
    ASSUME SerializerInv, Reset
    PROVE  SerializerInv' /\ Abstract!Next
<1>1. mode = "put" /\ SetPosition(0) /\ mode' = "get" /\ written' = written /\ got' = got
  BY DEF Reset
<1>2. /\ ArrayInv /\ Len(got) = 0 /\ Queued(written, 0, flat, 0) /\ written \in Seq(Items)
      /\ Len(got) \in 0 .. Len(written) /\ got = [j \in 1 .. Len(got) |-> ArrivedItem(written[j])]
  BY <1>1, Zenon DEF SerializerInv
<1>3. ArrayInv' /\ Abstract!Seek
  BY <1>1, <1>2, SetPositionStep, Zenon
<1>4. position' = 0 /\ size' = larger(size, 0) /\ mem' = mem /\ size \in Nat
  BY <1>1, <1>2 DEF SetPosition, seek, ArrayInv
<1>5. size' = size
  BY <1>4 DEF larger
<1>6. flat' = flat
  BY <1>4, <1>5 DEF flat
<1>7. mode' # "put" /\ mode' # "over" /\ mode' \in {"put", "get", "raw", "over", "crashed"}
  BY <1>1
<1>8. SerializerInv'
  BY <1>1, <1>2, <1>3, <1>4, <1>6, <1>7, Zenon DEF SerializerInv
<1> QED
  BY <1>3, <1>8, Zenon DEF Abstract!Next

\* s >> v reads the first one that is left.
LEMMA GetStep ==
    ASSUME SerializerInv, Get
    PROVE  SerializerInv' /\ Abstract!Next
<1>1. mode = "get" /\ Len(got) < Len(written) /\ mode' = mode /\ written' = written
  BY DEF Get
<1>2. /\ ArrayInv /\ Queued(written, Len(got), flat, position) /\ written \in Seq(Items)
      /\ Len(got) \in 0 .. Len(written) /\ got = [j \in 1 .. Len(got) |-> ArrivedItem(written[j])]
  BY <1>1, Zenon DEF SerializerInv
<1>3. PICK x \in Seq(Items), k \in Nat : x = written /\ k = Len(got) /\ k < Len(x) /\ k + 1 \in 1 .. Len(x)
  <2>1. Len(written) \in Nat /\ Len(got) \in Nat
    BY <1>2
  <2>2. Len(got) + 1 \in 1 .. Len(written)
    BY <1>1, <2>1
  <2> QED
    BY <1>1, <1>2, <2>1, <2>2, Zenon
<1>4. PICK f \in Seq(Cells), p \in Nat, n \in Nat :
         /\ f = flat /\ p = position /\ n = readable /\ Len(f) = p + n /\ size = p + n
  <2>1. flat \in Seq(Cells) /\ Len(flat) = size
    BY <1>2, FlatIs
  <2>2. position \in Nat /\ size \in Nat /\ position <= size
    BY <1>2, ArrayFacts
  <2>3. readable \in Nat /\ size = position + readable
    BY <2>2 DEF readable
  <2> QED
    BY <2>1, <2>2, <2>3
<1>5. PICK item \in Items : item = x[k + 1]
  BY <1>3
<1>6. PICK w \in Seq(Byte) : w = serialize(item)
  BY DeserializeIs
<1>7. In(w, f, p) /\ Queued(x, k + 1, f, p + Len(w))
  <2>1. Queued(x, k, f, p)
    BY <1>2, <1>3, <1>4, Zenon
  <2>2. In(serialize(x[k + 1]), f, p) /\ Queued(x, k + 1, f, p + Len(serialize(x[k + 1])))
    BY <1>3, <2>1, QueuedNext, Zenon
  <2> QED
    BY <1>5, <1>6, <2>2, Zenon
<1>8. fetch(n) = SubSeq(f, p + 1, Len(f))
  <2>1. position + n <= size
    BY <1>4
  <2>2. fetch(n) = SubSeq(flat, position + 1, position + n)
    BY <1>2, <2>1, FetchIs
  <2> QED
    BY <1>4, <2>2, Zenon
<1>9. PICK s \in Seq(Cells) : s = fetch(n) /\ In(w, s, 0)
  BY <1>7, <1>8, InRest, Zenon
<1>10. PICK d : d = deserialize(item.container, item.of, s)
  OBVIOUS
<1>11. d = [val |-> ArrivedItem(item), len |-> Len(w)]
  BY <1>6, <1>9, <1>10, DeserializeIs, Zenon
<1>12. d.val = ArrivedItem(item) /\ d.len = Len(w)
  BY <1>11
<1>13. Read(Len(w)) /\ got' = Append(got, ArrivedItem(item))
  <2>1. /\ Read(deserialize(written[Len(got) + 1].container, written[Len(got) + 1].of, fetch(readable)).len)
        /\ got' = Append(got, deserialize(written[Len(got) + 1].container, written[Len(got) + 1].of,
                                          fetch(readable)).val)
    BY DEF Get
  <2>2. written[Len(got) + 1] = item /\ fetch(readable) = s
    BY <1>3, <1>4, <1>5, <1>9, Zenon
  <2>3. Read(d.len) /\ got' = Append(got, d.val)
    BY <1>10, <2>1, <2>2, Zenon
  <2> QED
    BY <1>12, <2>3, Zenon
<1>14. ArrayInv' /\ Abstract!Read
  <2>1. Len(w) \in Nat /\ Len(w) <= n
    <3>1. p + Len(w) <= Len(f)
      BY <1>7 DEF In
    <3>2. Len(w) \in Nat
      OBVIOUS
    <3> QED
      BY <1>4, <3>1, <3>2
  <2>2. Len(w) > 0
    BY <1>13 DEF Read
  <2>3. Len(w) \in 1 .. readable
    BY <1>4, <2>1, <2>2
  <2> QED
    BY <1>2, <1>13, <2>3, ReadStep, Zenon
<1>15. position' = p + Len(w) /\ flat' = flat
  BY <1>4, <1>13 DEF Read, flat
<1>16. PICK a : a = [j \in 1 .. Len(x) |-> ArrivedItem(x[j])]
  OBVIOUS
<1>17. got = [j \in 1 .. k |-> a[j]] /\ a[k + 1] = ArrivedItem(item)
  <2>1. \A j \in 1 .. k : j \in 1 .. Len(x)
    BY <1>3
  <2>2. [j \in 1 .. k |-> a[j]] = [j \in 1 .. k |-> ArrivedItem(x[j])]
    BY <1>16, <2>1
  <2> QED
    BY <1>2, <1>3, <1>5, <1>16, <2>2, Zenon
<1>18. got' = [j \in 1 .. k + 1 |-> a[j]]
  <2>1. Append([j \in 1 .. k |-> a[j]], a[k + 1]) = [j \in 1 .. k + 1 |-> a[j]]
    BY AppendIs
  <2> QED
    BY <1>13, <1>17, <2>1, Zenon
<1>19. got' = [j \in 1 .. k + 1 |-> ArrivedItem(x[j])]
  <2>1. \A j \in 1 .. k + 1 : j \in 1 .. Len(x)
    BY <1>3
  <2>2. [j \in 1 .. k + 1 |-> a[j]] = [j \in 1 .. k + 1 |-> ArrivedItem(x[j])]
    BY <1>16, <2>1
  <2> QED
    BY <1>18, <2>2, Zenon
<1>20. Len(got') = k + 1
  <2>1. PICK V : V = {a[j] : j \in 1 .. k + 1}
    OBVIOUS
  <2>2. got' \in [1 .. k + 1 -> V] /\ k + 1 \in Nat
    BY <1>18, <2>1
  <2> QED
    BY <2>2, IsASeq
<1>21. Len(got') \in 0 .. Len(written')
  BY <1>1, <1>3, <1>20
<1>22. got' = [j \in 1 .. Len(got') |-> ArrivedItem(written'[j])]
  BY <1>1, <1>3, <1>19, <1>20, Zenon
<1>23. Queued(written', Len(got'), flat', position')
  BY <1>1, <1>3, <1>4, <1>7, <1>15, <1>20, Zenon
<1>24. mode' # "put" /\ mode' # "over" /\ mode' \in {"put", "get", "raw", "over", "crashed"} /\ written' \in Seq(Items)
  BY <1>1, <1>2
<1>25. SerializerInv'
  BY <1>14, <1>21, <1>22, <1>23, <1>24, Zenon DEF SerializerInv
<1> QED
  BY <1>14, <1>25, Zenon DEF Abstract!Next

\* Serializer(s.toString()) has what is left, from its start.
LEMMA ForwardStep ==
    ASSUME SerializerInv, Forward
    PROVE  SerializerInv' /\ Abstract!Next
<1>1. mode = "get" /\ Fresh(fetch(readable)) /\ mode' = mode /\ written' = written /\ got' = got
  BY DEF Forward
<1>2. /\ ArrayInv /\ Queued(written, Len(got), flat, position) /\ written \in Seq(Items)
      /\ Len(got) \in 0 .. Len(written) /\ got = [j \in 1 .. Len(got) |-> ArrivedItem(written[j])]
  BY <1>1, Zenon DEF SerializerInv
<1>3. PICK f \in Seq(Cells), p \in Nat, n \in Nat :
         /\ f = flat /\ p = position /\ n = readable /\ Len(f) = p + n /\ size = p + n
  <2>1. flat \in Seq(Cells) /\ Len(flat) = size
    BY <1>2, FlatIs
  <2>2. position \in Nat /\ size \in Nat /\ position <= size
    BY <1>2, ArrayFacts
  <2>3. readable \in Nat /\ size = position + readable
    BY <2>2 DEF readable
  <2> QED
    BY <2>1, <2>2, <2>3
<1>4. PICK s \in Seq(Cells) : s = fetch(n) /\ s = SubSeq(f, p + 1, Len(f))
  <2>1. position + n <= size
    BY <1>3
  <2>2. fetch(n) \in Seq(Cells) /\ fetch(n) = SubSeq(flat, position + 1, position + n)
    BY <1>2, <2>1, FetchIs
  <2> QED
    BY <1>3, <2>2, Zenon
<1>5. Fresh(s)
  BY <1>1, <1>3, <1>4, Zenon
<1>6. ArrayInv' /\ Abstract!Assign
  BY <1>5, FreshStep, Zenon
<1>7. flat' = s /\ position' = 0
  BY <1>5, <1>6, Zenon DEF Fresh, Abstract!Assign
<1>8. Queued(written', Len(got'), flat', position')
  <2>1. PICK x \in Seq(Items), k \in Nat : x = written /\ k = Len(got) /\ k <= Len(x)
    <3>1. Len(written) \in Nat /\ Len(got) \in Nat
      BY <1>2
    <3>2. Len(got) <= Len(written)
      BY <1>2, <3>1
    <3> QED
      BY <1>2, <3>1, <3>2, Zenon
  <2>2. p <= Len(f) /\ Queued(x, k, f, p)
    <3>1. Queued(x, k, f, p)
      BY <1>2, <1>3, <2>1, Zenon
    <3> QED
      BY <1>3, <3>1
  <2>3. Queued(x, k, s, 0)
    BY <1>4, <2>1, <2>2, QueuedRest, Zenon
  <2> QED
    BY <1>1, <1>7, <2>1, <2>3, Zenon
<1>9. mode' # "put" /\ mode' # "over" /\ mode' \in {"put", "get", "raw", "over", "crashed"} /\ written' \in Seq(Items)
  BY <1>1, <1>2
<1>10. SerializerInv'
  BY <1>1, <1>2, <1>6, <1>8, <1>9, Zenon DEF SerializerInv
<1> QED
  BY <1>6, <1>10, Zenon DEF Abstract!Next

\* s.clear() starts over.
LEMMA RestartStep ==
    ASSUME SerializerInv, Restart
    PROVE  SerializerInv' /\ Abstract!Next
<1>1. Clear /\ mode' = "put" /\ written' = <<>> /\ got' = <<>>
  BY DEF Restart
<1>2. ArrayInv' /\ Abstract!Assign
  <2>1. ArrayInv
    BY DEF Restart, SerializerInv
  <2> QED
    BY <1>1, <2>1, ClearStep
<1>3. flat' = <<>> /\ position' = 0 /\ size' = 0
  BY <1>1, <1>2, Zenon DEF Clear, Abstract!Assign
<1>4. Queued(written', 0, flat', 0)
  BY <1>1, <1>3, NothingQueued, Zenon
<1>5. written' \in Seq(Items) /\ Len(written') = 0 /\ Len(got') = 0 /\ 0 \in 0 .. 0
  BY <1>1
<1>6. got' = [j \in 1 .. 0 |-> ArrivedItem(written'[j])]
  BY <1>1
<1>7. mode' # "get" /\ mode' # "over" /\ mode' \in {"put", "get", "raw", "over", "crashed"}
  BY <1>1
<1>8. SerializerInv'
  BY <1>2, <1>3, <1>4, <1>5, <1>6, <1>7, Zenon DEF SerializerInv
<1> QED
  BY <1>2, <1>8, Zenon DEF Abstract!Next

\* The operations of an array that is used without encodings.
LEMMA RawStep ==
    ASSUME SerializerInv, Raw
    PROVE  SerializerInv' /\ Abstract!Next
<1>1. mode = "raw" /\ mode' = mode /\ written' = written /\ got' = got
  BY DEF Raw
<1>2. ArrayInv
  BY <1>1 DEF SerializerInv
<1>3. RawWrites \cup {<<>>} \subseteq Seq(Cells) /\ MaxRaw \in Nat
  <2>1. RawWrites \subseteq Seq(Cells) /\ MaxRaw \in Nat
    BY SerializerAssumption DEF Cells
  <2>2. <<>> \in Seq(Cells)
    BY EmptySeq
  <2> QED
    BY <2>1, <2>2, Zenon
<1>4. ArrayInv' /\ Abstract!Next
  <2>1. ASSUME NEW w \in RawWrites \cup {<<>>}, Write(w) PROVE ArrayInv' /\ Abstract!Next
    BY <1>2, <1>3, <2>1, WriteStep DEF Abstract!Next
  <2>2. ASSUME NEW w \in RawWrites \cup {<<>>}, NEW len \in Len(w) .. MaxRaw - position, ReceiveInto(w, len)
        PROVE  ArrayInv' /\ Abstract!Next
    <3>1. w \in Seq(Cells)
      BY <1>3
    <3>2. len \in Nat
      <4>1. position \in Nat /\ Len(w) \in Nat
        BY <1>2, <3>1, ArrayFacts
      <4> QED
        BY <1>3, <4>1
    <3> QED
      BY <1>2, <2>2, <3>1, <3>2, ReceiveStep
  <2>3. ASSUME NEW n \in 1 .. readable, Read(n) \/ SendFrom(n) PROVE ArrayInv' /\ Abstract!Next
    BY <1>2, <2>3, ReadStep DEF Abstract!Next
  <2>4. ASSUME NEW v \in 0 .. MaxRaw, SetPosition(v) PROVE ArrayInv' /\ Abstract!Next
    BY <1>2, <2>4, SetPositionStep DEF Abstract!Next
  <2>5. ASSUME Clear PROVE ArrayInv' /\ Abstract!Next
    BY <1>2, <2>5, ClearStep DEF Abstract!Next
  <2> QED
    BY <2>1, <2>2, <2>3, <2>4, <2>5, Zenon DEF Raw
<1>5. mode' # "put" /\ mode' # "get" /\ mode' # "over" /\ mode' \in {"put", "get", "raw", "over", "crashed"}
  BY <1>1
<1>6. SerializerInv'
  BY <1>1, <1>4, <1>5, Zenon DEF SerializerInv
<1> QED
  BY <1>4, <1>6, Zenon

\* The value of a failing Result is read beyond the end, or the program ends in it.
LEMMA GetUnwrittenStep ==
    ASSUME SerializerInv, GetUnwritten
    PROVE  SerializerInv' /\ [Abstract!Next]_<<flat, position, io>>
<1>1. mode = "get" /\ written' = written /\ got' = got /\ Len(got) = Len(written)
  BY DEF GetUnwritten
<1>2. /\ ArrayInv /\ Queued(written, Len(got), flat, position) /\ written \in Seq(Items)
      /\ Len(got) \in 0 .. Len(written) /\ got = [j \in 1 .. Len(got) |-> ArrivedItem(written[j])]
  BY <1>1, Zenon DEF SerializerInv
<1>3. CASE mode' = "crashed" /\ UNCHANGED arrayVars
  <2>1. UNCHANGED <<mem, curr, position, capacity, size, io>>
    BY <1>3 DEF arrayVars
  <2>2. ArrayInv' /\ flat' = flat
    BY <1>2, <2>1 DEF ArrayInv, InStep, flat
  <2>3. mode' # "put" /\ mode' # "get" /\ mode' # "over"
        /\ mode' \in {"put", "get", "raw", "over", "crashed"}
    BY <1>3
  <2>4. SerializerInv'
    BY <1>1, <1>2, <2>2, <2>3, Zenon DEF SerializerInv
  <2> QED
    BY <2>1, <2>2, <2>4
<1>4. CASE mode' = "over" /\ \E n \in 1 .. Groups : Read(n)
  <2>1. PICK n \in 1 .. Groups : Read(n)
    BY <1>4
  <2>2. Groups \in Nat
    BY GroupsSuffice
  <2>3. n \in Nat /\ n > 0
    BY <2>1, <2>2
  <2>4. /\ position + n <= capacity /\ io' = fetch(n) /\ curr' = curr + (offset + n) \div Base
        /\ position' = position + n /\ mem' = mem /\ capacity' = capacity /\ size' = size
    BY <2>1 DEF Read
  <2>5. /\ mem \in Seq(Block) /\ Len(mem) \in Nat /\ capacity = Base * Len(mem) /\ capacity \in Nat
        /\ size <= capacity /\ size \in Nat /\ position \in Nat /\ position <= size
    BY <1>2, ArrayFacts
  <2>6. curr' = position' \div Base + 1
    BY <1>2, <2>3, <2>4, CurrForward
  <2>7. CurrInStep'
    <3>1. position' \in 0 .. capacity'
      BY <2>3, <2>4, <2>5
    <3> QED
      BY <1>4, <2>4, <2>5, <2>6, <3>1 DEF CurrInStep, Block, Cells
  <2>8. flat' = flat /\ Len(flat) = size
    BY <1>2, <2>4, FlatIs DEF flat
  <2>9. position = size
    <3>1. PICK at \in [Len(got) .. Len(written) -> Nat] :
             at[Len(got)] = position /\ at[Len(written)] = Len(flat)
      BY <1>2, Zenon DEF Queued
    <3> QED
      BY <1>1, <2>8, <3>1, Zenon
  <2>10. Len(io') = n
    <3>1. PICK V : V = {fetch(n)[i] : i \in 1 .. n}
      OBVIOUS
    <3>2. fetch(n) \in [1 .. n -> V]
      BY <3>1 DEF fetch
    <3> QED
      BY <2>3, <2>4, <3>2, IsASeq
  <2>11. Abstract!ReadBeyond
    <3>1. SubSeq(io', 1, 0) = <<>> /\ SubSeq(flat, size + 1, size) = <<>>
      BY <2>5
    <3>2. Len(flat) - position = 0 /\ position <= Len(flat) /\ position + Len(io') > Len(flat)
      BY <2>3, <2>5, <2>8, <2>9, <2>10
    <3>3. SubSeq(io', 1, Len(flat) - position) = SubSeq(flat, position + 1, Len(flat))
      BY <2>8, <2>9, <3>1, <3>2
    <3> QED
      BY <2>4, <2>8, <2>10, <3>2, <3>3 DEF Abstract!ReadBeyond
  <2>12. mode' # "put" /\ mode' # "get" /\ mode' \in {"put", "get", "raw", "over", "crashed"}
    BY <1>4
  <2>13. SerializerInv'
    BY <1>1, <1>2, <1>4, <2>7, <2>12, Zenon DEF SerializerInv
  <2> QED
    BY <2>11, <2>13 DEF Abstract!Next
<1> QED
  BY <1>3, <1>4 DEF GetUnwritten

\* Every step keeps the invariant, and is a step of the abstract specification or none.
LEMMA SerializerSteps ==
    SerializerInv /\ [SerializerNext]_serializerVars
        => SerializerInv' /\ [Abstract!Next]_<<flat, position, io>>
<1> SUFFICES ASSUME SerializerInv, [SerializerNext]_serializerVars
             PROVE  SerializerInv' /\ [Abstract!Next]_<<flat, position, io>>
  OBVIOUS
<1>1. CASE Put
  BY <1>1, PutStep, Zenon
<1>2. CASE Reset
  BY <1>2, ResetStep, Zenon
<1>3. CASE Get
  BY <1>3, GetStep, Zenon
<1>4. CASE Forward
  BY <1>4, ForwardStep, Zenon
<1>5. CASE Restart
  BY <1>5, RestartStep, Zenon
<1>6. CASE Raw
  BY <1>6, RawStep, Zenon
<1>8. CASE GetUnwritten
  BY <1>8, GetUnwrittenStep, Zenon
<1>7. CASE UNCHANGED serializerVars
  <2>1. mem' = mem /\ curr' = curr /\ position' = position /\ capacity' = capacity /\ size' = size
        /\ io' = io /\ mode' = mode /\ written' = written /\ got' = got
    BY <1>7 DEF serializerVars, arrayVars
  <2>2. flat' = flat
    BY <2>1 DEF flat
  <2>3. (ArrayInv => ArrayInv') /\ (CurrInStep => CurrInStep')
    BY <2>1 DEF ArrayInv, InStep, CurrInStep
  <2>4. SerializerInv'
    BY <2>1, <2>2, <2>3, Zenon DEF SerializerInv
  <2> QED
    BY <2>1, <2>2, <2>4
<1> QED
  BY <1>1, <1>2, <1>3, <1>4, <1>5, <1>6, <1>7, <1>8, Zenon DEF SerializerNext

\* What arrived satisfies RoundTrip.
LEMMA ArrivedWhole == SerializerInv => RoundTrip
<1> SUFFICES ASSUME SerializerInv PROVE RoundTrip
  OBVIOUS
<1>1. /\ written \in Seq(Items) /\ Len(got) \in 0 .. Len(written)
      /\ got = [j \in 1 .. Len(got) |-> ArrivedItem(written[j])]
  BY Zenon DEF SerializerInv
<1> SUFFICES ASSUME NEW i \in DOMAIN got
             PROVE  /\ Len(got[i]) = Len(written[i].rows)
                    /\ \A r \in DOMAIN got[i] : \A f \in DOMAIN written[i].of :
                          write(written[i].of[f], written[i].rows[r][f]) # <<>>
                              => got[i][r][f] = written[i].rows[r][f]
  BY Zenon DEF RoundTrip
<1>2. i \in 1 .. Len(got)
  BY <1>1, Zenon
<1>3. i \in 1 .. Len(written)
  <2>1. Len(written) \in Nat /\ Len(got) \in Nat
    BY <1>1
  <2> QED
    BY <1>1, <1>2, <2>1
<1>4. PICK item \in Items : item = written[i]
  BY <1>1, <1>3
<1>5. got[i] = ArrivedItem(item)
  BY <1>1, <1>2, <1>4, Zenon
<1>6. /\ item.of \in Seq(STRING) /\ DOMAIN item.rows = 1 .. Len(item.rows)
      /\ Len(item.rows) \in IF item.container THEN 0 .. 2 ^ Width - 1 ELSE {1}
      /\ \A r \in DOMAIN item.rows : \A f \in DOMAIN item.of : Fits(item.of[f], item.rows[r][f])
  BY ItemsAssumption, Zenon
<1>7. PICK n \in Nat : n = Len(item.rows)
  <2>1. 2 ^ Width \in Nat
    BY GroupsSuffice
  <2>2. Len(item.rows) \in Nat
    <3>1. CASE item.container
      BY <1>6, <2>1, <3>1
    <3>2. CASE ~item.container
      BY <1>6, <3>2
    <3> QED
      BY <3>1, <3>2
  <2> QED
    BY <2>2
<1>8. got[i] = [r \in 1 .. n |-> ArrivedRow(item.of, item.rows[r])]
  BY <1>5, <1>7, Zenon DEF ArrivedItem
<1>9. Len(got[i]) = n
  <2>1. PICK g, V : g = got[i] /\ V = {ArrivedRow(item.of, item.rows[r]) : r \in 1 .. n}
    OBVIOUS
  <2>2. g \in [1 .. n -> V]
    BY <1>8, <2>1
  <2>3. Len(g) = n
    BY <2>2, IsASeq
  <2> QED
    BY <2>1, <2>3
<1>10. ASSUME NEW r \in DOMAIN got[i], NEW f \in DOMAIN item.of,
              write(item.of[f], item.rows[r][f]) # <<>>
       PROVE  got[i][r][f] = item.rows[r][f]
  <2>1. r \in 1 .. n /\ r \in DOMAIN item.rows
    BY <1>6, <1>7, <1>8, Zenon
  <2>2. got[i][r] = ArrivedRow(item.of, item.rows[r])
    BY <1>8, <2>1, Zenon
  <2>3. f \in 1 .. Len(item.of)
    BY <1>6
  <2>4. got[i][r][f] = Arrived(item.of[f], item.rows[r][f])
    BY <2>2, <2>3, Zenon DEF ArrivedRow
  <2>5. Fits(item.of[f], item.rows[r][f])
    BY <1>6, <2>1, Zenon
  <2>6. Arrived(item.of[f], item.rows[r][f]) = item.rows[r][f]
    BY <1>10, <2>5, ReadIs, Zenon
  <2> QED
    BY <2>4, <2>6, Zenon
<1> QED
  BY <1>4, <1>7, <1>9, <1>10, Zenon

(* The inductive invariant of Serializer: the blocks are in step with the
   position, what was read is what arrives of the first items, and the bytes
   from the position to the end are the encodings of the others, one after
   the other (byte_array.cc:50-148, serializer.h:89-154).                     *)
THEOREM SerializerInvHolds == SerializerSpec => []SerializerInv
  BY SerializerStart, SerializerSteps, PTL DEF SerializerSpec

(* curr_ is the block of position_, also at the end of a block and of the last
   one, and capacity_ the size of all blocks, after any operations on blocks of
   any size (byte_array.cc:50-75,92-94,441-448).                              *)
THEOREM CurrInStepHolds == SerializerSpec => []CurrInStep
<1>1. SerializerInv => CurrInStep
  BY DEF SerializerInv, ArrayInv, InStep, CurrInStep
<1> QED
  BY <1>1, SerializerInvHolds, PTL

(* Every value that has an encoding is read as it was written, whatever the
   size of the blocks, the width of bytes and integers, the values, strings and
   containers and the points at which the rest is handed on
   (serializer.h:89-154, byte_array.cc:184-412).                              *)
THEOREM RoundTripHolds == SerializerSpec => []RoundTrip
  BY ArrivedWhole, SerializerInvHolds, PTL

(* A list of blocks behaves as one string of bytes: every write, receive, read,
   send, move, clear and copy of ByteArray is the step of ByteString of that
   name, and touches no other byte (byte_array.cc:77-148,416-449,491-616,
   socket_stream.cc:18-47).                                                   *)
THEOREM SerializerImplementsByteString == SerializerSpec => ImplementsByteString
<1>1. SerializerInit => Abstract!Init
  BY SerializerStart
<1>2. SerializerInv /\ [SerializerNext]_serializerVars => [Abstract!Next]_<<flat, position, io>>
  BY SerializerSteps
<1> QED
  BY <1>1, <1>2, SerializerInvHolds, PTL DEF SerializerSpec, ImplementsByteString, Abstract!Spec
=============================================================================
