------------------------------- MODULE DataProofs -------------------------------
(***************************************************************************)
(* A file whose lists of values C and the compiler lay out alike has the   *)
(* image that C describes.                                                 *)
(*                                                                         *)
(* The tables of the compiler are one record, as EmitInit has them.  First *)
(* what it does with a row of items, then with all rows of a variable; a   *)
(* variable that is held by the tables is held by all later ones.  The     *)
(* strings of the tables are the first that C counts of the file (Told),   *)
(* so a table that is full has too many to hold.  The inductive invariant  *)
(* Whole says of the variables and functions that are done that they are   *)
(* placed; in the end the strings are put behind the code, and their       *)
(* symbols moved.                                                          *)
(***************************************************************************)
EXTENDS Data, FiniteSetTheorems, WellFoundedInduction, TLAPS

-----------------------------------------------------------------------------
(* What is rounded up to 8. *)
LEMMA Up8 == ASSUME NEW n \in Nat PROVE Up(n, 8) \in Nat /\ Up(n, 8) >= n
BY DEF Up

(* What is rounded up to the size of a member. *)
LEMMA UpSize == ASSUME NEW n \in Nat, NEW m \in Sizes PROVE Up(n, m) \in Nat /\ Up(n, m) >= n
BY DEF Up, Sizes

(* A nonempty set of natural numbers has a least element. *)
LEMMA HasLeast ==
  ASSUME NEW S, S \subseteq Nat, S # {}
  PROVE  Lowest(S) \in S /\ \A y \in S : Lowest(S) <= y
<1> DEFINE R == {ss \in Nat \X Nat : ss[1] < ss[2]}
<1>1. IsWellFoundedOn(R, Nat)
  BY NatLessThanWellFounded DEF OpToRel
<1>2. \A x, y \in Nat : <<y, x>> \in R <=> y < x
  OBVIOUS
<1> HIDE DEF R
<1>3. PICK x \in S : \A y \in S : ~ (<<y, x>> \in R)
  BY <1>1, WFMin, Zenon
<1>4. \A y \in S : x <= y
  <2> TAKE y \in S
  <2>1. x \in Nat /\ y \in Nat
    OBVIOUS
  <2>2. ~ (y < x)
    BY <1>2, <1>3, <2>1, Zenon
  <2> QED
    BY <2>1, <2>2
<1> QED
  BY <1>4 DEF Lowest

(* What holds at a and is handed on holds from there on. *)
LEMMA Onward ==
  ASSUME NEW a \in Nat, NEW n \in Nat, NEW S, a \in S,
         \A p \in a .. n - 1 : p \in S => p + 1 \in S
  PROVE  \A p \in a .. n : p \in S
<1> DEFINE Bad == {p \in a .. n : p \notin S}
<1>1. SUFFICES ASSUME Bad # {} PROVE FALSE
  OBVIOUS
<1>2. PICK p \in Bad : \A q \in Bad : p <= q
  <2>1. Bad \subseteq Nat
    OBVIOUS
  <2> HIDE DEF Bad
  <2> QED
    BY <1>1, <2>1, HasLeast
<1>3. p \in a .. n /\ p \notin S /\ p # a
  BY <1>2
<1>4. p - 1 \in a .. n - 1 /\ p - 1 \in a .. n /\ p - 1 \notin Bad /\ p - 1 + 1 = p
  BY <1>2, <1>3
<1>5. p - 1 \in S
  BY <1>4
<1> QED
  BY <1>3, <1>4, <1>5

(* What Joined has collected after i sequences, of what it had before. *)
JoinedAt(ss, g, i) == IF i = 0 THEN <<>> ELSE g[i - 1] \o ss[i]

(* There is such a function. *)
LEMMA JoinsExist ==
  ASSUME NEW ss, NEW N \in Nat
  PROVE  \E g : g = [i \in 0 .. N |-> JoinedAt(ss, g, i)]
<1> DEFINE Good(n) == \E g : g = [i \in 0 .. n |-> JoinedAt(ss, g, i)]
           Bad == {n \in Nat : ~Good(n)}
<1>1. SUFFICES ASSUME Bad # {} PROVE FALSE
  OBVIOUS
<1>2. PICK n \in Bad : \A m \in Bad : n <= m
  <2>1. Bad \subseteq Nat
    OBVIOUS
  <2> HIDE DEF Bad
  <2> QED
    BY <1>1, <2>1, HasLeast
<1>3. n # 0
  <2> DEFINE g == [i \in 0 .. 0 |-> <<>>]
  <2>1. g = [i \in 0 .. 0 |-> JoinedAt(ss, g, i)]
    BY DEF JoinedAt
  <2>2. Good(0)
    BY <2>1
  <2> QED
    BY <2>2
<1>4. n - 1 \in Nat /\ n - 1 \notin Bad
  BY <1>2, <1>3
<1>5. PICK h : h = [i \in 0 .. n - 1 |-> JoinedAt(ss, h, i)]
  BY <1>4
<1> DEFINE g == [i \in 0 .. n |-> IF i = n THEN JoinedAt(ss, h, n) ELSE h[i]]
<1>6. ASSUME NEW i \in 0 .. n PROVE g[i] = JoinedAt(ss, g, i)
  <2>1. CASE i = n
    <3>1. n - 1 \in 0 .. n /\ n - 1 # n
      BY <1>4
    <3>2. g[n - 1] = h[n - 1]
      BY <3>1
    <3>3. g[i] = JoinedAt(ss, h, n)
      BY <2>1
    <3> HIDE DEF g
    <3> QED
      BY <1>3, <2>1, <3>2, <3>3, Zenon DEF JoinedAt
  <2>2. CASE i # n /\ i # 0
    <3>1. i \in 0 .. n - 1 /\ i - 1 \in 0 .. n /\ i - 1 # n
      BY <2>2
    <3>2. g[i] = h[i] /\ g[i - 1] = h[i - 1]
      BY <2>2, <3>1
    <3>3. h[i] = JoinedAt(ss, h, i)
      BY <1>5, <3>1
    <3> HIDE DEF g
    <3> QED
      BY <2>2, <3>2, <3>3, Zenon DEF JoinedAt
  <2>3. CASE i # n /\ i = 0
    <3>1. i \in 0 .. n - 1
      BY <1>4, <2>3
    <3>2. g[i] = h[i] /\ h[i] = JoinedAt(ss, h, i)
      BY <1>5, <2>3, <3>1
    <3> HIDE DEF g
    <3> QED
      BY <2>3, <3>2, Zenon DEF JoinedAt
  <2> QED
    BY <2>1, <2>2, <2>3
<1>7. g = [i \in 0 .. n |-> JoinedAt(ss, g, i)]
  BY <1>6
<1> HIDE DEF g
<1>8. Good(n)
  BY <1>7
<1> QED
  BY <1>2, <1>8

(* The sequences joined so far, as Joined has them. *)
Upto(ss) == CHOOSE g : g = [i \in 0 .. Len(ss) |-> JoinedAt(ss, g, i)]

(* What is joined from the first i of ss. *)
LEMMA UptoAre ==
  ASSUME NEW ss, Len(ss) \in Nat
  PROVE  /\ Joined(ss) = Upto(ss)[Len(ss)]
         /\ Upto(ss)[0] = <<>>
         /\ \A i \in 1 .. Len(ss) : Upto(ss)[i] = Upto(ss)[i - 1] \o ss[i]
<1> DEFINE N == Len(ss)
           f == Upto(ss)
<1>1. \E g : g = [i \in 0 .. N |-> JoinedAt(ss, g, i)]
  BY JoinsExist
<1>2. f = [i \in 0 .. N |-> JoinedAt(ss, f, i)]
  BY <1>1, Zenon DEF Upto
<1>3. Joined(ss) = f[N]
  BY DEF Joined, Upto, JoinedAt
<1>4. ASSUME NEW i \in 0 .. N PROVE f[i] = JoinedAt(ss, f, i)
  <2> HIDE DEF f
  <2> DEFINE g == f
  <2>1. f = [j \in 0 .. N |-> JoinedAt(ss, g, j)]
    BY <1>2
  <2> HIDE DEF g
  <2>2. f[i] = JoinedAt(ss, g, i)
    BY <2>1
  <2> QED
    BY <2>2 DEF g
<1> HIDE DEF f
<1>5. f[0] = <<>>
  BY <1>4 DEF JoinedAt
<1>6. ASSUME NEW i \in 1 .. N PROVE f[i] = f[i - 1] \o ss[i]
  <2>1. i \in 0 .. N /\ i # 0
    OBVIOUS
  <2> QED
    BY <1>4, <2>1 DEF JoinedAt
<1> QED
  BY <1>3, <1>5, <1>6 DEF f

-----------------------------------------------------------------------------
(* A sequence with more at its end, and what is at place p of the zeros    *)
(* that follow one.                                                        *)
Extends(s, t) == Len(s) <= Len(t) /\ \A i \in 1 .. Len(s) : t[i] = s[i]
ByteAt(s, p)  == IF p \in 1 .. Len(s) THEN s[p] ELSE 0

(* Two sequences, one behind the other. *)
LEMMA JoinedTwo ==
  ASSUME NEW T, NEW s \in Seq(T), NEW t \in Seq(T)
  PROVE  /\ s \o t \in Seq(T) /\ Len(s \o t) = Len(s) + Len(t) /\ Len(s) \in Nat /\ Len(t) \in Nat
         /\ \A p \in 1 .. Len(s) : (s \o t)[p] = s[p]
         /\ \A p \in 1 .. Len(t) : (s \o t)[Len(s) + p] = t[p]
OBVIOUS

(* They are a sequence of the same. *)
LEMMA JoinedIn ==
  ASSUME NEW T, NEW s \in Seq(T), NEW t \in Seq(T)
  PROVE  s \o t \in Seq(T) /\ Len(s \o t) = Len(s) + Len(t)
BY JoinedTwo

(* An element of the first. *)
LEMMA JoinedFirst ==
  ASSUME NEW T, NEW s \in Seq(T), NEW t \in Seq(T), NEW p \in 1 .. Len(s)
  PROVE  (s \o t)[p] = s[p]
BY JoinedTwo

(* An element of the one behind. *)
LEMMA JoinedBehind ==
  ASSUME NEW T, NEW s \in Seq(T), NEW t \in Seq(T), NEW p \in 1 .. Len(t)
  PROVE  (s \o t)[Len(s) + p] = t[p]
OBVIOUS

(* A sequence extends itself. *)
LEMMA ExtendsSelf == ASSUME NEW T, NEW s \in Seq(T) PROVE Extends(s, s)
BY DEF Extends

(* What is appended extends. *)
LEMMA ExtendsMore ==
  ASSUME NEW T, NEW s \in Seq(T), NEW t \in Seq(T)
  PROVE  Extends(s, s \o t)
BY JoinedTwo DEF Extends

(* So does a sequence with one element more. *)
LEMMA ExtendsOne ==
  ASSUME NEW T, NEW s \in Seq(T), NEW e
  PROVE  Len(Append(s, e)) = Len(s) + 1 /\ Extends(s, Append(s, e)) /\ Append(s, e)[Len(s) + 1] = e
<1>1. Len(s) \in Nat OBVIOUS
<1>2. Len(Append(s, e)) = Len(s) + 1 /\ Append(s, e)[Len(s) + 1] = e OBVIOUS
<1>3. \A i \in 1 .. Len(s) : Append(s, e)[i] = s[i] OBVIOUS
<1>4. Len(s) <= Len(s) + 1 BY <1>1
<1> QED BY <1>2, <1>3, <1>4, Zenon DEF Extends

(* What extends an extension extends. *)
LEMMA ExtendsBeyond ==
  ASSUME NEW T, NEW s \in Seq(T), NEW t \in Seq(T), NEW u \in Seq(T), Extends(s, t), Extends(t, u)
  PROVE  Extends(s, u)
BY DEF Extends

(* Zeros are numbers, and what is filled up with them has the same bytes. *)
LEMMA ZerosAre ==
  ASSUME NEW T, 0 \in T, NEW n \in Int
  PROVE  /\ Zeros(n) \in Seq(T) /\ Len(Zeros(n)) = (IF n > 0 THEN n ELSE 0)
         /\ \A p \in 1 .. n : Zeros(n)[p] = 0
<1>1. CASE n >= 0
  BY <1>1 DEF Zeros
<1>2. CASE n < 0
  <2>1. Zeros(n) = <<>>
    BY <1>2 DEF Zeros
  <2> QED
    BY <1>2, <2>1
<1> QED
  BY <1>1, <1>2

(* Zeros behind a sequence change no byte of it, nor those behind. *)
LEMMA WithZeros ==
  ASSUME NEW T, 0 \in T, NEW s \in Seq(T), NEW n \in Int
  PROVE  /\ s \o Zeros(n) \in Seq(T)
         /\ Len(s \o Zeros(n)) = Len(s) + (IF n > 0 THEN n ELSE 0)
         /\ \A p \in Nat : ByteAt(s \o Zeros(n), p) = ByteAt(s, p)
<1> DEFINE z == Zeros(n)
           t == s \o z
<1>1. z \in Seq(T) /\ Len(z) = (IF n > 0 THEN n ELSE 0) /\ \A p \in 1 .. n : z[p] = 0
  BY ZerosAre
<1> HIDE DEF z
<1>2. /\ t \in Seq(T) /\ Len(t) = Len(s) + Len(z) /\ Len(s) \in Nat /\ Len(z) \in Nat
      /\ \A p \in 1 .. Len(s) : t[p] = s[p]
      /\ \A p \in 1 .. Len(z) : t[Len(s) + p] = z[p]
  <2>1. t \in Seq(T) /\ Len(t) = Len(s) + Len(z) /\ Len(s) \in Nat /\ Len(z) \in Nat
    BY <1>1, JoinedTwo
  <2>2. \A p \in 1 .. Len(s) : t[p] = s[p]
    BY <1>1, JoinedTwo, Zenon
  <2>3. \A p \in 1 .. Len(z) : t[Len(s) + p] = z[p]
    BY <1>1, JoinedBehind, Zenon
  <2> HIDE DEF t
  <2> QED
    BY <2>1, <2>2, <2>3
<1> HIDE DEF t
<1>3. ASSUME NEW p \in Nat PROVE ByteAt(t, p) = ByteAt(s, p)
  <2>1. CASE p \in 1 .. Len(s)
    BY <1>2, <2>1 DEF ByteAt
  <2>2. CASE p \in Len(s) + 1 .. Len(t)
    <3>1. p - Len(s) \in 1 .. Len(z) /\ Len(s) + (p - Len(s)) = p /\ p \notin 1 .. Len(s)
      BY <1>2, <2>2
    <3>2. t[p] = 0
      <4> DEFINE q == p - Len(s)
      <4>1. q \in 1 .. n
        BY <1>1, <3>1
      <4>2. t[Len(s) + q] = z[q] /\ z[q] = 0
        <5> HIDE DEF q
        <5> QED
          BY <1>1, <1>2, <3>1, <4>1 DEF q
      <4> QED
        BY <3>1, <4>2
    <3>3. p \in 1 .. Len(t)
      BY <1>2, <2>2
    <3> QED
      BY <3>1, <3>2, <3>3 DEF ByteAt
  <2>3. CASE p \notin 1 .. Len(t)
    <3>1. p \notin 1 .. Len(s)
      BY <1>2, <2>3
    <3> QED
      BY <2>3, <3>1 DEF ByteAt
  <2> QED
    BY <1>2, <2>1, <2>2, <2>3
<1> QED
  BY <1>1, <1>2, <1>3 DEF t, z

(* A sequence filled up to n is as long and holds the same. *)
LEMMA Padded ==
  ASSUME NEW T, 0 \in T, NEW s \in Seq(T), NEW n \in Nat, Len(s) <= n
  PROVE  /\ PadTo(s, n) \in Seq(T) /\ Len(PadTo(s, n)) = n
         /\ \A p \in Nat : ByteAt(PadTo(s, n), p) = ByteAt(s, p)
<1> DEFINE m == n - Len(s)
           t == s \o Zeros(m)
<1>1. Len(s) \in Nat /\ m \in Int /\ m >= 0
  OBVIOUS
<1>2. PadTo(s, n) = t
  BY DEF PadTo
<1>3. t \in Seq(T) /\ Len(t) = Len(s) + (IF m > 0 THEN m ELSE 0)
      /\ \A p \in Nat : ByteAt(t, p) = ByteAt(s, p)
  <2> HIDE DEF m
  <2> QED
    BY <1>1, WithZeros, Zenon
<1> HIDE DEF t
<1>4. Len(t) = n
  BY <1>1, <1>3
<1> QED
  BY <1>2, <1>3, <1>4

(* What the sequences of a sequence are when they are joined. *)
LEMMA UptoFacts ==
  ASSUME NEW T, NEW ss \in Seq(Seq(T))
  PROVE  /\ \A i \in 0 .. Len(ss) : Upto(ss)[i] \in Seq(T)
         /\ \A i \in 1 .. Len(ss) :
              /\ Len(Upto(ss)[i]) = Len(Upto(ss)[i - 1]) + Len(ss[i])
              /\ Extends(Upto(ss)[i - 1], Upto(ss)[i])
              /\ \A k \in 1 .. Len(ss[i]) : Upto(ss)[i][Len(Upto(ss)[i - 1]) + k] = ss[i][k]
         /\ \A i \in 0 .. Len(ss) : Extends(Upto(ss)[i], Joined(ss))
         /\ Joined(ss) \in Seq(T)
<1> DEFINE N == Len(ss)
           f == Upto(ss)
           S == {i \in 0 .. N : f[i] \in Seq(T)}
<1>0. N \in Nat /\ \A i \in 1 .. N : ss[i] \in Seq(T)
  OBVIOUS
<1>1. N \in Nat /\ Joined(ss) = f[N] /\ f[0] = <<>>
      /\ \A i \in 1 .. N : f[i] = f[i - 1] \o ss[i] /\ ss[i] \in Seq(T)
  BY <1>0, UptoAre, Zenon
<1> HIDE DEF N, f
<1>2. 0 \in S
  <2>1. 0 \in 0 .. N /\ <<>> \in Seq(T)
    BY <1>1
  <2> QED
    BY <1>1, <2>1, Zenon
<1>3. \A i \in 0 .. N - 1 : i \in S => i + 1 \in S
  <2> SUFFICES ASSUME NEW i \in 0 .. N - 1, i \in S PROVE i + 1 \in S
    OBVIOUS
  <2>1. i + 1 \in 1 .. N /\ i + 1 \in 0 .. N /\ (i + 1) - 1 = i
    BY <1>1
  <2>2. f[i + 1] = f[i] \o ss[i + 1] /\ ss[i + 1] \in Seq(T)
    BY <1>1, <2>1, Zenon
  <2>3. f[i + 1] \in Seq(T)
    <3>1. f[i] \in Seq(T)
      BY Zenon
    <3>2. f[i] \o ss[i + 1] \in Seq(T)
      BY <2>2, <3>1, JoinedIn, Zenon
    <3> QED
      BY <2>2, <3>2, Zenon
  <2> QED
    BY <2>1, <2>3
<1>4. \A i \in 0 .. N : i \in S
  <2> HIDE DEF S
  <2> QED
    BY <1>1, <1>2, <1>3, Onward
<1>5. \A i \in 0 .. N : f[i] \in Seq(T)
  BY <1>4
<1>6. ASSUME NEW i \in 1 .. N
      PROVE  /\ Len(f[i]) = Len(f[i - 1]) + Len(ss[i])
             /\ Extends(f[i - 1], f[i])
             /\ \A k \in 1 .. Len(ss[i]) : f[i][Len(f[i - 1]) + k] = ss[i][k]
  <2>1. i - 1 \in 0 .. N
    BY <1>1
  <2>2. f[i - 1] \in Seq(T) /\ ss[i] \in Seq(T) /\ f[i] = f[i - 1] \o ss[i]
    BY <1>1, <1>5, <2>1
  <2> QED
    <3> DEFINE u == f[i - 1]
               v == ss[i]
    <3>1. u \in Seq(T) /\ v \in Seq(T) /\ f[i] = u \o v
      BY <2>2
    <3> HIDE DEF u, v
    <3>2. Len(u \o v) = Len(u) + Len(v)
      BY <3>1, JoinedTwo, Zenon
    <3>3. Extends(u, u \o v)
      BY <3>1, ExtendsMore, Zenon
    <3>4. \A k \in 1 .. Len(v) : (u \o v)[Len(u) + k] = v[k]
      BY <3>1, JoinedBehind, Zenon
    <3>5. /\ Len(f[i]) = Len(u) + Len(v) /\ Extends(u, f[i])
          /\ \A k \in 1 .. Len(v) : f[i][Len(u) + k] = v[k]
      BY <3>1, <3>2, <3>3, <3>4, Zenon
    <3> QED
      BY <3>5, Zenon DEF u, v
<1>7. ASSUME NEW i \in 0 .. N PROVE Extends(f[i], f[N])
  <2> DEFINE E == {j \in i .. N : Extends(f[i], f[j])}
  <2>0. i \in Nat
    BY <1>1
  <2>1. i \in E
    BY <1>1, <1>5, ExtendsSelf
  <2>2. \A j \in i .. N - 1 : j \in E => j + 1 \in E
    <3> SUFFICES ASSUME NEW j \in i .. N - 1, Extends(f[i], f[j]) PROVE j + 1 \in E
      OBVIOUS
    <3>1. j + 1 \in 1 .. N /\ j + 1 \in i .. N /\ (j + 1) - 1 = j /\ j \in 0 .. N /\ j + 1 \in 0 .. N
      BY <1>1
    <3>2. Extends(f[j], f[j + 1])
      BY <1>6, <3>1
    <3>3. Extends(f[i], f[j + 1])
      BY <1>5, <3>1, <3>2, ExtendsBeyond
    <3> QED
      BY <3>1, <3>3
  <2>3. \A j \in i .. N : j \in E
    <3> HIDE DEF E
    <3> QED
      BY <1>1, <2>0, <2>1, <2>2, Onward
  <2>4. N \in i .. N
    BY <1>1
  <2> QED
    BY <2>3, <2>4
<1> QED
  <2>1. N \in 0 .. N
    BY <1>1
  <2>2. Joined(ss) \in Seq(T)
    BY <1>1, <1>5, <2>1
  <2>3. \A i \in 0 .. N : Extends(f[i], Joined(ss))
    BY <1>1, <1>7, Zenon
  <2> QED
    BY <1>5, <1>6, <2>2, <2>3, Zenon DEF f, N

-----------------------------------------------------------------------------
(* Where C has a member, of where it has the one before it. *)
OffsetAt(ms, g, i) == IF i = 1 THEN 0 ELSE Up(g[i - 1] + ms[i - 1], ms[i])

(* There is such a function. *)
LEMMA OffsetsExist ==
  ASSUME NEW ms, NEW N \in Nat
  PROVE  \E g : g = [i \in 1 .. N |-> OffsetAt(ms, g, i)]
<1> DEFINE Good(n) == \E g : g = [i \in 1 .. n |-> OffsetAt(ms, g, i)]
           Bad == {n \in Nat : ~Good(n)}
<1>1. SUFFICES ASSUME Bad # {} PROVE FALSE
  OBVIOUS
<1>2. PICK n \in Bad : \A m \in Bad : n <= m
  <2>1. Bad \subseteq Nat
    OBVIOUS
  <2> HIDE DEF Bad
  <2> QED
    BY <1>1, <2>1, HasLeast
<1>3. n # 0
  <2> DEFINE g == [i \in 1 .. 0 |-> <<>>]
  <2>1. g = [i \in 1 .. 0 |-> OffsetAt(ms, g, i)]
    BY DEF OffsetAt
  <2>2. Good(0)
    BY <2>1
  <2> QED
    BY <2>2
<1>4. n - 1 \in Nat /\ n - 1 \notin Bad
  BY <1>2, <1>3
<1>5. PICK h : h = [i \in 1 .. n - 1 |-> OffsetAt(ms, h, i)]
  BY <1>4
<1> DEFINE g == [i \in 1 .. n |-> IF i = n THEN OffsetAt(ms, h, n) ELSE h[i]]
<1>6. ASSUME NEW i \in 1 .. n PROVE g[i] = OffsetAt(ms, g, i)
  <2>1. CASE i = n /\ i # 1
    <3>1. n - 1 \in 1 .. n /\ n - 1 # n
      BY <1>4, <2>1
    <3>2. g[n - 1] = h[n - 1]
      BY <3>1
    <3>3. g[i] = OffsetAt(ms, h, n)
      BY <2>1
    <3> HIDE DEF g
    <3> QED
      BY <2>1, <3>2, <3>3, Zenon DEF OffsetAt
  <2>2. CASE i # n /\ i # 1
    <3>1. i \in 1 .. n - 1 /\ i - 1 \in 1 .. n /\ i - 1 # n
      BY <2>2
    <3>2. g[i] = h[i] /\ g[i - 1] = h[i - 1]
      BY <2>2, <3>1
    <3>3. h[i] = OffsetAt(ms, h, i)
      BY <1>5, <3>1
    <3> HIDE DEF g
    <3> QED
      BY <2>2, <3>2, <3>3, Zenon DEF OffsetAt
  <2>3. CASE i # n /\ i = 1
    <3>1. i \in 1 .. n - 1
      BY <1>4, <2>3
    <3>2. g[i] = h[i] /\ h[i] = OffsetAt(ms, h, i)
      BY <1>5, <2>3, <3>1
    <3> HIDE DEF g
    <3> QED
      BY <2>3, <3>2, Zenon DEF OffsetAt
  <2>4. CASE i = n /\ i = 1
    <3>1. g[i] = OffsetAt(ms, h, n)
      BY <2>4
    <3> HIDE DEF g
    <3> QED
      BY <2>4, <3>1, Zenon DEF OffsetAt
  <2> QED
    BY <2>1, <2>2, <2>3, <2>4
<1>7. g = [i \in 1 .. n |-> OffsetAt(ms, g, i)]
  BY <1>6
<1> HIDE DEF g
<1>8. Good(n)
  BY <1>7
<1> QED
  BY <1>2, <1>8

(* The offset of a member, from the one before. *)
LEMMA OffsetsAre ==
  ASSUME NEW ms \in Seq(Sizes)
  PROVE  \A i \in 1 .. Len(ms) :
           Offsets(ms)[i] = IF i = 1 THEN 0 ELSE Up(Offsets(ms)[i - 1] + ms[i - 1], ms[i])
<1> DEFINE N == Len(ms)
           f == Offsets(ms)
<1>0. N \in Nat /\ DOMAIN ms = 1 .. N
  OBVIOUS
<1>1. \E g : g = [i \in 1 .. N |-> OffsetAt(ms, g, i)]
  BY <1>0, OffsetsExist
<1>2. f = [i \in 1 .. N |-> OffsetAt(ms, f, i)]
  <2> HIDE DEF N
  <2> QED
    BY <1>0, <1>1, Zenon DEF Offsets, OffsetAt
<1> HIDE DEF N, f
<1>3. ASSUME NEW i \in 1 .. N PROVE f[i] = OffsetAt(ms, f, i)
  <2> DEFINE g == f
  <2>1. f = [j \in 1 .. N |-> OffsetAt(ms, g, j)]
    BY <1>2
  <2> HIDE DEF g
  <2>2. f[i] = OffsetAt(ms, g, i)
    BY <2>1
  <2> QED
    BY <2>2 DEF g
<1> QED
  BY <1>3, Zenon DEF f, N, OffsetAt

(* Members follow each other, inside of the structure. *)
LEMMA MostIs ==
  ASSUME NEW S, S \subseteq Sizes, S # {}
  PROVE  Most(S) \in Sizes
<1>1. \E x \in S : \A y \in S : y <= x
  <2>1. CASE 8 \in S
    BY <2>1 DEF Sizes
  <2>2. CASE 8 \notin S /\ 4 \in S
    BY <2>2 DEF Sizes
  <2>3. CASE 8 \notin S /\ 4 \notin S /\ 2 \in S
    BY <2>3 DEF Sizes
  <2>4. CASE 8 \notin S /\ 4 \notin S /\ 2 \notin S
    <3>1. \A x \in S : x = 1
      BY <2>4 DEF Sizes
    <3>2. PICK x \in S : x = 1
      BY <3>1
    <3> QED
      BY <3>1, <3>2
  <2> QED
    BY <2>1, <2>2, <2>3, <2>4
<1> QED
  BY <1>1 DEF Most

(* Members do not overlap and are inside of the structure. *)
LEMMA Layout ==
  ASSUME NEW ms \in Seq(Sizes), ms # <<>>
  PROVE  /\ Len(ms) \in Nat /\ Len(ms) > 0
         /\ \A i \in 1 .. Len(ms) : ms[i] \in Sizes /\ ms[i] \in Nat /\ ms[i] > 0
         /\ \A i \in 1 .. Len(ms) : Offsets(ms)[i] \in Nat
         /\ \A i, j \in 1 .. Len(ms) : i < j => Offsets(ms)[i] + ms[i] <= Offsets(ms)[j]
         /\ \A i \in 1 .. Len(ms) : Offsets(ms)[i] + ms[i] <= StructSize(ms)
         /\ StructSize(ms) \in Nat /\ StructSize(ms) > 0
         /\ Offsets(ms)[1] = 0
<1> DEFINE N == Len(ms)
           f == Offsets(ms)
<1>1. N \in Nat /\ N > 0 /\ \A i \in 1 .. N : ms[i] \in Sizes
  OBVIOUS
<1>2. \A i \in 1 .. N : ms[i] \in Nat /\ ms[i] > 0
  BY <1>1 DEF Sizes
<1>3. \A i \in 1 .. N : f[i] = IF i = 1 THEN 0 ELSE Up(f[i - 1] + ms[i - 1], ms[i])
  BY OffsetsAre
<1> HIDE DEF N, f
<1>4. f[1] = 0
  BY <1>1, <1>3
<1> DEFINE S == {i \in 1 .. N : f[i] \in Nat}
<1>5. 1 \in S
  BY <1>1, <1>4
<1>6. ASSUME NEW i \in 1 .. N - 1, f[i] \in Nat
      PROVE  f[i + 1] \in Nat /\ f[i] + ms[i] <= f[i + 1]
  <2>1. i \in 1 .. N /\ i + 1 \in 1 .. N /\ i + 1 # 1 /\ (i + 1) - 1 = i
    BY <1>1
  <2>2. f[i + 1] = Up(f[i] + ms[i], ms[i + 1])
    BY <1>3, <2>1
  <2>3. f[i] + ms[i] \in Nat /\ ms[i + 1] \in Sizes
    BY <1>1, <1>2, <1>6, <2>1
  <2> QED
    BY <2>2, <2>3, UpSize
<1>7. \A i \in 1 .. N - 1 : i \in S => i + 1 \in S
  BY <1>1, <1>6
<1>8. \A i \in 1 .. N : f[i] \in Nat
  <2>1. \A i \in 1 .. N : i \in S
    <3> HIDE DEF S
    <3> QED
      BY <1>1, <1>5, <1>7, Onward
  <2> QED
    BY <2>1
<1>9. ASSUME NEW i \in 1 .. N, NEW j \in 1 .. N, i < j
      PROVE  f[i] + ms[i] <= f[j]
  <2> DEFINE E == {k \in i + 1 .. N : f[i] + ms[i] <= f[k]}
  <2>1. i \in 1 .. N - 1 /\ i + 1 \in Nat /\ i + 1 \in i + 1 .. N /\ j \in i + 1 .. N
    BY <1>1, <1>9
  <2>2. i + 1 \in E
    BY <1>6, <1>8, <2>1
  <2>3. ASSUME NEW k \in i + 1 .. N - 1, k \in E PROVE k + 1 \in E
    <3>1. k \in 1 .. N - 1 /\ k \in 1 .. N /\ k + 1 \in i + 1 .. N /\ k + 1 \in 1 .. N
      BY <1>1
    <3>2. f[k] + ms[k] <= f[k + 1] /\ f[i] + ms[i] <= f[k]
      BY <1>6, <1>8, <2>3, <3>1
    <3>3. f[k] \in Nat /\ f[k + 1] \in Nat /\ ms[k] \in Nat /\ f[i] \in Nat /\ ms[i] \in Nat
      BY <1>2, <1>8, <3>1
    <3>4. f[i] + ms[i] <= f[k + 1]
      BY <3>2, <3>3
    <3> QED
      BY <3>1, <3>4
  <2>4. \A k \in i + 1 .. N : k \in E
    <3> HIDE DEF E
    <3> QED
      BY <1>1, <2>1, <2>2, <2>3, Onward
  <2> QED
    BY <2>1, <2>4
<1> DEFINE M == Most({ms[i] : i \in DOMAIN ms})
           last == f[N] + ms[N]
<1>10. M \in Sizes
  <2>1. DOMAIN ms = 1 .. N
    BY DEF N
  <2>2. {ms[i] : i \in DOMAIN ms} \subseteq Sizes /\ ms[1] \in {ms[i] : i \in DOMAIN ms}
    BY <1>1, <2>1
  <2> QED
    BY <2>2, MostIs
<1>11. last \in Nat /\ last > 0 /\ N \in 1 .. N
  BY <1>1, <1>2, <1>8
<1>12. StructSize(ms) = Up(last, M)
  BY DEF StructSize, f, N
<1> HIDE DEF M
<1>13. StructSize(ms) \in Nat /\ StructSize(ms) >= last
  BY <1>10, <1>11, <1>12, UpSize
<1>14. ASSUME NEW i \in 1 .. N PROVE f[i] + ms[i] <= StructSize(ms)
  <2>1. f[i] \in Nat /\ ms[i] \in Nat /\ f[N] \in Nat /\ ms[N] \in Nat
    BY <1>2, <1>8, <1>11
  <2>2. CASE i = N
    BY <1>13, <2>2
  <2>3. CASE i < N
    <3>1. f[i] + ms[i] <= f[N]
      BY <1>9, <1>11, <2>3
    <3> QED
      BY <1>13, <2>1, <3>1
  <2> QED
    BY <1>1, <2>2, <2>3
<1>15. StructSize(ms) > 0
  BY <1>11, <1>13
<1> HIDE DEF last
<1> QED
  BY <1>1, <1>2, <1>4, <1>8, <1>9, <1>13, <1>14, <1>15 DEF f, N

-----------------------------------------------------------------------------
(* Where the items of an element begin. *)
BeginAt(d, row, g, i) == IF i = 1 THEN 0 ELSE g[i - 1] + Wide(d, row[i - 1])

(* There is such a function. *)
LEMMA BeginsExist ==
  ASSUME NEW d, NEW row, NEW N \in Nat
  PROVE  \E g : g = [i \in 1 .. N |-> BeginAt(d, row, g, i)]
<1> DEFINE Good(n) == \E g : g = [i \in 1 .. n |-> BeginAt(d, row, g, i)]
           Bad == {n \in Nat : ~Good(n)}
<1>1. SUFFICES ASSUME Bad # {} PROVE FALSE
  OBVIOUS
<1>2. PICK n \in Bad : \A m \in Bad : n <= m
  <2>1. Bad \subseteq Nat
    OBVIOUS
  <2> HIDE DEF Bad
  <2> QED
    BY <1>1, <2>1, HasLeast
<1>3. n # 0
  <2> DEFINE g == [i \in 1 .. 0 |-> <<>>]
  <2>1. g = [i \in 1 .. 0 |-> BeginAt(d, row, g, i)]
    BY DEF BeginAt
  <2>2. Good(0)
    BY <2>1
  <2> QED
    BY <2>2
<1>4. n - 1 \in Nat /\ n - 1 \notin Bad
  BY <1>2, <1>3
<1>5. PICK h : h = [i \in 1 .. n - 1 |-> BeginAt(d, row, h, i)]
  BY <1>4
<1> DEFINE g == [i \in 1 .. n |-> IF i = n THEN BeginAt(d, row, h, n) ELSE h[i]]
<1>6. ASSUME NEW i \in 1 .. n PROVE g[i] = BeginAt(d, row, g, i)
  <2>1. CASE i = n /\ i # 1
    <3>1. n - 1 \in 1 .. n /\ n - 1 # n
      BY <1>4, <2>1
    <3>2. g[n - 1] = h[n - 1]
      BY <3>1
    <3>3. g[i] = BeginAt(d, row, h, n)
      BY <2>1
    <3> HIDE DEF g
    <3> QED
      BY <2>1, <3>2, <3>3, Zenon DEF BeginAt
  <2>2. CASE i # n /\ i # 1
    <3>1. i \in 1 .. n - 1 /\ i - 1 \in 1 .. n /\ i - 1 # n
      BY <2>2
    <3>2. g[i] = h[i] /\ g[i - 1] = h[i - 1]
      BY <2>2, <3>1
    <3>3. h[i] = BeginAt(d, row, h, i)
      BY <1>5, <3>1
    <3> HIDE DEF g
    <3> QED
      BY <2>2, <3>2, <3>3, Zenon DEF BeginAt
  <2>3. CASE i # n /\ i = 1
    <3>1. i \in 1 .. n - 1
      BY <1>4, <2>3
    <3>2. g[i] = h[i] /\ h[i] = BeginAt(d, row, h, i)
      BY <1>5, <2>3, <3>1
    <3> HIDE DEF g
    <3> QED
      BY <2>3, <3>2, Zenon DEF BeginAt
  <2>4. CASE i = n /\ i = 1
    <3>1. g[i] = BeginAt(d, row, h, n)
      BY <2>4
    <3> HIDE DEF g
    <3> QED
      BY <2>4, <3>1, Zenon DEF BeginAt
  <2> QED
    BY <2>1, <2>2, <2>3, <2>4
<1>7. g = [i \in 1 .. n |-> BeginAt(d, row, g, i)]
  BY <1>6
<1> HIDE DEF g
<1>8. Good(n)
  BY <1>7
<1> QED
  BY <1>2, <1>8

(* Where an item begins, from the one before. *)
LEMMA BeginsAre ==
  ASSUME NEW d, NEW row, Len(row) \in Nat
  PROVE  \A i \in 1 .. Len(row) + 1 :
           Begin(d, row)[i] = IF i = 1 THEN 0 ELSE Begin(d, row)[i - 1] + Wide(d, row[i - 1])
<1> DEFINE N == Len(row) + 1
           f == Begin(d, row)
<1>0. N \in Nat
  OBVIOUS
<1>1. \E g : g = [i \in 1 .. N |-> BeginAt(d, row, g, i)]
  BY <1>0, BeginsExist
<1>2. f = [i \in 1 .. N |-> BeginAt(d, row, f, i)]
  BY <1>1, Zenon DEF Begin, BeginAt
<1> HIDE DEF N, f
<1>3. ASSUME NEW i \in 1 .. N PROVE f[i] = BeginAt(d, row, f, i)
  <2> DEFINE g == f
  <2>1. f = [j \in 1 .. N |-> BeginAt(d, row, g, j)]
    BY <1>2
  <2> HIDE DEF g
  <2>2. f[i] = BeginAt(d, row, g, i)
    BY <2>1
  <2> QED
    BY <2>2 DEF g
<1> QED
  BY <1>3, Zenon DEF f, N, BeginAt

-----------------------------------------------------------------------------
(* What cgen_emit_data_init has after i items. *)
EmittedAt(R, node, g, i) == IF i = 0 THEN R ELSE EmitItem(g[i - 1], node.items[i], node)

(* There is such a function. *)
LEMMA EmitsExist ==
  ASSUME NEW R, NEW node, NEW N \in Nat
  PROVE  \E g : g = [i \in 0 .. N |-> EmittedAt(R, node, g, i)]
<1> DEFINE Good(n) == \E g : g = [i \in 0 .. n |-> EmittedAt(R, node, g, i)]
           Bad == {n \in Nat : ~Good(n)}
<1>1. SUFFICES ASSUME Bad # {} PROVE FALSE
  OBVIOUS
<1>2. PICK n \in Bad : \A m \in Bad : n <= m
  <2>1. Bad \subseteq Nat
    OBVIOUS
  <2> HIDE DEF Bad
  <2> QED
    BY <1>1, <2>1, HasLeast
<1>3. n # 0
  <2> DEFINE g == [i \in 0 .. 0 |-> R]
  <2>1. g = [i \in 0 .. 0 |-> EmittedAt(R, node, g, i)]
    BY DEF EmittedAt
  <2>2. Good(0)
    BY <2>1
  <2> QED
    BY <2>2
<1>4. n - 1 \in Nat /\ n - 1 \notin Bad
  BY <1>2, <1>3
<1>5. PICK h : h = [i \in 0 .. n - 1 |-> EmittedAt(R, node, h, i)]
  BY <1>4
<1> DEFINE g == [i \in 0 .. n |-> IF i = n THEN EmittedAt(R, node, h, n) ELSE h[i]]
<1>6. ASSUME NEW i \in 0 .. n PROVE g[i] = EmittedAt(R, node, g, i)
  <2>1. CASE i = n /\ i # 0
    <3>1. n - 1 \in 0 .. n /\ n - 1 # n
      BY <1>4, <2>1
    <3>2. g[n - 1] = h[n - 1]
      BY <3>1
    <3>3. g[i] = EmittedAt(R, node, h, n)
      BY <2>1
    <3> HIDE DEF g
    <3> QED
      BY <2>1, <3>2, <3>3, Zenon DEF EmittedAt
  <2>2. CASE i # n /\ i # 0
    <3>1. i \in 0 .. n - 1 /\ i - 1 \in 0 .. n /\ i - 1 # n
      BY <2>2
    <3>2. g[i] = h[i] /\ g[i - 1] = h[i - 1]
      BY <2>2, <3>1
    <3>3. h[i] = EmittedAt(R, node, h, i)
      BY <1>5, <3>1
    <3> HIDE DEF g
    <3> QED
      BY <2>2, <3>2, <3>3, Zenon DEF EmittedAt
  <2>3. CASE i # n /\ i = 0
    <3>1. i \in 0 .. n - 1
      BY <1>4, <2>3
    <3>2. g[i] = h[i] /\ h[i] = EmittedAt(R, node, h, i)
      BY <1>5, <2>3, <3>1
    <3> HIDE DEF g
    <3> QED
      BY <2>3, <3>2, Zenon DEF EmittedAt
  <2>4. CASE i = n /\ i = 0
    <3>1. g[i] = EmittedAt(R, node, h, n)
      BY <2>4
    <3> HIDE DEF g
    <3> QED
      BY <2>4, <3>1, Zenon DEF EmittedAt
  <2> QED
    BY <2>1, <2>2, <2>3, <2>4
<1>7. g = [i \in 0 .. n |-> EmittedAt(R, node, g, i)]
  BY <1>6
<1> HIDE DEF g
<1>8. Good(n)
  BY <1>7
<1> QED
  BY <1>2, <1>8

Emitted(R, node) ==
  CHOOSE g : g = [i \in 0 .. Len(node.items) |-> EmittedAt(R, node, g, i)]

(* EmitInit is item after item, then the rest of the element. *)
LEMMA EmittedAre ==
  ASSUME NEW R, NEW node, Len(node.items) \in Nat
  PROVE  LET end == Emitted(R, node)[Len(node.items)]
         IN  /\ EmitInit(R, node) = IF end.bytes > 0
                                    THEN [end EXCEPT !.data = @ \o Zeros(node.elem - end.bytes)] ELSE end
             /\ Emitted(R, node)[0] = R
             /\ \A i \in 1 .. Len(node.items) :
                  Emitted(R, node)[i] = EmitItem(Emitted(R, node)[i - 1], node.items[i], node)
<1> DEFINE N == Len(node.items)
           f == Emitted(R, node)
<1>1. \E g : g = [i \in 0 .. N |-> EmittedAt(R, node, g, i)]
  BY EmitsExist
<1>2. f = [i \in 0 .. N |-> EmittedAt(R, node, f, i)]
  BY <1>1, Zenon DEF Emitted
<1>3. EmitInit(R, node) = IF f[N].bytes > 0
                          THEN [f[N] EXCEPT !.data = @ \o Zeros(node.elem - f[N].bytes)] ELSE f[N]
  BY Zenon DEF EmitInit, Emitted, EmittedAt
<1>4. ASSUME NEW i \in 0 .. N PROVE f[i] = EmittedAt(R, node, f, i)
  <2> HIDE DEF f
  <2> DEFINE g == f
  <2>1. f = [j \in 0 .. N |-> EmittedAt(R, node, g, j)]
    BY <1>2
  <2> HIDE DEF g
  <2>2. f[i] = EmittedAt(R, node, g, i)
    BY <2>1
  <2> QED
    BY <2>2 DEF g
<1> HIDE DEF f
<1>5. f[0] = R
  BY <1>4 DEF EmittedAt
<1>6. ASSUME NEW i \in 1 .. N PROVE f[i] = EmitItem(f[i - 1], node.items[i], node)
  <2>1. i \in 0 .. N /\ i # 0
    OBVIOUS
  <2> HIDE DEF N
  <2> QED
    BY <1>4, <2>1, Zenon DEF EmittedAt
<1> QED
  BY <1>3, <1>5, <1>6 DEF f

(* The tables after i items, from those before. *)
LEMMA EmittedSteps ==
  ASSUME NEW R, NEW node, Len(node.items) \in Nat
  PROVE  /\ Emitted(R, node)[0] = R
         /\ \A i \in 1 .. Len(node.items) :
               Emitted(R, node)[i] = EmitItem(Emitted(R, node)[i - 1], node.items[i], node)
BY EmittedAre, ZenonT(30)

-----------------------------------------------------------------------------
(* The types of the tables. *)
Octets   == {0} \cup {Byte(v, i) : v \in Int, i \in Nat}
Labels   == (STRING \X Nat) \cup {<<"LC", n>> : n \in Nat}
Symbols  == [name : Labels, offset : Nat, size : Nat, shndx : Nat]
Relocs   == [off : Nat, sym : Nat]
StrInfos == [poolOffset : Nat, sym : Nat]
Sections == [data : Seq(Octets), rels : Seq(Relocs), syms : Seq(Symbols), pool : Seq(Nat),
             strs : Seq(StrInfos), bytes : Nat, idx : Nat, failed : BOOLEAN]
Pools    == [pool : Seq(Nat), syms : Seq(Symbols), strs : Seq(StrInfos)]

(* Each string has a symbol of its own in the section of the code. *)
StrsNamed(strs, names) ==
  \A k \in 1 .. Len(strs) :
    /\ strs[k].sym \in 1 .. Len(names)
    /\ names[strs[k].sym].name = <<"LC", k - 1>> /\ names[strs[k].sym].shndx = 1
Strung(i) == i.name[1] = "LC"

(* Symbol i stands for string s. *)
Stands(strs, p, i, s) ==
  \E k \in 1 .. Len(strs) :
    /\ strs[k].sym = i /\ strs[k].poolOffset + Len(s) + 1 <= Len(p)
    /\ \A j \in 1 .. Len(s) + 1 : p[strs[k].poolOffset + j] = Append(s, 0)[j]

(* A string of the pool stays where it is when more is added. *)
LEMMA StandsStill ==
  ASSUME NEW strs \in Seq(StrInfos), NEW strs1 \in Seq(StrInfos), NEW p \in Seq(Nat), NEW p1 \in Seq(Nat),
         Extends(strs, strs1), Extends(p, p1),
         NEW i, NEW s \in Seq(Nat), Stands(strs, p, i, s)
  PROVE  Stands(strs1, p1, i, s)
<1>1. PICK k \in 1 .. Len(strs) :
        /\ strs[k].sym = i /\ strs[k].poolOffset + Len(s) + 1 <= Len(p)
        /\ \A j \in 1 .. Len(s) + 1 : p[strs[k].poolOffset + j] = Append(s, 0)[j]
  BY DEF Stands
<1>2. k \in 1 .. Len(strs1) /\ strs1[k] = strs[k] /\ strs[k].poolOffset \in Nat
      /\ Len(s) \in Nat /\ Len(p) \in Nat /\ Len(p1) \in Nat /\ Len(p) <= Len(p1)
  <2>1. strs[k] \in StrInfos
    OBVIOUS
  <2>2. strs[k].poolOffset \in Nat
    BY <2>1 DEF StrInfos
  <2>3. k \in 1 .. Len(strs1) /\ strs1[k] = strs[k] /\ Len(p) <= Len(p1)
    BY DEF Extends
  <2> QED
    BY <2>2, <2>3
<1> DEFINE o == strs[k].poolOffset
<1>3. ASSUME NEW j \in 1 .. Len(s) + 1 PROVE p1[o + j] = Append(s, 0)[j]
  <2>0. o \in Nat /\ o + Len(s) + 1 <= Len(p)
    BY <1>1, <1>2
  <2> DEFINE q == o + j
  <2>1. q \in 1 .. Len(p)
    <3>1. j \in 1 .. Len(s) + 1 /\ Len(s) \in Nat /\ Len(p) \in Nat
      BY <1>2
    <3> HIDE DEF o
    <3> QED
      BY <2>0, <3>1
  <2>2. p1[q] = p[q]
    <3> HIDE DEF q
    <3> QED
      BY <2>1, Zenon DEF Extends
  <2> QED
    BY <1>1, <2>2, Zenon
<1>4. o + Len(s) + 1 <= Len(p1)
  BY <1>1, <1>2
<1> QED
  BY <1>1, <1>2, <1>3, <1>4 DEF Stands

(* A string is added: its symbol is the new one and stands for it. *)
LEMMA AddedParts ==
  ASSUME NEW R, R \in Sections \/ R \in Pools, NEW s \in Seq(Nat)
  PROVE  LET A == AddString(R, s)
         IN  /\ A.pool = R.pool \o Append(s, 0)
             /\ A.syms = Append(R.syms, Symbol(<<"LC", Len(R.strs)>>, 0, Len(s) + 1, 1))
             /\ A.strs = Append(R.strs, [poolOffset |-> Len(R.pool), sym |-> Len(R.syms) + 1])
             /\ R \in Sections => A \in Sections /\ A.data = R.data /\ A.rels = R.rels
                                  /\ A.bytes = R.bytes /\ A.idx = R.idx /\ A.failed = R.failed
             /\ A.pool \in Seq(Nat) /\ A.syms \in Seq(Symbols) /\ A.strs \in Seq(StrInfos)
<1> DEFINE p == R.pool \o Append(s, 0)
           y == Append(R.syms, Symbol(<<"LC", Len(R.strs)>>, 0, Len(s) + 1, 1))
           t == Append(R.strs, [poolOffset |-> Len(R.pool), sym |-> Len(R.syms) + 1])
<1>1. R.pool \in Seq(Nat) /\ R.syms \in Seq(Symbols) /\ R.strs \in Seq(StrInfos)
  BY DEF Sections, Pools
<1>2. p \in Seq(Nat)
  <2>1. Append(s, 0) \in Seq(Nat)
    OBVIOUS
  <2> QED
    BY <1>1, <2>1, JoinedTwo, Zenon
<1>3. y \in Seq(Symbols)
  <2>1. Len(R.strs) \in Nat /\ Len(s) + 1 \in Nat
    BY <1>1
  <2>2. <<"LC", Len(R.strs)>> \in Labels
    BY <2>1, Zenon DEF Labels
  <2>3. Symbol(<<"LC", Len(R.strs)>>, 0, Len(s) + 1, 1) \in Symbols
    <3> DEFINE nm == <<"LC", Len(R.strs)>>
               l == Len(s) + 1
    <3>1. nm \in Labels /\ l \in Nat
      BY <2>1, <2>2
    <3> HIDE DEF nm, l
    <3>2. Symbol(nm, 0, l, 1) \in Symbols
      BY <3>1 DEF Symbol, Symbols
    <3> QED
      BY <3>2 DEF nm, l
  <2> QED
    BY <1>1, <2>3
<1>4. t \in Seq(StrInfos)
  <2>1. [poolOffset |-> Len(R.pool), sym |-> Len(R.syms) + 1] \in StrInfos
    BY <1>1 DEF StrInfos
  <2> QED
    BY <1>1, <2>1
<1>5. AddString(R, s) = [R EXCEPT !.pool = p, !.syms = y, !.strs = t]
  BY DEF AddString
<1> HIDE DEF p, y, t
<1>6. R \in Sections => [R EXCEPT !.pool = p, !.syms = y, !.strs = t] \in Sections
  BY <1>2, <1>3, <1>4 DEF Sections
<1>7. LET A == [R EXCEPT !.pool = p, !.syms = y, !.strs = t]
      IN  A.pool = p /\ A.syms = y /\ A.strs = t
  BY DEF Sections, Pools
<1>8. R \in Sections =>
        LET A == [R EXCEPT !.pool = p, !.syms = y, !.strs = t]
        IN  A.data = R.data /\ A.rels = R.rels /\ A.bytes = R.bytes /\ A.idx = R.idx
            /\ A.failed = R.failed
  BY DEF Sections
<1> QED
  BY <1>2, <1>3, <1>4, <1>5, <1>6, <1>7, <1>8 DEF p, y, t

(* AddString adds the string, its symbol and what relates both. *)
LEMMA Added ==
  ASSUME NEW R, R \in Sections \/ R \in Pools, NEW s \in Seq(Nat), StrsNamed(R.strs, R.syms),
         NEW A, A = AddString(R, s)
  PROVE  /\ Extends(R.pool, A.pool) /\ Extends(R.syms, A.syms) /\ Extends(R.strs, A.strs)
         /\ Len(A.pool) = Len(R.pool) + Len(s) + 1
         /\ Len(A.syms) = Len(R.syms) + 1 /\ Len(A.strs) = Len(R.strs) + 1
         /\ A.syms[Len(A.syms)] = Symbol(<<"LC", Len(R.strs)>>, 0, Len(s) + 1, 1)
         /\ StrsNamed(A.strs, A.syms)
         /\ Stands(A.strs, A.pool, Len(A.syms), s)
<1> DEFINE p == R.pool
           y == R.syms
           t == R.strs
           z == Append(s, 0)
           sy == Symbol(<<"LC", Len(t)>>, 0, Len(s) + 1, 1)
           st == [poolOffset |-> Len(p), sym |-> Len(y) + 1]
<1>1. p \in Seq(Nat) /\ y \in Seq(Symbols) /\ t \in Seq(StrInfos)
  BY DEF Sections, Pools
<1>2. A.pool = p \o z /\ A.syms = Append(y, sy) /\ A.strs = Append(t, st)
      /\ A.pool \in Seq(Nat) /\ A.syms \in Seq(Symbols) /\ A.strs \in Seq(StrInfos)
  BY AddedParts
<1>3. z \in Seq(Nat) /\ Len(z) = Len(s) + 1 /\ Len(s) \in Nat
  OBVIOUS
<1>4. Len(p) \in Nat /\ Len(y) \in Nat /\ Len(t) \in Nat
  BY <1>1
<1>5. sy.name = <<"LC", Len(t)>> /\ sy.shndx = 1 /\ st.poolOffset = Len(p) /\ st.sym = Len(y) + 1
  BY DEF Symbol
<1>6. StrsNamed(t, y)
  OBVIOUS
<1> HIDE DEF z, sy, st, p, y, t
<1>7. Len(A.pool) = Len(p) + Len(z) /\ Extends(p, A.pool)
      /\ \A j \in 1 .. Len(z) : A.pool[Len(p) + j] = z[j]
  <2>1. Len(p \o z) = Len(p) + Len(z) /\ Extends(p, p \o z)
    BY <1>1, <1>3, JoinedTwo, ExtendsMore
  <2>2. \A j \in 1 .. Len(z) : (p \o z)[Len(p) + j] = z[j]
    BY <1>1, <1>3, JoinedBehind, Zenon
  <2> QED
    BY <1>2, <2>1, <2>2
<1>8. Len(A.syms) = Len(y) + 1 /\ Extends(y, A.syms) /\ A.syms[Len(y) + 1] = sy
  <2>1. Len(Append(y, sy)) = Len(y) + 1 /\ Extends(y, Append(y, sy)) /\ Append(y, sy)[Len(y) + 1] = sy
    BY <1>1, ExtendsOne, Zenon
  <2> QED BY <1>2, <2>1, Zenon
<1>9. Len(A.strs) = Len(t) + 1 /\ Extends(t, A.strs) /\ A.strs[Len(t) + 1] = st
  <2>1. Len(Append(t, st)) = Len(t) + 1 /\ Extends(t, Append(t, st)) /\ Append(t, st)[Len(t) + 1] = st
    BY <1>1, ExtendsOne, Zenon
  <2> QED BY <1>2, <2>1, Zenon
<1>10. StrsNamed(A.strs, A.syms)
  <2> SUFFICES ASSUME NEW k \in 1 .. Len(A.strs)
               PROVE  /\ A.strs[k].sym \in 1 .. Len(A.syms)
                      /\ A.syms[A.strs[k].sym].name = <<"LC", k - 1>>
                      /\ A.syms[A.strs[k].sym].shndx = 1
    BY DEF StrsNamed
  <2>1. CASE k = Len(t) + 1
    <3>1. A.strs[k] = st /\ k - 1 = Len(t)
      BY <1>4, <1>9, <2>1
    <3>2. st.sym = Len(y) + 1 /\ Len(y) + 1 \in 1 .. Len(A.syms)
      BY <1>4, <1>5, <1>8
    <3>3. A.syms[st.sym] = sy
      BY <1>8, <3>2
    <3>4. A.syms[A.strs[k].sym] = sy
      BY <3>1, <3>3
    <3> QED
      BY <1>5, <3>1, <3>2, <3>4
  <2>2. CASE k \in 1 .. Len(t)
    <3>1. A.strs[k] = t[k] /\ t[k].sym \in 1 .. Len(y) /\ y[t[k].sym].name = <<"LC", k - 1>>
          /\ y[t[k].sym].shndx = 1
      BY <1>6, <1>9, <2>2 DEF Extends, StrsNamed
    <3> DEFINE i == t[k].sym
               n == Len(A.syms)
    <3>2. A.syms[i] = y[i] BY <1>8, <3>1, Zenon DEF Extends
    <3>3. i \in 1 .. Len(y) /\ n = Len(y) + 1 BY <1>8, <3>1, Zenon
    <3> HIDE DEF i, n
    <3>4. i \in 1 .. n BY <1>4, <3>3, SMT
    <3> QED BY <3>1, <3>2, <3>4, Zenon DEF i, n
  <2>3. k \in 1 .. Len(t) \/ k = Len(t) + 1
    <3> DEFINE n == Len(A.strs)
               l == Len(t)
    <3>1. n = l + 1 /\ l \in Nat /\ k \in 1 .. n
      BY <1>4, <1>9, Zenon
    <3> HIDE DEF n, l
    <3>2. k \in 1 .. l \/ k = l + 1
      BY <3>1
    <3> QED
      BY <3>2, Zenon DEF l
  <2> QED
    BY <2>1, <2>2, <2>3, Zenon
<1>11. Stands(A.strs, A.pool, Len(A.syms), s)
  <2>1. Len(t) + 1 \in 1 .. Len(A.strs)
    BY <1>4, <1>9
  <2>2. A.strs[Len(t) + 1].sym = Len(A.syms) /\ A.strs[Len(t) + 1].poolOffset = Len(p)
    BY <1>5, <1>8, <1>9
  <2>3. \A j \in 1 .. Len(s) + 1 : A.pool[Len(p) + j] = Append(s, 0)[j]
    BY <1>3, <1>7 DEF z
  <2>4. Len(p) + Len(s) + 1 <= Len(A.pool)
    BY <1>3, <1>4, <1>7
  <2> QED
    BY <2>1, <2>2, <2>3, <2>4 DEF Stands
<1> QED
  <2>1. Len(A.pool) = Len(p) + Len(s) + 1
    BY <1>3, <1>4, <1>7
  <2>2. A.syms[Len(A.syms)] = sy
    BY <1>8
  <2> QED
    BY <1>7, <1>8, <1>9, <1>10, <1>11, <2>1, <2>2, Zenon DEF p, y, t, sy

-----------------------------------------------------------------------------
(* The names of the symbols: those of strings belong to one each, and no   *)
(* two symbols have the same name.                                         *)
Owned(strs, names) ==
  \A i \in 1 .. Len(names) : Strung(names[i]) => \E k \in 1 .. Len(strs) : strs[k].sym = i
Unique(names) == \A i, j \in 1 .. Len(names) : names[i].name = names[j].name => i = j
Tables(strs, names) == StrsNamed(strs, names) /\ Owned(strs, names) /\ Unique(names)

(* The tables are in order with a string more. *)
LEMMA AddedTables ==
  ASSUME NEW strs \in Seq(StrInfos), NEW names \in Seq(Symbols), NEW strs1 \in Seq(StrInfos),
         NEW names1 \in Seq(Symbols), Tables(strs, names), StrsNamed(strs1, names1),
         Extends(strs, strs1), Extends(names, names1),
         Len(strs1) = Len(strs) + 1, Len(names1) = Len(names) + 1,
         strs1[Len(strs1)].sym = Len(names1),
         names1[Len(names1)].name = <<"LC", Len(strs)>>
  PROVE  Tables(strs1, names1)
<1>1. Len(strs) \in Nat /\ Len(names) \in Nat /\ Len(strs1) \in Nat /\ Len(names1) \in Nat
  OBVIOUS
<1> DEFINE N == Len(names1)
<1>2. \A i \in 1 .. N : i # N => i \in 1 .. Len(names) /\ names1[i] = names[i]
  BY <1>1 DEF Extends
<1>3. Owned(strs1, names1)
  <2> SUFFICES ASSUME NEW i \in 1 .. N, Strung(names1[i])
               PROVE  \E k \in 1 .. Len(strs1) : strs1[k].sym = i
    BY DEF Owned
  <2>1. CASE i = N
    <3>1. Len(strs1) \in 1 .. Len(strs1)
      BY <1>1
    <3> QED
      BY <2>1, <3>1
  <2>2. CASE i # N
    <3>1. i \in 1 .. Len(names) /\ Strung(names[i])
      BY <1>2, <2>2
    <3>2. PICK k \in 1 .. Len(strs) : strs[k].sym = i
      BY <3>1 DEF Tables, Owned
    <3>3. k \in 1 .. Len(strs1) /\ strs1[k] = strs[k]
      BY <1>1 DEF Extends
    <3> QED
      BY <3>2, <3>3
  <2> QED
    BY <2>1, <2>2
<1>4. ASSUME NEW i \in 1 .. N, i # N PROVE names1[i].name # names1[N].name
  <2>1. SUFFICES ASSUME names1[i].name = <<"LC", Len(strs)>> PROVE FALSE
    OBVIOUS
  <2>2. i \in 1 .. Len(names) /\ names[i].name = <<"LC", Len(strs)>>
    BY <1>2, <1>4, <2>1
  <2>3. Strung(names[i])
    BY <2>2 DEF Strung
  <2>4. PICK k \in 1 .. Len(strs) : strs[k].sym = i
    BY <2>2, <2>3 DEF Tables, Owned
  <2>5. names[i].name = <<"LC", k - 1>>
    BY <2>4 DEF Tables, StrsNamed
  <2>6. k - 1 = Len(strs)
    BY <2>2, <2>5
  <2> QED
    BY <1>1, <2>6
<1>5. Unique(names1)
  <2> SUFFICES ASSUME NEW i \in 1 .. N, NEW j \in 1 .. N, names1[i].name = names1[j].name
               PROVE  i = j
    BY DEF Unique
  <2>1. CASE i # N /\ j # N
    <3>1. i \in 1 .. Len(names) /\ j \in 1 .. Len(names) /\ names[i].name = names[j].name
      BY <1>2, <2>1
    <3> QED
      BY <3>1 DEF Tables, Unique
  <2>2. CASE i = N \/ j = N
    BY <1>4, <2>2
  <2> QED
    BY <2>1, <2>2
<1> QED
  BY <1>3, <1>5 DEF Tables

-----------------------------------------------------------------------------
(* Symbols that are no strings, by their names. *)
Others(names) == {names[i].name : i \in {j \in 1 .. Len(names) : ~Strung(names[j])}}

(* T is R with more: what is new in the data is behind the first q bytes,  *)
(* and what is new of the symbols are strings.                             *)
Later(R, T, q) ==
  /\ Extends(R.strs, T.strs) /\ Extends(R.pool, T.pool) /\ Extends(R.rels, T.rels)
  /\ Extends(R.syms, T.syms)
  /\ \A k \in Len(R.rels) + 1 .. Len(T.rels) : T.rels[k].off >= q
  /\ \A p \in 1 .. q : ByteAt(T.data, p) = ByteAt(R.data, p)
  /\ \A i \in Len(R.syms) + 1 .. Len(T.syms) : Strung(T.syms[i])
  /\ Len(T.syms) + Len(R.strs) = Len(R.syms) + Len(T.strs)
  /\ Len(T.rels) + Len(R.strs) = Len(R.rels) + Len(T.strs)

(* The tables are later than themselves. *)
LEMMA LaterSelf ==
  ASSUME NEW R, R \in Sections, NEW q \in Nat
  PROVE  Later(R, R, q)
<1>1. R.strs \in Seq(StrInfos) /\ R.pool \in Seq(Nat) /\ R.rels \in Seq(Relocs) /\ R.syms \in Seq(Symbols)
  BY DEF Sections
<1>2. Extends(R.strs, R.strs) /\ Extends(R.pool, R.pool) /\ Extends(R.rels, R.rels)
      /\ Extends(R.syms, R.syms)
  BY <1>1, ExtendsSelf
<1>3. Len(R.rels) \in Nat /\ Len(R.syms) \in Nat /\ Len(R.strs) \in Nat
  BY <1>1
<1> QED
  BY <1>2, <1>3 DEF Later

(* The types of the parts of the tables. *)
LEMMA LaterParts ==
  ASSUME NEW R, R \in Sections
  PROVE  /\ R.data \in Seq(Octets) /\ R.rels \in Seq(Relocs) /\ R.syms \in Seq(Symbols)
         /\ R.pool \in Seq(Nat) /\ R.strs \in Seq(StrInfos) /\ R.bytes \in Nat /\ R.idx \in Nat
         /\ R.failed \in BOOLEAN
         /\ Len(R.data) \in Nat /\ Len(R.rels) \in Nat /\ Len(R.syms) \in Nat /\ Len(R.strs) \in Nat
         /\ Len(R.pool) \in Nat
BY DEF Sections

(* Later and later again is later. *)
LEMMA LaterBeyond ==
  ASSUME NEW R, R \in Sections, NEW T, T \in Sections, NEW U, U \in Sections,
         NEW q \in Nat, NEW r \in Nat, q <= r, Later(R, T, q), Later(T, U, r)
  PROVE  Later(R, U, q)
<1>1. /\ Extends(R.strs, U.strs) /\ Extends(R.pool, U.pool) /\ Extends(R.rels, U.rels)
      /\ Extends(R.syms, U.syms)
  <2>1. /\ R.strs \in Seq(StrInfos) /\ T.strs \in Seq(StrInfos) /\ U.strs \in Seq(StrInfos)
        /\ R.pool \in Seq(Nat) /\ T.pool \in Seq(Nat) /\ U.pool \in Seq(Nat)
        /\ R.rels \in Seq(Relocs) /\ T.rels \in Seq(Relocs) /\ U.rels \in Seq(Relocs)
        /\ R.syms \in Seq(Symbols) /\ T.syms \in Seq(Symbols) /\ U.syms \in Seq(Symbols)
    BY LaterParts, Zenon
  <2>2. /\ Extends(R.strs, T.strs) /\ Extends(R.pool, T.pool) /\ Extends(R.rels, T.rels)
        /\ Extends(R.syms, T.syms)
        /\ Extends(T.strs, U.strs) /\ Extends(T.pool, U.pool) /\ Extends(T.rels, U.rels)
        /\ Extends(T.syms, U.syms)
    BY Zenon DEF Later
  <2> QED
    BY <2>1, <2>2, ExtendsBeyond, Zenon
<1>2. /\ Len(R.rels) \in Nat /\ Len(T.rels) \in Nat /\ Len(U.rels) \in Nat
      /\ Len(R.syms) \in Nat /\ Len(T.syms) \in Nat /\ Len(U.syms) \in Nat
      /\ Len(R.strs) \in Nat /\ Len(T.strs) \in Nat /\ Len(U.strs) \in Nat
  BY LaterParts
<1>3. ASSUME NEW k \in Len(R.rels) + 1 .. Len(U.rels) PROVE U.rels[k].off >= q
  <2>1. CASE k \in 1 .. Len(T.rels)
    <3>1. U.rels[k] = T.rels[k] /\ k \in Len(R.rels) + 1 .. Len(T.rels)
      BY <1>2, <2>1 DEF Later, Extends
    <3> QED
      BY <3>1 DEF Later
  <2>2. CASE k \notin 1 .. Len(T.rels)
    <3>1. k \in Len(T.rels) + 1 .. Len(U.rels)
      BY <1>2, <2>2
    <3>2. U.rels[k].off >= r
      BY <3>1 DEF Later
    <3>3. U.rels[k].off \in Nat
      <4>1. k \in 1 .. Len(U.rels)
        BY <1>2, <3>1
      <4>2. U.rels \in Seq(Relocs)
        BY LaterParts
      <4>3. U.rels[k] \in Relocs
        BY <4>1, <4>2
      <4> QED
        BY <4>3 DEF Relocs
    <3> QED
      BY <3>2, <3>3
  <2> QED
    BY <2>1, <2>2
<1>4. ASSUME NEW p \in 1 .. q PROVE ByteAt(U.data, p) = ByteAt(R.data, p)
  <2>1. p \in 1 .. r
    OBVIOUS
  <2> QED
    BY <2>1 DEF Later
<1>5. ASSUME NEW i \in Len(R.syms) + 1 .. Len(U.syms) PROVE Strung(U.syms[i])
  <2>1. CASE i \in 1 .. Len(T.syms)
    <3>1. U.syms[i] = T.syms[i] /\ i \in Len(R.syms) + 1 .. Len(T.syms)
      BY <1>2, <2>1 DEF Later, Extends
    <3> QED
      BY <3>1 DEF Later
  <2>2. CASE i \notin 1 .. Len(T.syms)
    <3>1. i \in Len(T.syms) + 1 .. Len(U.syms)
      BY <1>2, <2>2
    <3> QED
      BY <3>1 DEF Later
  <2> QED
    BY <2>1, <2>2
<1>6. /\ Len(U.syms) + Len(R.strs) = Len(R.syms) + Len(U.strs)
      /\ Len(U.rels) + Len(R.strs) = Len(R.rels) + Len(U.strs)
  <2>1. /\ Len(T.syms) + Len(R.strs) = Len(R.syms) + Len(T.strs)
        /\ Len(T.rels) + Len(R.strs) = Len(R.rels) + Len(T.strs)
        /\ Len(U.syms) + Len(T.strs) = Len(T.syms) + Len(U.strs)
        /\ Len(U.rels) + Len(T.strs) = Len(T.rels) + Len(U.strs)
    BY Zenon DEF Later
  <2> QED
    <3> DEFINE a == Len(R.syms)
               b == Len(T.syms)
               c == Len(U.syms)
               x == Len(R.strs)
               y == Len(T.strs)
               z == Len(U.strs)
               k == Len(R.rels)
               l == Len(T.rels)
               m == Len(U.rels)
    <3>1. /\ a \in Nat /\ b \in Nat /\ c \in Nat /\ x \in Nat /\ y \in Nat /\ z \in Nat
          /\ k \in Nat /\ l \in Nat /\ m \in Nat
      BY <1>2
    <3>2. b + x = a + y /\ c + y = b + z /\ l + x = k + y /\ m + y = l + z
      BY <2>1
    <3> HIDE DEF a, b, c, x, y, z, k, l, m
    <3>3. c + x = a + z /\ m + x = k + z
      BY <3>1, <3>2
    <3> QED
      BY <3>3 DEF a, b, c, x, y, z, k, l, m
<1> QED
  BY <1>1, <1>3, <1>4, <1>5, <1>6, Zenon DEF Later

(* Nothing new before r, so none before what is before r. *)
LEMMA LaterEarlier ==
  ASSUME NEW R, R \in Sections, NEW T, T \in Sections, NEW q \in Nat, NEW r \in Nat, q <= r,
         Later(R, T, r)
  PROVE  Later(R, T, q)
BY LaterSelf, LaterBeyond

(* The symbols that are no strings are the same. *)
LEMMA LaterOthers ==
  ASSUME NEW names \in Seq(Symbols), NEW names1 \in Seq(Symbols), Extends(names, names1),
         \A i \in Len(names) + 1 .. Len(names1) : Strung(names1[i])
  PROVE  Others(names1) = Others(names)
<1>1. Len(names) \in Nat /\ Len(names1) \in Nat /\ Len(names) <= Len(names1)
  BY DEF Extends
<1>2. \A i \in 1 .. Len(names) : names1[i] = names[i] /\ i \in 1 .. Len(names1)
  BY <1>1 DEF Extends
<1>3. \A i \in 1 .. Len(names1) : ~Strung(names1[i]) => i \in 1 .. Len(names)
  BY <1>1
<1>4. {j \in 1 .. Len(names1) : ~Strung(names1[j])} = {j \in 1 .. Len(names) : ~Strung(names[j])}
  BY <1>2, <1>3
<1>5. \A i \in {j \in 1 .. Len(names) : ~Strung(names[j])} : names1[i].name = names[i].name
  BY <1>2
<1> QED
  BY <1>4, <1>5 DEF Others

-----------------------------------------------------------------------------
(* The cell of size bytes behind from holds the item, or 0 where there is  *)
(* no list; no reference but the item's own touches it.                    *)
Touches(r, from, size) == r.off + 8 > from /\ r.off < from + size
Value(list, it, i) == IF list THEN Byte(it.v, i - 1) ELSE 0
CellOk(R, from, size, it, list) ==
  IF list /\ it.str
  THEN \E k \in 1 .. Len(R.rels) :
         /\ R.rels[k].off = from /\ Stands(R.strs, R.pool, R.rels[k].sym, it.s)
         /\ Touches(R.rels[k], from, size)
         /\ \A j \in 1 .. Len(R.rels) : Touches(R.rels[j], from, size) => j = k
  ELSE /\ \A j \in 1 .. Len(R.rels) : ~Touches(R.rels[j], from, size)
       /\ \A i \in 1 .. size : ByteAt(R.data, from + i) = Value(list, it, i)

(* What is behind it does not change it. *)
LEMMA CellLater ==
  ASSUME NEW R, R \in Sections, NEW T, T \in Sections, NEW q \in Nat, Later(R, T, q),
         NEW from \in Nat, NEW size \in Nat, from + size <= q,
         NEW it, NEW list, list => it \in Items, CellOk(R, from, size, it, list)
  PROVE  CellOk(T, from, size, it, list)
<1>1. /\ Len(R.rels) \in Nat /\ Len(T.rels) \in Nat /\ Len(R.rels) <= Len(T.rels)
      /\ \A j \in 1 .. Len(R.rels) : T.rels[j] = R.rels[j] /\ j \in 1 .. Len(T.rels)
  BY LaterParts DEF Later, Extends
<1>2. ASSUME NEW j \in 1 .. Len(T.rels), Touches(T.rels[j], from, size)
      PROVE  j \in 1 .. Len(R.rels) /\ Touches(R.rels[j], from, size)
  <2>1. T.rels[j].off \in Nat
    <3>1. T.rels \in Seq(Relocs)
      BY LaterParts
    <3>2. T.rels[j] \in Relocs
      BY <3>1
    <3> QED
      BY <3>2 DEF Relocs
  <2>2. T.rels[j].off < q
    BY <1>2, <2>1 DEF Touches
  <2>3. j \notin Len(R.rels) + 1 .. Len(T.rels)
    BY <2>1, <2>2 DEF Later
  <2>4. j \in 1 .. Len(R.rels)
    BY <1>1, <2>3
  <2> QED
    BY <1>1, <1>2, <2>4
<1>3. CASE list /\ it.str
  <2>1. PICK k \in 1 .. Len(R.rels) :
         /\ R.rels[k].off = from /\ Stands(R.strs, R.pool, R.rels[k].sym, it.s)
         /\ Touches(R.rels[k], from, size)
         /\ \A j \in 1 .. Len(R.rels) : Touches(R.rels[j], from, size) => j = k
    BY <1>3, Zenon DEF CellOk
  <2>2. k \in 1 .. Len(T.rels) /\ T.rels[k] = R.rels[k]
    BY <1>1
  <2>3. it.s \in Seq(Nat)
    BY <1>3 DEF Items
  <2>4. /\ R.strs \in Seq(StrInfos) /\ T.strs \in Seq(StrInfos) /\ R.pool \in Seq(Nat)
        /\ T.pool \in Seq(Nat)
    BY LaterParts
  <2>5. Extends(R.strs, T.strs) /\ Extends(R.pool, T.pool)
    BY DEF Later
  <2>6. Stands(T.strs, T.pool, R.rels[k].sym, it.s)
    BY <2>1, <2>3, <2>4, <2>5, StandsStill
  <2>7. \A j \in 1 .. Len(T.rels) : Touches(T.rels[j], from, size) => j = k
    BY <1>2, <2>1, Zenon
  <2> QED
    BY <1>3, <2>1, <2>2, <2>6, <2>7, Zenon DEF CellOk
<1>4. CASE ~(list /\ it.str)
  <2>1. /\ \A j \in 1 .. Len(R.rels) : ~Touches(R.rels[j], from, size)
        /\ \A i \in 1 .. size : ByteAt(R.data, from + i) = Value(list, it, i)
    BY <1>4, Zenon DEF CellOk
  <2>2. ASSUME NEW i \in 1 .. size PROVE ByteAt(T.data, from + i) = Value(list, it, i)
    <3>1. from + i \in 1 .. q
      OBVIOUS
    <3>2. ByteAt(T.data, from + i) = ByteAt(R.data, from + i)
      BY <3>1, Zenon DEF Later
    <3> QED
      BY <2>1, <3>2
  <2>3. \A j \in 1 .. Len(T.rels) : ~Touches(T.rels[j], from, size)
    BY <1>2, <2>1, Zenon
  <2> QED
    BY <1>4, <2>2, <2>3, Zenon DEF CellOk
<1> QED
  BY <1>3, <1>4

-----------------------------------------------------------------------------
(* Before an item: no table is full, and references are inside of the data. *)
Inside(R) == \A k \in 1 .. Len(R.rels) : R.rels[k].off + 8 <= Len(R.data)
Good(R)   == R \in Sections /\ ~R.failed /\ Tables(R.strs, R.syms) /\ Inside(R)

(* A byte of a value is an octet. *)
LEMMA ByteIn == ASSUME NEW v \in Int, NEW i \in Nat PROVE Byte(v, i) \in Octets
BY DEF Octets

(* 0 is an octet. *)
LEMMA ZeroIn == 0 \in Octets
BY DEF Octets

(* The parts of a section after a string was added. *)
LEMMA StringParts ==
  ASSUME NEW R, R \in Sections, ~R.failed, NEW s \in Seq(Nat), ~EmitString(R, s).failed
  PROVE  LET T == EmitString(R, s)
             A == AddString(R, s)
         IN  /\ T \in Sections /\ A \in Sections
             /\ T.pool = A.pool /\ T.syms = A.syms /\ T.strs = A.strs
             /\ T.rels = Append(R.rels, [off |-> Len(R.data), sym |-> Len(R.syms) + 1])
             /\ T.data = R.data \o Zeros(8)
             /\ T.bytes = R.bytes + 8 /\ T.idx = R.idx /\ T.failed = R.failed
             /\ StringFits(R, s) /\ ~(Len(R.rels) >= ELF_MAX_RELS)
<1> DEFINE A == AddString(R, s)
           rl == Append(R.rels, [off |-> Len(R.data), sym |-> Len(R.syms) + 1])
           dt == R.data \o Zeros(8)
           T == [A EXCEPT !.rels = rl, !.data = dt, !.bytes = R.bytes + 8]
<1>1. A \in Sections /\ A.data = R.data /\ A.rels = R.rels /\ A.bytes = R.bytes /\ A.idx = R.idx
      /\ A.failed = R.failed
  BY AddedParts
<1>2. rl \in Seq(Relocs)
  <2>1. R.rels \in Seq(Relocs) /\ Len(R.data) \in Nat /\ Len(R.syms) + 1 \in Nat
    BY LaterParts
  <2>2. [off |-> Len(R.data), sym |-> Len(R.syms) + 1] \in Relocs
    BY <2>1 DEF Relocs
  <2> QED
    BY <2>1, <2>2
<1>3. dt \in Seq(Octets)
  BY LaterParts, WithZeros, ZeroIn
<1>4. R.bytes + 8 \in Nat
  BY LaterParts
<1>5. [R EXCEPT !.failed = TRUE].failed = TRUE
  BY DEF Sections
<1>6. ~(~StringFits(R, s) \/ Len(R.rels) >= ELF_MAX_RELS)
  BY <1>5 DEF EmitString
<1>7. EmitString(R, s) = [A EXCEPT !.rels = Append(A.rels, [off |-> Len(R.data), sym |-> Len(R.syms) + 1]),
                                   !.data = A.data \o Zeros(8), !.bytes = A.bytes + 8]
  BY <1>6 DEF EmitString
<1>8. EmitString(R, s) = T
  BY <1>1, <1>7
<1> DEFINE b == R.bytes + 8
<1>9. T = [A EXCEPT !.rels = rl, !.data = dt, !.bytes = b]
  OBVIOUS
<1> HIDE DEF A, T, rl, dt, b
<1>10. T \in Sections /\ T.pool = A.pool /\ T.syms = A.syms /\ T.strs = A.strs
       /\ T.rels = rl /\ T.data = dt /\ T.bytes = b /\ T.idx = A.idx /\ T.failed = A.failed
  <2>1. b \in Nat
    BY <1>4 DEF b
  <2> QED
    BY <1>1, <1>2, <1>3, <2>1, <1>9 DEF Sections
<1> QED
  BY <1>1, <1>6, <1>8, <1>10, Zenon DEF A, rl, dt, b

(* Zeros behind the data leave all bytes. *)
LEMMA DataMore ==
  ASSUME NEW s \in Seq(Octets), NEW n \in Nat
  PROVE  /\ s \o Zeros(n) \in Seq(Octets) /\ Len(s \o Zeros(n)) = Len(s) + n
         /\ \A p \in Nat : ByteAt(s \o Zeros(n), p) = ByteAt(s, p)
<1>1. n \in Int
  OBVIOUS
<1>2. /\ s \o Zeros(n) \in Seq(Octets)
      /\ Len(s \o Zeros(n)) = Len(s) + (IF n > 0 THEN n ELSE 0)
      /\ \A p \in Nat : ByteAt(s \o Zeros(n), p) = ByteAt(s, p)
  BY <1>1, WithZeros, ZeroIn, Zenon
<1>3. (IF n > 0 THEN n ELSE 0) = n
  OBVIOUS
<1> QED
  BY <1>2, <1>3, Zenon

(* A string of an initialiser is 8 bytes and a reference that leads to it. *)
LEMMA EmittedString ==
  ASSUME NEW R, Good(R), NEW s \in Seq(Nat), NEW T, T = EmitString(R, s), ~T.failed
  PROVE  /\ Good(T) /\ T.bytes = R.bytes + 8 /\ T.idx = R.idx /\ Len(T.data) = Len(R.data) + 8
         /\ Later(R, T, Len(R.data))
         /\ Len(T.strs) = Len(R.strs) + 1 /\ Len(T.pool) = Len(R.pool) + Len(s) + 1
         /\ \A it : it.str /\ it.s = s => CellOk(T, Len(R.data), 8, it, TRUE)
<1> DEFINE A == AddString(R, s)
           new == [off |-> Len(R.data), sym |-> Len(R.syms) + 1]
           N == Len(R.rels)
           q == Len(R.data)
<1>0. R \in Sections /\ ~R.failed /\ StrsNamed(R.strs, R.syms)
  BY DEF Good, Tables
<1>1. /\ T \in Sections /\ A \in Sections
      /\ T.pool = A.pool /\ T.syms = A.syms /\ T.strs = A.strs
      /\ T.rels = Append(R.rels, new) /\ T.data = R.data \o Zeros(8)
      /\ T.bytes = R.bytes + 8 /\ T.idx = R.idx /\ T.failed = R.failed
  BY <1>0, StringParts
<1>2. /\ Extends(R.pool, A.pool) /\ Extends(R.syms, A.syms) /\ Extends(R.strs, A.strs)
      /\ Len(A.pool) = Len(R.pool) + Len(s) + 1
      /\ Len(A.syms) = Len(R.syms) + 1 /\ Len(A.strs) = Len(R.strs) + 1
      /\ A.syms[Len(A.syms)] = Symbol(<<"LC", Len(R.strs)>>, 0, Len(s) + 1, 1)
      /\ StrsNamed(A.strs, A.syms)
      /\ Stands(A.strs, A.pool, Len(A.syms), s)
  BY <1>0, Added
<1>3. A.strs = Append(R.strs, [poolOffset |-> Len(R.pool), sym |-> Len(R.syms) + 1])
  BY <1>0, AddedParts
<1>4. /\ R.data \in Seq(Octets) /\ R.rels \in Seq(Relocs) /\ R.syms \in Seq(Symbols)
      /\ R.strs \in Seq(StrInfos) /\ A.syms \in Seq(Symbols) /\ A.strs \in Seq(StrInfos)
      /\ N \in Nat /\ q \in Nat /\ Len(R.syms) \in Nat /\ Len(R.strs) \in Nat /\ Len(s) \in Nat
  BY <1>0, <1>1, LaterParts
<1>5. new.off = q /\ new.sym = Len(R.syms) + 1
  OBVIOUS
<1> HIDE DEF A, new, N, q
<1>6. /\ Len(T.data) = q + 8 /\ \A p \in Nat : ByteAt(T.data, p) = ByteAt(R.data, p)
  <2>1. Len(R.data \o Zeros(8)) = q + 8 /\ \A p \in Nat : ByteAt(R.data \o Zeros(8), p) = ByteAt(R.data, p)
    <3>1. 8 \in Nat
      OBVIOUS
    <3> QED
      BY <1>4, <3>1, DataMore, Zenon DEF q
  <2> QED
    BY <1>1, <2>1
<1>7. /\ Len(T.rels) = N + 1 /\ T.rels[N + 1] = new /\ Extends(R.rels, T.rels)
      /\ \A k \in 1 .. N : T.rels[k] = R.rels[k]
  BY <1>1, <1>4 DEF Extends, N
<1>8. A.strs[Len(A.strs)].sym = Len(A.syms)
  BY <1>2, <1>3, <1>4
<1>9. Tables(T.strs, T.syms)
  <2>1. A.syms[Len(A.syms)].name = <<"LC", Len(R.strs)>>
    BY <1>2 DEF Symbol
  <2>2. Tables(R.strs, R.syms)
    BY DEF Good
  <2>3. Tables(A.strs, A.syms)
    BY <1>2, <1>4, <1>8, <2>1, <2>2, AddedTables
  <2> QED
    BY <1>1, <2>3
<1>10. \A k \in 1 .. N : R.rels[k].off \in Nat /\ R.rels[k].off + 8 <= q
  <2> SUFFICES ASSUME NEW k \in 1 .. N PROVE R.rels[k].off \in Nat /\ R.rels[k].off + 8 <= q
    OBVIOUS
  <2>1. R.rels[k] \in Relocs
    BY <1>4 DEF N
  <2>2. R.rels[k].off \in Nat
    BY <2>1 DEF Relocs
  <2>3. R.rels[k].off + 8 <= q
    BY DEF Good, Inside, q, N
  <2> QED
    BY <2>2, <2>3
<1>11. Inside(T)
  <2> SUFFICES ASSUME NEW k \in 1 .. N + 1 PROVE T.rels[k].off + 8 <= q + 8
    BY <1>6, <1>7 DEF Inside
  <2>1. CASE k = N + 1
    BY <1>4, <1>5, <1>7, <2>1
  <2>2. CASE k \in 1 .. N
    <3>1. T.rels[k].off \in Nat /\ T.rels[k].off + 8 <= q
      BY <1>7, <1>10, <2>2
    <3> QED
      BY <1>4, <3>1
  <2> QED
    BY <1>4, <2>1, <2>2
<1>12. Later(R, T, q)
  <2>1. \A k \in N + 1 .. Len(T.rels) : T.rels[k].off >= q
    BY <1>4, <1>5, <1>7
  <2>2. \A i \in Len(R.syms) + 1 .. Len(T.syms) : Strung(T.syms[i])
    <3>1. Len(T.syms) = Len(R.syms) + 1
      BY <1>1, <1>2
    <3>2. Strung(T.syms[Len(R.syms) + 1])
      BY <1>1, <1>2 DEF Strung, Symbol
    <3> QED
      BY <1>4, <3>1, <3>2
  <2>3. \A p \in 1 .. q : ByteAt(T.data, p) = ByteAt(R.data, p)
    BY <1>4, <1>6
  <2>4. /\ Extends(R.pool, T.pool) /\ Extends(R.syms, T.syms) /\ Extends(R.strs, T.strs)
    BY <1>1, <1>2, Zenon
  <2>5. /\ Len(T.syms) + Len(R.strs) = Len(R.syms) + Len(T.strs)
        /\ Len(T.rels) + Len(R.strs) = Len(R.rels) + Len(T.strs)
    <3> DEFINE a == Len(R.syms)
               b == Len(R.strs)
    <3>1. Len(T.syms) = a + 1 /\ Len(T.strs) = b + 1 /\ a \in Nat /\ b \in Nat
      BY <1>1, <1>2, <1>4
    <3> HIDE DEF a, b
    <3>0. N \in Nat /\ Len(T.rels) = N + 1
      BY <1>4, <1>7
    <3>2. Len(T.syms) + b = a + Len(T.strs) /\ Len(T.rels) + b = N + Len(T.strs)
      BY <3>0, <3>1
    <3> QED
      BY <3>2 DEF a, b, N
  <2> QED
    BY <1>7, <2>1, <2>2, <2>3, <2>4, <2>5, Zenon DEF Later, N
<1>13. ASSUME NEW it, it.str, it.s = s PROVE CellOk(T, q, 8, it, TRUE)
  <2>1. N + 1 \in 1 .. Len(T.rels) /\ T.rels[N + 1].off = q
    BY <1>4, <1>5, <1>7
  <2>2. T.rels[N + 1].sym = Len(A.syms)
    BY <1>2, <1>5, <1>7
  <2>3. Stands(T.strs, T.pool, T.rels[N + 1].sym, it.s)
    BY <1>1, <1>2, <1>13, <2>2
  <2>4. Touches(T.rels[N + 1], q, 8)
    BY <1>4, <2>1 DEF Touches
  <2>5. ASSUME NEW j \in 1 .. Len(T.rels), Touches(T.rels[j], q, 8) PROVE j = N + 1
    <3>1. SUFFICES ASSUME j \in 1 .. N PROVE FALSE
      BY <1>4, <1>7
    <3>2. T.rels[j].off \in Nat /\ T.rels[j].off + 8 <= q
      BY <1>7, <1>10, <3>1
    <3> QED
      BY <1>4, <2>5, <3>2 DEF Touches
  <2> QED
    BY <1>13, <2>1, <2>3, <2>4, <2>5, Zenon DEF CellOk
<1>14. Good(T)
  BY <1>0, <1>1, <1>9, <1>11 DEF Good
<1> QED
  BY <1>1, <1>2, <1>6, <1>12, <1>13, <1>14, Zenon DEF q

(* A number is written in 1, 2 or 4 bytes. *)
LEMMA WidthIs == ASSUME NEW elem PROVE Width(elem) \in {1, 2, 4} /\ Width(elem) \in Nat
BY DEF Width

(* The bytes of a value. *)
LEMMA BytesAre ==
  ASSUME NEW v \in Int, NEW n \in Nat
  PROVE  Bytes(v, n) \in Seq(Octets) /\ Len(Bytes(v, n)) = n
         /\ \A i \in 1 .. n : Bytes(v, n)[i] = Byte(v, i - 1)
<1>1. \A i \in 1 .. n : Byte(v, i - 1) \in Octets
  <2> SUFFICES ASSUME NEW i \in 1 .. n PROVE Byte(v, i - 1) \in Octets
    OBVIOUS
  <2>1. i - 1 \in Nat
    OBVIOUS
  <2> QED
    BY <2>1, ByteIn
<1> QED
  BY <1>1 DEF Bytes

HoldsInt(T, from, v, w) ==
  \A it : \A size \in Nat :
    ~it.str /\ it.v = v /\ (\A i \in w .. size - 1 : Byte(v, i) = 0) /\ w <= size
      => CellOk(T, from, size, it, TRUE)

(* A number of an initialiser is written behind the data. *)
LEMMA EmittedInt ==
  ASSUME NEW R, Good(R), NEW v \in Int, NEW elem, NEW T, T = EmitInt(R, v, elem),
         NEW w, w = Width(elem)
  PROVE  /\ Good(T) /\ T.bytes = R.bytes + w /\ T.idx = R.idx /\ Len(T.data) = Len(R.data) + w
         /\ Later(R, T, Len(R.data)) /\ T.strs = R.strs /\ T.pool = R.pool
         /\ HoldsInt(T, Len(R.data), v, w)
<1> DEFINE q == Len(R.data)
           bs == Bytes(v, w)
           dt == R.data \o bs
           b == R.bytes + w
<1>0. R \in Sections /\ ~R.failed /\ Tables(R.strs, R.syms) /\ Inside(R)
  BY DEF Good
<1>1. /\ R.data \in Seq(Octets) /\ R.rels \in Seq(Relocs) /\ q \in Nat /\ R.bytes \in Nat
      /\ w \in Nat /\ w > 0
  BY <1>0, LaterParts, WidthIs
<1>2. bs \in Seq(Octets) /\ Len(bs) = w /\ \A i \in 1 .. w : bs[i] = Byte(v, i - 1)
  BY <1>1, BytesAre
<1> HIDE DEF bs
<1>3. dt \in Seq(Octets) /\ Len(dt) = q + w
  <2>1. R.data \in Seq(Octets) /\ bs \in Seq(Octets)
    BY <1>1, <1>2, Zenon
  <2>2. dt \in Seq(Octets) /\ Len(dt) = Len(R.data) + Len(bs)
    BY <2>1, JoinedIn, Zenon
  <2> QED
    BY <1>2, <2>2, Zenon
<1>4. \A p \in 1 .. q : dt[p] = R.data[p]
  BY <1>1, <1>2, JoinedFirst, Zenon
<1>5. \A p \in 1 .. w : dt[q + p] = Byte(v, p - 1)
  <2>1. \A p \in 1 .. Len(bs) : dt[q + p] = bs[p]
    BY <1>1, <1>2, JoinedBehind, Zenon
  <2> HIDE DEF dt, q
  <2> QED
    BY <1>2, <2>1
<1>6. T = [R EXCEPT !.data = dt, !.bytes = b]
  BY DEF EmitInt, bs
<1>7. b \in Nat
  BY <1>1
<1> HIDE DEF q, dt, b
<1>8. /\ T \in Sections /\ T.data = dt /\ T.bytes = b /\ T.rels = R.rels /\ T.syms = R.syms
      /\ T.strs = R.strs /\ T.pool = R.pool /\ T.idx = R.idx /\ T.failed = R.failed
  BY <1>0, <1>3, <1>6, <1>7 DEF Sections
<1>9. \A k \in 1 .. Len(R.rels) : R.rels[k].off \in Nat /\ R.rels[k].off + 8 <= q
  <2> SUFFICES ASSUME NEW k \in 1 .. Len(R.rels) PROVE R.rels[k].off \in Nat /\ R.rels[k].off + 8 <= q
    OBVIOUS
  <2>1. R.rels[k] \in Relocs
    BY <1>1
  <2>2. R.rels[k].off \in Nat
    BY <2>1 DEF Relocs
  <2>3. R.rels[k].off + 8 <= q
    BY <1>0 DEF Inside, q
  <2> QED
    BY <2>2, <2>3
<1>10. Good(T)
  <2>1. ASSUME NEW k \in 1 .. Len(R.rels) PROVE R.rels[k].off + 8 <= q + w
    <3>1. R.rels[k].off \in Nat /\ R.rels[k].off + 8 <= q
      BY <1>9
    <3> QED
      BY <1>1, <3>1
  <2>2. Inside(T)
    BY <1>3, <1>8, <2>1 DEF Inside
  <2> QED
    BY <1>0, <1>8, <2>2 DEF Good
<1>11. Later(R, T, q)
  <2>1. Later(R, R, q)
    BY <1>0, <1>1, LaterSelf
  <2>2. \A p \in 1 .. q : ByteAt(T.data, p) = ByteAt(R.data, p)
    <3> SUFFICES ASSUME NEW p \in 1 .. q PROVE ByteAt(dt, p) = ByteAt(R.data, p)
      BY <1>8
    <3>1. p \in 1 .. Len(dt) /\ p \in 1 .. Len(R.data)
      BY <1>1, <1>3 DEF q
    <3> QED
      BY <1>4, <3>1 DEF ByteAt
  <2> QED
    BY <1>8, <2>1, <2>2 DEF Later
<1>12. ASSUME NEW it, NEW size \in Nat, ~it.str, it.v = v, \A i \in w .. size - 1 : Byte(v, i) = 0,
              w <= size
       PROVE  CellOk(T, q, size, it, TRUE)
  <2>1. ASSUME NEW j \in 1 .. Len(R.rels) PROVE ~Touches(R.rels[j], q, size)
    <3>1. R.rels[j].off \in Nat /\ R.rels[j].off + 8 <= q
      BY <1>9
    <3> QED
      BY <1>1, <3>1 DEF Touches
  <2>2. ASSUME NEW i \in 1 .. size PROVE ByteAt(dt, q + i) = Byte(v, i - 1)
    <3>1. CASE i \in 1 .. w
      <4>1. q + i \in 1 .. Len(dt)
        BY <1>1, <1>3, <3>1
      <4> QED
        BY <1>5, <3>1, <4>1 DEF ByteAt
    <3>2. CASE i \notin 1 .. w
      <4>1. q + i \notin 1 .. Len(dt) /\ i - 1 \in w .. size - 1
        BY <1>1, <1>3, <3>2
      <4> QED
        BY <1>12, <4>1 DEF ByteAt
    <3> QED
      BY <3>1, <3>2
  <2> QED
    BY <1>8, <1>12, <2>1, <2>2 DEF CellOk, Value
<1> QED
  BY <1>3, <1>8, <1>10, <1>11, <1>12, Zenon DEF q, b, HoldsInt

(* Of an element that is filled up only data, idx and bytes are new. *)
LEMMA EmptiedParts ==
  ASSUME NEW R, R \in Sections, NEW dt \in Seq(Octets)
  PROVE  LET T == [R EXCEPT !.data = dt, !.idx = 0, !.bytes = 0]
         IN  /\ T \in Sections /\ T.data = dt /\ T.bytes = 0 /\ T.rels = R.rels
             /\ T.syms = R.syms /\ T.strs = R.strs /\ T.pool = R.pool /\ T.idx = 0
             /\ T.failed = R.failed
<1>1. [R EXCEPT !.data = dt] \in Sections
  BY DEF Sections
<1> DEFINE U == [R EXCEPT !.data = dt]
           V == [U EXCEPT !.idx = 0]
           W == [V EXCEPT !.bytes = 0]
           T == [R EXCEPT !.data = dt, !.idx = 0, !.bytes = 0]
<1>2. /\ U \in Sections /\ U.data = dt /\ U.bytes = R.bytes /\ U.rels = R.rels
      /\ U.syms = R.syms /\ U.strs = R.strs /\ U.pool = R.pool /\ U.idx = R.idx
      /\ U.failed = R.failed
  BY <1>1 DEF Sections
<1>3. T = W
  BY DEF Sections
<1> HIDE DEF T
<1> HIDE DEF U
<1>4. /\ V \in Sections /\ V.data = dt /\ V.bytes = U.bytes /\ V.rels = U.rels
      /\ V.syms = U.syms /\ V.strs = U.strs /\ V.pool = U.pool /\ V.idx = 0
      /\ V.failed = U.failed
  BY <1>2 DEF Sections
<1> HIDE DEF V
<1>5. /\ W \in Sections /\ W.data = V.data /\ W.bytes = 0 /\ W.rels = V.rels
      /\ W.syms = V.syms /\ W.strs = V.strs /\ W.pool = V.pool /\ W.idx = V.idx
      /\ W.failed = V.failed
  BY <1>4 DEF Sections
<1> HIDE DEF W
<1> QED
  BY <1>2, <1>3, <1>4, <1>5 DEF T

(* An element is filled up when it has its items. *)
LEMMA Filled ==
  ASSUME NEW R, Good(R), NEW node, node.elem \in Nat, NEW T, T = Fill(R, node)
  PROVE  /\ Good(T) /\ Later(R, T, Len(R.data)) /\ T.strs = R.strs /\ T.pool = R.pool
         /\ T.rels = R.rels
         /\ \A p \in Nat : ByteAt(T.data, p) = ByteAt(R.data, p)
         /\ IF R.idx + 1 < node.per
            THEN T.data = R.data /\ T.idx = R.idx + 1 /\ T.bytes = R.bytes
            ELSE /\ T.idx = 0 /\ T.bytes = 0
                 /\ Len(T.data) = Len(R.data)
                                    + IF node.elem > R.bytes THEN node.elem - R.bytes ELSE 0
<1> DEFINE m == node.elem - R.bytes
           dt == R.data \o Zeros(m)
           q == Len(R.data)
<1>0. R \in Sections /\ ~R.failed /\ Tables(R.strs, R.syms) /\ Inside(R)
  BY DEF Good
<1>1. /\ R.data \in Seq(Octets) /\ R.rels \in Seq(Relocs) /\ q \in Nat /\ R.bytes \in Nat
      /\ R.idx \in Nat
  BY <1>0, LaterParts
<1>2. m \in Int
  BY <1>1
<1>3. /\ dt \in Seq(Octets) /\ Len(dt) = q + (IF m > 0 THEN m ELSE 0)
      /\ \A p \in Nat : ByteAt(dt, p) = ByteAt(R.data, p)
  <2> HIDE DEF m
  <2> QED
    BY <1>1, <1>2, ZeroIn, WithZeros, Zenon
<1>4. Later(R, R, q)
  BY <1>0, <1>1, LaterSelf
<1>5. CASE R.idx + 1 < node.per
  <2> DEFINE i == R.idx + 1
  <2>1. T = [R EXCEPT !.idx = i] /\ i \in Nat
    BY <1>1, <1>5 DEF Fill
  <2> HIDE DEF i
  <2>2. /\ T \in Sections /\ T.data = R.data /\ T.bytes = R.bytes /\ T.rels = R.rels
        /\ T.syms = R.syms /\ T.strs = R.strs /\ T.pool = R.pool /\ T.idx = i
        /\ T.failed = R.failed
    BY <1>0, <2>1 DEF Sections
  <2>3. Good(T)
    BY <1>0, <2>2 DEF Good, Inside
  <2>4. Later(R, T, q)
    BY <1>4, <2>2 DEF Later
  <2> QED
    BY <1>5, <2>2, <2>3, <2>4 DEF i
<1>6. CASE ~(R.idx + 1 < node.per)
  <2>1. T = [R EXCEPT !.data = dt, !.idx = 0, !.bytes = 0]
    BY <1>6 DEF Fill
  <2> HIDE DEF dt
  <2>2. /\ T \in Sections /\ T.data = dt /\ T.bytes = 0 /\ T.rels = R.rels
        /\ T.syms = R.syms /\ T.strs = R.strs /\ T.pool = R.pool /\ T.idx = 0
        /\ T.failed = R.failed
    <3>1. dt \in Seq(Octets)
      BY <1>3 DEF dt
    <3> QED
      <4> DEFINE E == [R EXCEPT !.data = dt, !.idx = 0, !.bytes = 0]
      <4>1. R \in Sections
        BY <1>0
      <4>2. /\ E \in Sections /\ E.data = dt /\ E.bytes = 0 /\ E.rels = R.rels
            /\ E.syms = R.syms /\ E.strs = R.strs /\ E.pool = R.pool /\ E.idx = 0
            /\ E.failed = R.failed
        BY <3>1, <4>1, EmptiedParts, Zenon
      <4>3. T = E
        BY <2>1
      <4> HIDE DEF E
      <4> QED
        BY <4>2, <4>3, Zenon
  <2>3. q <= Len(dt) /\ Len(dt) \in Nat
    <3>1. Len(dt) = q + (IF m > 0 THEN m ELSE 0)
      BY <1>3 DEF dt
    <3> HIDE DEF q, m
    <3> QED
      BY <1>1, <1>2, <3>1
  <2>4. Inside(T)
    <3> SUFFICES ASSUME NEW k \in 1 .. Len(R.rels) PROVE R.rels[k].off + 8 <= Len(dt)
      BY <2>2 DEF Inside
    <3>1. R.rels[k] \in Relocs
      BY <1>1
    <3>2. R.rels[k].off \in Nat
      BY <3>1 DEF Relocs
    <3>3. R.rels[k].off + 8 <= q
      BY <1>0 DEF Inside, q
    <3> QED
      BY <1>1, <2>3, <3>2, <3>3
  <2>5. Good(T)
    BY <1>0, <2>2, <2>4 DEF Good
  <2>6. Later(R, T, q)
    <3>1. \A p \in Nat : ByteAt(T.data, p) = ByteAt(R.data, p)
      BY <1>3, <2>2 DEF dt
    <3>2. \A p \in 1 .. q : p \in Nat
      OBVIOUS
    <3> HIDE DEF q
    <3>3. \A p \in 1 .. q : ByteAt(T.data, p) = ByteAt(R.data, p)
      BY <3>1, <3>2, Zenon
    <3> QED
      BY <1>4, <2>2, <3>3, Zenon DEF Later
  <2>7. Len(T.data) = q + IF node.elem > R.bytes THEN node.elem - R.bytes ELSE 0
    <3>1. (IF m > 0 THEN m ELSE 0) = IF node.elem > R.bytes THEN node.elem - R.bytes ELSE 0
      BY <1>1
    <3> QED
      BY <1>3, <2>2, <3>1 DEF dt
  <2> QED
    BY <1>3, <1>6, <2>2, <2>5, <2>6, <2>7 DEF dt
<1> QED
  BY <1>5, <1>6

(* An item is a string or a number. *)
LEMMA ItemIs ==
  ASSUME NEW it, it \in Items
  PROVE  it.str \in BOOLEAN /\ (it.str => it.s \in Seq(Nat)) /\ (~it.str => it.v \in Int)
BY DEF Items

(* The same bytes and references hold the same. *)
LEMMA CellSame ==
  ASSUME NEW R, NEW T, T.rels = R.rels, T.strs = R.strs, T.pool = R.pool,
         \A p \in Nat : ByteAt(T.data, p) = ByteAt(R.data, p),
         NEW from \in Nat, NEW size \in Nat, NEW it, NEW list, CellOk(R, from, size, it, list)
  PROVE  CellOk(T, from, size, it, list)
<1>1. CASE list /\ it.str
  BY <1>1, Zenon DEF CellOk
<1>2. CASE ~(list /\ it.str)
  <2>1. \A i \in 1 .. size : ByteAt(R.data, from + i) = Value(list, it, i)
    BY <1>2, Zenon DEF CellOk
  <2>2. \A i \in 1 .. size : from + i \in Nat
    OBVIOUS
  <2>3. \A i \in 1 .. size : ByteAt(T.data, from + i) = Value(list, it, i)
    BY <2>1, <2>2, Zenon
  <2> QED
    BY <1>2, <2>3, Zenon DEF CellOk
<1> QED
  BY <1>1, <1>2

(* How many bytes an item takes. *)
ItemWidth(it, elem) == IF it.str THEN 8 ELSE Width(elem)

(* An item is some bytes wide. *)
LEMMA ItemWidthIs ==
  ASSUME NEW it, NEW elem
  PROVE  ItemWidth(it, elem) \in Nat
BY WidthIs DEF ItemWidth

(* What an item adds: w bytes that hold it, and those that fill up the     *)
(* element when it is the last.                                            *)
ItemAdded(R, T, it, node, w) ==
  /\ Good(T) /\ Later(R, T, Len(R.data))
  /\ \A size \in Nat : w <= size
                       /\ (IF it.str THEN size = 8 ELSE \A i \in w .. size - 1 : Byte(it.v, i) = 0)
                       => CellOk(T, Len(R.data), size, it, TRUE)
  /\ IF R.idx + 1 < node.per
     THEN Len(T.data) = Len(R.data) + w /\ T.idx = R.idx + 1 /\ T.bytes = R.bytes + w
     ELSE /\ T.idx = 0 /\ T.bytes = 0
          /\ Len(T.data) = Len(R.data) + w
                             + IF node.elem > R.bytes + w THEN node.elem - (R.bytes + w) ELSE 0
  /\ IF it.str THEN Len(T.strs) = Len(R.strs) + 1 /\ Len(T.pool) = Len(R.pool) + Len(it.s) + 1
     ELSE T.strs = R.strs /\ T.pool = R.pool
  /\ \A k \in 1 .. Len(T.rels) : T.rels[k].off + 8 <= Len(R.data) + w
  /\ \A p \in Nat : p > Len(R.data) + w => ByteAt(T.data, p) = 0

(* An item is written, or no table has room for its string. *)
LEMMA ItemEmitted ==
  ASSUME NEW R, Good(R), NEW it, it \in Items, NEW node, node.elem \in Nat,
         NEW w, w = ItemWidth(it, node.elem),
         NEW T, T = EmitItem(R, it, node)
  PROVE  /\ ~T.failed => ItemAdded(R, T, it, node, w)
         /\ T.failed => it.str /\ (~StringFits(R, it.s) \/ Len(R.rels) >= ELF_MAX_RELS)
<1>0. R \in Sections /\ ~R.failed
  BY DEF Good
<1>1. it.str \in BOOLEAN /\ (it.str => it.s \in Seq(Nat)) /\ (~it.str => it.v \in Int)
  BY ItemIs
<1> DEFINE U == IF it.str THEN EmitString(R, it.s) ELSE EmitInt(R, it.v, node.elem)
           q == Len(R.data)
<1>2. T = Fill(U, node)
  BY <1>0 DEF EmitItem
<1>3. /\ w \in Nat /\ q \in Nat
  BY <1>0, LaterParts, ItemWidthIs
<1>4. CASE it.str /\ U.failed
  <2>1. U = EmitString(R, it.s)
    BY <1>4
  <2>2. ~StringFits(R, it.s) \/ Len(R.rels) >= ELF_MAX_RELS
    <3>1. SUFFICES ASSUME ~(~StringFits(R, it.s) \/ Len(R.rels) >= ELF_MAX_RELS) PROVE FALSE
      OBVIOUS
    <3>2. AddString(R, it.s) \in Sections /\ AddString(R, it.s).failed = R.failed
      BY <1>0, <1>1, <1>4, AddedParts
    <3>3. U.failed = AddString(R, it.s).failed
      BY <2>1, <3>1, <3>2 DEF EmitString, Sections
    <3> QED
      BY <1>0, <1>4, <3>2, <3>3
  <2>3. U = [R EXCEPT !.failed = TRUE]
    BY <2>1, <2>2 DEF EmitString
  <2>4. U \in Sections
    BY <1>0, <2>3 DEF Sections
  <2>5. T.failed
    <3> HIDE DEF U
    <3>1. T.failed = U.failed
      BY <1>2, <2>4 DEF Fill, Sections
    <3> QED
      BY <1>4, <3>1 DEF U
  <2> QED
    BY <1>4, <2>2, <2>5
<1>5. CASE ~(it.str /\ U.failed)
  <2>1. /\ Good(U) /\ U.bytes = R.bytes + w /\ U.idx = R.idx /\ Len(U.data) = q + w
        /\ Later(R, U, q)
        /\ IF it.str THEN Len(U.strs) = Len(R.strs) + 1 /\ Len(U.pool) = Len(R.pool) + Len(it.s) + 1
           ELSE U.strs = R.strs /\ U.pool = R.pool
    <3>1. CASE it.str
      <4>1. U = EmitString(R, it.s) /\ ~U.failed /\ w = 8
        BY <1>5, <3>1 DEF ItemWidth
      <4> HIDE DEF U, q
      <4>2. it.s \in Seq(Nat)
        BY <1>1, <3>1
      <4>3. /\ Good(U) /\ U.bytes = R.bytes + 8 /\ U.idx = R.idx /\ Len(U.data) = Len(R.data) + 8
            /\ Later(R, U, Len(R.data))
            /\ Len(U.strs) = Len(R.strs) + 1 /\ Len(U.pool) = Len(R.pool) + Len(it.s) + 1
        BY <4>1, <4>2, EmittedString, Zenon
      <4> QED
        BY <3>1, <4>1, <4>3, Zenon DEF q
    <3>2. CASE ~it.str
      <4>1. U = EmitInt(R, it.v, node.elem) /\ w = Width(node.elem)
        BY <3>2 DEF ItemWidth
      <4> HIDE DEF U, q
      <4>2. it.v \in Int
        BY <1>1, <3>2
      <4>3. /\ Good(U) /\ U.bytes = R.bytes + w /\ U.idx = R.idx /\ Len(U.data) = Len(R.data) + w
            /\ Later(R, U, Len(R.data)) /\ U.strs = R.strs /\ U.pool = R.pool
        BY <4>1, <4>2, EmittedInt
      <4> QED
        BY <3>2, <4>3, Zenon DEF q
    <3> QED
      BY <3>1, <3>2
  <2>2. ASSUME NEW size \in Nat, w <= size,
               IF it.str THEN size = 8 ELSE \A i \in w .. size - 1 : Byte(it.v, i) = 0
        PROVE  CellOk(U, q, size, it, TRUE)
    <3>1. CASE it.str
      <4>1. U = EmitString(R, it.s) /\ ~U.failed /\ size = 8
        BY <1>5, <2>2, <3>1
      <4>2. \A i : i.str /\ i.s = it.s => CellOk(U, q, 8, i, TRUE)
        <5> HIDE DEF U
        <5> QED
          BY <1>1, <3>1, <4>1, EmittedString
      <4> QED
        BY <3>1, <4>1, <4>2, Zenon
    <3>2. CASE ~it.str
      <4>1. U = EmitInt(R, it.v, node.elem) /\ w = Width(node.elem)
            /\ \A i \in w .. size - 1 : Byte(it.v, i) = 0
        BY <2>2, <3>2 DEF ItemWidth
      <4>2. HoldsInt(U, q, it.v, w)
        <5> HIDE DEF U
        <5> QED
          BY <1>1, <3>2, <4>1, EmittedInt
      <4>3. CellOk(U, q, size, it, TRUE)
        <5> HIDE DEF U, q
        <5>1. size \in Nat /\ ~it.str /\ it.v = it.v /\ (\A j \in w .. size - 1 : Byte(it.v, j) = 0) /\ w <= size
          BY <2>2, <3>2, <4>1
        <5> QED
          BY <4>2, <5>1, Zenon DEF HoldsInt
      <4> QED
        BY <4>3
    <3> QED
      BY <3>1, <3>2
  <2> HIDE DEF U
  <2>3. /\ Good(T) /\ Later(U, T, Len(U.data)) /\ T.strs = U.strs /\ T.pool = U.pool
        /\ T.rels = U.rels
        /\ \A p \in Nat : ByteAt(T.data, p) = ByteAt(U.data, p)
        /\ IF U.idx + 1 < node.per
           THEN T.data = U.data /\ T.idx = U.idx + 1 /\ T.bytes = U.bytes
           ELSE /\ T.idx = 0 /\ T.bytes = 0
                /\ Len(T.data) = Len(U.data)
                                   + IF node.elem > U.bytes THEN node.elem - U.bytes ELSE 0
    BY <1>2, <2>1, Filled
  <2>4. U \in Sections /\ T \in Sections /\ ~T.failed
    BY <2>1, <2>3 DEF Good
  <2>5. Later(R, T, q)
    <3>1. Len(U.data) \in Nat /\ q <= Len(U.data)
      BY <1>3, <2>1
    <3> QED
      BY <1>0, <1>3, <2>1, <2>3, <2>4, <3>1, LaterBeyond
  <2>6. ASSUME NEW size \in Nat, w <= size,
               IF it.str THEN size = 8 ELSE \A i \in w .. size - 1 : Byte(it.v, i) = 0
        PROVE  CellOk(T, q, size, it, TRUE)
    <3>1. CellOk(U, q, size, it, TRUE)
      BY <2>2, <2>6, Zenon
    <3> QED
      BY <1>3, <2>3, <3>1, CellSame
  <2>7. IF R.idx + 1 < node.per
        THEN Len(T.data) = q + w /\ T.idx = R.idx + 1 /\ T.bytes = R.bytes + w
        ELSE /\ T.idx = 0 /\ T.bytes = 0
             /\ Len(T.data) = q + w
                                + IF node.elem > R.bytes + w THEN node.elem - (R.bytes + w) ELSE 0
    BY <2>1, <2>3
  <2>8. \A k \in 1 .. Len(T.rels) : T.rels[k].off + 8 <= q + w
    BY <2>1, <2>3 DEF Good, Inside
  <2>9. \A p \in Nat : p > q + w => ByteAt(T.data, p) = 0
    <3> SUFFICES ASSUME NEW p \in Nat, p > q + w PROVE ByteAt(U.data, p) = 0
      BY <2>3
    <3>1. p \notin 1 .. Len(U.data)
      BY <1>3, <2>1
    <3> QED
      BY <3>1 DEF ByteAt
  <2>10. ItemAdded(R, T, it, node, w)
    <3>1. IF it.str THEN Len(T.strs) = Len(R.strs) + 1 /\ Len(T.pool) = Len(R.pool) + Len(it.s) + 1
          ELSE T.strs = R.strs /\ T.pool = R.pool
      BY <2>1, <2>3
    <3> QED
      BY <2>3, <2>5, <2>6, <2>7, <2>8, <2>9, <3>1, Zenon DEF ItemAdded
  <2> QED
    BY <2>4, <2>10
<1> QED
  BY <1>4, <1>5

-----------------------------------------------------------------------------
(* After i items: what is there is behind what was there after j. *)
LEMMA EmitsGood ==
  ASSUME NEW R, Good(R), NEW node, node.elem \in Nat, node.items \in Seq(Items)
  PROVE  LET g == Emitted(R, node)
         IN  \A i \in 0 .. Len(node.items) : ~g[i].failed =>
               /\ Good(g[i])
               /\ \A j \in 0 .. i : /\ ~g[j].failed /\ Good(g[j])
                                    /\ Len(g[j].data) <= Len(g[i].data)
                                    /\ Later(g[j], g[i], Len(g[j].data))
<1> DEFINE g == Emitted(R, node)
           N == Len(node.items)
           P(i) == ~g[i].failed =>
               /\ Good(g[i])
               /\ \A j \in 0 .. i : /\ ~g[j].failed /\ Good(g[j])
                                    /\ Len(g[j].data) <= Len(g[i].data)
                                    /\ Later(g[j], g[i], Len(g[j].data))
           S == {i \in 0 .. N : P(i)}
<1>1. N \in Nat /\ g[0] = R /\ (\A i \in 1 .. N : g[i] = EmitItem(g[i - 1], node.items[i], node))
  <2>1. N \in Nat
    OBVIOUS
  <2> QED
    BY <2>1, EmittedSteps, Zenon
<1>2. \A i \in 1 .. N : node.items[i] \in Items
  OBVIOUS
<1> HIDE DEF g, N
<1>3. 0 \in S
  <2>1. Good(g[0]) /\ g[0] \in Sections /\ Len(g[0].data) \in Nat
    BY <1>1, LaterParts DEF Good
  <2>2. Later(g[0], g[0], Len(g[0].data))
    BY <2>1, LaterSelf
  <2>3. \A j \in 0 .. 0 : j = 0
    OBVIOUS
  <2>4. ~g[0].failed
    BY <1>1 DEF Good
  <2>5. P(0)
    BY <2>1, <2>2, <2>3, <2>4
  <2> QED
    BY <1>1, <2>5
<1>4. \A i \in 0 .. N - 1 : i \in S => i + 1 \in S
  <2> SUFFICES ASSUME NEW i \in 0 .. N - 1, P(i), ~g[i + 1].failed PROVE P(i + 1)
    BY <1>1
  <2>1. i + 1 \in 1 .. N /\ (i + 1) - 1 = i
    BY <1>1
  <2>2. g[i + 1] = EmitItem(g[i], node.items[i + 1], node) /\ node.items[i + 1] \in Items
    BY <1>1, <1>2, <2>1
  <2>3. ~g[i].failed
    BY <2>2 DEF EmitItem
  <2>4. /\ Good(g[i])
        /\ \A j \in 0 .. i : /\ ~g[j].failed /\ Good(g[j])
                             /\ Len(g[j].data) <= Len(g[i].data)
                             /\ Later(g[j], g[i], Len(g[j].data))
    BY <2>3
  <2> DEFINE it == node.items[i + 1]
             w == ItemWidth(it, node.elem)
             U == g[i]
             T == g[i + 1]
  <2>5. ItemAdded(U, T, it, node, w)
    <3>1. T = EmitItem(U, it, node) /\ it \in Items /\ ~T.failed /\ Good(U)
      BY <2>2, <2>4
    <3> HIDE DEF it, U, T
    <3> QED
      BY <3>1, ItemEmitted
  <2> HIDE DEF P, it, U, T
  <2>6. Good(T) /\ Later(U, T, Len(U.data)) /\ Len(U.data) <= Len(T.data)
    <3>1. U \in Sections /\ w \in Nat
      BY <2>4, ItemWidthIs DEF Good, U
    <3>2. U.bytes \in Nat /\ Len(U.data) \in Nat
      BY <3>1, LaterParts
    <3>3. Good(T) /\ Later(U, T, Len(U.data))
      BY <2>5 DEF ItemAdded
    <3>4. \/ Len(T.data) = Len(U.data) + w
          \/ Len(T.data) = Len(U.data) + w
                             + IF node.elem > U.bytes + w THEN node.elem - (U.bytes + w) ELSE 0
      BY <2>5 DEF ItemAdded
    <3>5. Len(U.data) <= Len(T.data)
      <4> HIDE DEF w
      <4> QED
        BY <3>1, <3>2, <3>4
    <3> QED
      BY <3>3, <3>5
  <2>7. ASSUME NEW j \in 0 .. i + 1
        PROVE  /\ ~g[j].failed /\ Good(g[j]) /\ Len(g[j].data) <= Len(T.data)
               /\ Later(g[j], T, Len(g[j].data))
    <3>1. T \in Sections /\ U \in Sections /\ Len(T.data) \in Nat /\ Len(U.data) \in Nat
      BY <2>4, <2>6, LaterParts DEF Good, U
    <3>2. CASE j = i + 1
      <4>1. g[j] = T
        BY <3>2 DEF T
      <4>2. Later(T, T, Len(T.data))
        BY <3>1, LaterSelf
      <4> QED
        BY <2>6, <3>1, <4>1, <4>2 DEF Good
    <3>3. CASE j \in 0 .. i
      <4>1. /\ ~g[j].failed /\ Good(g[j]) /\ Len(g[j].data) <= Len(U.data)
            /\ Later(g[j], U, Len(g[j].data))
        BY <2>4, <3>3 DEF U
      <4>2. g[j] \in Sections /\ Len(g[j].data) \in Nat
        BY <4>1, LaterParts DEF Good
      <4>3. Later(g[j], T, Len(g[j].data))
        BY <2>6, <3>1, <4>1, <4>2, LaterBeyond
      <4>4. Len(g[j].data) <= Len(T.data)
        BY <2>6, <3>1, <4>1, <4>2
      <4> QED
        BY <4>1, <4>3, <4>4
    <3> QED
      BY <3>2, <3>3
  <2> QED
    BY <2>6, <2>7 DEF P, T
<1>5. \A i \in 0 .. N : i \in S
  <2> HIDE DEF S
  <2> QED
    BY <1>1, <1>3, <1>4, Onward
<1> QED
  <2>1. \A i \in 0 .. N : P(i)
    BY <1>5
  <2> QED
    BY <2>1, Zenon DEF g, N

-----------------------------------------------------------------------------
(* A row of items of which each is where C has the member, as wide or with *)
(* nothing but zeros in what is not written.                               *)
RowFits(ms, row, elem, per, B) ==
  /\ Len(row) \in 1 .. Len(ms)
  /\ per = Len(row) \/ elem = 0
  /\ \A k \in 1 .. Len(row) :
       LET w == ItemWidth(row[k], elem)
       IN  /\ B[k] = Offsets(ms)[k] /\ w <= ms[k] /\ B[k + 1] = B[k] + w
           /\ IF row[k].str THEN ms[k] = 8 ELSE \A i \in w .. ms[k] - 1 : Byte(row[k].v, i) = 0

(* The states of the tables while a row is emitted. *)
Emitting(h, row, node) ==
  /\ \A k \in 1 .. Len(row) : h[k] = EmitItem(h[k - 1], row[k], node)
  /\ \A k \in 0 .. Len(row) : /\ ~h[k].failed /\ Good(h[k])
                              /\ \A j \in 0 .. k : Later(h[j], h[k], Len(h[j].data))

(* One item more: the cells so far hold what they should. *)
LEMMA CellsEmitted ==
  ASSUME NEW ms \in Seq(Sizes), ms # <<>>, NEW row \in Seq(Items), NEW node, node.elem \in Nat, NEW B,
         RowFits(ms, row, node.elem, node.per, B), NEW h, Emitting(h, row, node),
         NEW q \in Nat, NEW k \in 1 .. Len(row), Len(h[k - 1].data) = q + B[k],
         \A m \in 1 .. k - 1 : CellOk(h[k - 1], q + Offsets(ms)[m], ms[m], row[m], TRUE)
  PROVE  /\ ItemAdded(h[k - 1], h[k], row[k], node, ItemWidth(row[k], node.elem))
         /\ \A m \in 1 .. k : CellOk(h[k], q + Offsets(ms)[m], ms[m], row[m], TRUE)
<1> DEFINE R == h[k - 1]
           T == h[k]
           it == row[k]
           w == ItemWidth(it, node.elem)
           O == Offsets(ms)
<1>1. Len(row) \in Nat /\ k - 1 \in 0 .. Len(row) /\ k \in 0 .. Len(row) /\ k - 1 \in 0 .. k
  OBVIOUS
<1>2. T = EmitItem(R, it, node) /\ Good(R) /\ Good(T) /\ ~T.failed /\ Later(R, T, Len(R.data))
  BY <1>1, Zenon DEF Emitting
<1>3. it \in Items /\ \A m \in 1 .. k : row[m] \in Items
  OBVIOUS
<1>4. w \in Nat
  BY ItemWidthIs
<1>5. ItemAdded(R, T, it, node, w)
  <2>1. node.elem \in Nat /\ w = ItemWidth(it, node.elem)
    OBVIOUS
  <2> HIDE DEF R, T, it
  <2> QED
    BY <1>2, <1>3, <2>1, ItemEmitted
<1>6. /\ B[k] = O[k] /\ w <= ms[k]
      /\ IF it.str THEN ms[k] = 8 ELSE \A i \in w .. ms[k] - 1 : Byte(it.v, i) = 0
  BY DEF RowFits
<1>7. /\ Len(row) <= Len(ms) /\ Len(ms) \in Nat /\ \A m \in 1 .. k : m \in 1 .. Len(ms)
      /\ \A m \in 1 .. k : O[m] \in Nat /\ ms[m] \in Nat
      /\ \A m \in 1 .. k - 1 : O[m] + ms[m] <= O[k]
  <2>1. Len(row) <= Len(ms) /\ Len(row) \in Nat
    BY DEF RowFits
  <2>2. Len(ms) \in Nat
    OBVIOUS
  <2>3. \A m \in 1 .. k : m \in 1 .. Len(ms)
    BY <2>1, <2>2
  <2>4. \A m \in 1 .. Len(ms) : O[m] \in Nat /\ ms[m] \in Nat
    BY Layout
  <2>5. \A i, j \in 1 .. Len(ms) : i < j => O[i] + ms[i] <= O[j]
    BY Layout
  <2>6. \A m \in 1 .. k - 1 : m \in 1 .. k /\ m < k
    OBVIOUS
  <2>7. k \in 1 .. k
    OBVIOUS
  <2> HIDE DEF O
  <2> QED
    BY <2>1, <2>2, <2>3, <2>4, <2>5, <2>6, <2>7
<1>8. Len(R.data) = q + O[k]
  BY <1>6
<1>9. CellOk(T, q + O[k], ms[k], it, TRUE)
  <2>1. ms[k] \in Nat
    BY <1>7
  <2> HIDE DEF R, T, it, O
  <2> QED
    BY <1>5, <1>6, <1>8, <2>1 DEF ItemAdded
<1>10. ASSUME NEW m \in 1 .. k - 1 PROVE CellOk(T, q + O[m], ms[m], row[m], TRUE)
  <2>1. m \in 1 .. k
    OBVIOUS
  <2>2. O[m] \in Nat /\ ms[m] \in Nat /\ O[m] + ms[m] <= O[k] /\ O[k] \in Nat /\ row[m] \in Items
    BY <1>3, <1>7, <2>1
  <2>3. CellOk(R, q + O[m], ms[m], row[m], TRUE)
    OBVIOUS
  <2> DEFINE from == q + O[m]
             size == ms[m]
             i == row[m]
  <2>4. from \in Nat /\ size \in Nat /\ from + size <= Len(R.data) /\ Len(R.data) \in Nat
    <3> DEFINE a == O[m]
               b == ms[m]
               c == O[k]
               e == Len(R.data)
    <3>1. a \in Nat /\ b \in Nat /\ c \in Nat /\ a + b <= c /\ e = q + c
      BY <1>8, <2>2
    <3> HIDE DEF a, b, c, e
    <3>2. q + a \in Nat /\ b \in Nat /\ (q + a) + b <= e /\ e \in Nat
      BY <3>1
    <3> QED
      BY <3>2 DEF a, b, e
  <2>5. R \in Sections /\ T \in Sections
    BY <1>2 DEF Good
  <2>6. CellOk(R, from, size, i, TRUE) /\ i \in Items
    BY <2>2, <2>3
  <2> HIDE DEF from, size, i, R, T, O
  <2>7. CellOk(T, from, size, i, TRUE)
    BY <1>2, <2>4, <2>5, <2>6, CellLater
  <2> QED
    BY <2>7 DEF from, size, i
<1>11. \A m \in 1 .. k : m = k \/ m \in 1 .. k - 1
  OBVIOUS
<1> QED
  <2> HIDE DEF O
  <2>1. \A m \in 1 .. k : CellOk(T, q + O[m], ms[m], row[m], TRUE)
    BY <1>9, <1>10, <1>11
  <2> QED
    BY <1>5, <2>1 DEF O

(* Before the last item of the row. *)
Within(h, ms, row, elem, B, q, k) ==
  /\ Len(h[k].data) = q + B[k + 1]
  /\ elem = 0 \/ (h[k].idx = k /\ h[k].bytes = B[k + 1])
  /\ \A m \in 1 .. k : CellOk(h[k], q + Offsets(ms)[m], ms[m], row[m], TRUE)

(* The items of an element before its last are where C has them. *)
LEMMA RowBegun ==
  ASSUME NEW ms \in Seq(Sizes), ms # <<>>, NEW row \in Seq(Items), NEW node, node.elem \in Nat, NEW B,
         RowFits(ms, row, node.elem, node.per, B), B[1] = 0, NEW h, Emitting(h, row, node),
         NEW q \in Nat, Len(h[0].data) = q, h[0].idx = 0, h[0].bytes = 0
  PROVE  \A k \in 0 .. Len(row) - 1 : Within(h, ms, row, node.elem, B, q, k)
<1> DEFINE L == Len(row)
           elem == node.elem
           S == {k \in 0 .. L - 1 : Within(h, ms, row, elem, B, q, k)}
<1>1. L \in Nat /\ L - 1 \in Nat /\ L > 0
  <2>1. L \in 1 .. Len(ms) /\ Len(ms) \in Nat
    BY DEF RowFits
  <2> QED
    BY <2>1
<1>2. 0 \in S
  <2>1. \A m \in 1 .. 0 : FALSE
    OBVIOUS
  <2>2. B[0 + 1] = 0
    OBVIOUS
  <2>3. Within(h, ms, row, elem, B, q, 0)
    BY <2>1, <2>2 DEF Within
  <2> QED
    BY <1>1, <2>3
<1>3. \A k \in 0 .. (L - 1) - 1 : k \in S => k + 1 \in S
  <2> SUFFICES ASSUME NEW k \in 0 .. (L - 1) - 1, Within(h, ms, row, elem, B, q, k)
               PROVE  Within(h, ms, row, elem, B, q, k + 1)
    BY <1>1
  <2> DEFINE l == k + 1
             w == ItemWidth(row[l], node.elem)
  <2>1. l \in 1 .. L /\ l - 1 = k /\ l \in Nat /\ l < L
    BY <1>1
  <2>2. Within(h, ms, row, elem, B, q, l - 1) /\ B[(l - 1) + 1] = B[l]
    BY <2>1
  <2> HIDE DEF l, L
  <2>3. /\ Len(h[l - 1].data) = q + B[l]
        /\ elem = 0 \/ (h[l - 1].idx = l - 1 /\ h[l - 1].bytes = B[l])
        /\ \A m \in 1 .. l - 1 : CellOk(h[l - 1], q + Offsets(ms)[m], ms[m], row[m], TRUE)
    BY <2>2 DEF Within
  <2>4. /\ ItemAdded(h[l - 1], h[l], row[l], node, w)
        /\ \A m \in 1 .. l : CellOk(h[l], q + Offsets(ms)[m], ms[m], row[m], TRUE)
    <3>2. l \in 1 .. Len(row) /\ Len(h[l - 1].data) = q + B[l]
          /\ \A m \in 1 .. l - 1 : CellOk(h[l - 1], q + Offsets(ms)[m], ms[m], row[m], TRUE)
      BY <2>1, <2>3 DEF L
    <3> HIDE DEF elem
    <3> QED
      BY <3>2, CellsEmitted
  <2>5. B[l + 1] = B[l] + w /\ (node.per = L \/ elem = 0)
    BY <2>1 DEF RowFits, L
  <2>6. w \in Nat /\ B[l] \in Nat
    <3>1. w \in Nat
      BY ItemWidthIs
    <3>2. L \in 1 .. Len(ms) /\ Len(ms) \in Nat /\ B[l] = Offsets(ms)[l]
      BY <2>1 DEF RowFits, L
    <3>3. l \in 1 .. Len(ms)
      BY <2>1, <3>2
    <3>4. Offsets(ms)[l] \in Nat
      BY <3>3, Layout
    <3> QED
      BY <3>1, <3>2, <3>4
  <2> HIDE DEF w, elem
  <2> DEFINE R == h[l - 1]
             T == h[l]
  <2>7. /\ \/ Len(T.data) = Len(R.data) + w /\ T.idx = R.idx + 1 /\ T.bytes = R.bytes + w
           \/ /\ ~(R.idx + 1 < node.per)
              /\ Len(T.data) = Len(R.data) + w
                             + IF node.elem > R.bytes + w THEN node.elem - (R.bytes + w) ELSE 0
    BY <2>4 DEF ItemAdded
  <2>8. R.bytes \in Nat
    <3>1. l - 1 \in 0 .. Len(row)
      BY <2>1 DEF L
    <3>2. R \in Sections
      BY <3>1 DEF Emitting, Good
    <3> QED
      BY <3>2, LaterParts
  <2>9. Len(R.data) = q + B[l] /\ (elem = 0 \/ (R.idx = l - 1 /\ R.bytes = B[l]))
    BY <2>3
  <2> HIDE DEF R, T
  <2>10. Len(T.data) = q + B[l + 1] /\ (elem = 0 \/ (T.idx = l /\ T.bytes = B[l + 1]))
    <3> DEFINE b == B[l]
               c == B[l + 1]
               t == Len(T.data)
               r == Len(R.data)
    <3>0. b \in Nat /\ c = b + w /\ r = q + b /\ (elem = 0 \/ (R.idx = l - 1 /\ R.bytes = b))
      BY <2>5, <2>6, <2>9
    <3>1. /\ \/ t = r + w /\ T.idx = R.idx + 1 /\ T.bytes = R.bytes + w
             \/ /\ ~(R.idx + 1 < node.per)
                /\ t = r + w + IF node.elem > R.bytes + w THEN node.elem - (R.bytes + w) ELSE 0
      BY <2>7
    <3> HIDE DEF b, c, t, r
    <3>2. CASE elem = 0
      <4>1. t = r + w
        BY <2>6, <2>8, <3>0, <3>1, <3>2 DEF elem
      <4> QED
        BY <2>6, <3>0, <3>2, <4>1 DEF c, t
    <3>3. CASE elem # 0
      <4>1. node.per = L /\ R.idx = l - 1 /\ R.bytes = b
        BY <2>5, <3>0, <3>3
      <4>2. R.idx + 1 < node.per
        BY <1>1, <2>1, <4>1
      <4>3. t = r + w /\ T.idx = R.idx + 1 /\ T.bytes = R.bytes + w
        BY <3>1, <4>2
      <4>4. t = q + c /\ T.idx = l /\ T.bytes = c
        BY <2>1, <2>6, <3>0, <4>1, <4>3
      <4> QED
        BY <4>4 DEF c, t
    <3> QED
      BY <3>2, <3>3
  <2>11. Within(h, ms, row, elem, B, q, l)
    BY <2>4, <2>10 DEF Within, T
  <2> QED
    BY <2>11 DEF l
<1>4. \A k \in 0 .. L - 1 : k \in S
  <2>1. 0 \in Nat
    OBVIOUS
  <2> DEFINE n == L - 1
  <2>2. n \in Nat /\ \A p \in 0 .. n - 1 : p \in S => p + 1 \in S
    BY <1>1, <1>3
  <2> HIDE DEF S, n
  <2>3. \A p \in 0 .. n : p \in S
    BY <1>2, <2>1, <2>2, Onward
  <2> QED
    BY <2>3 DEF n
<1> QED
  BY <1>4

NoItem == [str |-> FALSE, v |-> 0]

(* The bytes of 0 are 0. *)
LEMMA ByteZero == ASSUME NEW i \in Nat PROVE Byte(0, i) = 0
BY DEF Byte, Weight

RowDone(T, ms, row, elem, q, last) ==
  /\ last \in Nat /\ last <= StructSize(ms)
  /\ Len(T.data) = q + IF elem > last THEN elem ELSE last
  /\ elem # 0 => T.idx = 0 /\ T.bytes = 0
  /\ \A m \in 1 .. Len(row) : CellOk(T, q + Offsets(ms)[m], ms[m], row[m], TRUE)
  /\ \A m \in Len(row) + 1 .. Len(ms) : CellOk(T, q + Offsets(ms)[m], ms[m], NoItem, TRUE)

(* The last item of the row: its element is complete. *)
LEMMA RowEmitted ==
  ASSUME NEW ms \in Seq(Sizes), ms # <<>>, NEW row \in Seq(Items), NEW node, node.elem \in Nat, NEW B,
         RowFits(ms, row, node.elem, node.per, B), B[1] = 0, NEW h, Emitting(h, row, node),
         NEW q \in Nat, Len(h[0].data) = q, h[0].idx = 0, h[0].bytes = 0
  PROVE  RowDone(h[Len(row)], ms, row, node.elem, q, B[Len(row) + 1])
<1> SUFFICES ASSUME NEW L, L = Len(row), NEW T, T = h[L], NEW last, last = B[L + 1]
             PROVE  RowDone(T, ms, row, node.elem, q, last)
  OBVIOUS
<1> DEFINE elem == node.elem
           O == Offsets(ms)
           M == Len(ms)
           w == ItemWidth(row[L], elem)
           R == h[L - 1]
           b == B[L]
<1>1. L \in Nat /\ L > 0 /\ L <= M /\ M \in Nat /\ L \in 1 .. Len(row) /\ L \in 1 .. M
  <2>1. L \in 1 .. Len(ms) /\ Len(ms) \in Nat
    BY DEF RowFits
  <2> QED
    BY <2>1
<1>2. /\ Len(R.data) = q + b /\ (elem = 0 \/ (R.idx = L - 1 /\ R.bytes = b))
      /\ \A m \in 1 .. L - 1 : CellOk(R, q + O[m], ms[m], row[m], TRUE)
  <2>1. L - 1 \in 0 .. Len(row) - 1 /\ (L - 1) + 1 = L
    BY <1>1
  <2>2. Within(h, ms, row, node.elem, B, q, L - 1)
    BY <2>1, RowBegun
  <2> QED
    BY <2>1, <2>2 DEF Within
<1>3. /\ ItemAdded(R, T, row[L], node, w)
      /\ \A m \in 1 .. L : CellOk(T, q + O[m], ms[m], row[m], TRUE)
  BY <1>1, <1>2, CellsEmitted, ZenonT(30)
<1>4. w \in Nat /\ last = b + w /\ b = O[L] /\ w <= ms[L] /\ (node.per = L \/ elem = 0)
  <2>1. w \in Nat
    BY ItemWidthIs
  <2> QED
    BY <1>1, <2>1 DEF RowFits
<1>5. /\ \A m \in 1 .. M : O[m] \in Nat /\ ms[m] \in Nat /\ O[m] + ms[m] <= StructSize(ms)
      /\ StructSize(ms) \in Nat
      /\ \A m \in L + 1 .. M : O[L] + ms[L] <= O[m]
  <2>1. /\ \A m \in 1 .. M : O[m] \in Nat /\ ms[m] \in Nat /\ O[m] + ms[m] <= StructSize(ms)
        /\ StructSize(ms) \in Nat
    BY Layout
  <2>2. \A i, j \in 1 .. M : i < j => O[i] + ms[i] <= O[j]
    BY Layout
  <2>3. \A m \in L + 1 .. M : m \in 1 .. M /\ L < m
    BY <1>1
  <2> HIDE DEF O, M
  <2> QED
    BY <1>1, <2>1, <2>2, <2>3
<1>6. R \in Sections /\ T \in Sections /\ R.bytes \in Nat
  <2>1. L - 1 \in 0 .. Len(row) /\ L \in 0 .. Len(row)
    BY <1>1
  <2>2. R \in Sections /\ T \in Sections
    BY <2>1 DEF Emitting, Good
  <2> QED
    BY <2>2, LaterParts
<1> HIDE DEF R, w, O, M, b
<1>7. last \in Nat /\ last <= StructSize(ms) /\ b \in Nat /\ last <= O[L] + ms[L]
      /\ O[L] \in Nat /\ ms[L] \in Nat
  <2> DEFINE x == O[L]
             y == ms[L]
             z == StructSize(ms)
  <2>1. x \in Nat /\ y \in Nat /\ x + y <= z /\ z \in Nat
    BY <1>1, <1>5
  <2>2. b = x /\ w <= y
    BY <1>4
  <2> HIDE DEF x, y, z
  <2>3. last \in Nat /\ last <= z /\ b \in Nat /\ last <= x + y
    BY <1>4, <2>1, <2>2
  <2> QED
    BY <2>1, <2>3 DEF x, y, z
<1>8. /\ \/ /\ R.idx + 1 < node.per
            /\ Len(T.data) = Len(R.data) + w
         \/ /\ T.idx = 0 /\ T.bytes = 0
            /\ Len(T.data) = Len(R.data) + w
                             + IF elem > R.bytes + w THEN elem - (R.bytes + w) ELSE 0
      /\ \A k \in 1 .. Len(T.rels) : T.rels[k].off + 8 <= Len(R.data) + w
      /\ \A p \in Nat : p > Len(R.data) + w => ByteAt(T.data, p) = 0
  BY <1>3 DEF ItemAdded
<1>9. Len(T.data) = q + (IF elem > last THEN elem ELSE last)
      /\ (elem # 0 => T.idx = 0 /\ T.bytes = 0)
  <2>1. CASE elem = 0
    <3>1. Len(T.data) = Len(R.data) + w
      BY <1>4, <1>6, <1>8, <2>1
    <3> QED
      BY <1>2, <1>4, <1>7, <2>1, <3>1
  <2>2. CASE elem # 0
    <3>1. ~(R.idx + 1 < node.per) /\ R.bytes = b
      BY <1>1, <1>2, <1>4, <2>2
    <3>2. /\ T.idx = 0 /\ T.bytes = 0
          /\ Len(T.data) = Len(R.data) + w + IF elem > b + w THEN elem - (b + w) ELSE 0
      BY <1>8, <3>1
    <3>3. Len(R.data) = q + b /\ w \in Nat /\ last = b + w /\ last \in Nat /\ b \in Nat
      BY <1>2, <1>4, <1>7
    <3> DEFINE t == Len(T.data)
               r == Len(R.data)
    <3>4. /\ t = r + w + (IF elem > b + w THEN elem - (b + w) ELSE 0)
          /\ r = q + b
      BY <3>2, <3>3
    <3>5. elem \in Nat
      OBVIOUS
    <3> HIDE DEF t, r, elem
    <3>6. t = q + (IF elem > last THEN elem ELSE last)
      BY <3>3, <3>4, <3>5
    <3> QED
      BY <3>2, <3>6 DEF t
  <2> QED
    BY <2>1, <2>2
<1>10. ASSUME NEW m \in L + 1 .. M PROVE CellOk(T, q + O[m], ms[m], NoItem, TRUE)
  <2> DEFINE from == q + O[m]
             size == ms[m]
             e == O[L] + ms[L]
  <2>1. m \in 1 .. M
    BY <1>1
  <2>2. O[m] \in Nat /\ size \in Nat /\ e <= O[m] /\ e \in Nat /\ last <= e
    <3>1. O[m] \in Nat /\ size \in Nat /\ e <= O[m]
      BY <1>5, <2>1, Zenon
    <3>2. last <= e /\ O[L] \in Nat /\ ms[L] \in Nat
      BY <1>7, Zenon
    <3>3. e \in Nat
      BY <3>2
    <3> QED
      BY <3>1, <3>2, <3>3, Zenon
  <2>3. from \in Nat /\ Len(R.data) + w <= from
    <3> DEFINE x == O[m]
    <3>1. x \in Nat /\ last <= x
      BY <1>7, <2>2
    <3> DEFINE y == Len(R.data)
    <3>2. y = q + b /\ w \in Nat /\ b \in Nat /\ last = b + w
      BY <1>2, <1>4, <1>7, Zenon
    <3> HIDE DEF x, y
    <3>3. q + x \in Nat /\ y + w <= q + x
      BY <3>1, <3>2, SMT
    <3> QED
      BY <3>3, Zenon DEF x, y
  <2>4. Len(R.data) + w \in Nat
    <3> DEFINE y == Len(R.data)
    <3>1. y = q + b /\ w \in Nat /\ b \in Nat
      BY <1>2, <1>4, <1>7, Zenon
    <3> HIDE DEF y
    <3>2. y + w \in Nat
      BY <3>1, SMT
    <3> QED
      BY <3>2, Zenon DEF y
  <2> DEFINE v == Len(R.data) + w
  <2> HIDE DEF from, size, e
  <2>5. ASSUME NEW j \in 1 .. Len(T.rels) PROVE ~Touches(T.rels[j], from, size)
    <3>1. T.rels \in Seq(Relocs)
      BY <1>6, LaterParts
    <3>2. T.rels[j] \in Relocs
      BY <3>1
    <3>3. T.rels[j].off \in Nat
      BY <3>2 DEF Relocs
    <3>4. T.rels[j].off + 8 <= v
      BY <1>8
    <3>5. v \in Nat /\ v <= from /\ from \in Nat
      BY <2>3, <2>4
    <3> DEFINE x == T.rels[j].off
    <3>6. x \in Nat /\ x + 8 <= v
      BY <3>3, <3>4, Zenon
    <3> HIDE DEF v, x
    <3>7. ~(x + 8 > from)
      BY <3>5, <3>6
    <3> QED
      BY <3>7, Zenon DEF Touches, x
  <2>6. ASSUME NEW i \in 1 .. size PROVE ByteAt(T.data, from + i) = 0
    <3>1. from + i \in Nat /\ from + i > v
      <4>1. v \in Nat /\ v <= from /\ from \in Nat
        BY <2>3, <2>4
      <4> HIDE DEF v
      <4> QED
        BY <2>2, <4>1
    <3> QED
      BY <1>8, <3>1
  <2>7. \A i \in 1 .. size : Value(TRUE, NoItem, i) = 0
    <3> SUFFICES ASSUME NEW i \in 1 .. size PROVE Byte(NoItem.v, i - 1) = 0
      BY DEF Value
    <3>1. i - 1 \in Nat
      BY <2>2
    <3> QED
      BY <3>1, ByteZero DEF NoItem
  <2>8. CellOk(T, from, size, NoItem, TRUE)
    <3>1. ~NoItem.str
      BY DEF NoItem
    <3> QED
      BY <2>5, <2>6, <2>7, <3>1 DEF CellOk
  <2> QED
    BY <2>8 DEF from, size
<1> QED
  BY <1>3, <1>7, <1>9, <1>10, Zenon DEF RowDone, O, M, elem

-----------------------------------------------------------------------------
(* A product of natural numbers. *)
LEMMA Product == ASSUME NEW a \in Nat, NEW b \in Nat PROVE a * b \in Nat
OBVIOUS

(* An element ends where the next begins. *)
LEMMA RowAfterRow ==
  ASSUME NEW u \in Nat, NEW r \in Nat \ {0}
  PROVE  u * (r - 1) \in Nat /\ u * (r - 1) + u = u * r
OBVIOUS

(* A product grows with its factor. *)
LEMMA ProductGrows ==
  ASSUME NEW u \in Nat, NEW a \in Nat, NEW b \in Nat, a <= b
  PROVE  u * a <= u * b
<1>1. b - a \in Nat
  OBVIOUS
<1>2. u * (b - a) \in Nat
  BY <1>1, Product
<1>3. u * (b - a) = u * b - u * a
  OBVIOUS
<1>4. u * a \in Nat /\ u * b \in Nat
  BY Product
<1> QED
  BY <1>2, <1>3, <1>4

(* An element ends before all later ones begin. *)
LEMMA RowBehindRow ==
  ASSUME NEW u \in Nat, NEW s \in Nat \ {0}, NEW r \in Nat, s < r
  PROVE  u * (s - 1) + u <= u * (r - 1)
<1>1. s <= r - 1 /\ r - 1 \in Nat
  OBVIOUS
<1>2. u * s <= u * (r - 1)
  BY <1>1, ProductGrows
<1> QED
  BY <1>2, RowAfterRow

(* What the parser makes of a variable. *)
LEMMA NodeIs ==
  ASSUME NEW d, IsVar(d)
  PROVE  /\ Members(d) \in Seq(Sizes) /\ Members(d) # <<>>
         /\ Unit(d) = StructSize(Members(d)) /\ Unit(d) \in Nat /\ Unit(d) > 0
         /\ Node(d).elem \in Nat /\ Node(d).name = d.name /\ Node(d).expr = (d.given # "none")
         /\ Node(d).items = Stored(d)
<1>1. d.members \in Seq(Sizes) /\ d.members # <<>>
  BY DEF IsVar
<1>2. Members(d) \in Seq(Sizes) /\ Members(d) # <<>>
  <2>1. 8 \in Sizes
    BY DEF Sizes
  <2>2. <<8>> \in Seq(Sizes) /\ <<8>> # <<>>
    BY <2>1
  <2> QED
    BY <1>1, <2>2 DEF Members
<1>3. Unit(d) = StructSize(Members(d)) /\ Unit(d) \in Nat /\ Unit(d) > 0
  BY <1>2, Layout DEF Unit
<1>4. StructSize(d.members) \in Nat
  BY <1>1, Layout
<1>5. Unit(d) * d.cols \in Nat
  <2>1. d.cols \in Nat
    BY DEF IsVar
  <2> QED
    BY <1>3, <2>1, Product
<1>6. Node(d).elem \in {Unit(d), Unit(d) * d.cols, 8, StructSize(d.members), 0}
  BY DEF Node
<1>7. Node(d).elem \in Nat
  BY <1>3, <1>4, <1>5, <1>6
<1> QED
  BY <1>2, <1>3, <1>7 DEF Node

(* What LaidAsC says of a row. *)
LEMMA RowLaid ==
  ASSUME NEW d, IsVar(d), LaidAsC(d), NEW r \in 1 .. Len(d.init), NEW row, row = d.init[r],
         NEW B, B = Begin(d, row)
  PROVE  /\ row \in Seq(Items) /\ B[1] = 0
         /\ RowFits(Members(d), row, Node(d).elem, Node(d).per, B)
<1> DEFINE ms == Members(d)
           node == Node(d)
<1>1. row \in Seq(Items)
  <2>1. d.init \in Seq(Seq(Items))
    BY DEF IsVar
  <2> QED
    BY <2>1
<1>2. Len(row) \in Nat /\ DOMAIN row = 1 .. Len(row)
  BY <1>1
<1>3. \A i \in 1 .. Len(row) + 1 : B[i] = IF i = 1 THEN 0 ELSE B[i - 1] + Wide(d, row[i - 1])
  BY <1>2, BeginsAre
<1>4. /\ Len(row) \in 1 .. Len(ms)
      /\ node.per = Len(row) \/ node.elem = 0
      /\ \A k \in DOMAIN row :
                    /\ B[k] = Offsets(ms)[k]
                    /\ IF row[k].str THEN ms[k] = 8
                       ELSE \A i \in Width(node.elem) .. ms[k] - 1 : Byte(row[k].v, i) = 0
                    /\ Wide(d, row[k]) <= ms[k]
  BY Zenon DEF LaidAsC
<1> HIDE DEF ms, node
<1>5. ASSUME NEW k \in 1 .. Len(row)
      PROVE  LET w == ItemWidth(row[k], node.elem)
             IN  /\ B[k] = Offsets(ms)[k] /\ w <= ms[k] /\ B[k + 1] = B[k] + w
                 /\ IF row[k].str THEN ms[k] = 8 ELSE \A i \in w .. ms[k] - 1 : Byte(row[k].v, i) = 0
  <2>1. Wide(d, row[k]) = ItemWidth(row[k], node.elem)
    BY DEF Wide, ItemWidth, node
  <2>2. k + 1 \in 1 .. Len(row) + 1 /\ k + 1 # 1 /\ (k + 1) - 1 = k
    BY <1>2
  <2>3. B[k + 1] = B[k] + ItemWidth(row[k], node.elem)
    BY <1>3, <2>1, <2>2
  <2>4. /\ B[k] = Offsets(ms)[k]
        /\ IF row[k].str THEN ms[k] = 8
           ELSE \A i \in Width(node.elem) .. ms[k] - 1 : Byte(row[k].v, i) = 0
        /\ ItemWidth(row[k], node.elem) <= ms[k]
    BY <1>2, <1>4, <2>1
  <2> QED
    BY <2>3, <2>4, Zenon DEF ItemWidth
<1>6. B[1] = 0
  <2>1. 1 \in 1 .. Len(row) + 1
    BY <1>2
  <2> QED
    BY <1>3, <2>1
<1>7. RowFits(ms, row, node.elem, node.per, B)
  BY <1>4, <1>5, Zenon DEF RowFits
<1> QED
  BY <1>1, <1>6, <1>7 DEF ms, node

-----------------------------------------------------------------------------
(* After r rows. *)
RowsPlaced(T, d, off, r) ==
  /\ \A s \in 1 .. r, m \in 1 .. Len(Members(d)) :
       CellOk(T, off + Unit(d) * (s - 1) + Offsets(Members(d))[m], Members(d)[m], Item(d, s, m), TRUE)
  /\ r < Len(d.init) => Len(T.data) = off + Unit(d) * r /\ T.idx = 0 /\ T.bytes = 0
  /\ r = Len(d.init) => /\ Len(T.data) <= off + Node(d).ival
                        /\ T.bytes = 0 \/ Node(d).elem = 0

(* One row more. *)
LEMMA RowPlaced ==
  ASSUME NEW d, IsVar(d), LaidAsC(d), NEW r \in 1 .. Len(d.init), NEW row, row = d.init[r],
         NEW h, Emitting(h, row, Node(d)), NEW off \in Nat, RowsPlaced(h[0], d, off, r - 1),
         NEW T, T = h[Len(row)], Node(d).ival \in Nat
  PROVE  RowsPlaced(T, d, off, r)
<1> DEFINE ms == Members(d)
           node == Node(d)
           elem == node.elem
           O == Offsets(ms)
           M == Len(ms)
           u == Unit(d)
           n == Len(d.init)
           q == off + u * (r - 1)
           B == Begin(d, row)
           L == Len(row)
           S == h[0]
           last == B[L + 1]
<1>1. /\ ms \in Seq(Sizes) /\ ms # <<>> /\ u = StructSize(ms) /\ u \in Nat /\ u > 0
      /\ elem \in Nat
  BY NodeIs
<1>2. n \in Nat /\ r - 1 \in Nat /\ r - 1 < n /\ r \in Nat \ {0} /\ r <= n
  <2>1. d.init \in Seq(Seq(Items))
    BY DEF IsVar
  <2> QED
    BY <2>1
<1>3. row \in Seq(Items) /\ B[1] = 0 /\ RowFits(ms, row, elem, node.per, B)
  BY RowLaid
<1>4. /\ d.cols = 1 /\ n > 0 /\ n = Rows(d) /\ CSize(d) <= node.ival
      /\ elem = u \/ (n = 1 /\ elem <= node.ival)
  BY DEF LaidAsC
<1>5. u * n <= node.ival
  <2>1. CSize(d) = u * n * 1
    BY <1>4 DEF CSize
  <2>2. u * n \in Nat
    BY <1>1, <1>2, Product
  <2> QED
    BY <1>4, <2>1, <2>2
<1>6. u * (r - 1) \in Nat /\ u * (r - 1) + u = u * r /\ q \in Nat
  <2>1. u * (r - 1) \in Nat /\ u * (r - 1) + u = u * r
    BY <1>1, <1>2, RowAfterRow, Zenon
  <2> QED
    BY <2>1
<1>7. Len(S.data) = q /\ S.idx = 0 /\ S.bytes = 0
  BY <1>2 DEF RowsPlaced
<1> HIDE DEF ms, O, M, u, n, B, q, elem
<1>8. /\ last \in Nat /\ last <= u
      /\ Len(T.data) = q + IF elem > last THEN elem ELSE last
      /\ elem # 0 => T.idx = 0 /\ T.bytes = 0
      /\ \A m \in 1 .. L : CellOk(T, q + O[m], ms[m], row[m], TRUE)
      /\ \A m \in L + 1 .. M : CellOk(T, q + O[m], ms[m], NoItem, TRUE)
  <2>1. /\ ms \in Seq(Sizes) /\ ms # <<>> /\ row \in Seq(Items) /\ node.elem \in Nat
        /\ RowFits(ms, row, node.elem, node.per, B) /\ B[1] = 0 /\ Emitting(h, row, node)
        /\ q \in Nat /\ Len(h[0].data) = q /\ h[0].idx = 0 /\ h[0].bytes = 0
    BY <1>1, <1>3, <1>6, <1>7 DEF elem
  <2> HIDE DEF node, S
  <2>2. RowDone(h[Len(row)], ms, row, node.elem, q, B[Len(row) + 1])
    BY <2>1, RowEmitted
  <2> QED
    BY <1>1, <2>2, Zenon DEF RowDone, O, M, elem
<1>9. L \in Nat /\ M \in Nat /\ DOMAIN row = 1 .. L
  BY <1>1, <1>3 DEF M
<1> DEFINE G(s, m) == CellOk(T, off + u * (s - 1) + O[m], ms[m], Item(d, s, m), TRUE)
<1>10. ASSUME NEW m \in 1 .. M PROVE G(r, m)
  <2>1. CASE m \in 1 .. L
    <3>1. Item(d, r, m) = row[m]
      <4>1. r \in DOMAIN d.init
        <5>1. d.init \in Seq(Seq(Items))
          BY DEF IsVar
        <5> QED
          BY <5>1
      <4> QED
        BY <1>9, <2>1, <4>1 DEF Item
    <3> QED
      BY <1>8, <2>1, <3>1 DEF q
  <2>2. CASE m \notin 1 .. L
    <3>1. m \in L + 1 .. M
      BY <1>9, <2>2
    <3>2. Item(d, r, m) = NoItem
      BY <1>9, <2>2 DEF Item, NoItem
    <3> QED
      BY <1>8, <3>1, <3>2 DEF q
  <2> QED
    BY <2>1, <2>2
<1>11. Good(S) /\ Good(T) /\ Later(S, T, q)
  <2>1. 0 \in 0 .. L /\ L \in 0 .. L
    BY <1>9
  <2> QED
    BY <1>7, <2>1, Zenon DEF Emitting
<1>12. ASSUME NEW s \in 1 .. r - 1, NEW m \in 1 .. M PROVE G(s, m)
  <2>1. CellOk(S, off + u * (s - 1) + O[m], ms[m], Item(d, s, m), TRUE)
    BY DEF RowsPlaced, ms, O, M, u
  <2>2. Item(d, s, m) \in Items
    <3>1. d.init \in Seq(Seq(Items))
      BY DEF IsVar
    <3>2. CASE s \in DOMAIN d.init /\ m \in DOMAIN d.init[s]
      <4>1. d.init[s] \in Seq(Items)
        BY <3>1, <3>2
      <4>2. d.init[s][m] \in Items
        BY <3>2, <4>1
      <4> QED
        BY <3>2, <4>2 DEF Item
    <3>3. CASE ~(s \in DOMAIN d.init /\ m \in DOMAIN d.init[s])
      <4>1. NoItem \in Items
        BY DEF NoItem, Items
      <4> QED
        BY <3>3, <4>1 DEF Item, NoItem
    <3> QED
      BY <3>2, <3>3
  <2>3. s \in Nat \ {0} /\ s < r
    BY <1>2
  <2>4. u * (s - 1) + u <= u * (r - 1) /\ u * (s - 1) \in Nat
    BY <1>1, <1>2, <2>3, RowBehindRow, RowAfterRow
  <2>5. O[m] \in Nat /\ ms[m] \in Nat /\ O[m] + ms[m] <= u
    BY <1>1, Layout DEF O, M
  <2> DEFINE from == off + u * (s - 1) + O[m]
             size == ms[m]
             it == Item(d, s, m)
  <2>6. from \in Nat /\ size \in Nat /\ from + size <= q
    <3> DEFINE x == u * (s - 1)
               y == O[m]
    <3>1. x \in Nat /\ y \in Nat /\ size \in Nat /\ y + size <= u /\ x + u <= u * (r - 1)
      BY <2>4, <2>5
    <3> DEFINE z == u * (r - 1)
    <3>2. z \in Nat /\ q = off + z /\ x + u <= z
      BY <1>6, <3>1 DEF q
    <3> HIDE DEF x, y, size, z
    <3>3. off + x + y \in Nat /\ (off + x + y) + size <= q
      BY <1>1, <3>1, <3>2
    <3> QED
      BY <3>1, <3>3 DEF x, y, size
  <2>7. S \in Sections /\ T \in Sections
    BY <1>11 DEF Good
  <2>8. CellOk(S, from, size, it, TRUE) /\ it \in Items
    BY <2>1, <2>2
  <2> HIDE DEF from, size, it, S
  <2>9. CellOk(T, from, size, it, TRUE)
    BY <1>6, <1>11, <2>6, <2>7, <2>8, CellLater
  <2> QED
    BY <2>9 DEF from, size, it
<1>13. \A s \in 1 .. r, m \in 1 .. M : G(s, m)
  <2>1. \A s \in 1 .. r : s = r \/ s \in 1 .. r - 1
    BY <1>2
  <2> HIDE DEF G
  <2> QED
    BY <1>10, <1>12, <2>1
<1>14. r < n => Len(T.data) = off + u * r /\ T.idx = 0 /\ T.bytes = 0
  <2> SUFFICES ASSUME r < n PROVE Len(T.data) = off + u * r /\ T.idx = 0 /\ T.bytes = 0
    OBVIOUS
  <2>1. elem = u /\ elem # 0
    BY <1>1, <1>2, <1>4
  <2>2. Len(T.data) = q + u /\ T.idx = 0 /\ T.bytes = 0
    BY <1>1, <1>8, <2>1
  <2>3. q + u = off + u * r
    <3> DEFINE x == u * (r - 1)
               y == u * r
    <3>1. x \in Nat /\ x + u = y /\ q = off + x
      BY <1>6 DEF q
    <3> HIDE DEF x, y
    <3>2. q + u = off + y
      BY <1>1, <3>1
    <3> QED
      BY <3>2 DEF y
  <2> QED
    BY <2>2, <2>3
<1>15. r = n => Len(T.data) <= off + node.ival /\ (T.bytes = 0 \/ elem = 0)
  <2> SUFFICES ASSUME r = n PROVE Len(T.data) <= off + node.ival /\ (T.bytes = 0 \/ elem = 0)
    OBVIOUS
  <2> DEFINE x == u * (r - 1)
             y == u * r
             i == node.ival
  <2>1. x \in Nat /\ x + u = y /\ q = off + x /\ y <= i /\ i \in Nat
    BY <1>5, <1>6 DEF q
  <2>2. n = 1 => q = off
    <3>1. n = 1 => u * (r - 1) = 0
      BY <1>1
    <3> QED
      BY <1>6, <3>1 DEF q
  <2>3. elem = u \/ (n = 1 /\ elem <= i)
    BY <1>4
  <2>4. Len(T.data) = q + (IF elem > last THEN elem ELSE last) /\ last \in Nat /\ last <= u
    BY <1>8
  <2> DEFINE z == Len(T.data)
  <2>5. u \in Nat /\ elem \in Nat /\ z = q + (IF elem > last THEN elem ELSE last)
    BY <1>1, <2>4, Zenon
  <2> HIDE DEF x, y, i, last, z
  <2>6. z <= off + i
    BY <2>1, <2>2, <2>3, <2>4, <2>5, SMT
  <2> QED
    BY <1>8, <2>6 DEF i, z
<1> QED
  BY <1>13, <1>14, <1>15, Zenon DEF RowsPlaced, ms, O, M, u, n, elem

(* The types of what the parser makes of a variable. *)
LEMMA GivenIs ==
  ASSUME NEW d, IsVar(d)
  PROVE  /\ Given(d) \in Seq(Items) /\ Elements(d) \in Nat /\ Node(d).ival \in Nat
         /\ d.init \in Seq(Seq(Items)) /\ Len(d.init) \in Nat
         /\ d.given # "list" => Given(d) = <<>> /\ Node(d).items = <<>>
<1>1. d.init \in Seq(Seq(Items)) /\ Len(d.init) \in Nat
  BY DEF IsVar
<1>2. Joined(d.init) \in Seq(Items)
  BY <1>1, UptoFacts
<1>3. Given(d) \in Seq(Items)
  BY <1>2 DEF Given
<1>4. Elements(d) \in Nat
  <2>1. Len(Given(d)) \in Nat
    BY <1>3
  <2> QED
    BY <1>1, <2>1 DEF Elements
<1>5. Node(d).ival \in Nat
  <2>1. d.rows \in Nat /\ d.cols \in Nat
    BY DEF IsVar
  <2>2. d.rows * d.cols \in Nat
    BY <2>1, Product
  <2> DEFINE x == IF d.given = "list" /\ Elements(d) > 0 THEN Elements(d)
                  ELSE IF d.open THEN d.cols ELSE d.rows * d.cols
  <2>3. x \in Nat
    BY <1>4, <2>1, <2>2
  <2>4. Node(d).ival = Unit(d) * x
    BY DEF Node
  <2>5. Unit(d) \in Nat
    BY NodeIs
  <2> HIDE DEF x
  <2> QED
    BY <2>3, <2>4, <2>5, Product
<1>6. d.given # "list" => Given(d) = <<>> /\ Node(d).items = <<>>
  <2> SUFFICES ASSUME d.given # "list" PROVE Given(d) = <<>> /\ Node(d).items = <<>>
    OBVIOUS
  <2>1. Given(d) = <<>>
    BY DEF Given
  <2>2. Len(Given(d)) = 0
    BY <2>1
  <2>3. 0 <= 8 * Elements(d)
    BY <1>4
  <2>4. Stored(d) = SubSeq(<<>>, 1, 0)
    BY <2>1, <2>2, <2>3 DEF Stored
  <2>5. SubSeq(<<>>, 1, 0) = <<>>
    OBVIOUS
  <2> QED
    BY <2>1, <2>4, <2>5, NodeIs
<1> QED
  BY <1>1, <1>3, <1>4, <1>5, <1>6


(* The rows one after the other. *)
LEMMA RowsEmitted ==
  ASSUME NEW d, IsVar(d), d.given = "list", LaidAsC(d), NEW R, Good(R), R.idx = 0, R.bytes = 0,
         ~Emitted(R, Node(d))[Len(Node(d).items)].failed
  PROVE  RowsPlaced(Emitted(R, Node(d))[Len(Node(d).items)], d, Len(R.data), Len(d.init))
<1> DEFINE node == Node(d)
           items == node.items
           N == Len(items)
           g == Emitted(R, node)
           f == Upto(d.init)
           n == Len(d.init)
           off == Len(R.data)
           S == {r \in 0 .. n : RowsPlaced(g[Len(f[r])], d, off, r)}
<1>1. /\ d.init \in Seq(Seq(Items)) /\ n \in Nat /\ n > 0 /\ node.ival \in Nat
      /\ items = Joined(d.init) /\ items \in Seq(Items) /\ node.elem \in Nat
  <2>1. n > 0 /\ items = Given(d)
    BY DEF LaidAsC
  <2>2. Given(d) = Joined(d.init)
    BY DEF Given
  <2> QED
    BY <2>1, <2>2, GivenIs, NodeIs
<1>2. R \in Sections /\ off \in Nat /\ N \in Nat
  <2>1. R \in Sections
    BY DEF Good
  <2> QED
    BY <1>1, <2>1, LaterParts
<1>3. /\ g[0] = R
      /\ \A i \in 1 .. N : g[i] = EmitItem(g[i - 1], items[i], node)
  <2>1. Len(node.items) \in Nat
    BY <1>2
  <2> HIDE DEF node
  <2> QED
    <3>1. /\ Emitted(R, node)[0] = R
          /\ \A i \in 1 .. Len(node.items) :
               Emitted(R, node)[i] = EmitItem(Emitted(R, node)[i - 1], node.items[i], node)
      BY <2>1, EmittedSteps
    <3> QED
      BY <3>1
<1>4. \A i \in 0 .. N : /\ ~g[i].failed /\ Good(g[i])
                        /\ \A j \in 0 .. i : Later(g[j], g[i], Len(g[j].data))
  <2> HIDE DEF g, N
  <2>1. \A i \in 0 .. N : ~g[i].failed =>
               /\ Good(g[i])
               /\ \A j \in 0 .. i : /\ ~g[j].failed /\ Good(g[j])
                                    /\ Len(g[j].data) <= Len(g[i].data)
                                    /\ Later(g[j], g[i], Len(g[j].data))
    BY <1>1, EmitsGood, Zenon DEF g, N
  <2>2. N \in 0 .. N /\ ~g[N].failed
    BY <1>2 DEF g, N
  <2>3. \A i \in 0 .. N : ~g[i].failed
    BY <2>1, <2>2
  <2> QED
    BY <2>1, <2>3
<1>5. /\ f[0] = <<>> /\ Len(f[n]) = N
      /\ \A r \in 0 .. n : f[r] \in Seq(Items) /\ Extends(f[r], items)
      /\ \A r \in 1 .. n : /\ Len(f[r]) = Len(f[r - 1]) + Len(d.init[r])
                           /\ \A k \in 1 .. Len(d.init[r]) : f[r][Len(f[r - 1]) + k] = d.init[r][k]
                           /\ d.init[r] \in Seq(Items)
  <2>1. f[0] = <<>> /\ items = f[n]
    BY <1>1, UptoAre
  <2>2. \A r \in 1 .. n : d.init[r] \in Seq(Items)
    BY <1>1
  <2> QED
    <3> DEFINE s == d.init
    <3>1. s \in Seq(Seq(Items)) /\ n = Len(s) /\ f = Upto(s) /\ items = Joined(s)
      BY <1>1, Zenon
    <3> HIDE DEF s, f, n, items
    <3>2. /\ \A i \in 0 .. Len(s) : Upto(s)[i] \in Seq(Items)
          /\ \A i \in 1 .. Len(s) :
               /\ Len(Upto(s)[i]) = Len(Upto(s)[i - 1]) + Len(s[i])
               /\ Extends(Upto(s)[i - 1], Upto(s)[i])
               /\ \A k \in 1 .. Len(s[i]) : Upto(s)[i][Len(Upto(s)[i - 1]) + k] = s[i][k]
          /\ \A i \in 0 .. Len(s) : Extends(Upto(s)[i], Joined(s))
          /\ Joined(s) \in Seq(Items)
      BY <3>1, UptoFacts, Zenon
    <3> QED
      BY <2>1, <2>2, <3>1, <3>2, Zenon DEF s, N
<1> HIDE DEF g, f, N, n, off, items, node
<1>6. 0 \in S
  <2>1. Len(f[0]) = 0
    BY <1>5
  <2>2. g[Len(f[0])] = R
    BY <1>3, <2>1
  <2>3. off = off + Unit(d) * 0
    <3>1. Unit(d) \in Nat
      BY NodeIs
    <3> QED
      BY <1>2, <3>1
  <2>4. \A s \in 1 .. 0 : FALSE
    OBVIOUS
  <2>5. RowsPlaced(R, d, off, 0)
    BY <1>1, <2>3, <2>4 DEF RowsPlaced, off, n
  <2> QED
    BY <1>1, <2>2, <2>5
<1>7. \A r \in 0 .. n - 1 : r \in S => r + 1 \in S
  <2> SUFFICES ASSUME NEW s \in 0 .. n - 1, RowsPlaced(g[Len(f[s])], d, off, s)
               PROVE  s + 1 \in S
    BY DEF S
  <2> DEFINE r == s + 1
             row == d.init[r]
             i0 == Len(f[s])
             L == Len(row)
             h == [k \in 0 .. L |-> g[i0 + k]]
  <2>1. r \in 1 .. n /\ r - 1 = s /\ s \in 0 .. n /\ r \in 0 .. n
    BY <1>1
  <2>2. /\ f[s] \in Seq(Items) /\ f[r] \in Seq(Items) /\ row \in Seq(Items)
        /\ Len(f[r]) = i0 + L /\ Extends(f[r], items)
        /\ \A k \in 1 .. L : f[r][i0 + k] = row[k]
    BY <1>5, <2>1
  <2>3. i0 \in Nat /\ L \in Nat /\ Len(f[r]) \in Nat /\ Len(f[r]) <= N
    <3>1. i0 \in Nat /\ L \in Nat /\ Len(f[r]) \in Nat
      <4>1. f[s] \in Seq(Items) /\ f[r] \in Seq(Items) /\ row \in Seq(Items)
        BY <2>2, Zenon
      <4> QED
        BY <4>1 DEF i0, L
    <3>2. Len(f[r]) <= N
      BY <2>2, Zenon DEF Extends, N
    <3> QED
      BY <3>1, <3>2
  <2> HIDE DEF r, row, i0, L
  <2>4. \A k \in 1 .. L : items[i0 + k] = row[k] /\ i0 + k \in 1 .. N /\ (i0 + k) - 1 = i0 + (k - 1)
                          /\ k \in 0 .. L /\ k - 1 \in 0 .. L
    <3> SUFFICES ASSUME NEW k \in 1 .. L
                 PROVE items[i0 + k] = row[k] /\ i0 + k \in 1 .. N /\ (i0 + k) - 1 = i0 + (k - 1)
                       /\ k \in 0 .. L /\ k - 1 \in 0 .. L
      OBVIOUS
    <3>1. i0 + k \in 1 .. Len(f[r]) /\ i0 + k \in 1 .. N /\ (i0 + k) - 1 = i0 + (k - 1)
          /\ k \in 0 .. L /\ k - 1 \in 0 .. L
      BY <1>2, <2>2, <2>3
    <3> DEFINE p == i0 + k
    <3>2. f[r][p] = row[k]
      BY <2>2
    <3>3. p \in 1 .. Len(f[r])
      BY <3>1
    <3> HIDE DEF p
    <3>4. items[p] = f[r][p]
      BY <2>2, <3>3 DEF Extends
    <3> QED
      BY <3>1, <3>2, <3>4 DEF p
  <2>5. \A k \in 0 .. L : h[k] = g[i0 + k] /\ i0 + k \in 0 .. N /\ i0 + k \in Nat
    BY <1>2, <2>2, <2>3
  <2> HIDE DEF h
  <2>6. \A k \in 1 .. L : h[k] = EmitItem(h[k - 1], row[k], node)
    <3> SUFFICES ASSUME NEW k \in 1 .. L PROVE h[k] = EmitItem(h[k - 1], row[k], node)
      OBVIOUS
    <3>1. h[k] = g[i0 + k] /\ h[k - 1] = g[i0 + (k - 1)]
      BY <2>4, <2>5
    <3>2. g[i0 + k] = EmitItem(g[(i0 + k) - 1], items[i0 + k], node)
      BY <1>3, <2>4
    <3> QED
      BY <2>4, <3>1, <3>2
  <2>7. ASSUME NEW k \in 0 .. L
        PROVE  /\ ~h[k].failed /\ Good(h[k]) /\ \A j \in 0 .. k : Later(h[j], h[k], Len(h[j].data))
    <3>1. h[k] = g[i0 + k] /\ i0 + k \in 0 .. N
      BY <2>5
    <3>2. ASSUME NEW j \in 0 .. k PROVE Later(h[j], h[k], Len(h[j].data))
      <4>1. j \in 0 .. L /\ i0 + j \in 0 .. i0 + k
        BY <2>3
      <4>2. h[j] = g[i0 + j]
        BY <2>5, <4>1
      <4> QED
        BY <1>4, <3>1, <4>1, <4>2
    <3> QED
      BY <1>4, <3>1, <3>2
  <2>8. Emitting(h, row, node)
    BY <2>6, <2>7 DEF Emitting, L
  <2>9. h[0] = g[i0]
    <3>1. 0 \in 0 .. L /\ i0 + 0 = i0
      BY <2>3
    <3> QED
      BY <2>5, <3>1
  <2>10. RowsPlaced(h[0], d, off, r - 1)
    BY <2>1, <2>9 DEF i0
  <2>11. RowsPlaced(h[L], d, off, r)
    <3> DEFINE T == h[L]
    <3>1. T = h[Len(row)] /\ r \in 1 .. Len(d.init) /\ row = d.init[r] /\ Emitting(h, row, Node(d))
          /\ Node(d).ival \in Nat
      BY <1>1, <2>1, <2>8 DEF n, row, L, node
    <3> HIDE DEF T
    <3>2. RowsPlaced(T, d, off, r)
      BY <1>2, <2>10, <3>1, RowPlaced
    <3> QED
      BY <3>2 DEF T
  <2>12. h[L] = g[Len(f[r])]
    <3>1. L \in 0 .. L
      BY <2>3
    <3> QED
      BY <2>2, <2>5, <3>1
  <2> QED
    BY <2>1, <2>11, <2>12 DEF r
<1>8. \A r \in 0 .. n : r \in S
  <2>1. 0 \in Nat
    OBVIOUS
  <2> HIDE DEF S
  <2> QED
    BY <1>1, <1>6, <1>7, <2>1, Onward
<1>9. RowsPlaced(g[Len(f[n])], d, off, n)
  <2>1. n \in 0 .. n
    BY <1>1
  <2> QED
    BY <1>8, <2>1
<1> QED
  BY <1>5, <1>9 DEF g, off, n, N, items, node

(* What C has at a place is an item. *)
LEMMA ItemIn == ASSUME NEW d, IsVar(d), NEW s, NEW m PROVE Item(d, s, m) \in Items
<1>1. d.init \in Seq(Seq(Items))
  BY DEF IsVar
<1>2. CASE s \in DOMAIN d.init /\ m \in DOMAIN d.init[s]
  <2>1. d.init[s] \in Seq(Items)
    BY <1>1, <1>2
  <2>2. d.init[s][m] \in Items
    BY <1>2, <2>1
  <2> QED
    BY <1>2, <2>2 DEF Item
<1>3. CASE ~(s \in DOMAIN d.init /\ m \in DOMAIN d.init[s])
  <2>1. NoItem \in Items
    BY DEF NoItem, Items
  <2> QED
    BY <1>3, <2>1 DEF Item, NoItem
<1> QED
  BY <1>2, <1>3

(* What is inside of element x is before element y. *)
LEMMA Inner ==
  ASSUME NEW u \in Nat, NEW o \in Nat, NEW z \in Nat, o + z <= u, NEW x \in Nat, NEW y \in Nat, x + 1 <= y
  PROVE  u * x \in Nat /\ u * x + o \in Nat /\ u * x + o + z <= u * y
<1>1. u * x \in Nat /\ u * (x + 1) <= u * y /\ u * (x + 1) = u * x + u
  BY ProductGrows, Product
<1> DEFINE a == u * x
           b == u * y
<1>2. a \in Nat /\ a + u <= b /\ b \in Nat
  BY <1>1, Product
<1> HIDE DEF a, b
<1>3. a + o \in Nat /\ a + o + z <= b
  BY <1>2
<1> QED
  BY <1>2, <1>3 DEF a, b

(* The number of an element from its row and column. *)
LEMMA RowColumn ==
  ASSUME NEW rows \in Nat, NEW cols \in Nat, NEW r \in 1 .. rows, NEW c \in 1 .. cols
  PROVE  (r - 1) * cols + c - 1 \in Nat /\ ((r - 1) * cols + c - 1) + 1 <= rows * cols
<1>1. r - 1 \in Nat /\ r \in Nat
  OBVIOUS
<1>2. (r - 1) * cols \in Nat /\ cols * r <= cols * rows /\ cols * r \in Nat
  BY <1>1, Product, ProductGrows
<1>3. (r - 1) * cols + cols = cols * r /\ cols * rows = rows * cols /\ rows * cols \in Nat
  BY Product
<1> DEFINE x == (r - 1) * cols
           y == cols * r
           z == rows * cols
<1>4. x \in Nat /\ x + cols = y /\ y <= z /\ z \in Nat
  BY <1>2, <1>3
<1> HIDE DEF x, y, z
<1>5. x + c - 1 \in Nat /\ (x + c - 1) + 1 <= z
  BY <1>4
<1> QED
  BY <1>5 DEF x, z

(* What C has of a variable is inside of it. *)
LEMMA ImageIn ==
  ASSUME NEW d, IsVar(d), (d.given = "list" /\ LaidAsC(d)) \/ (d.given # "list" /\ ~d.open)
  PROVE  /\ CSize(d) <= Node(d).ival
         /\ \A c \in Image(d) : /\ c[1] \in Nat /\ c[2] \in Nat /\ c[3] \in Items
                                /\ c[1] + c[2] <= Node(d).ival
<1> DEFINE ms == Members(d)
           O == Offsets(ms)
           u == Unit(d)
           n == Rows(d)
           cols == d.cols
<1>1. u \in Nat /\ \A m \in DOMAIN ms : O[m] \in Nat /\ ms[m] \in Nat /\ O[m] + ms[m] <= u
  <2>1. /\ ms \in Seq(Sizes) /\ ms # <<>> /\ u = StructSize(ms) /\ u \in Nat
    BY NodeIs
  <2>2. DOMAIN ms = 1 .. Len(ms)
    BY <2>1
  <2> HIDE DEF ms, u
  <2> QED
    BY <2>1, <2>2, Layout
<1>2. n \in Nat /\ cols \in Nat
  BY GivenIs DEF IsVar, Rows
<1> HIDE DEF u, n, cols, O, ms
<1>3. CSize(d) = u * (n * cols) /\ u * (n * cols) \in Nat
  <2>1. CSize(d) = u * n * cols
    BY DEF CSize, u, n, cols
  <2>2. u * n * cols = u * (n * cols)
    BY <1>1, <1>2
  <2> QED
    BY <1>1, <1>2, <2>1, <2>2, Product
<1>4. CSize(d) <= Node(d).ival
  <2>1. CASE d.given = "list" /\ LaidAsC(d)
    BY <2>1, Zenon DEF LaidAsC
  <2>2. CASE d.given # "list" /\ ~d.open
    <3>1. n = d.rows
      BY <2>2 DEF Rows, n
    <3>2. Node(d).ival = u * (d.rows * d.cols)
      BY <2>2 DEF Node, u
    <3>3. Node(d).ival = CSize(d)
      BY <1>3, <3>1, <3>2 DEF cols
    <3> QED
      BY <1>3, <3>3
  <2> QED
    BY <2>1, <2>2
<1>5. ASSUME NEW c \in Image(d)
      PROVE  c[1] \in Nat /\ c[2] \in Nat /\ c[3] \in Items /\ c[1] + c[2] <= Node(d).ival
  <2>1. PICK r \in 1 .. n, k \in 1 .. cols, m \in DOMAIN ms :
          c = <<u * ((r - 1) * cols + k - 1) + O[m], ms[m], Item(d, r, (k - 1) * Len(ms) + m)>>
    BY DEF Image, u, n, cols, O, ms
  <2> DEFINE x == (r - 1) * cols + k - 1
             y == n * cols
             o == O[m]
             z == ms[m]
             i == Item(d, r, (k - 1) * Len(ms) + m)
  <2>2. x \in Nat /\ x + 1 <= y /\ y \in Nat
    BY <1>2, RowColumn, Product
  <2>3. o \in Nat /\ z \in Nat /\ o + z <= u /\ i \in Items
    BY <1>1, ItemIn
  <2>4. c = <<u * x + o, z, i>>
    BY <2>1
  <2>5. u * y <= Node(d).ival /\ u * y \in Nat /\ Node(d).ival \in Nat
    BY <1>3, <1>4, GivenIs
  <2> HIDE DEF x, y, o, z, i
  <2>6. u * x \in Nat /\ u * x + o \in Nat /\ u * x + o + z <= u * y
    BY <1>1, <2>2, <2>3, Inner
  <2>7. c[1] = u * x + o /\ c[2] = z /\ c[3] = i
    BY <2>4
  <2> DEFINE a == u * x + o
             b == u * y
  <2>8. a \in Nat /\ a + z <= b /\ b <= Node(d).ival /\ b \in Nat /\ Node(d).ival \in Nat
    BY <2>5, <2>6
  <2> HIDE DEF a, b
  <2>9. a + z <= Node(d).ival
    BY <2>3, <2>8
  <2> QED
    BY <2>3, <2>7, <2>8, <2>9 DEF a
<1> QED
  BY <1>4, <1>5

(* Fill keeps the types. *)
LEMMA FillType ==
  ASSUME NEW R, R \in Sections, NEW node, node.elem \in Nat
  PROVE  Fill(R, node) \in Sections
<1>1. R.data \in Seq(Octets) /\ R.bytes \in Nat /\ R.idx \in Nat
  BY LaterParts
<1>2. CASE R.idx + 1 < node.per
  <2> DEFINE i == R.idx + 1
  <2>1. Fill(R, node) = [R EXCEPT !.idx = i] /\ i \in Nat
    BY <1>1, <1>2 DEF Fill
  <2> HIDE DEF i
  <2> QED
    BY <2>1 DEF Sections
<1>3. CASE ~(R.idx + 1 < node.per)
  <2> DEFINE m == node.elem - R.bytes
             dt == R.data \o Zeros(m)
             E == [R EXCEPT !.data = dt, !.idx = 0, !.bytes = 0]
  <2>1. Fill(R, node) = E
    BY <1>3 DEF Fill
  <2>2. m \in Int
    BY <1>1
  <2>3. dt \in Seq(Octets)
    <3> HIDE DEF m
    <3> QED
      BY <1>1, <2>2, ZeroIn, WithZeros
  <2> HIDE DEF dt
  <2>4. E \in Sections
    BY <2>3, EmptiedParts, Zenon
  <2> QED
    BY <2>1, <2>4
<1> QED
  BY <1>2, <1>3

(* EmitItem keeps the types, and the tables in order. *)
LEMMA ItemType ==
  ASSUME NEW R, R \in Sections, ~R.failed => Good(R), NEW it, it \in Items, NEW node, node.elem \in Nat
  PROVE  LET T == EmitItem(R, it, node) IN T \in Sections /\ (~T.failed => Good(T))
<1> DEFINE T == EmitItem(R, it, node)
           w == ItemWidth(it, node.elem)
<1>1. CASE R.failed
  BY <1>1 DEF EmitItem
<1>2. CASE ~R.failed
  <2>1. Good(R)
    BY <1>2
  <2>2. ~T.failed => ItemAdded(R, T, it, node, w)
    <3> HIDE DEF T
    <3>1. T = EmitItem(R, it, node)
      BY DEF T
    <3> QED
      BY <2>1, <3>1, ItemEmitted
  <2>3. ~T.failed => Good(T)
    <3> HIDE DEF T
    <3> QED
      BY <2>2 DEF ItemAdded
  <2>4. it.str \in BOOLEAN /\ (it.str => it.s \in Seq(Nat)) /\ (~it.str => it.v \in Int)
    BY ItemIs
  <2> DEFINE U == IF it.str THEN EmitString(R, it.s) ELSE EmitInt(R, it.v, node.elem)
  <2>5. T = Fill(U, node)
    BY <1>2 DEF EmitItem
  <2>6. U \in Sections
    <3>1. CASE it.str /\ U.failed
      <4>1. CASE ~StringFits(R, it.s) \/ Len(R.rels) >= ELF_MAX_RELS
        <5>1. U = [R EXCEPT !.failed = TRUE]
          BY <3>1, <4>1 DEF EmitString
        <5> QED
          BY <5>1 DEF Sections
      <4>2. CASE ~(~StringFits(R, it.s) \/ Len(R.rels) >= ELF_MAX_RELS)
        <5>1. AddString(R, it.s) \in Sections /\ AddString(R, it.s).failed = R.failed
          BY <2>4, <3>1, AddedParts
        <5>2. U = EmitString(R, it.s)
          BY <3>1
        <5>3. U.failed = AddString(R, it.s).failed
          BY <4>2, <5>1, <5>2 DEF EmitString, Sections
        <5> QED
          BY <1>2, <3>1, <5>1, <5>3
      <4> QED
        BY <4>1, <4>2
    <3>2. CASE it.str /\ ~U.failed
      <4>1. U = EmitString(R, it.s)
        BY <3>2
      <4> HIDE DEF U
      <4>2. Good(U)
        BY <2>1, <2>4, <3>2, <4>1, EmittedString
      <4> QED
        BY <4>2 DEF Good
    <3>3. CASE ~it.str
      <4>1. U = EmitInt(R, it.v, node.elem)
        BY <3>3
      <4> HIDE DEF U
      <4>2. Good(U)
        BY <2>1, <2>4, <3>3, <4>1, EmittedInt
      <4> QED
        BY <4>2 DEF Good
    <3> QED
      BY <2>4, <3>1, <3>2, <3>3
  <2>7. T \in Sections
    <3> HIDE DEF U, T
    <3> QED
      BY <2>5, <2>6, FillType
  <2> QED
    BY <2>3, <2>7
<1> QED
  BY <1>1, <1>2

(* All states of the tables are ones. *)
LEMMA EmitsType ==
  ASSUME NEW R, Good(R), NEW node, node.elem \in Nat, node.items \in Seq(Items)
  PROVE  \A i \in 0 .. Len(node.items) :
           Emitted(R, node)[i] \in Sections /\ (~Emitted(R, node)[i].failed => Good(Emitted(R, node)[i]))
<1> DEFINE g == Emitted(R, node)
           N == Len(node.items)
           S == {i \in 0 .. N : g[i] \in Sections /\ (~g[i].failed => Good(g[i]))}
<1>1. N \in Nat /\ g[0] = R /\ \A i \in 1 .. N : g[i] = EmitItem(g[i - 1], node.items[i], node)
  <2>1. N \in Nat
    OBVIOUS
  <2> QED
    BY <2>1, EmittedSteps
<1>2. \A i \in 1 .. N : node.items[i] \in Items
  OBVIOUS
<1> HIDE DEF g, N
<1>3. 0 \in S
  BY <1>1 DEF Good
<1>4. \A i \in 0 .. N - 1 : i \in S => i + 1 \in S
  <2> SUFFICES ASSUME NEW i \in 0 .. N - 1, g[i] \in Sections, ~g[i].failed => Good(g[i]) PROVE i + 1 \in S
    OBVIOUS
  <2>1. i + 1 \in 1 .. N /\ i + 1 \in 0 .. N /\ (i + 1) - 1 = i
    BY <1>1
  <2> DEFINE it == node.items[i + 1]
             U == g[i]
             T == g[i + 1]
  <2>2. T = EmitItem(U, it, node) /\ it \in Items /\ U \in Sections /\ (~U.failed => Good(U))
    BY <1>1, <1>2, <2>1
  <2> HIDE DEF it, U, T
  <2>3. T \in Sections /\ (~T.failed => Good(T))
    BY <2>2, ItemType, Zenon
  <2> QED
    BY <2>1, <2>3 DEF T
<1>5. \A i \in 0 .. N : i \in S
  <2>1. 0 \in Nat
    OBVIOUS
  <2> HIDE DEF S
  <2> QED
    BY <1>1, <1>3, <1>4, <2>1, Onward
<1> QED
  BY <1>5 DEF g, N

-----------------------------------------------------------------------------
(* The bytes that fill up an element after its last item are none. *)
FilledUp(E, elem) == IF E.bytes > 0 THEN [E EXCEPT !.data = @ \o Zeros(elem - E.bytes)] ELSE E

(* Of tables with other data only the data is new. *)
LEMMA DataSet ==
  ASSUME NEW R, R \in Sections, NEW dt \in Seq(Octets)
  PROVE  LET T == [R EXCEPT !.data = dt]
         IN  /\ T \in Sections /\ T.data = dt /\ T.rels = R.rels
             /\ T.syms = R.syms /\ T.strs = R.strs /\ T.pool = R.pool /\ T.failed = R.failed
<1>1. [R EXCEPT !.data = dt] \in Sections BY DEF Sections
<1> QED BY <1>1 DEF Sections

(* Filling up keeps the types and changes the data only. *)
LEMMA FilledUpType ==
  ASSUME NEW E, E \in Sections, NEW elem \in Nat
  PROVE  LET T == FilledUp(E, elem)
         IN  /\ T \in Sections /\ T.failed = E.failed /\ T.rels = E.rels /\ T.syms = E.syms
             /\ T.strs = E.strs /\ T.pool = E.pool
             /\ T.data = IF E.bytes > 0 THEN E.data \o Zeros(elem - E.bytes) ELSE E.data
<1>1. CASE E.bytes > 0
  <2> DEFINE dt == E.data \o Zeros(elem - E.bytes)
  <2>1. E.data \in Seq(Octets) /\ elem - E.bytes \in Int BY SMT DEF Sections
  <2>2. dt \in Seq(Octets) BY <2>1, WithZeros, ZeroIn, Zenon
  <2> HIDE DEF dt
  <2>3. FilledUp(E, elem) = [E EXCEPT !.data = dt] BY <1>1, Zenon DEF FilledUp, dt
  <2>4. LET T == [E EXCEPT !.data = dt]
        IN  /\ T \in Sections /\ T.data = dt /\ T.rels = E.rels
            /\ T.syms = E.syms /\ T.strs = E.strs /\ T.pool = E.pool /\ T.failed = E.failed
    BY <2>2, DataSet, Zenon
  <2> QED BY <1>1, <2>3, <2>4, Zenon DEF dt
<1>2. CASE ~(E.bytes > 0)
  <2>1. FilledUp(E, elem) = E BY <1>2, Zenon DEF FilledUp
  <2> QED BY <1>2, <2>1, Zenon
<1> QED BY <1>1, <1>2, Zenon

(* With nothing to fill up the tables are the same. *)
LEMMA FilledUpGood ==
  ASSUME NEW E, Good(E), NEW elem \in Nat, E.bytes = 0 \/ elem = 0
  PROVE  LET T == FilledUp(E, elem)
         IN  /\ Good(T) /\ Len(T.data) = Len(E.data)
             /\ \A p \in Nat : ByteAt(T.data, p) = ByteAt(E.data, p)
<1> DEFINE T == FilledUp(E, elem)
<1>0. E \in Sections /\ E.data \in Seq(Octets) /\ E.bytes \in Nat BY SMT DEF Good, Sections
<1>1. /\ T \in Sections /\ T.failed = E.failed /\ T.rels = E.rels /\ T.syms = E.syms
      /\ T.strs = E.strs /\ T.pool = E.pool
      /\ T.data = IF E.bytes > 0 THEN E.data \o Zeros(elem - E.bytes) ELSE E.data
  BY <1>0, FilledUpType, Zenon
<1>2. Len(T.data) = Len(E.data) /\ \A p \in Nat : ByteAt(T.data, p) = ByteAt(E.data, p)
  <2>1. CASE E.bytes > 0
    <3> DEFINE k == elem - E.bytes
    <3>1. k \in Int /\ ~(k > 0) BY <2>1, <1>0, SMT
    <3> HIDE DEF k
    <3>2. /\ Len(E.data \o Zeros(k)) = Len(E.data) + (IF k > 0 THEN k ELSE 0)
          /\ \A p \in Nat : ByteAt(E.data \o Zeros(k), p) = ByteAt(E.data, p)
      BY <3>1, <1>0, WithZeros, ZeroIn, Zenon
    <3>3. Len(E.data) \in Nat BY <1>0, SMT
    <3>4. Len(E.data \o Zeros(k)) = Len(E.data) BY <3>1, <3>2, <3>3, SMT
    <3>5. T.data = E.data \o Zeros(k) BY <1>1, <2>1, Zenon DEF k
    <3> QED BY <3>2, <3>4, <3>5, Zenon
  <2>2. CASE ~(E.bytes > 0) BY <1>1, <2>2, Zenon
  <2> QED BY <2>1, <2>2, Zenon
<1> HIDE DEF T
<1>3. Good(T) BY <1>1, <1>2, Zenon DEF Good, Inside
<1> QED BY <1>2, <1>3, Zenon DEF T

(* What has the same bytes and tables is behind the same. *)
LEMMA LaterSame ==
  ASSUME NEW R, NEW E, NEW T, NEW q \in Nat, Later(R, E, q), T.rels = E.rels, T.syms = E.syms,
         T.strs = E.strs, T.pool = E.pool, \A p \in Nat : ByteAt(T.data, p) = ByteAt(E.data, p)
  PROVE  Later(R, T, q)
<1>1. \A p \in 1 .. q : ByteAt(T.data, p) = ByteAt(R.data, p) BY SMT DEF Later
<1> QED BY <1>1, Zenon DEF Later

(* A variable holds what C has of it. *)
VarHeld(T, off, d) == \A c \in Image(d) : CellOk(T, off + c[1], c[2], c[3], d.given = "list")
Described(d) == IF d.given = "list" THEN LaidAsC(d) ELSE ~d.open

(* All elements being placed, the variable holds what C says. *)
LEMMA ListHeld ==
  ASSUME NEW d, IsVar(d), LaidAsC(d), d.given = "list", NEW T, NEW off \in Nat,
         RowsPlaced(T, d, off, Len(d.init))
  PROVE  VarHeld(T, off, d)
<1> DEFINE ms == Members(d)
<1>1. d.cols = 1 /\ Rows(d) = Len(d.init) BY DEF LaidAsC
<1>2. ms \in Seq(Sizes) BY NodeIs, Zenon
<1>3. Unit(d) \in Nat BY NodeIs, Zenon
<1>4. \A s \in 1 .. Len(d.init), m \in 1 .. Len(ms) :
        CellOk(T, off + Unit(d) * (s - 1) + Offsets(ms)[m], ms[m], Item(d, s, m), TRUE)
  BY Zenon DEF RowsPlaced
<1>5. DOMAIN ms = 1 .. Len(ms) /\ Len(ms) \in Nat BY <1>2, SMT
<1>6. \A m \in 1 .. Len(ms) : Offsets(ms)[m] \in Nat BY <1>2, NodeIs, Layout, Zenon
<1>7. Len(d.init) \in Nat BY GivenIs, Zenon
<1> SUFFICES ASSUME NEW c \in Image(d) PROVE CellOk(T, off + c[1], c[2], c[3], TRUE)
  BY Zenon DEF VarHeld
<1>8. PICK r \in 1 .. Rows(d), k \in 1 .. d.cols, m \in DOMAIN ms :
        c = <<Unit(d) * ((r - 1) * d.cols + k - 1) + Offsets(ms)[m], ms[m],
              Item(d, r, (k - 1) * Len(ms) + m)>>
  BY DEF Image
<1>9. k = 1 BY <1>1, <1>8, SMT
<1>10. r \in 1 .. Len(d.init) /\ m \in 1 .. Len(ms) BY <1>1, <1>5, <1>8, Zenon
<1> HIDE DEF ms
<1>11. (r - 1) * d.cols + k - 1 = r - 1 /\ (k - 1) * Len(ms) + m = m
  <2>1. r \in Int /\ m \in Int BY <1>7, <1>5, <1>10, SMT
  <2>2. (r - 1) * 1 + 1 - 1 = r - 1 /\ (1 - 1) * Len(ms) + m = m BY <2>1, <1>5, SMT
  <2> QED BY <2>2, <1>1, <1>9, Zenon
<1>12. c[1] = Unit(d) * (r - 1) + Offsets(ms)[m] /\ c[2] = ms[m] /\ c[3] = Item(d, r, m)
  BY <1>8, <1>11, SMT
<1>13. off + c[1] = off + Unit(d) * (r - 1) + Offsets(ms)[m]
  <2> DEFINE x == Unit(d) * (r - 1)
             o == Offsets(ms)[m]
  <2>1. x \in Nat
    <3>1. r - 1 \in Nat BY <1>7, <1>10, SMT
    <3> QED BY <3>1, <1>3, Product
  <2>2. o \in Nat /\ c[1] = x + o BY <1>6, <1>10, <1>12, Zenon
  <2> HIDE DEF x, o
  <2>3. off + c[1] = off + x + o BY <2>1, <2>2, SMT
  <2> QED BY <2>3, Zenon DEF x, o
<1> QED BY <1>4, <1>10, <1>12, <1>13, Zenon

(* Where nothing has been written and no reference is, there is 0. *)
LEMMA ZeroCell ==
  ASSUME NEW T, Good(T), NEW off \in Nat, Len(T.data) <= off, NEW from \in Nat, NEW size \in Nat, NEW it
  PROVE  CellOk(T, off + from, size, it, FALSE)
<1>1. \A k \in 1 .. Len(T.rels) : T.rels[k].off + 8 <= Len(T.data) /\ T.rels[k].off \in Nat
  <2>1. T.rels \in Seq(Relocs) BY SMT DEF Good, Sections
  <2>3. \A k \in 1 .. Len(T.rels) : T.rels[k] \in Relocs BY <2>1, SMT
  <2>4. \A r \in Relocs : r.off \in Nat BY SMT DEF Relocs
  <2>2. \A k \in 1 .. Len(T.rels) : T.rels[k].off \in Nat BY <2>3, <2>4, Zenon
  <2> QED BY <2>2, Zenon DEF Good, Inside
<1>2. T.data \in Seq(Octets) BY SMT DEF Good, Sections
<1>3. Len(T.data) \in Nat BY <1>2, SMT
<1>4. \A j \in 1 .. Len(T.rels) : ~Touches(T.rels[j], off + from, size)
  <2> SUFFICES ASSUME NEW j \in 1 .. Len(T.rels) PROVE ~Touches(T.rels[j], off + from, size) OBVIOUS
  <2> DEFINE x == T.rels[j].off
             z == Len(T.data)
  <2>1. x \in Nat /\ x + 8 <= z /\ z \in Nat /\ z <= off BY <1>1, <1>3, Zenon
  <2> HIDE DEF x, z
  <2>2. ~(x + 8 > off + from) BY <2>1, SMT
  <2> QED BY <2>2, Zenon DEF Touches, x
<1>5. \A i \in 1 .. size : ByteAt(T.data, off + from + i) = 0
  BY <1>3, SMT DEF ByteAt
<1> QED BY <1>4, <1>5, Zenon DEF CellOk, Value

(* A variable without a list is 0. *)
LEMMA NoListHeld ==
  ASSUME NEW d, IsVar(d), d.given # "list", ~d.open, NEW T, Good(T), NEW off \in Nat, Len(T.data) <= off
  PROVE  VarHeld(T, off, d)
<1> SUFFICES ASSUME NEW c \in Image(d) PROVE CellOk(T, off + c[1], c[2], c[3], FALSE)
  BY Zenon DEF VarHeld
<1>1. c[1] \in Nat /\ c[2] \in Nat BY ImageIn, Zenon
<1> QED BY <1>1, ZeroCell, Zenon

(* A variable is held by tables with the same bytes. *)
LEMMA HeldSame ==
  ASSUME NEW R, NEW T, T.rels = R.rels, T.strs = R.strs, T.pool = R.pool,
         \A p \in Nat : ByteAt(T.data, p) = ByteAt(R.data, p),
         NEW d, IsVar(d), Described(d), NEW off \in Nat, VarHeld(R, off, d)
  PROVE  VarHeld(T, off, d)
<1> SUFFICES ASSUME NEW c \in Image(d) PROVE CellOk(T, off + c[1], c[2], c[3], d.given = "list")
  BY Zenon DEF VarHeld
<1>1. c[1] \in Nat /\ c[2] \in Nat BY ImageIn, Zenon DEF Described
<1>2. CellOk(R, off + c[1], c[2], c[3], d.given = "list") BY Zenon DEF VarHeld
<1>3. off + c[1] \in Nat BY <1>1, SMT
<1> DEFINE list == d.given = "list"
<1>4. CellOk(R, off + c[1], c[2], c[3], list) BY <1>2, Zenon
<1> HIDE DEF list
<1> DEFINE from == off + c[1]
           size == c[2]
           it   == c[3]
<1>7. from \in Nat /\ size \in Nat /\ CellOk(R, from, size, it, list) BY <1>1, <1>3, <1>4, Zenon
<1> HIDE DEF from, size, it
<1>5. CellOk(T, from, size, it, list) BY <1>7, CellSame, Zenon
<1> QED BY <1>5, Zenon DEF list, from, size, it

(* A variable is held by later tables. *)
LEMMA HeldLater ==
  ASSUME NEW R, R \in Sections, NEW T, T \in Sections, NEW q \in Nat, Later(R, T, q),
         NEW d, IsVar(d), Described(d), NEW off \in Nat, VarHeld(R, off, d), off + Node(d).ival <= q
  PROVE  VarHeld(T, off, d)
<1> SUFFICES ASSUME NEW c \in Image(d) PROVE CellOk(T, off + c[1], c[2], c[3], d.given = "list")
  BY Zenon DEF VarHeld
<1>1. c[1] \in Nat /\ c[2] \in Nat /\ c[3] \in Items /\ c[1] + c[2] <= Node(d).ival
  BY ImageIn, Zenon DEF Described
<1>2. CellOk(R, off + c[1], c[2], c[3], d.given = "list") BY Zenon DEF VarHeld
<1>3. off + c[1] \in Nat /\ (off + c[1]) + c[2] <= q
  <2>1. Node(d).ival \in Nat BY GivenIs, Zenon
  <2> QED BY <1>1, <2>1, SMT
<1> DEFINE list == d.given = "list"
<1>4. CellOk(R, off + c[1], c[2], c[3], list) BY <1>2, Zenon
<1> HIDE DEF list
<1>6. list => c[3] \in Items BY <1>1, Zenon
<1> DEFINE from == off + c[1]
           size == c[2]
           it   == c[3]
<1>7. from \in Nat /\ size \in Nat /\ CellOk(R, from, size, it, list) BY <1>1, <1>3, <1>4, Zenon
<1>8. from + size <= q /\ (list => it \in Items) BY <1>3, <1>6, Zenon
<1> HIDE DEF from, size, it
<1>5. CellOk(T, from, size, it, list) BY <1>7, <1>8, CellLater, Zenon
<1> QED BY <1>5, Zenon DEF list, from, size, it

(* The parser has the items that C has. *)
LEMMA ItemsAre ==
  ASSUME NEW d, IsVar(d), Described(d)
  PROVE  /\ Node(d).items = Given(d) /\ Node(d).items \in Seq(Items) /\ Len(Node(d).items) \in Nat
         /\ Node(d).elem \in Nat /\ Node(d).ival \in Nat
<1>1. Given(d) \in Seq(Items) /\ (d.given # "list" => Given(d) = <<>> /\ Node(d).items = <<>>)
      /\ Node(d).elem \in Nat /\ Node(d).ival \in Nat
  BY GivenIs, NodeIs, Zenon
<1>2. d.given = "list" => Node(d).items = Given(d) BY Zenon DEF Described, LaidAsC
<1>3. Node(d).items = Given(d) BY <1>1, <1>2, Zenon
<1>4. Node(d).items \in Seq(Items) BY <1>1, <1>3, Zenon
<1>5. Len(Node(d).items) \in Nat BY <1>4
<1> QED BY <1>1, <1>3, <1>4, <1>5, Zenon
InitDone(R, T, d) ==
  /\ Good(T) /\ Later(R, T, Len(R.data)) /\ Len(T.data) <= Len(R.data) + Node(d).ival
  /\ VarHeld(T, Len(R.data), d)

(* The whole initialiser of a variable is written as C says. *)
LEMMA InitEmitted ==
  ASSUME NEW d, IsVar(d), Described(d), NEW R, Good(R), R.idx = 0, R.bytes = 0
  PROVE  LET T == EmitInit(R, Node(d))
             E == Emitted(R, Node(d))[Len(Node(d).items)]
         IN  /\ T.failed = E.failed /\ T.strs = E.strs /\ T.pool = E.pool /\ T.syms = E.syms /\ T.rels = E.rels
             /\ E \in Sections /\ (~T.failed => InitDone(R, T, d))
<1> DEFINE node == Node(d)
           N == Len(node.items)
           g == Emitted(R, node)
           E == g[N]
           T == EmitInit(R, node)
           q == Len(R.data)
<1>1. /\ node.items \in Seq(Items) /\ N \in Nat /\ node.elem \in Nat /\ node.ival \in Nat
  BY ItemsAre, Zenon
<1>2. E \in Sections /\ (~E.failed => Good(E))
  <2>1. N \in 0 .. N BY <1>1, SMT
  <2> QED BY <1>1, <2>1, EmitsType, Zenon
<1>3. T = FilledUp(E, node.elem)
  <2>1. T = IF E.bytes > 0 THEN [E EXCEPT !.data = @ \o Zeros(node.elem - E.bytes)] ELSE E
    BY <1>1, EmittedAre, Zenon
  <2> QED BY <2>1, Zenon DEF FilledUp
<1>4. g[0] = R BY <1>1, EmittedSteps, Zenon
<1>5. q \in Nat /\ R \in Sections
  <2>1. R \in Sections BY Zenon DEF Good
  <2> QED BY <2>1, LaterParts, Zenon
<1>6. T.failed = E.failed /\ T.strs = E.strs /\ T.pool = E.pool /\ T.syms = E.syms /\ T.rels = E.rels
  <2> DEFINE F == FilledUp(E, node.elem)
             z == node.elem
  <2>1. z \in Nat BY <1>1, Zenon
  <2>2. F = FilledUp(E, z) /\ T = F BY <1>3, Zenon
  <2> HIDE DEF F, T, E, z
  <2>3. F.failed = E.failed /\ F.strs = E.strs /\ F.pool = E.pool /\ F.syms = E.syms /\ F.rels = E.rels
    BY <1>2, <2>1, <2>2, FilledUpType
  <2> QED BY <2>2, <2>3, Zenon
<1>7. ASSUME ~E.failed PROVE InitDone(R, T, d)
  <2>1. Good(E) BY <1>2, <1>7, Zenon
  <2>2. Later(R, E, q)
    <3>1. N \in 0 .. N /\ 0 \in 0 .. N BY <1>1, SMT
    <3>2. Later(g[0], g[N], Len(g[0].data)) BY <3>1, <1>1, <1>7, EmitsGood, Zenon
    <3> QED BY <3>2, <1>4, Zenon
  <2>3. (E.bytes = 0 \/ node.elem = 0) /\ Len(E.data) <= q + node.ival /\ VarHeld(E, q, d)
    <3>1. CASE d.given = "list"
      <4>1. LaidAsC(d) BY <3>1, Zenon DEF Described
      <4>2. RowsPlaced(E, d, q, Len(d.init)) BY <3>1, <4>1, <1>7, RowsEmitted, Zenon
      <4>3. VarHeld(E, q, d) BY <3>1, <4>1, <4>2, <1>5, ListHeld, Zenon
      <4>4. (E.bytes = 0 \/ node.elem = 0) /\ Len(E.data) <= q + node.ival
        BY <4>2, Zenon DEF RowsPlaced
      <4> QED BY <4>3, <4>4, Zenon
    <3>2. CASE d.given # "list"
      <4>1. node.items = <<>> BY <3>2, GivenIs, Zenon
      <4>2. N = 0 BY <4>1, SMT
      <4>3. E = R BY <4>2, <1>4, Zenon
      <4>4. ~d.open BY <3>2, Zenon DEF Described
      <4>5. q <= q /\ q <= q + node.ival BY <1>1, <1>5, SMT
      <4>6. VarHeld(R, q, d) BY <3>2, <4>4, <4>5, <1>5, NoListHeld, Zenon
      <4> QED BY <4>3, <4>5, <4>6, Zenon
    <3> QED BY <3>1, <3>2, Zenon
  <2> HIDE DEF E, g
  <2>4. Good(T) /\ Len(T.data) = Len(E.data) /\ \A p \in Nat : ByteAt(T.data, p) = ByteAt(E.data, p)
    <3> DEFINE z == node.elem
    <3>1. z \in Nat /\ T = FilledUp(E, z) /\ (E.bytes = 0 \/ z = 0) BY <2>3, <1>1, <1>3, Zenon
    <3> HIDE DEF T, z
    <3> QED BY <2>1, <3>1, FilledUpGood
  <2> HIDE DEF T, q, node
  <2>5. Later(R, T, q) BY <2>2, <2>4, <1>5, <1>6, LaterSame, Zenon
  <2>6. VarHeld(T, q, d) BY <2>3, <2>4, <1>5, <1>6, HeldSame, Zenon
  <2>7. Len(T.data) <= q + node.ival BY <2>3, <2>4, Zenon
  <2> QED BY <2>4, <2>5, <2>6, <2>7, Zenon DEF InitDone, q, node
<1> QED BY <1>2, <1>6, <1>7, Zenon

-----------------------------------------------------------------------------
(* The symbol of a variable that is at o. *)
Symb(d, o)       == Symbol(d.name, o, Node(d).ival, IF d.given = "none" THEN 5 ELSE 3)
Has(names, d, o) == \E i \in 1 .. Len(names) : names[i] = Symb(d, o)
(* What is placed stays where it is. *)
Keeps(names, names1) ==
  /\ Len(names) <= Len(names1)
  /\ \A i \in 1 .. Len(names) : ~Strung(names[i]) /\ names[i].shndx # 0 => names1[i] = names[i]
(* The first n variables have places in the tables, inside of the data and *)
(* behind each other, and hold what C has of them.                         *)
VarAt(R, d, o, dataEnd, bssEnd) ==
  /\ Has(R.syms, d, o)
  /\ IF d.given = "none" THEN o + Node(d).ival <= bssEnd
     ELSE o + Node(d).ival <= dataEnd /\ VarHeld(R, o, d)
Clear(d, o, e, p) ==
  (d.given = "none") # (e.given = "none") \/ o + Node(d).ival <= p \/ p + Node(e).ival <= o
VarsPlaced(R, vs, n, dataEnd, bssEnd) ==
  /\ \A v \in 1 .. n : \E o \in Nat : VarAt(R, vs[v], o, dataEnd, bssEnd)
  /\ \A v, w \in 1 .. n : v # w =>
       \A o, p \in Nat : Has(R.syms, vs[v], o) /\ Has(R.syms, vs[w], p) => Clear(vs[v], o, vs[w], p)
SomeVars(vs, n) == n \in Nat /\ \A v \in 1 .. n : IsVar(vs[v]) /\ Described(vs[v])

(* The symbol of a variable is none of a string. *)
LEMMA SymbIs ==
  ASSUME NEW d, IsVar(d), NEW o
  PROVE  /\ ~Strung(Symb(d, o)) /\ Symb(d, o).shndx # 0 /\ Symb(d, o).name = d.name
         /\ Symb(d, o).offset = o
<1>1. Symb(d, o).name = d.name /\ Symb(d, o).offset = o /\ Symb(d, o).shndx # 0
  BY SMT DEF Symb, Symbol
<1>2. d.name[1] # "LC" BY Zenon DEF IsVar, OfC
<1> QED BY <1>1, <1>2, Zenon DEF Strung

(* The symbol of a variable is among those that are kept. *)
LEMMA HasKept ==
  ASSUME NEW names \in Seq(Symbols), NEW names1 \in Seq(Symbols), Keeps(names, names1),
         NEW d, IsVar(d), NEW o, Has(names, d, o)
  PROVE  Has(names1, d, o)
<1>1. PICK i \in 1 .. Len(names) : names[i] = Symb(d, o) BY Zenon DEF Has
<1> DEFINE y == Symb(d, o)
<1>4. ~Strung(y) /\ y.shndx # 0 BY SymbIs, Zenon
<1> HIDE DEF y
<1>5. names[i] = y BY <1>1, Zenon DEF y
<1>6. names1[i] = names[i] BY <1>4, <1>5, Zenon DEF Keeps
<1>2. names1[i] = Symb(d, o) BY <1>5, <1>6, Zenon DEF y
<1>3. i \in 1 .. Len(names1)
  <2>1. Len(names) \in Nat /\ Len(names1) \in Nat /\ Len(names) <= Len(names1) BY DEF Keeps
  <2> QED BY <2>1, SMT
<1> QED BY <1>2, <1>3, Zenon DEF Has

(* A variable has one symbol. *)
LEMMA HasOne ==
  ASSUME NEW names, Unique(names), NEW d, IsVar(d), NEW o, NEW p, Has(names, d, o), Has(names, d, p)
  PROVE  o = p
<1>1. PICK i \in 1 .. Len(names) : names[i] = Symb(d, o) BY Zenon DEF Has
<1>2. PICK j \in 1 .. Len(names) : names[j] = Symb(d, p) BY Zenon DEF Has
<1> DEFINE y == Symb(d, o)
           z == Symb(d, p)
<1>6. y.name = d.name /\ z.name = d.name /\ y.offset = o /\ z.offset = p BY SymbIs, Zenon
<1>7. names[i] = y /\ names[j] = z BY <1>1, <1>2, Zenon
<1> HIDE DEF y, z
<1>3. names[i].name = names[j].name BY <1>6, <1>7, Zenon
<1>4. i = j BY <1>3, Zenon DEF Unique
<1>5. y = z BY <1>4, <1>7, Zenon
<1> QED BY <1>5, <1>6, Zenon

(* What is added to the tables leaves the variables as they are. *)
LEMMA VarsKept ==
  ASSUME NEW R, R \in Sections, NEW T, T \in Sections, NEW vs, NEW n, SomeVars(vs, n),
         NEW dataEnd \in Nat, NEW bssEnd \in Nat, NEW dataEnd1 \in Nat, NEW bssEnd1 \in Nat,
         dataEnd <= dataEnd1, bssEnd <= bssEnd1,
         VarsPlaced(R, vs, n, dataEnd, bssEnd), Keeps(R.syms, T.syms), Unique(T.syms),
         \A v \in 1 .. n : \A o \in Nat :
           o + Node(vs[v]).ival <= dataEnd /\ VarHeld(R, o, vs[v]) => VarHeld(T, o, vs[v])
  PROVE  VarsPlaced(T, vs, n, dataEnd1, bssEnd1)
<1>0. R.syms \in Seq(Symbols) /\ T.syms \in Seq(Symbols) BY LaterParts, Zenon
<1>1. ASSUME NEW v \in 1 .. n PROVE \E o \in Nat : VarAt(T, vs[v], o, dataEnd1, bssEnd1)
  <2>1. PICK o \in Nat : VarAt(R, vs[v], o, dataEnd, bssEnd) BY Zenon DEF VarsPlaced
  <2>2. IsVar(vs[v]) BY Zenon DEF SomeVars
  <2>3. Has(T.syms, vs[v], o) BY <1>0, <2>1, <2>2, HasKept, Zenon DEF VarAt
  <2>4. o + Node(vs[v]).ival \in Nat
    <3>1. Node(vs[v]).ival \in Nat BY <2>2, GivenIs, Zenon
    <3> QED BY <3>1
  <2>5. CASE vs[v].given = "none"
    <3>1. o + Node(vs[v]).ival <= bssEnd BY <2>1, <2>5, Zenon DEF VarAt
    <3>2. o + Node(vs[v]).ival <= bssEnd1 BY <3>1, <2>4, SMT
    <3> QED BY <2>3, <2>5, <3>2, Zenon DEF VarAt
  <2>6. CASE vs[v].given # "none"
    <3>1. o + Node(vs[v]).ival <= dataEnd /\ VarHeld(R, o, vs[v]) BY <2>1, <2>6, Zenon DEF VarAt
    <3>2. o + Node(vs[v]).ival <= dataEnd1 BY <3>1, <2>4, SMT
    <3>3. VarHeld(T, o, vs[v]) BY <3>1, Zenon
    <3> QED BY <2>3, <2>6, <3>2, <3>3, Zenon DEF VarAt
  <2> QED BY <2>5, <2>6, Zenon
<1>2. ASSUME NEW v \in 1 .. n, NEW o \in Nat, Has(T.syms, vs[v], o) PROVE Has(R.syms, vs[v], o)
  <2>1. PICK p \in Nat : VarAt(R, vs[v], p, dataEnd, bssEnd) BY Zenon DEF VarsPlaced
  <2>2. IsVar(vs[v]) BY Zenon DEF SomeVars
  <2>3. Has(R.syms, vs[v], p) BY <2>1, Zenon DEF VarAt
  <2>4. Has(T.syms, vs[v], p) BY <1>0, <2>2, <2>3, HasKept, Zenon
  <2>5. p = o BY <1>2, <2>2, <2>4, HasOne, Zenon
  <2> QED BY <2>3, <2>5, Zenon
<1>3. ASSUME NEW v \in 1 .. n, NEW w \in 1 .. n, v # w, NEW o \in Nat, NEW p \in Nat,
             Has(T.syms, vs[v], o), Has(T.syms, vs[w], p)
      PROVE  Clear(vs[v], o, vs[w], p)
  <2>1. Has(R.syms, vs[v], o) /\ Has(R.syms, vs[w], p) BY <1>2, <1>3, Zenon
  <2> QED BY <1>3, <2>1, Zenon DEF VarsPlaced
<1> QED BY <1>1, <1>3, Zenon DEF VarsPlaced

(* One variable more, behind those that are there. *)
LEMMA VarMore ==
  ASSUME NEW T, T \in Sections, NEW vs, NEW n \in Nat, SomeVars(vs, n + 1), Unique(T.syms),
         NEW dataEnd \in Nat, NEW bssEnd \in Nat, NEW dataEnd1 \in Nat, NEW bssEnd1 \in Nat,
         dataEnd <= dataEnd1, bssEnd <= bssEnd1, VarsPlaced(T, vs, n, dataEnd, bssEnd),
         NEW o \in Nat, VarAt(T, vs[n + 1], o, dataEnd1, bssEnd1),
         IF vs[n + 1].given = "none" THEN bssEnd <= o ELSE dataEnd <= o
  PROVE  VarsPlaced(T, vs, n + 1, dataEnd1, bssEnd1)
<1>0. \A v \in 1 .. n + 1 : v \in 1 .. n \/ v = n + 1 BY SMT
<1>00. n + 1 \in 1 .. n + 1 /\ \A v \in 1 .. n : v \in 1 .. n + 1 BY SMT
<1>1. \A v \in 1 .. n + 1 : IsVar(vs[v]) /\ Node(vs[v]).ival \in Nat BY GivenIs, Zenon DEF SomeVars
<1>2. ASSUME NEW v \in 1 .. n, NEW a \in Nat, Has(T.syms, vs[v], a)
      PROVE  IF vs[v].given = "none" THEN a + Node(vs[v]).ival <= bssEnd
             ELSE a + Node(vs[v]).ival <= dataEnd /\ VarHeld(T, a, vs[v])
  <2>1. PICK b \in Nat : VarAt(T, vs[v], b, dataEnd, bssEnd) BY Zenon DEF VarsPlaced
  <2>2. Has(T.syms, vs[v], b) BY <2>1, Zenon DEF VarAt
  <2>3. IsVar(vs[v]) BY <1>00, <1>1, Zenon
  <2>4. a = b BY <1>2, <2>2, <2>3, HasOne, Zenon
  <2> QED BY <2>1, <2>4, Zenon DEF VarAt
<1>3. ASSUME NEW v \in 1 .. n PROVE \E a \in Nat : VarAt(T, vs[v], a, dataEnd1, bssEnd1)
  <2>1. PICK a \in Nat : VarAt(T, vs[v], a, dataEnd, bssEnd) BY Zenon DEF VarsPlaced
  <2>2. Node(vs[v]).ival \in Nat BY <1>00, <1>1, Zenon
  <2>3. a + Node(vs[v]).ival \in Nat BY <2>2
  <2>4. a + Node(vs[v]).ival <= bssEnd => a + Node(vs[v]).ival <= bssEnd1 BY <2>3, SMT
  <2>5. a + Node(vs[v]).ival <= dataEnd => a + Node(vs[v]).ival <= dataEnd1 BY <2>3, SMT
  <2> QED BY <2>1, <2>4, <2>5, Zenon DEF VarAt
<1>4. \A v \in 1 .. n + 1 : \E a \in Nat : VarAt(T, vs[v], a, dataEnd1, bssEnd1) BY <1>0, <1>3, Zenon
<1>5. ASSUME NEW b \in Nat, Has(T.syms, vs[n + 1], b) PROVE b = o
  <2>1. Has(T.syms, vs[n + 1], o) BY Zenon DEF VarAt
  <2> QED BY <1>00, <1>1, <1>5, <2>1, HasOne, Zenon
<1>6. ASSUME NEW v \in 1 .. n, NEW a \in Nat, Has(T.syms, vs[v], a)
      PROVE  Clear(vs[v], a, vs[n + 1], o) /\ Clear(vs[n + 1], o, vs[v], a)
  <2>1. Node(vs[v]).ival \in Nat BY <1>00, <1>1, Zenon
  <2>2. IF vs[v].given = "none" THEN a + Node(vs[v]).ival <= bssEnd
        ELSE a + Node(vs[v]).ival <= dataEnd
    BY <1>2, <1>6, Zenon
  <2>3. (vs[v].given = "none") # (vs[n + 1].given = "none") \/ a + Node(vs[v]).ival <= o
    <3> DEFINE x == a + Node(vs[v]).ival
    <3>1. x \in Nat BY <2>1
    <3>2. x <= bssEnd /\ bssEnd <= o => x <= o BY <3>1, SMT
    <3>3. x <= dataEnd /\ dataEnd <= o => x <= o BY <3>1, SMT
    <3> QED BY <2>2, <3>2, <3>3, Zenon
  <2> QED BY <2>3, Zenon DEF Clear
<1>7. ASSUME NEW v \in 1 .. n + 1, NEW w \in 1 .. n + 1, v # w, NEW a \in Nat, NEW b \in Nat,
             Has(T.syms, vs[v], a), Has(T.syms, vs[w], b)
      PROVE  Clear(vs[v], a, vs[w], b)
  <2>1. CASE v \in 1 .. n /\ w \in 1 .. n BY <1>7, <2>1, Zenon DEF VarsPlaced
  <2>2. CASE v = n + 1 /\ w \in 1 .. n
    <3>1. a = o BY <1>5, <1>7, <2>2, Zenon
    <3>2. Clear(vs[n + 1], o, vs[w], b) BY <1>6, <1>7, <2>2, Zenon
    <3> QED BY <3>1, <3>2, <2>2, Zenon
  <2>3. CASE w = n + 1 /\ v \in 1 .. n
    <3>1. b = o BY <1>5, <1>7, <2>3, Zenon
    <3>2. Clear(vs[v], a, vs[n + 1], o) BY <1>6, <1>7, <2>3, Zenon
    <3> QED BY <3>1, <3>2, <2>3, Zenon
  <2> QED BY <1>0, <1>7, <2>1, <2>2, <2>3, Zenon
<1> QED BY <1>4, <1>7, Zenon DEF VarsPlaced

-----------------------------------------------------------------------------
(* No more symbols than strings and names. *)
LEMMA Counted ==
  ASSUME NEW strs \in Seq(StrInfos), NEW names \in Seq(Symbols), Tables(strs, names),
         NEW NN, IsFiniteSet(NN), Others(names) \subseteq NN
  PROVE  Len(names) <= Len(strs) + Cardinality(NN)
<1> DEFINE n == Len(names)
           m == Len(strs)
           A == {i \in 1 .. n : Strung(names[i])}
           B == {i \in 1 .. n : ~Strung(names[i])}
           f == [i \in A |-> CHOOSE k \in 1 .. m : strs[k].sym = i]
           h == [i \in B |-> names[i].name]
<1>1. n \in Nat /\ m \in Nat OBVIOUS
<1>2. \A i \in A : f[i] \in 1 .. m /\ strs[f[i]].sym = i
  <2> SUFFICES ASSUME NEW i \in A PROVE f[i] \in 1 .. m /\ strs[f[i]].sym = i
    OBVIOUS
  <2>1. \E k \in 1 .. m : strs[k].sym = i BY Zenon DEF Tables, Owned
  <2> QED BY <2>1, Zenon
<1>3. f \in Injection(A, 1 .. m)
  <2>1. f \in [A -> 1 .. m] BY <1>2, Zenon
  <2>2. \A i, j \in A : f[i] = f[j] => i = j BY <1>2, Zenon
  <2> QED BY <2>1, <2>2, Zenon DEF Injection, IsInjective
<1>4. h \in Injection(B, NN)
  <2>1. \A i \in B : h[i] \in NN BY Zenon DEF Others
  <2>2. \A i, j \in B : h[i] = h[j] => i = j BY Zenon DEF Tables, Unique
  <2>3. h \in [B -> NN] BY <2>1, Zenon
  <2> QED BY <2>2, <2>3, Zenon DEF Injection, IsInjective
<1>5. A \cup B = 1 .. n BY Zenon
<1> HIDE DEF n, m, A, B, f, h
<1>6. IsFiniteSet(1 .. m) /\ Cardinality(1 .. m) = m /\ IsFiniteSet(1 .. n) /\ Cardinality(1 .. n) = n
  <2>1. 1 \in Int /\ n \in Int /\ m \in Int BY <1>1, SMT
  <2>2. /\ IsFiniteSet(1 .. m) /\ Cardinality(1 .. m) = IF 1 > m THEN 0 ELSE m - 1 + 1
        /\ IsFiniteSet(1 .. n) /\ Cardinality(1 .. n) = IF 1 > n THEN 0 ELSE n - 1 + 1
    BY <2>1, FS_Interval, Zenon
  <2> QED BY <1>1, <2>2, SMT
<1> DEFINE I == 1 .. m
<1>60. IsFiniteSet(I) /\ Cardinality(I) = m /\ f \in Injection(A, I) BY <1>3, <1>6, Zenon
<1> HIDE DEF I
<1>61. IsFiniteSet(A) /\ Cardinality(A) <= Cardinality(I) BY <1>60, FS_Injection, Zenon
<1>7. IsFiniteSet(A) /\ Cardinality(A) <= m BY <1>60, <1>61, Zenon
<1>8. IsFiniteSet(B) /\ Cardinality(B) <= Cardinality(NN) BY <1>4, FS_Injection, Zenon
<1>9. Cardinality(A \cup B) = Cardinality(A) + Cardinality(B) - Cardinality(A \cap B)
  BY <1>7, <1>8, FS_Union, Zenon
<1>10. IsFiniteSet(A \cap B) BY <1>7, FS_Intersection, Zenon
<1>11. /\ Cardinality(A) \in Nat /\ Cardinality(B) \in Nat /\ Cardinality(A \cap B) \in Nat
       /\ Cardinality(NN) \in Nat
  BY <1>7, <1>8, <1>10, FS_CardinalityType, Zenon
<1>12. n <= m + Cardinality(NN)
  <2> DEFINE a == Cardinality(A)
             b == Cardinality(B)
             c == Cardinality(A \cap B)
             z == Cardinality(NN)
             s == Cardinality(A \cup B)
  <2>1. s = n BY <1>5, <1>6, Zenon
  <2>2. a \in Nat /\ b \in Nat /\ c \in Nat /\ z \in Nat /\ a <= m /\ b <= z /\ s = a + b - c
    BY <1>7, <1>8, <1>9, <1>11, Zenon
  <2> HIDE DEF a, b, c, z, s
  <2>3. n <= m + z BY <1>1, <2>1, <2>2, SMT
  <2> QED BY <2>3, Zenon DEF z
<1> QED BY <1>12, Zenon DEF n, m

(* A name of the file without a symbol: there are fewer symbols. *)
LEMMA CountedMore ==
  ASSUME NEW strs \in Seq(StrInfos), NEW names \in Seq(Symbols), Tables(strs, names),
         NEW NN, IsFiniteSet(NN), Others(names) \subseteq NN, NEW x \in NN, x \notin Others(names)
  PROVE  Len(names) + 1 <= Len(strs) + Cardinality(NN)
<1> DEFINE M == NN \ {x}
<1>1. IsFiniteSet(M) /\ Cardinality(M) = Cardinality(NN) - 1 BY FS_RemoveElement, Zenon
<1>2. Others(names) \subseteq M BY Zenon
<1> HIDE DEF M
<1>3. Len(names) <= Len(strs) + Cardinality(M) BY <1>1, <1>2, Counted, Zenon
<1>4. Len(names) \in Nat /\ Len(strs) \in Nat /\ Cardinality(NN) \in Nat
  <2>1. Cardinality(NN) \in Nat BY FS_CardinalityType, Zenon
  <2> QED BY <2>1
<1> QED BY <1>1, <1>3, <1>4, SMT

-----------------------------------------------------------------------------
(* Item k of sequence i is in what the sequences are when joined. *)
LEMMA NextIn ==
  ASSUME NEW T, NEW ss \in Seq(Seq(T)), NEW i \in 1 .. Len(ss), NEW k \in 1 .. Len(ss[i])
  PROVE  /\ Len(Upto(ss)[i - 1]) + k \in 1 .. Len(Joined(ss))
         /\ Joined(ss)[Len(Upto(ss)[i - 1]) + k] = ss[i][k]
<1> DEFINE a == Upto(ss)[i - 1]
           b == Upto(ss)[i]
           j == Joined(ss)
           p == Len(a) + k
<1>1. i \in 0 .. Len(ss) /\ i - 1 \in 0 .. Len(ss) OBVIOUS
<1>2. a \in Seq(T) /\ b \in Seq(T) /\ j \in Seq(T) /\ Extends(b, j) BY <1>1, UptoFacts, Zenon
<1>3. Len(b) = Len(a) + Len(ss[i]) /\ b[Len(a) + k] = ss[i][k] BY UptoFacts, Zenon
<1>4. ss[i] \in Seq(T) OBVIOUS
<1>5. Len(ss[i]) \in Nat BY <1>4
<1>50. Len(a) \in Nat /\ Len(b) \in Nat /\ Len(j) \in Nat BY <1>2
<1> HIDE DEF a, b, j
<1>6. p \in 1 .. Len(b) BY <1>3, <1>5, <1>50, SMT
<1>7. p \in 1 .. Len(j) /\ j[p] = b[p]
  <2>1. Len(b) <= Len(j) /\ \A x \in 1 .. Len(b) : j[x] = b[x] BY <1>2, Zenon DEF Extends
  <2> QED BY <2>1, <1>6, <1>50, SMT
<1> QED BY <1>3, <1>7, Zenon DEF a, b, j, p

(* How many characters the pool has when n of the strings are in it. *)
Ended(TS)      == [i \in DOMAIN TS |-> Append(TS[i], 0)]
PoolLen(TS, n) == Len(Upto(Ended(TS))[n])

(* The bytes of n strings, from those of n - 1. *)
LEMMA PoolNext ==
  ASSUME NEW TS \in Seq(Seq(Nat))
  PROVE  /\ PoolLen(TS, 0) = 0 /\ \A n \in 0 .. Len(TS) : PoolLen(TS, n) \in Nat
         /\ \A n \in 1 .. Len(TS) : PoolLen(TS, n) = PoolLen(TS, n - 1) + Len(TS[n]) + 1
         /\ \A n \in 0 .. Len(TS) : PoolLen(TS, n) <= Len(Joined(Ended(TS)))
         /\ Len(Joined(Ended(TS))) \in Nat
<1> DEFINE P == Ended(TS)
<1>0. Len(TS) \in Nat /\ DOMAIN TS = 1 .. Len(TS) /\ \A n \in 1 .. Len(TS) : TS[n] \in Seq(Nat) OBVIOUS
<1>1. P \in Seq(Seq(Nat)) /\ Len(P) = Len(TS)
  <2>1. \A n \in 1 .. Len(TS) : Append(TS[n], 0) \in Seq(Nat) BY <1>0
  <2> DEFINE N == Len(TS)
             f(n) == Append(TS[n], 0)
  <2>2. P = [n \in 1 .. N |-> f(n)] BY <1>0, Zenon DEF Ended
  <2>3. N \in Nat /\ \A n \in 1 .. N : f(n) \in Seq(Nat) BY <1>0, <2>1, Zenon
  <2> HIDE DEF N, f, P
  <2>4. P \in Seq(Seq(Nat)) /\ Len(P) = N BY <2>2, <2>3, SMT
  <2> QED BY <2>4, Zenon DEF N
<1>2. \A n \in 1 .. Len(TS) : P[n] = Append(TS[n], 0) BY DEF Ended
<1>3. \A n \in 1 .. Len(TS) : Len(P[n]) = Len(TS[n]) + 1 /\ Len(TS[n]) \in Nat BY <1>2
<1> HIDE DEF P
<1>4. Len(P) \in Nat BY <1>1
<1>5. Upto(P)[0] = <<>> BY <1>4, UptoAre, Zenon
<1>6. \A n \in 0 .. Len(P) : Upto(P)[n] \in Seq(Nat) BY <1>1, UptoFacts, Zenon
<1>7. \A n \in 1 .. Len(P) : Len(Upto(P)[n]) = Len(Upto(P)[n - 1]) + Len(P[n]) BY <1>1, UptoFacts, Zenon
<1>8. \A n \in 0 .. Len(P) : Extends(Upto(P)[n], Joined(P)) BY <1>1, UptoFacts, Zenon
<1>9. Joined(P) \in Seq(Nat) BY <1>1, UptoFacts, Zenon
<1>10. \A n \in 0 .. Len(P) : Len(Upto(P)[n]) \in Nat BY <1>6
<1>11. Len(Joined(P)) \in Nat BY <1>9
<1>12. \A n \in 0 .. Len(TS) : PoolLen(TS, n) <= Len(Joined(P)) BY <1>1, <1>8, Zenon DEF PoolLen, Extends, P
<1>13. PoolLen(TS, 0) = 0
  <2>1. Len(<<>>) = 0 OBVIOUS
  <2> QED BY <2>1, <1>5, Zenon DEF PoolLen, P
<1>14. \A n \in 0 .. Len(TS) : PoolLen(TS, n) \in Nat BY <1>1, <1>10, Zenon DEF PoolLen, P
<1>15. ASSUME NEW n \in 1 .. Len(TS) PROVE PoolLen(TS, n) = PoolLen(TS, n - 1) + Len(TS[n]) + 1
  <2>1. PoolLen(TS, n) = PoolLen(TS, n - 1) + Len(P[n]) BY <1>1, <1>7, Zenon DEF PoolLen, P
  <2>2. Len(P[n]) = Len(TS[n]) + 1 /\ Len(TS[n]) \in Nat BY <1>3
  <2>3. n - 1 \in 0 .. Len(TS) OBVIOUS
  <2>4. PoolLen(TS, n - 1) \in Nat BY <1>14, <2>3, Zenon
  <2> QED BY <2>1, <2>2, <2>4, SMT
<1> QED BY <1>11, <1>12, <1>13, <1>14, <1>15, Zenon DEF P

-----------------------------------------------------------------------------
(* The strings of R are the first of TS. *)
Told(TS, R) == Len(R.strs) <= Len(TS) /\ Len(R.pool) = PoolLen(TS, Len(R.strs))
(* There is no room for the strings TS and the names NN. *)
Overfull(TS, NN) ==
  \/ Len(Joined(Ended(TS))) > STRPOOL_SIZE
  \/ Len(TS) > MAX_STRINGS
  \/ Len(TS) + Cardinality(NN) > MAX_SYMS

(* Where a string does not fit the file has too many. *)
LEMMA FullTables ==
  ASSUME NEW TS \in Seq(Seq(Nat)), NEW R, R \in Sections, Tables(R.strs, R.syms), Told(TS, R),
         NEW NN, IsFiniteSet(NN), Others(R.syms) \subseteq NN,
         Len(R.strs) + 1 <= Len(TS), ~StringFits(R, TS[Len(R.strs) + 1])
  PROVE  Overfull(TS, NN)
<1> DEFINE n == Len(R.strs)
           k == n + 1
           l == Len(R.syms)
           p == Len(R.pool)
           c == Cardinality(NN)
           t == Len(TS)
           z == Len(TS[k])
           x == PoolLen(TS, k)
           y == PoolLen(TS, n)
           j == Len(Joined(Ended(TS)))
<1>1. n \in Nat /\ l \in Nat /\ p \in Nat BY LaterParts, Zenon
<1>2. c \in Nat BY FS_CardinalityType, Zenon
<1>3. t \in Nat OBVIOUS
<1>4. k \in 1 .. t /\ k \in 0 .. t /\ n \in 0 .. t /\ k - 1 = n BY <1>1, <1>3, SMT
<1>5. z \in Nat
  <2>1. TS[k] \in Seq(Nat) BY <1>4
  <2> QED BY <2>1
<1>6. x = PoolLen(TS, k - 1) + z + 1 /\ x <= j /\ j \in Nat /\ x \in Nat BY <1>4, PoolNext, Zenon
<1>7. x = y + z + 1 BY <1>4, <1>6, Zenon
<1>8. p = y BY Zenon DEF Told
<1>9. l <= n + c
  <2>1. R.strs \in Seq(StrInfos) /\ R.syms \in Seq(Symbols) BY LaterParts, Zenon
  <2> QED BY <2>1, Counted, Zenon
<1>10. ~(p + z + 1 <= STRPOOL_SIZE) \/ ~(n < MAX_STRINGS) \/ ~(l < MAX_SYMS)
  BY Zenon DEF StringFits
<1>11. k <= t /\ k = n + 1 OBVIOUS
<1>12. j > STRPOOL_SIZE \/ t > MAX_STRINGS \/ t + c > MAX_SYMS
  <2> HIDE DEF n, k, l, p, c, t, z, x, y, j
  <2> QED BY <1>1, <1>2, <1>3, <1>5, <1>6, <1>7, <1>8, <1>9, <1>10, <1>11, SizesAssumption, SMT
<1> QED BY <1>12, Zenon DEF Overfull

(* A table is full when there is no room for the symbol of another name. *)
LEMMA FullSymbols ==
  ASSUME NEW TS \in Seq(Seq(Nat)), NEW R, R \in Sections, Tables(R.strs, R.syms), Told(TS, R),
         NEW NN, IsFiniteSet(NN), Others(R.syms) \subseteq NN, NEW x \in NN, x \notin Others(R.syms),
         Len(R.syms) >= MAX_SYMS
  PROVE  Overfull(TS, NN)
<1> DEFINE n == Len(R.strs)
           l == Len(R.syms)
           c == Cardinality(NN)
           t == Len(TS)
<1>1. n \in Nat /\ l \in Nat BY LaterParts, Zenon
<1>2. c \in Nat BY FS_CardinalityType, Zenon
<1>3. t \in Nat OBVIOUS
<1>4. l + 1 <= n + c
  <2>1. R.strs \in Seq(StrInfos) /\ R.syms \in Seq(Symbols) BY LaterParts, Zenon
  <2> QED BY <2>1, CountedMore, Zenon
<1>5. n <= t BY Zenon DEF Told
<1>6. l >= MAX_SYMS OBVIOUS
<1>7. t + c > MAX_SYMS
  <2> HIDE DEF n, l, c, t
  <2> QED BY <1>1, <1>2, <1>3, <1>4, <1>5, <1>6, SizesAssumption, SMT
<1> QED BY <1>7, Zenon DEF Overfull

(* One string more. *)
LEMMA ToldMore ==
  ASSUME NEW TS \in Seq(Seq(Nat)), NEW R, R \in Sections, Told(TS, R), NEW T,
         Len(R.strs) + 1 <= Len(TS), Len(T.strs) = Len(R.strs) + 1,
         Len(T.pool) = Len(R.pool) + Len(TS[Len(R.strs) + 1]) + 1
  PROVE  Told(TS, T)
<1> DEFINE n == Len(R.strs)
           k == n + 1
<1>1. n \in Nat /\ Len(TS) \in Nat
  <2>1. n \in Nat BY LaterParts, Zenon
  <2> QED BY <2>1
<1>2. k \in 1 .. Len(TS) /\ k - 1 = n BY <1>1, SMT
<1>3. PoolLen(TS, k) = PoolLen(TS, k - 1) + Len(TS[k]) + 1 BY <1>2, PoolNext, Zenon
<1>4. Len(R.pool) = PoolLen(TS, n) BY Zenon DEF Told
<1>5. Len(T.pool) = PoolLen(TS, k) BY <1>2, <1>3, <1>4, Zenon
<1> QED BY <1>5, Zenon DEF Told

(* The strings of items. *)
StrParts(items) == [i \in DOMAIN items |-> IF items[i].str THEN <<items[i].s>> ELSE <<>>]

(* The strings of items, one by one. *)
LEMMA StrPartsAre ==
  ASSUME NEW items \in Seq(Items)
  PROVE  /\ StrParts(items) \in Seq(Seq(Seq(Nat))) /\ Len(StrParts(items)) = Len(items)
         /\ Texts(items) = Joined(StrParts(items))
         /\ \A i \in 1 .. Len(items) :
              StrParts(items)[i] = IF items[i].str THEN <<items[i].s>> ELSE <<>>
<1>1. DOMAIN items = 1 .. Len(items) /\ Len(items) \in Nat OBVIOUS
<1>2. \A i \in 1 .. Len(items) : items[i] \in Items OBVIOUS
<1> DEFINE N == Len(items)
           f(i) == IF items[i].str THEN <<items[i].s>> ELSE <<>>
<1>3. \A i \in 1 .. N : f(i) \in Seq(Seq(Nat))
  <2> SUFFICES ASSUME NEW i \in 1 .. N PROVE f(i) \in Seq(Seq(Nat)) OBVIOUS
  <2>1. items[i].str => items[i].s \in Seq(Nat) BY <1>2, ItemIs, Zenon
  <2>2. \A s \in Seq(Nat) : <<s>> \in Seq(Seq(Nat)) OBVIOUS
  <2>3. <<>> \in Seq(Seq(Nat)) OBVIOUS
  <2> QED BY <2>1, <2>2, <2>3, Zenon
<1>4. StrParts(items) = [i \in 1 .. N |-> f(i)] BY <1>1, Zenon DEF StrParts
<1>5. \A i \in 1 .. N : StrParts(items)[i] = f(i) BY <1>4, Zenon
<1>6. Texts(items) = Joined(StrParts(items)) BY Zenon DEF Texts, StrParts
<1>7. StrParts(items) \in Seq(Seq(Seq(Nat))) /\ Len(StrParts(items)) = N
  <2>1. N \in Nat BY <1>1
  <2> HIDE DEF f, N
  <2> QED BY <2>1, <1>3, <1>4, SMT
<1> QED BY <1>5, <1>6, <1>7, Zenon

-----------------------------------------------------------------------------
(* The strings that are joined from X are in TS behind the first base. *)
Ahead(TS, base, X) ==
  \A k \in 1 .. Len(Joined(X)) : base + k <= Len(TS) /\ TS[base + k] = Joined(X)[k]
(* What there is of the tables after i items: the strings of so many, or   *)
(* there is no room.                                                       *)
ToldAfter(TS, NN, n, U, base, X, i) ==
  IF U.failed THEN Overfull(TS, NN) \/ n > ELF_MAX_RELS
  ELSE Told(TS, U) /\ Len(U.strs) = base + Len(Upto(X)[i])

(* The length of a sequence is a natural number. *)
LEMMA LenNat == ASSUME NEW T, NEW s \in Seq(T) PROVE Len(s) \in Nat OBVIOUS

(* Equal sums with an equal part. *)
LEMMA SumsSame ==
  ASSUME NEW a \in Nat, NEW b \in Nat, NEW c \in Nat, a + b = b + c
  PROVE  a = c
  BY SMT

(* One item more. *)
LEMMA ItemTold ==
  ASSUME NEW TS \in Seq(Seq(Nat)), NEW NN, IsFiniteSet(NN), NEW U, Good(U), Others(U.syms) \subseteq NN,
         Len(U.rels) = Len(U.strs), NEW X \in Seq(Seq(Seq(Nat))), NEW base \in Nat, Ahead(TS, base, X),
         NEW n \in Nat, base + Len(Joined(X)) <= n,
         NEW i \in 0 .. Len(X) - 1, ToldAfter(TS, NN, n, U, base, X, i),
         NEW it, it \in Items, X[i + 1] = IF it.str THEN <<it.s>> ELSE <<>>,
         NEW node, node.elem \in Nat
  PROVE  ToldAfter(TS, NN, n, EmitItem(U, it, node), base, X, i + 1)
<1> DEFINE T == EmitItem(U, it, node)
           a == Len(Upto(X)[i])
           b == Len(Upto(X)[i + 1])
           m == Len(U.strs)
<1>1. i + 1 \in 1 .. Len(X) /\ (i + 1) - 1 = i /\ i \in 0 .. Len(X) /\ i + 1 \in 0 .. Len(X) OBVIOUS
<1>2. /\ Upto(X)[i] \in Seq(Seq(Nat)) /\ Upto(X)[i + 1] \in Seq(Seq(Nat)) /\ Joined(X) \in Seq(Seq(Nat))
  BY <1>1, UptoFacts, Zenon
<1>3. a \in Nat /\ b \in Nat /\ Len(Joined(X)) \in Nat BY <1>2, LenNat, Zenon
<1>4. b = a + Len(X[i + 1])
  <2>1. b = Len(Upto(X)[(i + 1) - 1]) + Len(X[i + 1]) BY <1>1, UptoFacts, Zenon
  <2> QED BY <1>1, <2>1, Zenon
<1>5. U \in Sections /\ ~U.failed /\ Tables(U.strs, U.syms) BY Zenon DEF Good
<1>6. Told(TS, U) /\ m = base + a BY <1>5, Zenon DEF ToldAfter
<1> DEFINE w == ItemWidth(it, node.elem)
<1>7. /\ ~T.failed => ItemAdded(U, T, it, node, w)
      /\ T.failed => it.str /\ (~StringFits(U, it.s) \/ Len(U.rels) >= ELF_MAX_RELS)
  BY ItemEmitted, Zenon
<1>8. ~T.failed => IF it.str THEN Len(T.strs) = m + 1 /\ Len(T.pool) = Len(U.pool) + Len(it.s) + 1
                   ELSE T.strs = U.strs /\ T.pool = U.pool
  BY <1>7, Zenon DEF ItemAdded
<1> HIDE DEF T, w
<1>9. m \in Nat BY <1>5, LaterParts, Zenon
<1>10. CASE it.str
  <2>1. X[i + 1] = <<it.s>> BY <1>10, Zenon
  <2>2. Len(X[i + 1]) = 1 /\ X[i + 1][1] = it.s /\ 1 \in 1 .. Len(X[i + 1])
    <3>1. \A y : Len(<<y>>) = 1 /\ <<y>>[1] = y /\ 1 \in 1 .. 1 OBVIOUS
    <3> QED BY <2>1, <3>1, Zenon
  <2>3. a + 1 \in 1 .. Len(Joined(X)) /\ Joined(X)[a + 1] = it.s
    <3>1. /\ Len(Upto(X)[(i + 1) - 1]) + 1 \in 1 .. Len(Joined(X))
          /\ Joined(X)[Len(Upto(X)[(i + 1) - 1]) + 1] = X[i + 1][1]
      <4> DEFINE p == i + 1
                 k == 1
      <4>1. p \in 1 .. Len(X) /\ k \in 1 .. Len(X[p]) BY <1>1, <2>2, Zenon
      <4> HIDE DEF p, k
      <4>2. /\ Len(Upto(X)[p - 1]) + k \in 1 .. Len(Joined(X))
            /\ Joined(X)[Len(Upto(X)[p - 1]) + k] = X[p][k]
        BY <4>1, NextIn, Zenon
      <4> QED BY <4>2, Zenon DEF p, k
    <3> QED BY <1>1, <2>2, <3>1, Zenon
  <2>4. base + (a + 1) <= Len(TS) /\ TS[base + (a + 1)] = it.s BY <2>3, Zenon DEF Ahead
  <2> HIDE DEF a, b, m
  <2>5. base + (a + 1) = m + 1 BY <1>3, <1>6, SMT
  <2>6. m + 1 <= Len(TS) /\ TS[m + 1] = it.s BY <2>4, <2>5, Zenon
  <2>7. CASE T.failed
    <3>1. CASE ~StringFits(U, it.s)
      <4>1. ~StringFits(U, TS[Len(U.strs) + 1]) /\ Len(U.strs) + 1 <= Len(TS) BY <2>6, <3>1, Zenon DEF m
      <4>2. Overfull(TS, NN) BY <1>5, <1>6, <4>1, FullTables, Zenon
      <4> QED BY <2>7, <4>2, Zenon DEF ToldAfter, T
    <3>2. CASE Len(U.rels) >= ELF_MAX_RELS
      <4>1. m >= ELF_MAX_RELS BY <3>2, Zenon DEF m
      <4>2. n > ELF_MAX_RELS
        <5> DEFINE j == Len(Joined(X))
        <5>1. a + 1 <= j /\ j \in Nat /\ base + j <= n BY <1>3, <2>3, SMT
        <5> HIDE DEF j
        <5> QED BY <1>3, <1>6, <4>1, <5>1, SizesAssumption, SMT
      <4> QED BY <2>7, <4>2, Zenon DEF ToldAfter, T
    <3> QED BY <1>7, <2>7, <3>1, <3>2, Zenon
  <2>8. CASE ~T.failed
    <3>1. Len(T.strs) = m + 1 /\ Len(T.pool) = Len(U.pool) + Len(TS[m + 1]) + 1
      BY <1>8, <1>10, <2>6, <2>8, Zenon
    <3>2. Told(TS, T) BY <3>1, <2>6, <1>5, <1>6, ToldMore, Zenon DEF m
    <3>3. Len(T.strs) = base + b BY <3>1, <1>3, <1>4, <1>6, <2>2, SMT
    <3> QED BY <2>8, <3>2, <3>3, Zenon DEF ToldAfter, T, b
  <2> QED BY <2>7, <2>8, Zenon
<1>11. CASE ~it.str
  <2>1. X[i + 1] = <<>> BY <1>11, Zenon
  <2>20. Len(<<>>) = 0 OBVIOUS
  <2>2. Len(X[i + 1]) = 0 BY <2>1, <2>20, Zenon
  <2>3. b = a
    <3>1. b = a + 0 BY <1>4, <2>2, Zenon
    <3> HIDE DEF a, b
    <3> QED BY <1>3, <3>1, SMT
  <2>4. ~T.failed BY <1>7, <1>11, Zenon DEF T
  <2>5. T.strs = U.strs /\ T.pool = U.pool BY <1>8, <1>11, <2>4, Zenon
  <2>6. Told(TS, T) BY <1>6, <2>5, Zenon DEF Told
  <2>7. Len(T.strs) = base + b BY <1>6, <2>3, <2>5, Zenon
  <2> QED BY <2>4, <2>6, <2>7, Zenon DEF ToldAfter, T, b
<1> QED BY <1>10, <1>11, Zenon
(* All items. *)
CanEmit(TS, NN, R, node, n) ==
  /\ TS \in Seq(Seq(Nat)) /\ IsFiniteSet(NN) /\ Good(R) /\ Others(R.syms) \subseteq NN
  /\ Len(R.rels) = Len(R.strs) /\ Told(TS, R) /\ node.elem \in Nat /\ node.items \in Seq(Items)
  /\ Ahead(TS, Len(R.strs), StrParts(node.items))
  /\ n \in Nat /\ Len(R.strs) + Len(Texts(node.items)) <= n
EmitEnds(TS, NN, R, node, n, E) ==
  IF E.failed THEN Overfull(TS, NN) \/ n > ELF_MAX_RELS
  ELSE Told(TS, E) /\ Len(E.strs) = Len(R.strs) + Len(Texts(node.items))

(* After an initialiser the strings are the file's first, or too many. *)
LEMMA EmitsTold ==
  ASSUME NEW TS, NEW NN, NEW R, NEW node, NEW n, CanEmit(TS, NN, R, node, n)
  PROVE  EmitEnds(TS, NN, R, node, n, Emitted(R, node)[Len(node.items)])
<1>0. /\ TS \in Seq(Seq(Nat)) /\ IsFiniteSet(NN) /\ Good(R) /\ Others(R.syms) \subseteq NN
      /\ Len(R.rels) = Len(R.strs) /\ Told(TS, R) /\ node.elem \in Nat /\ node.items \in Seq(Items)
      /\ Ahead(TS, Len(R.strs), StrParts(node.items))
      /\ n \in Nat /\ Len(R.strs) + Len(Texts(node.items)) <= n
  BY Zenon DEF CanEmit
<1> USE <1>0
<1> DEFINE N    == Len(node.items)
           g    == Emitted(R, node)
           X    == StrParts(node.items)
           base == Len(R.strs)
           S    == {i \in 0 .. N : ToldAfter(TS, NN, n, g[i], base, X, i)}
<1>1. X \in Seq(Seq(Seq(Nat))) /\ Len(X) = N /\ Texts(node.items) = Joined(X) BY StrPartsAre, Zenon
<1>2. \A i \in 1 .. N : X[i] = IF node.items[i].str THEN <<node.items[i].s>> ELSE <<>>
  BY StrPartsAre, Zenon
<1>3. N \in Nat /\ \A i \in 1 .. N : node.items[i] \in Items OBVIOUS
<1>4. g[0] = R /\ \A i \in 1 .. N : g[i] = EmitItem(g[i - 1], node.items[i], node) BY <1>3, EmittedSteps, Zenon
<1>5. R \in Sections /\ ~R.failed BY Zenon DEF Good
<1>6. base \in Nat BY <1>5, LaterParts, Zenon
<1>7. 0 \in S
  <2>1. Upto(X)[0] = <<>> BY <1>1, <1>3, UptoAre, Zenon
  <2>2. Len(<<>>) = 0 OBVIOUS
  <2>3. base = base + 0 BY <1>6
  <2>4. ToldAfter(TS, NN, n, R, base, X, 0) BY <1>5, <2>1, <2>2, <2>3, Zenon DEF ToldAfter
  <2>5. 0 \in 0 .. N BY <1>3
  <2> QED BY <1>4, <2>4, <2>5, Zenon
<1>8. \A i \in 0 .. N - 1 : i \in S => i + 1 \in S
  <2> SUFFICES ASSUME NEW i \in 0 .. N - 1, ToldAfter(TS, NN, n, g[i], base, X, i)
               PROVE  ToldAfter(TS, NN, n, g[i + 1], base, X, i + 1)
    <3>1. \A i \in 0 .. N - 1 : i + 1 \in 0 .. N BY <1>3
    <3> QED BY <3>1, Zenon
  <2>1. i + 1 \in 1 .. N /\ (i + 1) - 1 = i /\ i \in 0 .. N /\ 0 \in 0 .. i BY <1>3
  <2> DEFINE it == node.items[i + 1]
             U == g[i]
  <2>2. g[i + 1] = EmitItem(U, it, node) /\ it \in Items /\ X[i + 1] = IF it.str THEN <<it.s>> ELSE <<>>
    <3>1. g[i + 1] = EmitItem(g[(i + 1) - 1], node.items[i + 1], node) BY <1>4, <2>1, Zenon
    <3> QED BY <1>2, <1>3, <2>1, <3>1, Zenon
  <2>3. CASE U.failed
    <3>1. g[i + 1] = U BY <2>2, <2>3, Zenon DEF EmitItem
    <3> QED BY <2>3, <3>1, Zenon DEF ToldAfter
  <2>4. CASE ~U.failed
    <3>1. Good(g[i]) /\ Later(g[0], g[i], Len(g[0].data)) BY <2>1, <2>4, EmitsGood, Zenon
    <3>2. Good(U) /\ Later(R, U, Len(R.data)) BY <1>4, <3>1, Zenon
    <3> HIDE DEF U, it, X, N
    <3>3. Others(U.syms) = Others(R.syms)
      <4>1. U \in Sections BY <3>2, Zenon DEF Good
      <4>2. R.syms \in Seq(Symbols) /\ U.syms \in Seq(Symbols) BY <1>5, <4>1, LaterParts, Zenon
      <4>3. Extends(R.syms, U.syms) /\ \A k \in Len(R.syms) + 1 .. Len(U.syms) : Strung(U.syms[k])
        BY <3>2, Zenon DEF Later
      <4> QED BY <4>2, <4>3, LaterOthers, Zenon
    <3>4. Len(U.rels) = Len(U.strs)
      <4>1. U \in Sections BY <3>2, Zenon DEF Good
      <4>2. Len(U.rels) \in Nat /\ Len(U.strs) \in Nat BY <4>1, LaterParts, Zenon
      <4>3. Len(R.rels) \in Nat /\ Len(R.strs) \in Nat BY <1>5, LaterParts, Zenon
      <4>4. Len(U.rels) + Len(R.strs) = Len(R.rels) + Len(U.strs) BY <3>2, Zenon DEF Later
      <4>5. Len(U.rels) + Len(R.strs) = Len(R.strs) + Len(U.strs) BY <4>4, Zenon
      <4> QED BY <4>2, <4>3, <4>5, SumsSame, Zenon
    <3>5. i \in 0 .. Len(X) - 1 BY <1>1, Zenon
    <3>6. base + Len(Joined(X)) <= n BY <1>1, Zenon
    <3>7. Ahead(TS, base, X) BY Zenon DEF X
    <3>8. ToldAfter(TS, NN, n, U, base, X, i) BY Zenon DEF U, X
    <3> HIDE DEF base
    <3>9. ToldAfter(TS, NN, n, EmitItem(U, it, node), base, X, i + 1)
      BY <1>1, <1>6, <2>2, <3>2, <3>3, <3>4, <3>5, <3>6, <3>7, <3>8, ItemTold, Zenon
    <3> QED BY <2>2, <3>9, Zenon DEF base, X
  <2> QED BY <2>3, <2>4, Zenon
<1> HIDE DEF S
<1>9. N \in S
  <2>1. 0 \in Nat OBVIOUS
  <2>2. \A p \in 0 .. N : p \in S BY <1>3, <1>7, <1>8, <2>1, Onward, Zenon
  <2>3. N \in 0 .. N BY <1>3
  <2> QED BY <2>2, <2>3, Zenon
<1>10. ToldAfter(TS, NN, n, g[N], base, X, N) BY <1>9, Zenon DEF S
<1>11. Upto(X)[N] = Joined(X) BY <1>1, <1>3, UptoAre, Zenon
<1> QED BY <1>1, <1>10, <1>11, Zenon DEF ToldAfter, EmitEnds

-----------------------------------------------------------------------------
(* What a file consists of. *)
LEMMA ProgIs ==
  ASSUME prog \in Programs
  PROVE  /\ Len(prog.vars) \in Nat /\ DOMAIN prog.vars = 1 .. Len(prog.vars)
         /\ \A i \in 1 .. Len(prog.vars) : IsVar(prog.vars[i])
         /\ Len(prog.funcs) \in Nat /\ DOMAIN prog.funcs = 1 .. Len(prog.funcs)
         /\ \A i \in 1 .. Len(prog.funcs) : IsFunc(prog.funcs[i])
<1>1. prog.vars \in Seq({v \in Range(prog.vars) : IsVar(v)}) BY ProgramsAssumption, Zenon
<1>2. prog.funcs \in Seq({v \in Range(prog.funcs) : IsFunc(v)}) BY ProgramsAssumption, Zenon
<1>3. Len(prog.vars) \in Nat /\ DOMAIN prog.vars = 1 .. Len(prog.vars) BY <1>1
<1>4. Len(prog.funcs) \in Nat /\ DOMAIN prog.funcs = 1 .. Len(prog.funcs) BY <1>2
<1>5. \A i \in 1 .. Len(prog.vars) : prog.vars[i] \in {v \in Range(prog.vars) : IsVar(v)} BY <1>1
<1>6. \A i \in 1 .. Len(prog.funcs) : prog.funcs[i] \in {v \in Range(prog.funcs) : IsFunc(v)} BY <1>2
<1> QED BY <1>3, <1>4, <1>5, <1>6, Zenon

(* The uses in a function. *)
LEMMA UsesAre ==
  ASSUME NEW f, IsFunc(f)
  PROVE  /\ Len(f.uses) \in Nat /\ DOMAIN f.uses = 1 .. Len(f.uses)
         /\ \A i \in 1 .. Len(f.uses) : IsUse(f.uses[i])
         /\ f.uses \in Seq(Range(f.uses))
<1>1. f.uses \in Seq({u \in Range(f.uses) : IsUse(u)}) BY Zenon DEF IsFunc
<1>2. Len(f.uses) \in Nat /\ DOMAIN f.uses = 1 .. Len(f.uses) BY <1>1
<1>3. \A i \in 1 .. Len(f.uses) : f.uses[i] \in {u \in Range(f.uses) : IsUse(u)} BY <1>1
<1>4. f.uses \in Seq(Range(f.uses)) BY <1>1
<1> QED BY <1>2, <1>3, <1>4, Zenon

(* Sequences by their items. *)
LEMMA SeqIs ==
  ASSUME NEW T, NEW n \in Nat, NEW s, s = [i \in 1 .. n |-> s[i]], \A i \in 1 .. n : s[i] \in T
  PROVE  s \in Seq(T) /\ Len(s) = n
<1> QED BY SMT
(* The literals of uses. *)
UseParts(uses) == [i \in DOMAIN uses |-> IF uses[i].u = "str" THEN <<uses[i].s>> ELSE <<>>]

(* The literals of a function, one by one. *)
LEMMA UsePartsAre ==
  ASSUME NEW f, IsFunc(f)
  PROVE  /\ UseParts(f.uses) \in Seq(Seq(Seq(Nat))) /\ Len(UseParts(f.uses)) = Len(f.uses)
         /\ Literals(f.uses) = Joined(UseParts(f.uses))
         /\ \A i \in 1 .. Len(f.uses) :
              UseParts(f.uses)[i] = IF f.uses[i].u = "str" THEN <<f.uses[i].s>> ELSE <<>>
<1> DEFINE uses == f.uses
           n    == Len(uses)
           P    == UseParts(uses)
<1>1. n \in Nat /\ DOMAIN uses = 1 .. n /\ \A i \in 1 .. n : IsUse(uses[i]) BY UsesAre, Zenon
<1>2. P = [i \in 1 .. n |-> IF uses[i].u = "str" THEN <<uses[i].s>> ELSE <<>>] BY <1>1, Zenon DEF UseParts
<1>3. \A i \in 1 .. n : P[i] = IF uses[i].u = "str" THEN <<uses[i].s>> ELSE <<>> BY <1>2, Zenon
<1>4. P = [i \in 1 .. n |-> P[i]] BY <1>2, Zenon
<1>5. \A i \in 1 .. n : P[i] \in Seq(Seq(Nat))
  <2> SUFFICES ASSUME NEW i \in 1 .. n PROVE P[i] \in Seq(Seq(Nat)) OBVIOUS
  <2>1. uses[i].s \in Seq(Nat) BY <1>1, Zenon DEF IsUse
  <2>2. \A s \in Seq(Nat) : <<s>> \in Seq(Seq(Nat)) OBVIOUS
  <2>3. <<>> \in Seq(Seq(Nat)) OBVIOUS
  <2> QED BY <1>3, <2>1, <2>2, <2>3, Zenon
<1>6. Literals(uses) = Joined(P) BY Zenon DEF Literals, UseParts
<1> HIDE DEF P, n
<1>7. P \in Seq(Seq(Seq(Nat))) /\ Len(P) = n BY <1>1, <1>4, <1>5, SeqIs, Zenon
<1> QED BY <1>3, <1>6, <1>7, Zenon DEF P, n
(* The strings of the variables and of the functions. *)
VarTexts  == [i \in DOMAIN prog.vars |-> Texts(Given(prog.vars[i]))]
FuncTexts == [i \in DOMAIN prog.funcs |-> Literals(prog.funcs[i].uses)]
FuncUses  == [i \in DOMAIN prog.funcs |-> prog.funcs[i].uses]
AllUses   == UNION {Range(prog.funcs[i].uses) : i \in DOMAIN prog.funcs}

(* The strings of the variables. *)
LEMMA VarTextsAre ==
  ASSUME prog \in Programs
  PROVE  /\ VarTexts \in Seq(Seq(Seq(Nat))) /\ Len(VarTexts) = Len(prog.vars)
         /\ \A i \in 1 .. Len(prog.vars) : VarTexts[i] = Texts(Given(prog.vars[i]))
         /\ InVars = Joined(VarTexts)
<1> DEFINE n == Len(prog.vars)
           P == VarTexts
<1>1. n \in Nat /\ DOMAIN prog.vars = 1 .. n /\ \A i \in 1 .. n : IsVar(prog.vars[i]) BY ProgIs, Zenon
<1>2. P = [i \in 1 .. n |-> Texts(Given(prog.vars[i]))] BY <1>1, Zenon DEF VarTexts
<1>3. \A i \in 1 .. n : P[i] = Texts(Given(prog.vars[i])) BY <1>2, Zenon
<1>4. P = [i \in 1 .. n |-> P[i]] BY <1>2, Zenon
<1>5. \A i \in 1 .. n : P[i] \in Seq(Seq(Nat))
  <2> SUFFICES ASSUME NEW i \in 1 .. n PROVE P[i] \in Seq(Seq(Nat)) OBVIOUS
  <2> DEFINE items == Given(prog.vars[i])
  <2>1. items \in Seq(Items) BY <1>1, GivenIs, Zenon
  <2> HIDE DEF items
  <2>2. StrParts(items) \in Seq(Seq(Seq(Nat))) /\ Texts(items) = Joined(StrParts(items)) BY <2>1, StrPartsAre, Zenon
  <2>3. Joined(StrParts(items)) \in Seq(Seq(Nat)) BY <2>2, UptoFacts, Zenon
  <2> QED BY <1>3, <2>2, <2>3, Zenon DEF items
<1>6. InVars = Joined(P) BY Zenon DEF InVars, VarTexts
<1> HIDE DEF P, n
<1>7. P \in Seq(Seq(Seq(Nat))) /\ Len(P) = n BY <1>1, <1>4, <1>5, SeqIs, Zenon
<1> QED BY <1>3, <1>6, <1>7, Zenon DEF P, n

(* The literals of the functions. *)
LEMMA FuncTextsAre ==
  ASSUME prog \in Programs
  PROVE  /\ FuncTexts \in Seq(Seq(Seq(Nat))) /\ Len(FuncTexts) = Len(prog.funcs)
         /\ \A i \in 1 .. Len(prog.funcs) : FuncTexts[i] = Literals(prog.funcs[i].uses)
         /\ Strings = InVars \o Joined(FuncTexts)
<1> DEFINE n == Len(prog.funcs)
           P == FuncTexts
<1>1. n \in Nat /\ DOMAIN prog.funcs = 1 .. n /\ \A i \in 1 .. n : IsFunc(prog.funcs[i]) BY ProgIs, Zenon
<1>2. P = [i \in 1 .. n |-> Literals(prog.funcs[i].uses)] BY <1>1, Zenon DEF FuncTexts
<1>3. \A i \in 1 .. n : P[i] = Literals(prog.funcs[i].uses) BY <1>2, Zenon
<1>4. P = [i \in 1 .. n |-> P[i]] BY <1>2, Zenon
<1>5. \A i \in 1 .. n : P[i] \in Seq(Seq(Nat))
  <2> SUFFICES ASSUME NEW i \in 1 .. n PROVE P[i] \in Seq(Seq(Nat)) OBVIOUS
  <2> DEFINE f == prog.funcs[i]
  <2>1. IsFunc(f) BY <1>1, Zenon
  <2> HIDE DEF f
  <2>2. UseParts(f.uses) \in Seq(Seq(Seq(Nat))) /\ Literals(f.uses) = Joined(UseParts(f.uses))
    BY <2>1, UsePartsAre, Zenon
  <2>3. Joined(UseParts(f.uses)) \in Seq(Seq(Nat)) BY <2>2, UptoFacts, Zenon
  <2> QED BY <1>3, <2>2, <2>3, Zenon DEF f
<1>6. Strings = InVars \o Joined(P) BY Zenon DEF Strings, FuncTexts
<1> HIDE DEF P, n
<1>7. P \in Seq(Seq(Seq(Nat))) /\ Len(P) = n BY <1>1, <1>4, <1>5, SeqIs, Zenon
<1> QED BY <1>3, <1>6, <1>7, Zenon DEF P, n

(* The uses in the functions. *)
LEMMA FuncUsesAre ==
  ASSUME prog \in Programs
  PROVE  /\ FuncUses \in Seq(Seq(AllUses)) /\ Len(FuncUses) = Len(prog.funcs)
         /\ \A i \in 1 .. Len(prog.funcs) : FuncUses[i] = prog.funcs[i].uses
         /\ InFuncs = Joined(FuncUses)
<1> DEFINE n == Len(prog.funcs)
           P == FuncUses
<1>1. n \in Nat /\ DOMAIN prog.funcs = 1 .. n /\ \A i \in 1 .. n : IsFunc(prog.funcs[i]) BY ProgIs, Zenon
<1>2. P = [i \in 1 .. n |-> prog.funcs[i].uses] BY <1>1, Zenon DEF FuncUses
<1>3. \A i \in 1 .. n : P[i] = prog.funcs[i].uses BY <1>2, Zenon
<1>4. P = [i \in 1 .. n |-> P[i]] BY <1>2, Zenon
<1>5. \A i \in 1 .. n : P[i] \in Seq(AllUses)
  <2> SUFFICES ASSUME NEW i \in 1 .. n PROVE P[i] \in Seq(AllUses) OBVIOUS
  <2>1. IsFunc(prog.funcs[i]) BY <1>1, Zenon
  <2> DEFINE s == prog.funcs[i].uses
             S == Range(s)
  <2>2. s \in Seq(S) BY <2>1, UsesAre, Zenon
  <2>3. S \subseteq AllUses BY <1>1, Zenon DEF AllUses
  <2>4. P[i] = s BY <1>3, Zenon
  <2> HIDE DEF s, S, P
  <2>5. s \in Seq(AllUses)
    <3>1. Len(s) \in Nat /\ s = [k \in 1 .. Len(s) |-> s[k]] /\ \A k \in 1 .. Len(s) : s[k] \in S BY <2>2
    <3>2. \A k \in 1 .. Len(s) : s[k] \in AllUses BY <3>1, <2>3, Zenon
    <3> QED BY <3>1, <3>2, SeqIs, Zenon
  <2> QED BY <2>4, <2>5, Zenon
<1>6. InFuncs = Joined(P) BY Zenon DEF InFuncs, FuncUses
<1> HIDE DEF P, n
<1>7. P \in Seq(Seq(AllUses)) /\ Len(P) = n BY <1>1, <1>4, <1>5, SeqIs, Zenon
<1> QED BY <1>3, <1>6, <1>7, Zenon DEF P, n

-----------------------------------------------------------------------------
(* All strings of a file: those of the variables are the first. *)
LEMMA StringsAre ==
  ASSUME prog \in Programs
  PROVE  /\ InVars \in Seq(Seq(Nat)) /\ Strings \in Seq(Seq(Nat)) /\ Joined(FuncTexts) \in Seq(Seq(Nat))
         /\ Len(InVars) \in Nat /\ Len(Joined(FuncTexts)) \in Nat
         /\ Len(Strings) = Len(InVars) + Len(Joined(FuncTexts)) /\ Len(Strings) \in Nat
         /\ \A k \in 1 .. Len(InVars) : Strings[k] = InVars[k]
         /\ \A k \in 1 .. Len(Joined(FuncTexts)) : Strings[Len(InVars) + k] = Joined(FuncTexts)[k]
<1>1. InVars \in Seq(Seq(Nat)) BY VarTextsAre, UptoFacts, Zenon
<1>2. Joined(FuncTexts) \in Seq(Seq(Nat)) BY FuncTextsAre, UptoFacts, Zenon
<1>3. Strings = InVars \o Joined(FuncTexts) BY FuncTextsAre, Zenon
<1> DEFINE a == InVars
           b == Joined(FuncTexts)
<1>4. a \in Seq(Seq(Nat)) /\ b \in Seq(Seq(Nat)) BY <1>1, <1>2, Zenon
<1> HIDE DEF a, b
<1>5. /\ a \o b \in Seq(Seq(Nat)) /\ Len(a \o b) = Len(a) + Len(b) /\ Len(a) \in Nat /\ Len(b) \in Nat
      /\ \A p \in 1 .. Len(a) : (a \o b)[p] = a[p]
      /\ \A p \in 1 .. Len(b) : (a \o b)[Len(a) + p] = b[p]
  <2> DEFINE T == Seq(Nat)
  <2>1. a \in Seq(T) /\ b \in Seq(T) BY <1>4, Zenon
  <2> HIDE DEF T
  <2>2. /\ a \o b \in Seq(T) /\ Len(a \o b) = Len(a) + Len(b) /\ Len(a) \in Nat /\ Len(b) \in Nat
        /\ \A p \in 1 .. Len(a) : (a \o b)[p] = a[p]
        /\ \A p \in 1 .. Len(b) : (a \o b)[Len(a) + p] = b[p]
    BY <2>1, JoinedTwo
  <2> QED BY <2>2, Zenon DEF T
<1>6. Len(a \o b) \in Nat BY <1>5, LenNat, Zenon
<1> QED BY <1>1, <1>2, <1>3, <1>5, <1>6, Zenon DEF a, b

(* The strings of the next variable come next. *)
LEMMA VarAhead ==
  ASSUME prog \in Programs, NEW i \in 1 .. Len(prog.vars)
  PROVE  LET base == Len(Upto(VarTexts)[i - 1])
             X    == StrParts(Given(prog.vars[i]))
         IN  /\ Ahead(Strings, base, X) /\ base \in Nat /\ base + Len(Joined(X)) <= Len(InVars)
             /\ Len(Upto(VarTexts)[i]) = base + Len(Joined(X))
             /\ Texts(Given(prog.vars[i])) = Joined(X)
<1> DEFINE d    == prog.vars[i]
           base == Len(Upto(VarTexts)[i - 1])
           X    == StrParts(Given(d))
           V    == VarTexts
           J    == Joined(X)
<1>1. V \in Seq(Seq(Seq(Nat))) /\ i \in 1 .. Len(V) /\ V[i] = Texts(Given(d)) /\ InVars = Joined(V)
  BY VarTextsAre, Zenon
<1>2. Texts(Given(d)) = J
  <2>1. IsVar(d) BY ProgIs, Zenon
  <2>2. Given(d) \in Seq(Items) BY <2>1, GivenIs, Zenon
  <2> QED BY <2>2, StrPartsAre, Zenon
<1>3. V[i] = J BY <1>1, <1>2, Zenon
<1>4. J \in Seq(Seq(Nat))
  <2>1. V[i] \in Seq(Seq(Nat)) BY <1>1
  <2> QED BY <1>3, <2>1, Zenon
<1>5. Len(J) \in Nat BY <1>4, LenNat, Zenon
<1>6. i \in 0 .. Len(V) /\ i - 1 \in 0 .. Len(V) BY <1>1
<1>7. base \in Nat
  <2>1. Upto(V)[i - 1] \in Seq(Seq(Nat)) BY <1>1, <1>6, UptoFacts, Zenon
  <2> QED BY <2>1, LenNat, Zenon
<1>8. Len(Upto(V)[i]) = base + Len(J) BY <1>1, <1>3, UptoFacts, Zenon
<1>9. Len(Upto(V)[i]) <= Len(InVars) BY <1>1, <1>6, UptoFacts, Zenon DEF Extends
<1>10. ASSUME NEW k \in 1 .. Len(J) PROVE base + k <= Len(Strings) /\ Strings[base + k] = J[k]
  <2>0. k \in 1 .. Len(V[i]) BY <1>3, Zenon
  <2>00. base + k \in 1 .. Len(Joined(V)) /\ Joined(V)[base + k] = V[i][k] BY <1>1, <2>0, NextIn, Zenon
  <2>1. base + k \in 1 .. Len(InVars) /\ InVars[base + k] = J[k] BY <1>1, <1>3, <2>00, Zenon
  <2>2. Strings[base + k] = J[k] BY <2>1, StringsAre, Zenon
  <2>3. Len(InVars) \in Nat /\ Len(Joined(FuncTexts)) \in Nat
        /\ Len(Strings) = Len(InVars) + Len(Joined(FuncTexts))
    BY StringsAre, Zenon
  <2>4. base + k <= Len(Strings) BY <2>1, <2>3, SMT
  <2> QED BY <2>2, <2>4, Zenon
<1> HIDE DEF base, J, X, V, d
<1>11. base + Len(J) <= Len(InVars) BY <1>8, <1>9, Zenon
<1>12. Ahead(Strings, base, X) BY <1>10, Zenon DEF Ahead, J
<1> QED BY <1>2, <1>7, <1>8, <1>11, <1>12, Zenon DEF base, J, X, V, d
(* How many strings were there before the next use. *)
InFunc(i, k) == IF k = 0 THEN 0 ELSE Len(Upto(UseParts(prog.funcs[i].uses))[k - 1])
Before(i, k) == Len(InVars) + Len(Upto(FuncTexts)[i - 1]) + InFunc(i, k)

(* The string that is used next is the next of the file. *)
LEMMA LiteralAhead ==
  ASSUME prog \in Programs, NEW i \in 1 .. Len(prog.funcs), NEW k \in 1 .. Len(prog.funcs[i].uses)
  PROVE  LET u == prog.funcs[i].uses[k]
         IN  /\ Before(i, k) \in Nat
             /\ u.u # "str" => Before(i, k + 1) = Before(i, k)
             /\ u.u = "str" => /\ Before(i, k + 1) = Before(i, k) + 1
                               /\ Before(i, k) + 1 <= Len(Strings)
                               /\ Strings[Before(i, k) + 1] = u.s
<1> DEFINE f == prog.funcs[i]
           u == f.uses[k]
           P == UseParts(f.uses)
           F == FuncTexts
           x == Len(Upto(F)[i - 1])
           y == Len(Upto(P)[k - 1])
           z == Len(Upto(P)[k])
           v == Len(InVars)
<1>1. IsFunc(f) BY ProgIs, Zenon
<1>2. P \in Seq(Seq(Seq(Nat))) /\ Len(P) = Len(f.uses) /\ Literals(f.uses) = Joined(P)
      /\ P[k] = IF u.u = "str" THEN <<u.s>> ELSE <<>>
  BY <1>1, UsePartsAre, Zenon
<1>3. F \in Seq(Seq(Seq(Nat))) /\ i \in 1 .. Len(F) /\ F[i] = Literals(f.uses) BY FuncTextsAre, Zenon
<1>4. F[i] = Joined(P) BY <1>2, <1>3, Zenon
<1>5. Len(f.uses) \in Nat BY <1>1, UsesAre, Zenon
<1>6. k \in 1 .. Len(P) /\ k \in 0 .. Len(P) /\ k - 1 \in 0 .. Len(P) /\ k # 0 /\ k + 1 # 0 /\ (k + 1) - 1 = k
  BY <1>2, <1>5
<1>7. i - 1 \in 0 .. Len(F) /\ i \in 0 .. Len(F) BY <1>3
<1>8. x \in Nat
  <2>1. Upto(F)[i - 1] \in Seq(Seq(Nat)) BY <1>3, <1>7, UptoFacts, Zenon
  <2> QED BY <2>1, LenNat, Zenon
<1>9. y \in Nat /\ z \in Nat
  <2>1. Upto(P)[k - 1] \in Seq(Seq(Nat)) /\ Upto(P)[k] \in Seq(Seq(Nat)) BY <1>2, <1>6, UptoFacts, Zenon
  <2> QED BY <2>1, LenNat, Zenon
<1>10. z = y + Len(P[k]) BY <1>2, <1>6, UptoFacts, Zenon
<1>11. v \in Nat BY StringsAre, Zenon
<1>12. Before(i, k) = v + x + y BY <1>6, Zenon DEF Before, InFunc
<1>13. Before(i, k + 1) = v + x + z BY <1>6, Zenon DEF Before, InFunc
<1>14. \A s : Len(<<s>>) = 1 /\ <<s>>[1] = s /\ 1 \in 1 .. 1 OBVIOUS
<1>15. Len(<<>>) = 0 OBVIOUS
<1>16. ASSUME u.u # "str" PROVE Before(i, k + 1) = Before(i, k)
  <2>1. z = y + 0 BY <1>2, <1>10, <1>15, <1>16, Zenon
  <2> HIDE DEF x, y, z, v
  <2>2. z = y BY <2>1, <1>9, SMT
  <2> QED BY <1>12, <1>13, <2>2, Zenon
<1>17. ASSUME u.u = "str"
       PROVE  /\ Before(i, k + 1) = Before(i, k) + 1
              /\ Before(i, k) + 1 <= Len(Strings) /\ Strings[Before(i, k) + 1] = u.s
  <2>1. P[k] = <<u.s>> BY <1>2, <1>17, Zenon
  <2>2. z = y + 1 BY <1>10, <1>14, <2>1, Zenon
  <2> DEFINE one == 1
  <2>3. one \in 1 .. Len(P[k]) BY <1>14, <2>1, Zenon
  <2> HIDE DEF one
  <2>4. y + one \in 1 .. Len(Joined(P)) /\ Joined(P)[y + one] = P[k][one]
    BY <1>2, <1>6, <2>3, NextIn, Zenon
  <2>5. y + 1 \in 1 .. Len(Joined(P)) /\ Joined(P)[y + 1] = u.s BY <2>1, <2>4, <1>14, Zenon DEF one
  <2> DEFINE m == y + 1
             JF == Joined(F)
  <2>6. m \in 1 .. Len(F[i]) /\ F[i][m] = u.s BY <1>4, <2>5, Zenon
  <2> HIDE DEF m
  <2>7. x + m \in 1 .. Len(JF) /\ JF[x + m] = F[i][m] BY <1>3, <2>6, NextIn, Zenon
  <2>8. Strings[v + (x + m)] = JF[x + m] BY <2>7, StringsAre, Zenon
  <2>9. Len(Strings) = v + Len(JF) /\ Len(JF) \in Nat BY StringsAre, Zenon
  <2> HIDE DEF x, y, z, v, JF
  <2>10. v + (x + m) = (v + x + y) + 1 BY <1>8, <1>9, <1>11, SMT DEF m
  <2>11. (v + x + y) + 1 <= Len(Strings) BY <2>7, <2>9, <2>10, <1>11, <1>8, <1>9, SMT
  <2>12. v + x + z = (v + x + y) + 1 BY <2>2, <1>8, <1>9, <1>11, SMT
  <2> QED BY <1>12, <1>13, <2>6, <2>7, <2>8, <2>10, <2>11, <2>12, Zenon
<1>18. Before(i, k) \in Nat
  <2> HIDE DEF x, y, v
  <2>1. v + x + y \in Nat BY <1>8, <1>9, <1>11, SMT
  <2> QED BY <1>12, <2>1, Zenon
<1> QED BY <1>16, <1>17, <1>18, Zenon

-----------------------------------------------------------------------------
(* A file has a finite number of names. *)
LEMMA RangeFinite ==
  ASSUME NEW s, NEW n \in Nat, DOMAIN s = 1 .. n
  PROVE  IsFiniteSet(Range(s))
<1> DEFINE f == [i \in 1 .. n |-> s[i]]
<1>1. f \in Surjection(1 .. n, Range(s))
  <2>1. \A i \in 1 .. n : f[i] \in Range(s) BY Zenon DEF Range
  <2>2. \A y \in Range(s) : \E i \in 1 .. n : f[i] = y BY Zenon DEF Range
  <2>3. f \in [1 .. n -> Range(s)] BY <2>1, Zenon
  <2> QED BY <2>2, <2>3, SMT DEF Surjection
<1>2. IsFiniteSet(1 .. n)
  <2>1. 1 \in Int /\ n \in Int OBVIOUS
  <2> QED BY <2>1, FS_Interval, Zenon
<1> QED BY <1>1, <1>2, FS_Surjection, Zenon

(* Finitely many have finitely many names. *)
LEMMA NamesOfFinite ==
  ASSUME NEW S, IsFiniteSet(S)
  PROVE  IsFiniteSet({v.name : v \in S}) /\ IsFiniteSet({v.x : v \in S})
<1> DEFINE f == [v \in S |-> v.name]
           h == [v \in S |-> v.x]
           A == {v.name : v \in S}
           B == {v.x : v \in S}
<1>1. f \in Surjection(S, A)
  <2>1. f \in [S -> A] BY Zenon
  <2>2. \A y \in A : \E i \in S : f[i] = y BY Zenon
  <2> HIDE DEF f, A
  <2> QED BY <2>1, <2>2, SMT DEF Surjection
<1>2. h \in Surjection(S, B)
  <2>1. h \in [S -> B] BY Zenon
  <2>2. \A y \in B : \E i \in S : h[i] = y BY Zenon
  <2> HIDE DEF h, B
  <2> QED BY <2>1, <2>2, SMT DEF Surjection
<1> HIDE DEF f, h, A, B
<1>3. IsFiniteSet(A) /\ IsFiniteSet(B) BY <1>1, <1>2, FS_Surjection, Zenon
<1> QED BY <1>3, Zenon DEF A, B

(* A file has finitely many names. *)
LEMMA NamesFinite ==
  ASSUME prog \in Programs
  PROVE  IsFiniteSet(Names)
<1>1. IsFiniteSet(Range(prog.vars)) /\ IsFiniteSet(Range(prog.funcs)) BY ProgIs, RangeFinite, Zenon
<1>2. IsFiniteSet(Range(InFuncs))
  <2>1. InFuncs \in Seq(AllUses) BY FuncUsesAre, UptoFacts, Zenon
  <2>2. Len(InFuncs) \in Nat /\ DOMAIN InFuncs = 1 .. Len(InFuncs) BY <2>1
  <2> QED BY <2>2, RangeFinite, Zenon
<1>3. IsFiniteSet({u \in Range(InFuncs) : u.u # "str"})
  <2>1. {u \in Range(InFuncs) : u.u # "str"} \in SUBSET Range(InFuncs) OBVIOUS
  <2> QED BY <1>2, <2>1, FS_Subset, Zenon
<1> DEFINE A == {v.name : v \in Range(prog.vars)}
           B == {f.name : f \in Range(prog.funcs)}
           C == {u.x : u \in {v \in Range(InFuncs) : v.u # "str"}}
<1>4. IsFiniteSet(A) /\ IsFiniteSet(B) /\ IsFiniteSet(C) BY <1>1, <1>3, NamesOfFinite, Zenon
<1>5. Names = (A \cup B) \cup C BY Zenon DEF Names
<1> HIDE DEF A, B, C
<1>6. IsFiniteSet(A \cup B) BY <1>4, FS_Union, Zenon
<1>7. IsFiniteSet((A \cup B) \cup C) BY <1>4, <1>6, FS_Union, Zenon
<1> QED BY <1>5, <1>7, Zenon

(* The names of the variables, the functions and of what they use. *)
LEMMA NamesHave ==
  ASSUME prog \in Programs
  PROVE  /\ \A i \in 1 .. Len(prog.vars) : prog.vars[i].name \in Names
         /\ \A i \in 1 .. Len(prog.funcs) :
              /\ prog.funcs[i].name \in Names
              /\ \A k \in 1 .. Len(prog.funcs[i].uses) :
                   /\ prog.funcs[i].uses[k].u # "str" => prog.funcs[i].uses[k].x \in Names
                   /\ Len(Upto(FuncUses)[i - 1]) + k <= Len(InFuncs)
<1>1. \A i \in 1 .. Len(prog.vars) : prog.vars[i].name \in Names BY ProgIs, Zenon DEF Names, Range
<1>2. \A i \in 1 .. Len(prog.funcs) : prog.funcs[i].name \in Names BY ProgIs, Zenon DEF Names, Range
<1>3. ASSUME NEW i \in 1 .. Len(prog.funcs), NEW k \in 1 .. Len(prog.funcs[i].uses)
      PROVE  /\ prog.funcs[i].uses[k].u # "str" => prog.funcs[i].uses[k].x \in Names
             /\ Len(Upto(FuncUses)[i - 1]) + k <= Len(InFuncs)
  <2> DEFINE F == FuncUses
             J == Joined(F)
             p == Len(Upto(F)[i - 1])
  <2>1. F \in Seq(Seq(AllUses)) /\ i \in 1 .. Len(F) /\ F[i] = prog.funcs[i].uses /\ InFuncs = J
    BY FuncUsesAre, Zenon
  <2>2. k \in 1 .. Len(F[i]) BY <2>1, Zenon
  <2>3. p + k \in 1 .. Len(J) /\ J[p + k] = F[i][k] BY <2>1, <2>2, NextIn, Zenon
  <2>4. J \in Seq(AllUses) BY <2>1, UptoFacts, Zenon
  <2>5. DOMAIN J = 1 .. Len(J) /\ Len(J) \in Nat BY <2>4
  <2>6. prog.funcs[i].uses[k] \in Range(InFuncs) BY <2>1, <2>3, <2>5, Zenon DEF Range
  <2>7. prog.funcs[i].uses[k].u # "str" => prog.funcs[i].uses[k].x \in Names BY <2>6, Zenon DEF Names
  <2> HIDE DEF p, J
  <2>8. p + k <= Len(J) BY <2>3, <2>5, SMT
  <2> QED BY <2>1, <2>7, <2>8, Zenon DEF p
<1> QED BY <1>1, <1>2, <1>3, Zenon

-----------------------------------------------------------------------------
(* The tables with other symbols, between two variables. *)
With(T, names) ==
  [data |-> T.data, rels |-> T.rels, syms |-> names, pool |-> T.pool, strs |-> T.strs,
   bytes |-> 0, idx |-> 0, failed |-> FALSE]

(* Of tables with other symbols only the symbols are new. *)
LEMMA WithIs ==
  ASSUME NEW T, T \in Sections, NEW names \in Seq(Symbols)
  PROVE  LET U == With(T, names)
         IN  /\ U.data = T.data /\ U.rels = T.rels /\ U.syms = names /\ U.pool = T.pool /\ U.strs = T.strs
             /\ U.bytes = 0 /\ U.idx = 0 /\ U.failed = FALSE /\ U \in Sections
BY SMT DEF With, Sections

(* They are in order when the symbols are. *)
LEMMA WithGood ==
  ASSUME NEW T, Good(T), NEW names \in Seq(Symbols), Tables(T.strs, names)
  PROVE  Good(With(T, names))
<1> DEFINE U == With(T, names)
<1>1. T \in Sections BY Zenon DEF Good
<1>2. /\ U.data = T.data /\ U.rels = T.rels /\ U.syms = names /\ U.pool = T.pool /\ U.strs = T.strs
      /\ U.failed = FALSE /\ U \in Sections
  <2>1. /\ U.data = T.data /\ U.rels = T.rels /\ U.syms = names /\ U.pool = T.pool /\ U.strs = T.strs
        /\ U.failed = FALSE /\ U \in Sections
    BY <1>1, WithIs
  <2> QED BY <1>1, <2>1, Zenon
<1> HIDE DEF U
<1>3. Good(U) BY <1>2, Zenon DEF Good, Inside
<1> QED BY <1>3, Zenon DEF U

(* A symbol of another name is added. *)
LEMMA NameAdded ==
  ASSUME NEW strs \in Seq(StrInfos), NEW names \in Seq(Symbols), Tables(strs, names),
         NEW y \in Symbols, ~Strung(y), \A i \in 1 .. Len(names) : names[i].name # y.name
  PROVE  LET names1 == Append(names, y)
         IN  /\ names1 \in Seq(Symbols) /\ Tables(strs, names1) /\ Keeps(names, names1) /\ Extends(names, names1)
             /\ Len(names1) = Len(names) + 1 /\ names1[Len(names) + 1] = y
<1> DEFINE n == Len(names)
           names1 == Append(names, y)
<1>1. n \in Nat /\ names1 \in Seq(Symbols) /\ Len(names1) = n + 1 /\ names1[n + 1] = y
      /\ \A i \in 1 .. n : names1[i] = names[i]
  OBVIOUS
<1>2. \A i \in 1 .. n + 1 : i \in 1 .. n \/ i = n + 1 BY <1>1
<1>3. \A i \in 1 .. n : i \in 1 .. n + 1 BY <1>1
<1>4. n <= n + 1 BY <1>1
<1> HIDE DEF n, names1
<1>5. \A i \in 1 .. n : names[i].name # y.name BY Zenon DEF n
<1>6. StrsNamed(strs, names) /\ Owned(strs, names) /\ Unique(names) BY Zenon DEF Tables
<1>7. StrsNamed(strs, names1)
  <2> SUFFICES ASSUME NEW k \in 1 .. Len(strs)
               PROVE  /\ strs[k].sym \in 1 .. Len(names1)
                      /\ names1[strs[k].sym].name = <<"LC", k - 1>> /\ names1[strs[k].sym].shndx = 1
    BY Zenon DEF StrsNamed
  <2>1. strs[k].sym \in 1 .. n /\ names[strs[k].sym].name = <<"LC", k - 1>> /\ names[strs[k].sym].shndx = 1
    BY <1>6, Zenon DEF StrsNamed, n
  <2> QED BY <1>1, <1>3, <2>1, Zenon
<1>8. Owned(strs, names1)
  <2> SUFFICES ASSUME NEW i \in 1 .. n + 1, Strung(names1[i]) PROVE \E k \in 1 .. Len(strs) : strs[k].sym = i
    BY <1>1, Zenon DEF Owned
  <2>1. i # n + 1 BY <1>1, Zenon
  <2>2. i \in 1 .. n /\ Strung(names[i]) BY <1>1, <1>2, <2>1, Zenon
  <2> QED BY <1>6, <2>2, Zenon DEF Owned, n
<1>9. Unique(names1)
  <2> SUFFICES ASSUME NEW i \in 1 .. n + 1, NEW j \in 1 .. n + 1, names1[i].name = names1[j].name
               PROVE  i = j
    BY <1>1, Zenon DEF Unique
  <2>1. CASE i \in 1 .. n /\ j \in 1 .. n BY <1>1, <1>6, <2>1, Zenon DEF Unique, n
  <2>2. CASE i \in 1 .. n /\ j = n + 1 BY <1>1, <1>5, <2>2, Zenon
  <2>3. CASE i = n + 1 /\ j \in 1 .. n BY <1>1, <1>5, <2>3, Zenon
  <2> QED BY <1>2, <2>1, <2>2, <2>3, Zenon
<1>10. Keeps(names, names1) BY <1>1, <1>4, Zenon DEF Keeps, n
<1>11. Extends(names, names1) BY <1>1, <1>4, Zenon DEF Extends, n
<1> QED BY <1>1, <1>7, <1>8, <1>9, <1>10, <1>11, Zenon DEF Tables, n, names1
(* The data filled up to where a variable begins. *)
PaddedTo(R, off) ==
  [data |-> PadTo(R.data, off), rels |-> R.rels, syms |-> R.syms, pool |-> R.pool, strs |-> R.strs,
   bytes |-> 0, idx |-> 0, failed |-> FALSE]

(* The tables are in order with the data filled up. *)
LEMMA PaddedGood ==
  ASSUME NEW R, Good(R), NEW off \in Nat, Len(R.data) <= off
  PROVE  LET P == PaddedTo(R, off)
         IN  /\ Good(P) /\ Later(R, P, off) /\ Len(P.data) = off /\ P.bytes = 0 /\ P.idx = 0
             /\ P.rels = R.rels /\ P.syms = R.syms /\ P.pool = R.pool /\ P.strs = R.strs
<1> DEFINE P == PaddedTo(R, off)
           dt == PadTo(R.data, off)
<1>1. R \in Sections /\ ~R.failed BY Zenon DEF Good
<1>2. R.data \in Seq(Octets) BY <1>1, LaterParts, Zenon
<1>3. dt \in Seq(Octets) /\ Len(dt) = off /\ \A p \in Nat : ByteAt(dt, p) = ByteAt(R.data, p)
  BY <1>2, ZeroIn, Padded
<1> HIDE DEF dt
<1>4. P = [data |-> dt, rels |-> R.rels, syms |-> R.syms, pool |-> R.pool, strs |-> R.strs,
           bytes |-> 0, idx |-> 0, failed |-> FALSE]
  BY Zenon DEF PaddedTo, dt
<1> HIDE DEF P
<1>5. /\ P.data = dt /\ P.rels = R.rels /\ P.syms = R.syms /\ P.pool = R.pool /\ P.strs = R.strs
      /\ P.bytes = 0 /\ P.idx = 0 /\ P.failed = FALSE /\ P \in Sections
  BY <1>1, <1>3, <1>4, SMT DEF Sections
<1>6. Inside(P)
  <2> SUFFICES ASSUME NEW k \in 1 .. Len(R.rels) PROVE R.rels[k].off + 8 <= off
    BY <1>3, <1>5, Zenon DEF Inside
  <2>1. R.rels[k].off + 8 <= Len(R.data) BY Zenon DEF Good, Inside
  <2>2. R.rels[k].off \in Nat
    <3>1. R.rels \in Seq(Relocs) BY <1>1, LaterParts, Zenon
    <3>2. R.rels[k] \in Relocs BY <3>1
    <3> QED BY <3>2, SMT DEF Relocs
  <2>3. Len(R.data) \in Nat BY <1>2, LenNat, Zenon
  <2> QED BY <2>1, <2>2, <2>3, SMT
<1>7. Good(P) BY <1>5, <1>6, Zenon DEF Good
<1>8. Later(R, R, off) BY <1>1, LaterSelf, Zenon
<1>9. \A p \in Nat : ByteAt(P.data, p) = ByteAt(R.data, p) BY <1>3, <1>5, Zenon
<1>10. Later(R, P, off) BY <1>5, <1>8, <1>9, LaterSame, Zenon
<1> QED BY <1>3, <1>5, <1>7, <1>10, Zenon DEF P

-----------------------------------------------------------------------------
(* What is used in the n bytes of code is what the symbol of its           *)
(* relocation stands for, as long as there is room.                        *)
Meant(R, i, u) ==
  i \in 1 .. Len(R.syms) /\ IF u.u = "str" THEN Stands(R.strs, R.pool, i, u.s) ELSE R.syms[i].name = u.x
CodePlaced(R, n, rl, us) ==
  /\ \A k \in 1 .. Len(rl) : rl[k].off < n
  /\ \A j, k \in 1 .. Len(rl) : rl[j].off = rl[k].off => j = k
  /\ \A u \in us : u.off \in Nat /\ u.off < n /\ IsUse(u.use)
  /\ Len(rl) < MAX_RELS /\ Len(R.syms) < MAX_SYMS =>
       \A u \in us : \E k \in 1 .. Len(rl) : rl[k].off = u.off /\ Meant(R, rl[k].sym, u.use)
SameNames(names, names1) ==
  Len(names) <= Len(names1) /\ \A i \in 1 .. Len(names) : names1[i].name = names[i].name

(* A symbol stands for the same when more is added. *)
LEMMA MeantStill ==
  ASSUME NEW R, R \in Sections, NEW T, T \in Sections, Extends(R.strs, T.strs), Extends(R.pool, T.pool),
         SameNames(R.syms, T.syms), NEW i, NEW u, IsUse(u), Meant(R, i, u)
  PROVE  Meant(T, i, u)
<1>1. /\ R.strs \in Seq(StrInfos) /\ R.pool \in Seq(Nat) /\ Len(R.syms) \in Nat
      /\ T.strs \in Seq(StrInfos) /\ T.pool \in Seq(Nat) /\ Len(T.syms) \in Nat
  BY LaterParts, Zenon
<1>2. i \in 1 .. Len(R.syms) BY Zenon DEF Meant
<1>3. i \in 1 .. Len(T.syms)
  <2>1. Len(R.syms) <= Len(T.syms) BY Zenon DEF SameNames
  <2> QED BY <1>1, <1>2, <2>1, SMT
<1>4. CASE u.u = "str"
  <2>1. Stands(R.strs, R.pool, i, u.s) BY <1>4, Zenon DEF Meant
  <2>2. u.s \in Seq(Nat) BY Zenon DEF IsUse
  <2>3. Stands(T.strs, T.pool, i, u.s) BY <1>1, <2>1, <2>2, StandsStill, Zenon
  <2> QED BY <1>3, <1>4, <2>3, Zenon DEF Meant
<1>5. CASE u.u # "str"
  <2>1. R.syms[i].name = u.x BY <1>5, Zenon DEF Meant
  <2>2. T.syms[i].name = u.x BY <1>2, <2>1, Zenon DEF SameNames
  <2> QED BY <1>3, <1>5, <2>2, Zenon DEF Meant
<1> QED BY <1>4, <1>5, Zenon

(* The code refers to the same when more is added. *)
LEMMA CodeKept ==
  ASSUME NEW R, R \in Sections, NEW T, T \in Sections, Extends(R.strs, T.strs), Extends(R.pool, T.pool),
         SameNames(R.syms, T.syms), NEW n \in Nat, NEW n1 \in Nat, n <= n1, NEW rl \in Seq(Relocs), NEW us,
         CodePlaced(R, n, rl, us)
  PROVE  CodePlaced(T, n1, rl, us)
<1>1. \A k \in 1 .. Len(rl) : rl[k].off < n1
  <2> SUFFICES ASSUME NEW k \in 1 .. Len(rl) PROVE rl[k].off < n1 OBVIOUS
  <2>1. rl[k].off < n BY Zenon DEF CodePlaced
  <2>2. rl[k].off \in Nat
    <3>1. rl[k] \in Relocs OBVIOUS
    <3> QED BY <3>1, SMT DEF Relocs
  <2> QED BY <2>1, <2>2, SMT
<1>2. \A u \in us : u.off \in Nat /\ u.off < n1 /\ IsUse(u.use)
  <2> SUFFICES ASSUME NEW u \in us PROVE u.off \in Nat /\ u.off < n1 /\ IsUse(u.use) OBVIOUS
  <2>1. u.off \in Nat /\ u.off < n /\ IsUse(u.use) BY Zenon DEF CodePlaced
  <2>2. u.off < n1 BY <2>1, SMT
  <2> QED BY <2>1, <2>2, Zenon
<1>3. ASSUME Len(rl) < MAX_RELS, Len(T.syms) < MAX_SYMS, NEW u \in us
      PROVE  \E k \in 1 .. Len(rl) : rl[k].off = u.off /\ Meant(T, rl[k].sym, u.use)
  <2>1. Len(R.syms) < MAX_SYMS
    <3>1. Len(R.syms) \in Nat /\ Len(T.syms) \in Nat BY LaterParts, Zenon
    <3>2. Len(R.syms) <= Len(T.syms) BY Zenon DEF SameNames
    <3> QED BY <1>3, <3>1, <3>2, SizesAssumption, SMT
  <2>2. PICK k \in 1 .. Len(rl) : rl[k].off = u.off /\ Meant(R, rl[k].sym, u.use)
    BY <1>3, <2>1, Zenon DEF CodePlaced
  <2>3. IsUse(u.use) BY <1>2, Zenon
  <2>4. Meant(T, rl[k].sym, u.use) BY <2>2, <2>3, MeantStill, Zenon
  <2> QED BY <2>2, <2>4, Zenon
<1>4. \A j, k \in 1 .. Len(rl) : rl[j].off = rl[k].off => j = k BY Zenon DEF CodePlaced
<1> QED BY <1>1, <1>2, <1>3, <1>4, Zenon DEF CodePlaced

(* A use more, with a relocation of its own. *)
LEMMA CodeMore ==
  ASSUME NEW T, NEW n \in Nat, NEW n1 \in Nat, NEW rl \in Seq(Relocs), NEW us, CodePlaced(T, n, rl, us),
         NEW o \in Nat, n <= o, o < n1, NEW i \in Nat, NEW u, IsUse(u), Meant(T, i, u)
  PROVE  CodePlaced(T, n1, Append(rl, [off |-> o, sym |-> i]), us \cup {[off |-> o, use |-> u]})
<1> DEFINE m == Len(rl)
           x == [off |-> o, sym |-> i]
           rl1 == Append(rl, x)
           y == [off |-> o, use |-> u]
           us1 == us \cup {y}
<1>1. m \in Nat /\ Len(rl1) = m + 1 /\ rl1[m + 1] = x /\ \A k \in 1 .. m : rl1[k] = rl[k] OBVIOUS
<1>2. x.off = o /\ x.sym = i /\ y.off = o /\ y.use = u OBVIOUS
<1>3. \A k \in 1 .. m + 1 : k \in 1 .. m \/ k = m + 1 BY <1>1
<1>30. m + 1 \in 1 .. m + 1 /\ \A k \in 1 .. m : k \in 1 .. m + 1 BY <1>1
<1>4. \A k \in 1 .. m : rl[k].off \in Nat /\ rl[k].off < n
  <2> SUFFICES ASSUME NEW k \in 1 .. m PROVE rl[k].off \in Nat /\ rl[k].off < n OBVIOUS
  <2>1. rl[k] \in Relocs OBVIOUS
  <2>2. rl[k].off \in Nat BY <2>1, SMT DEF Relocs
  <2> QED BY <2>2, Zenon DEF CodePlaced
<1> HIDE DEF m, x, rl1, y
<1>5. \A k \in 1 .. m : rl[k].off < n1 /\ rl[k].off # o
  <2> SUFFICES ASSUME NEW k \in 1 .. m PROVE rl[k].off < n1 /\ rl[k].off # o OBVIOUS
  <2>1. rl[k].off \in Nat /\ rl[k].off < n BY <1>4, Zenon
  <2> QED BY <2>1, SMT
<1>6. \A k \in 1 .. Len(rl1) : rl1[k].off < n1 BY <1>1, <1>2, <1>3, <1>5, Zenon
<1>7. ASSUME NEW j \in 1 .. m + 1, NEW k \in 1 .. m + 1, rl1[j].off = rl1[k].off PROVE j = k
  <2>1. CASE j \in 1 .. m /\ k \in 1 .. m
    <3>1. rl[j].off = rl[k].off BY <1>1, <1>7, <2>1, Zenon
    <3> QED BY <2>1, <3>1, Zenon DEF CodePlaced, m
  <2>2. CASE j \in 1 .. m /\ k = m + 1 BY <1>1, <1>2, <1>5, <1>7, <2>2, Zenon
  <2>3. CASE j = m + 1 /\ k \in 1 .. m BY <1>1, <1>2, <1>5, <1>7, <2>3, Zenon
  <2> QED BY <1>3, <2>1, <2>2, <2>3, Zenon
<1>8. \A w \in us1 : w.off \in Nat /\ w.off < n1 /\ IsUse(w.use)
  <2> SUFFICES ASSUME NEW w \in us1 PROVE w.off \in Nat /\ w.off < n1 /\ IsUse(w.use) OBVIOUS
  <2>1. CASE w = y BY <1>2, <2>1, Zenon
  <2>2. CASE w \in us
    <3>1. w.off \in Nat /\ w.off < n /\ IsUse(w.use) BY <2>2, Zenon DEF CodePlaced
    <3>2. w.off < n1 BY <3>1, SMT
    <3> QED BY <3>1, <3>2, Zenon
  <2> QED BY <2>1, <2>2, Zenon
<1>9. ASSUME Len(rl1) < MAX_RELS, Len(T.syms) < MAX_SYMS, NEW w \in us1
      PROVE  \E k \in 1 .. Len(rl1) : rl1[k].off = w.off /\ Meant(T, rl1[k].sym, w.use)
  <2>1. CASE w = y BY <1>1, <1>2, <1>30, <2>1, Zenon
  <2>2. CASE w \in us
    <3>1. m < MAX_RELS BY <1>1, <1>9, SizesAssumption, SMT
    <3>2. PICK k \in 1 .. m : rl[k].off = w.off /\ Meant(T, rl[k].sym, w.use)
      BY <1>9, <2>2, <3>1, Zenon DEF CodePlaced, m
    <3> QED BY <1>1, <1>30, <3>2, Zenon
  <2> QED BY <2>1, <2>2, Zenon
<1> HIDE DEF us1
<1>10. CodePlaced(T, n1, rl1, us1) BY <1>1, <1>6, <1>7, <1>8, <1>9, Zenon DEF CodePlaced
<1> QED BY <1>10, Zenon DEF rl1, us1, x, y

(* A use more without one: there is no more room. *)
LEMMA CodeFull ==
  ASSUME NEW T, NEW n \in Nat, NEW n1 \in Nat, n <= n1, NEW rl \in Seq(Relocs), NEW us, CodePlaced(T, n, rl, us),
         NEW o \in Nat, o < n1, NEW u, IsUse(u), ~(Len(rl) < MAX_RELS) \/ ~(Len(T.syms) < MAX_SYMS)
  PROVE  CodePlaced(T, n1, rl, us \cup {[off |-> o, use |-> u]})
<1> DEFINE y == [off |-> o, use |-> u]
           us1 == us \cup {y}
<1>1. y.off = o /\ y.use = u OBVIOUS
<1> HIDE DEF y
<1>2. \A k \in 1 .. Len(rl) : rl[k].off < n1
  <2> SUFFICES ASSUME NEW k \in 1 .. Len(rl) PROVE rl[k].off < n1 OBVIOUS
  <2>1. rl[k].off < n BY Zenon DEF CodePlaced
  <2>2. rl[k].off \in Nat
    <3>1. rl[k] \in Relocs OBVIOUS
    <3> QED BY <3>1, SMT DEF Relocs
  <2> QED BY <2>1, <2>2, SMT
<1>3. \A w \in us1 : w.off \in Nat /\ w.off < n1 /\ IsUse(w.use)
  <2> SUFFICES ASSUME NEW w \in us1 PROVE w.off \in Nat /\ w.off < n1 /\ IsUse(w.use) OBVIOUS
  <2>1. CASE w = y BY <1>1, <2>1, Zenon
  <2>2. CASE w \in us
    <3>1. w.off \in Nat /\ w.off < n /\ IsUse(w.use) BY <2>2, Zenon DEF CodePlaced
    <3>2. w.off < n1 BY <3>1, SMT
    <3> QED BY <3>1, <3>2, Zenon
  <2> QED BY <2>1, <2>2, Zenon
<1>4. \A j, k \in 1 .. Len(rl) : rl[j].off = rl[k].off => j = k BY Zenon DEF CodePlaced
<1> HIDE DEF us1
<1>5. CodePlaced(T, n1, rl, us1) BY <1>2, <1>3, <1>4, Zenon DEF CodePlaced
<1> QED BY <1>5, Zenon DEF us1, y

-----------------------------------------------------------------------------
(* The tables between two variables, and after them. *)
Now == [data |-> data, rels |-> dataRels, syms |-> syms, pool |-> pool, strs |-> strInfos,
        bytes |-> 0, idx |-> 0, failed |-> FALSE]
(* The symbols that are no strings have the names of the file: those with  *)
(* a place are the first n variables and the first m functions.            *)
Defined(R, p, names, n, m, all) ==
  \A i \in 1 .. Len(R.syms) : ~Strung(R.syms[i]) =>
    /\ R.syms[i].name \in names
    /\ all \/ R.syms[i].shndx # 0 => \/ \E v \in 1 .. n : R.syms[i].name = p.vars[v].name
                                     \/ \E f \in 1 .. m : R.syms[i].name = p.funcs[f].name
Core ==
  /\ at \in Nat \ {0} /\ use \in Nat /\ begin \in Nat /\ begin <= Len(code)
  /\ dataOffset \in Nat /\ bssOffset \in Nat /\ code \in Seq(Nat) /\ rels \in Seq(Relocs)
  /\ Good(Now) /\ Told(Strings, Now) /\ CodePlaced(Now, Len(code), rels, used)
VarsSoFar ==
  /\ Core /\ at - 1 <= Len(prog.vars) /\ use = 0 /\ used = {} /\ rels = <<>> /\ code = <<>>
  /\ Len(dataRels) = Len(strInfos) /\ Len(strInfos) = Len(Upto(VarTexts)[at - 1])
  /\ VarsPlaced(Now, prog.vars, at - 1, dataOffset, bssOffset)
  /\ Defined(Now, prog, Names, at - 1, 0, TRUE)
FuncsSoFar ==
  /\ Core /\ at - 1 <= Len(prog.funcs) /\ Len(data) = dataOffset
  /\ use > 0 => at <= Len(prog.funcs) /\ use <= Len(prog.funcs[at].uses) + 1
  /\ Len(strInfos) = Before(at, use)
  /\ Len(rels) <= Len(Upto(FuncUses)[at - 1]) + IF use = 0 THEN 0 ELSE use - 1
  /\ VarsPlaced(Now, prog.vars, Len(prog.vars), dataOffset, bssOffset)
  /\ Defined(Now, prog, Names, Len(prog.vars), at - 1, FALSE)
(* The strings are behind the code and their symbols where they are. *)
Shifted(names, strs, i, from) ==
  IF \E k \in DOMAIN strs : strs[k].sym = i
  THEN [names[i] EXCEPT !.offset = from + strs[CHOOSE k \in DOMAIN strs : strs[k].sym = i].poolOffset]
  ELSE names[i]
PlacedFrom(names, c) ==
  /\ c \in Seq(Nat) /\ names \in Seq(Symbols) /\ code = c \o pool
  /\ syms = [i \in DOMAIN names |-> Shifted(names, strInfos, i, Len(c))]
  /\ Good(With(Now, names)) /\ Len(data) = dataOffset /\ bssOffset \in Nat /\ rels \in Seq(Relocs)
  /\ VarsPlaced(With(Now, names), prog.vars, Len(prog.vars), dataOffset, bssOffset)
  /\ CodePlaced(With(Now, names), Len(c), rels, used)
AllPlaced == \E names, c : PlacedFrom(names, c)
Whole ==
  /\ prog \in Programs /\ pc \in {"vars", "funcs", "done", "failed"}
  /\ Len(data) \in Nat /\ dataOffset \in Nat /\ Len(data) <= dataOffset
  /\ pc = "vars" => VarsSoFar
  /\ pc = "funcs" => FuncsSoFar
  /\ pc = "done" => AllPlaced
  /\ pc = "failed" => OutOfRoom
Hyp == Agreed /\ Distinct

(* What depends on the program only. *)
LEMMA SameProg ==
  ASSUME prog' = prog
  PROVE  /\ Names' = Names /\ Strings' = Strings /\ InVars' = InVars /\ InFuncs' = InFuncs
         /\ VarTexts' = VarTexts /\ FuncTexts' = FuncTexts /\ FuncUses' = FuncUses
<1>1. InVars' = InVars BY Zenon DEF InVars
<1>2. InFuncs' = InFuncs BY Zenon DEF InFuncs
<1>3. Strings' = Strings BY <1>1, Zenon DEF Strings
<1>4. Names' = Names BY <1>2, Zenon DEF Names
<1>5. VarTexts' = VarTexts /\ FuncTexts' = FuncTexts /\ FuncUses' = FuncUses
  BY Zenon DEF VarTexts, FuncTexts, FuncUses
<1> QED BY <1>1, <1>2, <1>3, <1>4, <1>5, Zenon

(* The parts of the tables. *)
LEMMA NowIs ==
  /\ Now.data = data /\ Now.rels = dataRels /\ Now.syms = syms /\ Now.pool = pool /\ Now.strs = strInfos
  /\ Now.bytes = 0 /\ Now.idx = 0 /\ Now.failed = FALSE
BY DEF Now

(* The parts of the tables of the next state. *)
LEMMA NowNext ==
  /\ Now'.data = data' /\ Now'.rels = dataRels' /\ Now'.syms = syms' /\ Now'.pool = pool' /\ Now'.strs = strInfos'
  /\ Now'.bytes = 0 /\ Now'.idx = 0 /\ Now'.failed = FALSE
BY DEF Now

(* Variables: those of a file of which both agree. *)
LEMMA VarsSome ==
  ASSUME prog \in Programs, Agreed, NEW n \in 0 .. Len(prog.vars)
  PROVE  SomeVars(prog.vars, n)
<1>1. Len(prog.vars) \in Nat /\ DOMAIN prog.vars = 1 .. Len(prog.vars)
      /\ \A i \in 1 .. Len(prog.vars) : IsVar(prog.vars[i])
  BY ProgIs, Zenon
<1>2. \A i \in 1 .. Len(prog.vars) : Described(prog.vars[i]) BY <1>1, Zenon DEF Agreed, Described
<1>3. \A i \in 1 .. n : i \in 1 .. Len(prog.vars) BY <1>1
<1>4. n \in Nat BY <1>1
<1> QED BY <1>1, <1>2, <1>3, <1>4, Zenon DEF SomeVars

(* The invariant holds in the beginning. *)
LEMMA Starts ==
  ASSUME Init
  PROVE  Whole
<1>1. prog \in Programs /\ pc = "vars" BY Zenon DEF Init
<1>2. Len(data) = 0 /\ dataOffset = 0 /\ 0 \in Nat /\ 0 <= 0 BY DEF Init
<1>3. Now \in Sections
  <2>1. Now = [data |-> <<>>, rels |-> <<>>, syms |-> <<>>, pool |-> <<>>, strs |-> <<>>, bytes |-> 0, idx |-> 0,
               failed |-> FALSE]
    BY Zenon DEF Now, Init
  <2> QED BY <2>1, SMT DEF Sections
<1>4. /\ Len(Now.data) = 0 /\ Len(Now.rels) = 0 /\ Len(Now.syms) = 0 /\ Len(Now.pool) = 0 /\ Len(Now.strs) = 0
  <2>1. Len(<<>>) = 0 OBVIOUS
  <2> QED BY <2>1, NowIs, Zenon DEF Init
<1>5. 1 .. 0 = {} OBVIOUS
<1>6. \A x \in 1 .. 0 : FALSE BY <1>5
<1>7. Tables(Now.strs, Now.syms) BY <1>4, <1>6, Zenon DEF Tables, StrsNamed, Owned, Unique
<1>8. Good(Now) BY <1>3, <1>4, <1>6, <1>7, NowIs, Zenon DEF Good, Inside
<1>9. Told(Strings, Now)
  <2>1. Strings \in Seq(Seq(Nat)) /\ Len(Strings) \in Nat BY <1>1, StringsAre, Zenon
  <2>2. PoolLen(Strings, 0) = 0 BY <2>1, PoolNext, Zenon
  <2>3. 0 <= Len(Strings) BY <2>1, SMT
  <2> QED BY <1>4, <2>2, <2>3, Zenon DEF Told
<1>10. Len(rels) = 0 /\ Len(code) = 0 /\ used = {} BY DEF Init
<1>11. CodePlaced(Now, Len(code), rels, used) BY <1>6, <1>10, Zenon DEF CodePlaced
<1>12. at = 1 /\ at - 1 = 0 /\ use = 0 /\ begin = 0 /\ bssOffset = 0 /\ code \in Seq(Nat) /\ rels \in Seq(Relocs)
       /\ code = <<>> /\ rels = <<>> /\ begin \in Nat /\ at \in Nat \ {0} /\ begin <= Len(code)
  BY <1>10, SMT DEF Init
<1>13. Core BY <1>2, <1>8, <1>9, <1>11, <1>12, Zenon DEF Core
<1>14. 0 <= Len(prog.vars)
  <2>1. Len(prog.vars) \in Nat BY <1>1, ProgIs, Zenon
  <2> QED BY <2>1, SMT
<1>15. Upto(VarTexts)[0] = <<>>
  <2>1. VarTexts \in Seq(Seq(Seq(Nat))) BY <1>1, VarTextsAre, Zenon
  <2>2. Len(VarTexts) \in Nat BY <2>1, LenNat, Zenon
  <2> QED BY <2>2, UptoAre, Zenon
<1>16. Len(dataRels) = 0 /\ Len(strInfos) = 0 /\ Len(<<>>) = 0 BY DEF Init
<1>17. VarsPlaced(Now, prog.vars, 0, dataOffset, bssOffset) BY <1>6, Zenon DEF VarsPlaced
<1>18. Defined(Now, prog, Names, 0, 0, TRUE) BY <1>4, <1>6, Zenon DEF Defined
<1>19. VarsSoFar BY <1>10, <1>12, <1>13, <1>14, <1>15, <1>16, <1>17, <1>18, Zenon DEF VarsSoFar
<1> QED BY <1>1, <1>2, <1>19, SMT DEF Whole

-----------------------------------------------------------------------------
(* Symbols keep themselves. *)
LEMMA KeepsSelf == ASSUME NEW names \in Seq(Symbols) PROVE Keeps(names, names) /\ SameNames(names, names)
<1>1. Len(names) <= Len(names)
  <2>1. Len(names) \in Nat OBVIOUS
  <2> QED BY <2>1, SMT
<1> QED BY <1>1, Zenon DEF Keeps, SameNames

(* Symbols are kept when some are appended. *)
LEMMA ExtendsKeeps ==
  ASSUME NEW names, NEW names1, Extends(names, names1)
  PROVE  Keeps(names, names1) /\ SameNames(names, names1)
BY Zenon DEF Extends, Keeps, SameNames

(* The variables are where they were when there is more behind them. *)
LEMMA VarsKeptLater ==
  ASSUME NEW R, R \in Sections, NEW T, T \in Sections, NEW vs, NEW n, SomeVars(vs, n),
         NEW dataEnd \in Nat, NEW bssEnd \in Nat, NEW dataEnd1 \in Nat, NEW bssEnd1 \in Nat,
         dataEnd <= dataEnd1, bssEnd <= bssEnd1,
         VarsPlaced(R, vs, n, dataEnd, bssEnd), Keeps(R.syms, T.syms), Unique(T.syms),
         NEW q \in Nat, dataEnd <= q, Later(R, T, q)
  PROVE  VarsPlaced(T, vs, n, dataEnd1, bssEnd1)
<1>1. ASSUME NEW v \in 1 .. n, NEW o \in Nat, o + Node(vs[v]).ival <= dataEnd, VarHeld(R, o, vs[v])
      PROVE  VarHeld(T, o, vs[v])
  <2>1. IsVar(vs[v]) /\ Described(vs[v]) BY Zenon DEF SomeVars
  <2>2. o + Node(vs[v]).ival <= q
    <3>1. Node(vs[v]).ival \in Nat BY <2>1, GivenIs, Zenon
    <3> QED BY <1>1, <3>1, SMT
  <2> QED BY <1>1, <2>1, <2>2, HeldLater, Zenon
<1> QED BY <1>1, VarsKept, Zenon

(* They are when there are more strings. *)
LEMMA HeldMore ==
  ASSUME NEW R, R \in Sections, NEW T, T \in Sections, T.rels = R.rels, T.data = R.data,
         Extends(R.strs, T.strs), Extends(R.pool, T.pool),
         NEW d, IsVar(d), Described(d), NEW off \in Nat, VarHeld(R, off, d)
  PROVE  VarHeld(T, off, d)
<1> SUFFICES ASSUME NEW c \in Image(d) PROVE CellOk(T, off + c[1], c[2], c[3], d.given = "list")
  BY Zenon DEF VarHeld
<1>1. c[1] \in Nat /\ c[2] \in Nat /\ c[3] \in Items BY ImageIn, Zenon DEF Described
<1> DEFINE list == d.given = "list"
           from == off + c[1]
           size == c[2]
           it   == c[3]
<1>2. CellOk(R, from, size, it, list) /\ it \in Items BY <1>1, Zenon DEF VarHeld
<1> HIDE DEF list, from, size, it
<1>3. /\ R.strs \in Seq(StrInfos) /\ R.pool \in Seq(Nat) /\ T.strs \in Seq(StrInfos) /\ T.pool \in Seq(Nat)
  BY LaterParts, Zenon
<1>4. CASE list /\ it.str
  <2>1. PICK k \in 1 .. Len(R.rels) :
          /\ R.rels[k].off = from /\ Stands(R.strs, R.pool, R.rels[k].sym, it.s)
          /\ Touches(R.rels[k], from, size)
          /\ \A j \in 1 .. Len(R.rels) : Touches(R.rels[j], from, size) => j = k
    BY <1>2, <1>4, Zenon DEF CellOk
  <2>2. it.s \in Seq(Nat) BY <1>2, <1>4, ItemIs, Zenon
  <2>3. Stands(T.strs, T.pool, R.rels[k].sym, it.s)
    <3> DEFINE i == R.rels[k].sym
               s == it.s
               a == R.strs
               b == R.pool
    <3>1. Stands(a, b, i, s) /\ s \in Seq(Nat) /\ a \in Seq(StrInfos) /\ b \in Seq(Nat)
          /\ Extends(a, T.strs) /\ Extends(b, T.pool)
      BY <1>3, <2>1, <2>2, Zenon
    <3> HIDE DEF i, s, a, b
    <3>2. Stands(T.strs, T.pool, i, s) BY <1>3, <3>1, StandsStill, Zenon
    <3> QED BY <3>2, Zenon DEF i, s
  <2>4. CellOk(T, from, size, it, list) BY <1>4, <2>1, <2>3, Zenon DEF CellOk
  <2> QED BY <2>4, Zenon DEF list, from, size, it
<1>5. CASE ~(list /\ it.str)
  <2>1. CellOk(T, from, size, it, list) BY <1>2, <1>5, Zenon DEF CellOk
  <2> QED BY <2>1, Zenon DEF list, from, size, it
<1> QED BY <1>4, <1>5, Zenon

(* Variables are where they were when symbols and strings are added. *)
LEMMA VarsKeptMore ==
  ASSUME NEW R, R \in Sections, NEW T, T \in Sections, NEW vs, NEW n, SomeVars(vs, n),
         NEW dataEnd \in Nat, NEW bssEnd \in Nat, NEW dataEnd1 \in Nat, NEW bssEnd1 \in Nat,
         dataEnd <= dataEnd1, bssEnd <= bssEnd1,
         VarsPlaced(R, vs, n, dataEnd, bssEnd), Keeps(R.syms, T.syms), Unique(T.syms),
         T.rels = R.rels, T.data = R.data, Extends(R.strs, T.strs), Extends(R.pool, T.pool)
  PROVE  VarsPlaced(T, vs, n, dataEnd1, bssEnd1)
<1>1. ASSUME NEW v \in 1 .. n, NEW o \in Nat, VarHeld(R, o, vs[v]) PROVE VarHeld(T, o, vs[v])
  <2>1. IsVar(vs[v]) /\ Described(vs[v]) BY Zenon DEF SomeVars
  <2> QED BY <1>1, <2>1, HeldMore, Zenon
<1> QED BY <1>1, VarsKept, Zenon

(* Numbers that are close. *)
LEMMA ZeroUp == ASSUME NEW n \in Nat PROVE n <= n /\ n \in 0 .. n /\ (n + 1) - 1 = n OBVIOUS

(* How many strings were there, in the next state. *)
LEMMA BeforeNext == ASSUME prog' = prog PROVE Before(at, use)' = Before(at', use')
<1>1. InVars' = InVars /\ FuncTexts' = FuncTexts BY SameProg, Zenon
<1> QED BY <1>1, Zenon DEF Before, InFunc

(* The last variable: the data is filled up. *)
LEMMA VarsEndKeeps ==
  ASSUME Whole, Hyp, VarsEnd
  PROVE  Whole'
<1>1. prog \in Programs /\ VarsSoFar /\ Core /\ pc = "vars" /\ Len(data) \in Nat /\ dataOffset \in Nat
      /\ Len(data) <= dataOffset /\ prog' = prog /\ Agreed
  <2>1. pc = "vars" BY Zenon DEF VarsEnd
  <2>2. VarsSoFar /\ prog \in Programs /\ Len(data) \in Nat /\ dataOffset \in Nat /\ Len(data) <= dataOffset
    BY <2>1, Zenon DEF Whole
  <2>3. Core BY <2>2, Zenon DEF VarsSoFar
  <2>4. prog' = prog BY SMT DEF VarsEnd, Fail
  <2> QED BY <2>1, <2>2, <2>3, <2>4, Zenon DEF Hyp
<1>2. CASE dataOffset > DATA_BUF_SIZE
  <2>1. Fail BY <1>2, Zenon DEF VarsEnd
  <2>2. OutOfRoom' BY <1>2, <2>1, SMT DEF Fail, OutOfRoom
  <2>3. pc' = "failed" /\ data' = data /\ dataOffset' = dataOffset BY <2>1, SMT DEF Fail
  <2> QED BY <1>1, <2>2, <2>3, SMT DEF Whole
<1>3. CASE ~(dataOffset > DATA_BUF_SIZE)
  <2>1. /\ data' = PadTo(data, dataOffset) /\ pc' = "funcs" /\ at' = 1
        /\ UNCHANGED <<prog, use, begin, dataOffset, bssOffset, dataRels, code, rels, syms, pool, strInfos, used>>
    BY <1>3, Zenon DEF VarsEnd
  <2> DEFINE P == PaddedTo(Now, dataOffset)
  <2>2. Now' = P
    BY <2>1, NowIs, Zenon DEF PaddedTo, Now
  <2>3. Good(Now) /\ Now \in Sections /\ Told(Strings, Now) BY <1>1, Zenon DEF Core, Good
  <2>4. /\ Good(P) /\ Later(Now, P, dataOffset) /\ Len(P.data) = dataOffset
        /\ P.rels = Now.rels /\ P.syms = Now.syms /\ P.pool = Now.pool /\ P.strs = Now.strs
    BY <1>1, <2>3, NowIs, PaddedGood, Zenon
  <2>5. P \in Sections /\ Unique(P.syms) /\ P.syms \in Seq(Symbols)
    <3>1. P \in Sections BY <2>4, Zenon DEF Good
    <3>2. Unique(P.syms) BY <2>4, Zenon DEF Good, Tables
    <3> QED BY <3>1, <3>2, LaterParts, Zenon
  <2> HIDE DEF P
  <2>6. Len(prog.vars) \in Nat /\ at > Len(prog.vars) /\ at \in Nat \ {0} /\ at - 1 <= Len(prog.vars)
    <3>1. Len(prog.vars) \in Nat BY <1>1, ProgIs, Zenon
    <3> QED BY <3>1, <1>1, Zenon DEF VarsEnd, Core, VarsSoFar
  <2>7. at - 1 = Len(prog.vars) BY <2>6, SMT
  <2> DEFINE n == Len(prog.vars)
  <2>8. SomeVars(prog.vars, n) BY <1>1, <2>6, ZeroUp, VarsSome, Zenon
  <2>9. VarsPlaced(Now, prog.vars, n, dataOffset, bssOffset) /\ Defined(Now, prog, Names, n, 0, TRUE)
    BY <1>1, <2>7, Zenon DEF VarsSoFar
  <2>10. bssOffset \in Nat BY <1>1, Zenon DEF Core
  <2>11. VarsPlaced(P, prog.vars, n, dataOffset, bssOffset)
    <3>1. Keeps(Now.syms, P.syms) BY <2>4, <2>5, KeepsSelf, Zenon
    <3>2. dataOffset <= dataOffset /\ bssOffset <= bssOffset BY <1>1, <2>10, ZeroUp, Zenon
    <3> QED BY <1>1, <2>3, <2>4, <2>5, <2>8, <2>9, <2>10, <3>1, <3>2, VarsKeptLater, Zenon
  <2>12. Defined(P, prog, Names, n, 0, FALSE) BY <2>4, <2>9, Zenon DEF Defined
  <2>13. Told(Strings, P) BY <2>3, <2>4, Zenon DEF Told
  <2>14. CodePlaced(P, Len(code), rels, used)
    <3>1. CodePlaced(Now, Len(code), rels, used) BY <1>1, Zenon DEF Core
    <3>2. Extends(Now.strs, P.strs) /\ Extends(Now.pool, P.pool) /\ SameNames(Now.syms, P.syms)
      BY <2>3, <2>4, <2>5, LaterParts, ExtendsSelf, KeepsSelf, Zenon
    <3>3. rels \in Seq(Relocs) /\ Len(code) \in Nat /\ Len(code) <= Len(code)
      <4>1. rels \in Seq(Relocs) /\ code \in Seq(Nat) BY <1>1, Zenon DEF Core
      <4> QED BY <4>1, LenNat, ZeroUp, Zenon
    <3> QED BY <2>3, <2>5, <3>1, <3>2, <3>3, CodeKept, Zenon
  <2>15. Names' = Names /\ Strings' = Strings /\ InVars' = InVars /\ FuncTexts' = FuncTexts
         /\ FuncUses' = FuncUses
    BY <1>1, SameProg, Zenon
  <2>16. 1 \in Nat \ {0} /\ 1 - 1 = 0 OBVIOUS
  <2>17. Core'
    <3>1. Good(Now') /\ Told(Strings', Now') /\ CodePlaced(Now', Len(code'), rels', used')
      BY <2>1, <2>2, <2>4, <2>13, <2>14, <2>15, Zenon
    <3>2. /\ use \in Nat /\ begin \in Nat /\ begin <= Len(code)
          /\ code \in Seq(Nat) /\ rels \in Seq(Relocs)
      BY <1>1, Zenon DEF Core
    <3> QED BY <1>1, <2>1, <2>10, <2>16, <3>1, <3>2, Zenon DEF Core
  <2>18. Len(prog.funcs) \in Nat /\ 0 <= Len(prog.funcs)
    <3>1. Len(prog.funcs) \in Nat BY <1>1, ProgIs, Zenon
    <3> QED BY <3>1, SMT
  <2>19. Len(Upto(FuncTexts)[0]) = 0 /\ Len(Upto(FuncUses)[0]) = 0
    <3>1. FuncTexts \in Seq(Seq(Seq(Nat))) /\ FuncUses \in Seq(Seq(AllUses))
      BY <1>1, FuncTextsAre, FuncUsesAre, Zenon
    <3>2. Len(FuncTexts) \in Nat /\ Len(FuncUses) \in Nat BY <3>1, LenNat, Zenon
    <3>3. Upto(FuncTexts)[0] = <<>> /\ Upto(FuncUses)[0] = <<>> BY <3>2, UptoAre, Zenon
    <3>4. Len(<<>>) = 0 OBVIOUS
    <3> QED BY <3>3, <3>4, Zenon
  <2>20. Len(strInfos) = Len(InVars) /\ Len(InVars) \in Nat
    <3>1. Len(strInfos) = Len(Upto(VarTexts)[n]) BY <1>1, <2>7, Zenon DEF VarsSoFar
    <3>2. VarTexts \in Seq(Seq(Seq(Nat))) /\ Len(VarTexts) = n /\ InVars = Joined(VarTexts)
      BY <1>1, VarTextsAre, Zenon
    <3>3. Joined(VarTexts) = Upto(VarTexts)[n] BY <2>6, <3>2, UptoAre, Zenon
    <3>4. Len(InVars) \in Nat BY <1>1, StringsAre, Zenon
    <3> QED BY <3>1, <3>2, <3>3, <3>4, Zenon
  <2>21. use = 0 /\ rels = <<>> /\ Len(rels) = 0
    <3>1. Len(<<>>) = 0 OBVIOUS
    <3> QED BY <1>1, <3>1, Zenon DEF VarsSoFar
  <2>22. Before(at, use)' = Len(InVars)
    <3>1. Before(1, 0) = Len(InVars) + Len(Upto(FuncTexts)[1 - 1]) + 0 BY Zenon DEF Before, InFunc
    <3>3. Before(at, use)' = Before(1, 0) BY <1>1, <2>1, <2>21, BeforeNext, Zenon
    <3>2. Len(InVars) + 0 + 0 = Len(InVars) BY <2>20, SMT
    <3> QED BY <3>1, <3>2, <3>3, <2>16, <2>19, Zenon
  <2>23. FuncsSoFar'
    <3>1. at' - 1 = 0 /\ use' = 0 /\ ~(use' > 0) /\ 0 <= 0 + 0 BY <2>1, <2>21, SMT
    <3>2. Len(data') = dataOffset' BY <2>1, <2>2, <2>4, NowNext, Zenon
    <3>3. Len(strInfos') = Before(at, use)'
      BY <2>1, <2>20, <2>21, <2>22, Zenon
    <3>4. Len(rels') <= Len(Upto(FuncUses')[at' - 1]) + IF use' = 0 THEN 0 ELSE use' - 1
      BY <2>1, <2>15, <2>19, <2>21, <3>1, Zenon
    <3>5. VarsPlaced(Now', prog'.vars, Len(prog'.vars), dataOffset', bssOffset')
      BY <2>1, <2>2, <2>11, Zenon
    <3>6. Defined(Now', prog', Names', Len(prog'.vars), at' - 1, FALSE)
      BY <2>1, <2>2, <2>12, <2>15, <3>1, Zenon
    <3> QED BY <2>1, <2>17, <2>18, <3>1, <3>2, <3>3, <3>4, <3>5, <3>6, Zenon DEF FuncsSoFar
  <2>24. Len(data') = dataOffset' BY <2>1, <2>2, <2>4, NowNext, Zenon
  <2> QED BY <1>1, <2>1, <2>23, <2>24, SMT DEF Whole
<1> QED BY <1>2, <1>3, Zenon

-----------------------------------------------------------------------------
(* The symbol of a variable is a symbol. *)
LEMMA SymbIn ==
  ASSUME NEW d, IsVar(d), NEW o \in Nat
  PROVE  Symb(d, o) \in Symbols
<1>1. d.name \in Labels
  <2>1. d.name \in STRING \X Nat BY Zenon DEF IsVar, OfC
  <2> QED BY <2>1, Zenon DEF Labels
<1>2. Node(d).ival \in Nat BY GivenIs, Zenon
<1>3. (IF d.given = "none" THEN 5 ELSE 3) \in Nat OBVIOUS
<1> DEFINE a == d.name
           b == Node(d).ival
           c == IF d.given = "none" THEN 5 ELSE 3
<1>4. Symb(d, o) = [name |-> a, offset |-> o, size |-> b, shndx |-> c] BY Zenon DEF Symb, Symbol
<1>5. a \in Labels /\ b \in Nat /\ c \in Nat BY <1>1, <1>2, <1>3, Zenon
<1> HIDE DEF a, b, c
<1> QED BY <1>4, <1>5, SMT DEF Symbols

(* A variable is the only one of its name. *)
LEMMA VarNew ==
  ASSUME prog \in Programs, Distinct, NEW n \in Nat, n + 1 <= Len(prog.vars), NEW T,
         Defined(T, prog, Names, n, 0, TRUE), NEW i \in 1 .. Len(T.syms)
  PROVE  T.syms[i].name # prog.vars[n + 1].name
<1> SUFFICES ASSUME T.syms[i].name = prog.vars[n + 1].name PROVE FALSE OBVIOUS
<1>1. Len(prog.vars) \in Nat /\ DOMAIN prog.vars = 1 .. Len(prog.vars) BY ProgIs, Zenon
<1>2. n + 1 \in 1 .. Len(prog.vars) /\ \A v \in 1 .. n : v \in 1 .. Len(prog.vars) /\ v # n + 1 BY <1>1
<1>3. CASE Strung(T.syms[i])
  <2>1. IsVar(prog.vars[n + 1]) BY <1>2, ProgIs, Zenon
  <2> QED BY <1>3, <2>1, Zenon DEF Strung, IsVar, OfC
<1>4. CASE ~Strung(T.syms[i])
  <2>1. \A f \in 1 .. 0 : FALSE OBVIOUS
  <2>2. PICK v \in 1 .. n : T.syms[i].name = prog.vars[v].name BY <1>4, <2>1, Zenon DEF Defined
  <2>3. prog.vars[v].name = prog.vars[n + 1].name BY <2>2, Zenon
  <2> QED BY <1>1, <1>2, <2>3, Zenon DEF Distinct
<1> QED BY <1>3, <1>4, Zenon
(* What is asked of the tables, and of the place, to add a variable. *)
Adding(T, d, o) == With(T, Append(T.syms, Symb(d, o)))
CanAdd(T, n, d, o, dataEnd, bssEnd, dataEnd1, bssEnd1) ==
  /\ n \in Nat /\ n + 1 <= Len(prog.vars) /\ d = prog.vars[n + 1] /\ Good(T) /\ Told(Strings, T)
  /\ dataEnd \in Nat /\ bssEnd \in Nat /\ dataEnd1 \in Nat /\ bssEnd1 \in Nat
  /\ dataEnd <= dataEnd1 /\ bssEnd <= bssEnd1 /\ o \in Nat
  /\ VarsPlaced(T, prog.vars, n, dataEnd, bssEnd) /\ Defined(T, prog, Names, n, 0, TRUE)
PlaceFits(T, d, o, dataEnd, bssEnd, dataEnd1, bssEnd1) ==
  IF d.given = "none" THEN bssEnd <= o /\ o + Node(d).ival <= bssEnd1
  ELSE dataEnd <= o /\ o + Node(d).ival <= dataEnd1 /\ VarHeld(T, o, d)

(* With its symbol a variable more is placed. *)
LEMMA VarDone ==
  ASSUME prog \in Programs, Agreed, Distinct, NEW T, NEW n, NEW d, NEW o,
         NEW dataEnd, NEW bssEnd, NEW dataEnd1, NEW bssEnd1,
         CanAdd(T, n, d, o, dataEnd, bssEnd, dataEnd1, bssEnd1),
         PlaceFits(T, d, o, dataEnd, bssEnd, dataEnd1, bssEnd1)
  PROVE  LET U == Adding(T, d, o)
         IN  /\ Good(U) /\ Told(Strings, U) /\ U.data = T.data /\ U.rels = T.rels /\ U.strs = T.strs
             /\ U.pool = T.pool
             /\ VarsPlaced(U, prog.vars, n + 1, dataEnd1, bssEnd1)
             /\ Defined(U, prog, Names, n + 1, 0, TRUE)
<1>0. /\ n \in Nat /\ n + 1 <= Len(prog.vars) /\ d = prog.vars[n + 1] /\ Good(T) /\ Told(Strings, T)
      /\ dataEnd \in Nat /\ bssEnd \in Nat /\ dataEnd1 \in Nat /\ bssEnd1 \in Nat
      /\ dataEnd <= dataEnd1 /\ bssEnd <= bssEnd1 /\ o \in Nat
      /\ VarsPlaced(T, prog.vars, n, dataEnd, bssEnd) /\ Defined(T, prog, Names, n, 0, TRUE)
      /\ IF d.given = "none" THEN bssEnd <= o /\ o + Node(d).ival <= bssEnd1
         ELSE dataEnd <= o /\ o + Node(d).ival <= dataEnd1 /\ VarHeld(T, o, d)
  BY Zenon DEF CanAdd, PlaceFits
<1> USE <1>0
<1> DEFINE y == Symb(d, o)
           names == T.syms
           names1 == Append(names, y)
           U == With(T, names1)
<1>1. Len(prog.vars) \in Nat /\ n + 1 \in 1 .. Len(prog.vars) /\ n \in 0 .. Len(prog.vars)
      /\ n + 1 \in 0 .. Len(prog.vars)
  <2>1. Len(prog.vars) \in Nat BY ProgIs, Zenon
  <2> QED BY <2>1
<1>2. IsVar(d) /\ d.name \in Names BY <1>1, ProgIs, NamesHave, Zenon
<1>3. SomeVars(prog.vars, n) /\ SomeVars(prog.vars, n + 1) BY <1>1, VarsSome, Zenon
<1>4. Described(d)
  <2>1. n + 1 \in 1 .. n + 1 OBVIOUS
  <2> QED BY <1>3, <2>1, Zenon DEF SomeVars
<1>5. T \in Sections /\ Tables(T.strs, T.syms) BY Zenon DEF Good
<1>6. names \in Seq(Symbols) /\ T.strs \in Seq(StrInfos) /\ T.pool \in Seq(Nat) BY <1>5, LaterParts, Zenon
<1>7. y \in Symbols /\ ~Strung(y) /\ y.name = d.name
  <2>1. y \in Symbols BY <1>2, SymbIn, Zenon
  <2>2. ~Strung(y) /\ y.name = d.name BY <1>2, SymbIs
  <2> QED BY <2>1, <2>2, Zenon
<1>8. \A i \in 1 .. Len(names) : names[i].name # y.name BY <1>7, VarNew, Zenon
<1> HIDE DEF y
<1>9. /\ names1 \in Seq(Symbols) /\ Tables(T.strs, names1) /\ Keeps(names, names1) /\ Extends(names, names1)
      /\ Len(names1) = Len(names) + 1 /\ names1[Len(names) + 1] = y
  BY <1>5, <1>6, <1>7, <1>8, NameAdded, Zenon
<1> HIDE DEF names1
<1>10. Good(U) /\ U.data = T.data /\ U.rels = T.rels /\ U.syms = names1 /\ U.pool = T.pool /\ U.strs = T.strs
       /\ U \in Sections
  <2>1. Good(U) BY <1>9, WithGood, Zenon
  <2>2. /\ U.data = T.data /\ U.rels = T.rels /\ U.syms = names1 /\ U.pool = T.pool /\ U.strs = T.strs
        /\ U \in Sections
    BY <1>5, <1>9, WithIs, Zenon
  <2> QED BY <2>1, <2>2, Zenon
<1> HIDE DEF U
<1>11. Told(Strings, U) BY <1>10, Zenon DEF Told
<1>12. Unique(U.syms) BY <1>9, <1>10, Zenon DEF Tables
<1>13. Extends(T.strs, U.strs) /\ Extends(T.pool, U.pool) BY <1>6, <1>10, ExtendsSelf, Zenon
<1>14. VarsPlaced(U, prog.vars, n, dataEnd, bssEnd)
  <2>1. Keeps(T.syms, U.syms) BY <1>9, <1>10, Zenon
  <2>2. dataEnd <= dataEnd /\ bssEnd <= bssEnd BY ZeroUp, Zenon
  <2> QED BY <1>3, <1>5, <1>10, <1>12, <1>13, <2>1, <2>2, VarsKeptMore, Zenon
<1>15. VarAt(U, prog.vars[n + 1], o, dataEnd1, bssEnd1)
  <2>1. Has(U.syms, d, o)
    <3>1. Len(names) + 1 \in 1 .. Len(names1)
      <4>1. Len(names) \in Nat BY <1>6, LenNat, Zenon
      <4> QED BY <1>9, <4>1, SMT
    <3> QED BY <1>9, <1>10, <3>1, Zenon DEF Has, y
  <2>2. VarHeld(T, o, d) => VarHeld(U, o, d) BY <1>2, <1>4, <1>5, <1>10, <1>13, HeldMore, Zenon
  <2> QED BY <2>1, <2>2, Zenon DEF VarAt
<1>16. VarsPlaced(U, prog.vars, n + 1, dataEnd1, bssEnd1)
  <2>1. IF prog.vars[n + 1].given = "none" THEN bssEnd <= o ELSE dataEnd <= o BY Zenon
  <2> QED BY <1>3, <1>10, <1>12, <1>14, <1>15, <2>1, VarMore, Zenon
<1>17. Defined(U, prog, Names, n + 1, 0, TRUE)
  <2> SUFFICES ASSUME NEW i \in 1 .. Len(names1), ~Strung(names1[i])
               PROVE  names1[i].name \in Names /\ \E v \in 1 .. n + 1 : names1[i].name = prog.vars[v].name
    BY <1>10, Zenon DEF Defined
  <2>1. i \in 1 .. Len(names) \/ i = Len(names) + 1
    <3>1. Len(names) \in Nat BY <1>6, LenNat, Zenon
    <3> QED BY <1>9, <3>1, SMT
  <2>2. n + 1 \in 1 .. n + 1 /\ \A v \in 1 .. n : v \in 1 .. n + 1 OBVIOUS
  <2>3. CASE i = Len(names) + 1 BY <1>2, <1>7, <1>9, <2>2, <2>3, Zenon
  <2>4. CASE i \in 1 .. Len(names)
    <3>1. names1[i] = names[i] BY <1>9, <2>4, Zenon DEF Extends
    <3>2. \A f \in 1 .. 0 : FALSE OBVIOUS
    <3>3. names[i].name \in Names /\ \E v \in 1 .. n : names[i].name = prog.vars[v].name
      BY <2>4, <3>1, <3>2, Zenon DEF Defined
    <3> QED BY <2>2, <3>1, <3>3, Zenon
  <2> QED BY <2>1, <2>3, <2>4, Zenon
<1> QED BY <1>10, <1>11, <1>16, <1>17, Zenon DEF U, names1, y, Adding

-----------------------------------------------------------------------------
(* Where a table is full the file is out of room. *)
LEMMA OverOut == ASSUME Overfull(Strings, Names) PROVE OutOfRoom
BY Zenon DEF Overfull, OutOfRoom, Ended

(* A file is rejected where a table is full. *)
LEMMA Fails ==
  ASSUME Whole, Fail, OutOfRoom
  PROVE  Whole'
<1>1. /\ pc' = "failed" /\ prog' = prog /\ dataOffset' = dataOffset /\ data' = data /\ code' = code
      /\ pool' = pool
  BY SMT DEF Fail
<1>2. Strings' = Strings /\ Names' = Names /\ InVars' = InVars /\ InFuncs' = InFuncs BY <1>1, SameProg, Zenon
<1>3. OutOfRoom' BY <1>1, <1>2, Zenon DEF OutOfRoom
<1> QED BY <1>1, <1>3, SMT DEF Whole

(* Symbols that are no strings have the names of the file. *)
LEMMA NoNames ==
  ASSUME NEW T, T \in Sections, NEW n, NEW m, NEW all,
         Defined(T, prog, Names, n, m, all)
  PROVE  Others(T.syms) \subseteq Names
BY Zenon DEF Others, Defined

(* Without code nothing is referred to. *)
LEMMA EmptyCode ==
  ASSUME NEW T, NEW n
  PROVE  CodePlaced(T, n, <<>>, {})
<1>1. Len(<<>>) = 0 OBVIOUS
<1>2. \A k \in 1 .. 0 : FALSE OBVIOUS
<1> QED BY <1>1, <1>2, Zenon DEF CodePlaced

(* The next variable. *)
LEMMA VarsGoOn ==
  ASSUME Whole, pc = "vars", at <= Len(prog.vars), UNCHANGED <<prog, pc, use, begin, code, rels, used>>,
         at' = at + 1, Good(Now'), Told(Strings, Now'), dataOffset' \in Nat, bssOffset' \in Nat,
         VarsPlaced(Now', prog.vars, (at - 1) + 1, dataOffset', bssOffset'),
         Defined(Now', prog, Names, (at - 1) + 1, 0, TRUE), Len(data') <= dataOffset',
         Len(dataRels') = Len(strInfos'), Len(strInfos') = Len(Upto(VarTexts)[at])
  PROVE  Whole'
<1>1. VarsSoFar /\ prog \in Programs BY Zenon DEF Whole
<1>2. Core BY <1>1, Zenon DEF VarsSoFar
<1>3. Len(data') \in Nat
  <2>1. Now' \in Sections BY Zenon DEF Good
  <2>2. Len(Now'.data) \in Nat BY <2>1, LaterParts, Zenon
  <2> QED BY <2>2, NowNext, Zenon
<1>4. at \in Nat \ {0} /\ at + 1 \in Nat \ {0} /\ (at - 1) + 1 = at /\ (at + 1) - 1 = at
  <2>1. at \in Nat \ {0} BY <1>2, Zenon DEF Core
  <2> QED BY <2>1, SMT
<1>5. Strings' = Strings /\ Names' = Names /\ VarTexts' = VarTexts BY SameProg, SMT
<1>6. /\ prog' = prog /\ pc' = "vars" /\ use' = use /\ begin' = begin /\ code' = code /\ rels' = rels
      /\ used' = used
  OBVIOUS
<1>7. use = 0 /\ used = {} /\ rels = <<>> /\ code = <<>> BY <1>1, Zenon DEF VarsSoFar
<1>8. CodePlaced(Now', Len(code'), rels', used') BY <1>6, <1>7, EmptyCode, Zenon
<1>9. Core'
  <2>1. use \in Nat /\ begin \in Nat /\ begin <= Len(code) /\ code \in Seq(Nat) /\ rels \in Seq(Relocs)
    BY <1>2, Zenon DEF Core
  <2> QED BY <1>4, <1>5, <1>6, <1>8, <2>1, Zenon DEF Core
<1>10. at' - 1 = at /\ at' - 1 = (at - 1) + 1 BY <1>4, Zenon
<1>11. VarsSoFar' BY <1>5, <1>6, <1>7, <1>9, <1>10, Zenon DEF VarsSoFar
<1> QED BY <1>1, <1>3, <1>6, <1>11, SMT DEF Whole

(* Before a variable: what VarDone and FullSymbols ask. *)
LEMMA BeforeVar ==
  ASSUME Whole, Hyp, AtVar
  PROVE  /\ prog \in Programs /\ pc = "vars" /\ VarsSoFar /\ Agreed /\ Distinct
         /\ Good(Now) /\ Now \in Sections /\ Told(Strings, Now) /\ Tables(Now.strs, Now.syms)
         /\ VarsPlaced(Now, prog.vars, at - 1, dataOffset, bssOffset)
         /\ Defined(Now, prog, Names, at - 1, 0, TRUE)
         /\ at - 1 \in Nat /\ (at - 1) + 1 = at /\ at \in 1 .. Len(prog.vars)
         /\ dataOffset \in Nat /\ bssOffset \in Nat /\ Len(data) \in Nat /\ Len(data) <= dataOffset
         /\ IsVar(prog.vars[at]) /\ Described(prog.vars[at]) /\ prog.vars[at].name \in Names
<1>1. pc = "vars" /\ at <= Len(prog.vars) BY Zenon DEF AtVar
<1>2. VarsSoFar /\ prog \in Programs /\ Len(data) \in Nat /\ dataOffset \in Nat /\ Len(data) <= dataOffset
  BY <1>1, Zenon DEF Whole
<1>3. Core /\ VarsPlaced(Now, prog.vars, at - 1, dataOffset, bssOffset)
      /\ Defined(Now, prog, Names, at - 1, 0, TRUE)
  BY <1>2, Zenon DEF VarsSoFar
<1>4. Good(Now) /\ Told(Strings, Now) /\ bssOffset \in Nat /\ at \in Nat \ {0} BY <1>3, Zenon DEF Core
<1>5. at - 1 \in Nat /\ (at - 1) + 1 = at /\ at \in 1 .. Len(prog.vars)
  <2>1. Len(prog.vars) \in Nat BY <1>2, ProgIs, Zenon
  <2> QED BY <1>1, <1>4, <2>1, SMT
<1>6. IsVar(prog.vars[at]) /\ prog.vars[at].name \in Names BY <1>2, <1>5, ProgIs, NamesHave, Zenon
<1>7. Described(prog.vars[at])
  <2>1. DOMAIN prog.vars = 1 .. Len(prog.vars) BY <1>2, ProgIs, Zenon
  <2> QED BY <1>5, <2>1, Zenon DEF Hyp, Agreed, Described
<1> QED BY <1>1, <1>2, <1>3, <1>4, <1>5, <1>6, <1>7, Zenon DEF Good, Hyp

(* There is no room for the symbol of a variable. *)
LEMMA NoRoomForVar ==
  ASSUME prog \in Programs, Distinct, NEW n \in Nat, n + 1 <= Len(prog.vars), NEW T, Good(T), Told(Strings, T),
         Defined(T, prog, Names, n, 0, TRUE), Len(T.syms) >= MAX_SYMS
  PROVE  OutOfRoom
<1>1. T \in Sections /\ Tables(T.strs, T.syms) BY Zenon DEF Good
<1>2. Strings \in Seq(Seq(Nat)) BY StringsAre, Zenon
<1>3. IsFiniteSet(Names) BY NamesFinite, Zenon
<1>4. Others(T.syms) \subseteq Names BY <1>1, NoNames, Zenon
<1> DEFINE x == prog.vars[n + 1].name
<1>5. x \in Names
  <2>1. n + 1 \in 1 .. Len(prog.vars)
    <3>1. Len(prog.vars) \in Nat BY ProgIs, Zenon
    <3> QED BY <3>1, SMT
  <2> QED BY <2>1, NamesHave, Zenon
<1>6. x \notin Others(T.syms)
  <2> SUFFICES ASSUME x \in Others(T.syms) PROVE FALSE OBVIOUS
  <2>1. PICK i \in {j \in 1 .. Len(T.syms) : ~Strung(T.syms[j])} : x = T.syms[i].name BY Zenon DEF Others
  <2>2. i \in 1 .. Len(T.syms) OBVIOUS
  <2>3. T.syms[i].name # prog.vars[n + 1].name BY <2>2, VarNew, Zenon
  <2> QED BY <2>1, <2>3, Zenon
<1> HIDE DEF x
<1>7. Overfull(Strings, Names) BY <1>1, <1>2, <1>3, <1>4, <1>5, <1>6, FullSymbols, Zenon
<1> QED BY <1>7, OverOut, Zenon

-----------------------------------------------------------------------------
(* A variable without an initialiser. *)
LEMMA BssVarKeeps ==
  ASSUME Whole, Hyp, BssVar
  PROVE  Whole'
<1> DEFINE d    == prog.vars[at]
           node == Node(d)
           off  == Up(bssOffset, 8)
           n    == at - 1
           y    == Symb(d, off)
           U    == Adding(Now, d, off)
<1>1. AtVar /\ ~node.expr BY Zenon DEF BssVar
<1>2. /\ prog \in Programs /\ pc = "vars" /\ VarsSoFar /\ Agreed /\ Distinct
      /\ Good(Now) /\ Now \in Sections /\ Told(Strings, Now) /\ Tables(Now.strs, Now.syms)
      /\ VarsPlaced(Now, prog.vars, n, dataOffset, bssOffset) /\ Defined(Now, prog, Names, n, 0, TRUE)
      /\ n \in Nat /\ n + 1 = at /\ at \in 1 .. Len(prog.vars)
      /\ dataOffset \in Nat /\ bssOffset \in Nat /\ Len(data) \in Nat /\ Len(data) <= dataOffset
      /\ IsVar(d) /\ Described(d) /\ d.name \in Names
  BY <1>1, BeforeVar, Zenon
<1>3. d.given = "none" /\ node.name = d.name /\ node.ival \in Nat
  <2>1. node.expr = (d.given # "none") /\ node.name = d.name /\ node.ival \in Nat
    BY <1>2, NodeIs, GivenIs, Zenon
  <2> QED BY <1>1, <2>1, Zenon
<1>4. at <= Len(prog.vars) /\ n + 1 <= Len(prog.vars) BY <1>1, <1>2, Zenon DEF AtVar
<1>5. CASE Len(syms) >= MAX_SYMS
  <2>1. Fail BY <1>5, Zenon DEF BssVar
  <2>2. Len(Now.syms) >= MAX_SYMS BY <1>5, NowIs, Zenon
  <2>3. OutOfRoom BY <1>2, <1>4, <2>2, NoRoomForVar, Zenon
  <2> QED BY <2>1, <2>3, Fails, Zenon
<1>6. CASE ~(Len(syms) >= MAX_SYMS)
  <2>1. /\ bssOffset' = off + node.ival
        /\ syms' = Append(syms, Symbol(node.name, off, node.ival, 5))
        /\ at' = at + 1
        /\ UNCHANGED <<prog, pc, use, begin, data, dataOffset, dataRels, code, rels, pool, strInfos, used>>
    BY <1>6, Zenon DEF BssVar
  <2>2. Symbol(node.name, off, node.ival, 5) = y BY <1>3, Zenon DEF Symb
  <2>3. Now' = U
    <3>1. syms' = Append(Now.syms, y) BY <2>1, <2>2, NowIs, Zenon
    <3> HIDE DEF y
    <3>2. /\ Now.data = data' /\ Now.rels = dataRels' /\ Now.pool = pool' /\ Now.strs = strInfos'
      BY <2>1, NowIs, Zenon
    <3> QED BY <3>1, <3>2, Zenon DEF Now, With, Adding, y
  <2>4. off \in Nat /\ bssOffset <= off
    <3>1. off \in Nat /\ off >= bssOffset BY <1>2, Up8, Zenon
    <3> QED BY <1>2, <3>1, SMT
  <2> HIDE DEF off
  <2> DEFINE e == off + node.ival
  <2>5. e \in Nat /\ bssOffset <= e /\ e <= e /\ dataOffset <= dataOffset BY <1>2, <1>3, <2>4, SMT
  <2> HIDE DEF e
  <2>6. PlaceFits(Now, d, off, dataOffset, bssOffset, dataOffset, e)
    BY <1>3, <2>4, <2>5, Zenon DEF PlaceFits, e
  <2>7. CanAdd(Now, n, d, off, dataOffset, bssOffset, dataOffset, e)
    <3>1. d = prog.vars[n + 1] BY <1>2, Zenon
    <3> QED BY <1>2, <1>4, <2>4, <2>5, <3>1, Zenon DEF CanAdd
  <2>8. /\ Good(U) /\ Told(Strings, U)
        /\ VarsPlaced(U, prog.vars, n + 1, dataOffset, e) /\ Defined(U, prog, Names, n + 1, 0, TRUE)
    BY <1>2, <2>6, <2>7, VarDone, Zenon
  <2>9. Len(strInfos) = Len(Upto(VarTexts)[at])
    <3>1. Len(strInfos) = Len(Upto(VarTexts)[n]) BY <1>2, Zenon DEF VarsSoFar
    <3> DEFINE base == Len(Upto(VarTexts)[n])
               X    == StrParts(Given(d))
    <3>2. /\ base \in Nat /\ Len(Upto(VarTexts)[at]) = base + Len(Joined(X))
      BY <1>2, VarAhead, Zenon
    <3>3. d.given # "list" BY <1>3
    <3>4. Given(d) = <<>> BY <1>2, <3>3, GivenIs, Zenon
    <3>5. Len(Joined(X)) = 0
      <4>1. Given(d) \in Seq(Items) BY <1>2, GivenIs, Zenon
      <4>2. Len(<<>>) = 0 /\ 0 \in Nat OBVIOUS
      <4>3. Len(X) = 0 BY <3>4, <4>1, <4>2, StrPartsAre, Zenon
      <4>4. Joined(X) = Upto(X)[0] /\ Upto(X)[0] = <<>> BY <4>2, <4>3, UptoAre, Zenon
      <4> QED BY <4>2, <4>4, Zenon
    <3> HIDE DEF base
    <3>6. base + 0 = base BY <3>2
    <3> QED BY <3>1, <3>2, <3>5, <3>6, Zenon DEF base
  <2>10. Len(dataRels) = Len(strInfos) BY <1>2, Zenon DEF VarsSoFar
  <2>11. /\ UNCHANGED <<prog, pc, use, begin, code, rels, used>> /\ at' = at + 1
         /\ dataOffset' \in Nat /\ bssOffset' \in Nat
         /\ Len(data') <= dataOffset' /\ Len(dataRels') = Len(strInfos')
         /\ Len(strInfos') = Len(Upto(VarTexts)[at])
    BY <1>2, <2>1, <2>5, <2>9, <2>10 DEF e
  <2>12. Good(Now') /\ Told(Strings, Now') /\ VarsPlaced(Now', prog.vars, (at - 1) + 1, dataOffset', bssOffset')
         /\ Defined(Now', prog, Names, (at - 1) + 1, 0, TRUE)
    BY <2>1, <2>3, <2>8, Zenon DEF e
  <2> QED BY <1>2, <1>4, <2>11, <2>12, VarsGoOn, Zenon
<1> QED BY <1>5, <1>6, Zenon

-----------------------------------------------------------------------------
(* What the tables are behind the initialiser of a variable. *)
Behind(d)    == EmitInit(PaddedTo(Now, Up(dataOffset, 8)), Node(d))
Finished(T, d, off) ==
  /\ data' = T.data /\ dataRels' = T.rels /\ pool' = T.pool /\ strInfos' = T.strs
  /\ dataOffset' = off + Node(d).ival
  /\ syms' = Append(T.syms, Symbol(Node(d).name, off, Node(d).ival, 3))
  /\ at' = at + 1
  /\ UNCHANGED <<prog, pc, use, begin, bssOffset, code, rels, used>>

(* InitialisedVar, by the tables behind the initialiser. *)
LEMMA InitialisedIs ==
  ASSUME InitialisedVar
  PROVE  LET d == prog.vars[at]
         IN  /\ AtVar /\ Node(d).expr
             /\ IF Behind(d).failed \/ Len(Behind(d).syms) >= MAX_SYMS THEN Fail
                ELSE Finished(Behind(d), d, Up(dataOffset, 8))
<1>1. AtVar /\ Node(prog.vars[at]).expr /\ Initialised(Node(prog.vars[at])) BY Zenon DEF InitialisedVar
<1>2. PaddedTo(Now, Up(dataOffset, 8))
        = [data |-> PadTo(data, Up(dataOffset, 8)), rels |-> dataRels, syms |-> syms,
           pool |-> pool, strs |-> strInfos, bytes |-> 0, idx |-> 0, failed |-> FALSE]
  BY NowIs, Zenon DEF PaddedTo
<1> QED BY <1>1, <1>2, Zenon DEF Initialised, Behind, Finished

(* Strings change nothing of the names. *)
LEMMA DefinedLater ==
  ASSUME NEW R, R \in Sections, NEW T, T \in Sections, Extends(R.syms, T.syms),
         \A i \in Len(R.syms) + 1 .. Len(T.syms) : Strung(T.syms[i]),
         NEW p, NEW names, NEW n, NEW m, NEW all, Defined(R, p, names, n, m, all)
  PROVE  Defined(T, p, names, n, m, all)
<1>1. SUFFICES ASSUME NEW i \in 1 .. Len(T.syms), ~Strung(T.syms[i])
      PROVE  /\ T.syms[i].name \in names
             /\ all \/ T.syms[i].shndx # 0 => \/ \E v \in 1 .. n : T.syms[i].name = p.vars[v].name
                                              \/ \E f \in 1 .. m : T.syms[i].name = p.funcs[f].name
  BY Zenon DEF Defined
<1>2. Len(R.syms) \in Nat /\ Len(T.syms) \in Nat BY LaterParts, Zenon
<1>3. i \in 1 .. Len(R.syms) \/ i \in Len(R.syms) + 1 .. Len(T.syms) BY <1>1, <1>2, SMT
<1>4. i \in 1 .. Len(R.syms) /\ T.syms[i] = R.syms[i] BY <1>1, <1>3, Zenon DEF Extends
<1> QED BY <1>1, <1>4, Zenon DEF Defined

-----------------------------------------------------------------------------
(* The tables behind an initialiser, and where it fails. *)
LEMMA BehindIs ==
  ASSUME Whole, Hyp, AtVar, NEW d, d = prog.vars[at]
  PROVE  LET off == Up(dataOffset, 8)
             T   == Behind(d)
         IN  /\ off \in Nat /\ dataOffset <= off
             /\ T.failed => OutOfRoom
             /\ ~T.failed =>
                  /\ Good(T) /\ Told(Strings, T) /\ Later(Now, T, off) /\ VarHeld(T, off, d)
                  /\ Len(T.data) <= off + Node(d).ival
                  /\ Len(T.rels) = Len(T.strs) /\ Len(T.strs) = Len(Upto(VarTexts)[at])
<1> DEFINE off   == Up(dataOffset, 8)
           R0    == PaddedTo(Now, off)
           T     == EmitInit(R0, Node(d))
           node  == Node(d)
           items == node.items
           E     == Emitted(R0, node)[Len(items)]
           base  == Len(Upto(VarTexts)[at - 1])
           X     == StrParts(Given(d))
<1>1. /\ prog \in Programs /\ VarsSoFar /\ Good(Now) /\ Now \in Sections /\ Told(Strings, Now)
      /\ Defined(Now, prog, Names, at - 1, 0, TRUE) /\ at \in 1 .. Len(prog.vars)
      /\ dataOffset \in Nat /\ Len(data) \in Nat /\ Len(data) <= dataOffset /\ IsVar(d) /\ Described(d)
  BY BeforeVar, Zenon
<1>2. off \in Nat /\ dataOffset <= off /\ Len(Now.data) <= off
  <2>1. off \in Nat /\ off >= dataOffset BY <1>1, Up8, Zenon
  <2>2. Now.data = data BY NowIs, Zenon
  <2> HIDE DEF off
  <2> QED BY <1>1, <2>1, <2>2, SMT
<1>3. T = Behind(d) BY Zenon DEF Behind
<1> HIDE DEF off
<1>4. /\ Good(R0) /\ Later(Now, R0, off) /\ Len(R0.data) = off /\ R0.bytes = 0 /\ R0.idx = 0
      /\ R0.rels = Now.rels /\ R0.syms = Now.syms /\ R0.pool = Now.pool /\ R0.strs = Now.strs
  BY <1>1, <1>2, PaddedGood, Zenon
<1> HIDE DEF R0
<1>5. /\ T.failed = E.failed /\ T.strs = E.strs /\ T.pool = E.pool /\ T.syms = E.syms /\ T.rels = E.rels
      /\ E \in Sections /\ (~T.failed => InitDone(R0, T, d))
  BY <1>1, <1>4, InitEmitted, ZenonT(30)
<1>6. /\ Ahead(Strings, base, X) /\ base \in Nat /\ base + Len(Joined(X)) <= Len(InVars)
      /\ Len(Upto(VarTexts)[at]) = base + Len(Joined(X)) /\ Texts(Given(d)) = Joined(X)
  BY <1>1, VarAhead, Zenon
<1>7. items = Given(d) /\ items \in Seq(Items) /\ node.elem \in Nat BY <1>1, ItemsAre, Zenon
<1>8. Len(R0.rels) = Len(R0.strs) /\ Len(R0.strs) = base
  <2>1. Len(dataRels) = Len(strInfos) /\ Len(strInfos) = base BY <1>1, Zenon DEF VarsSoFar
  <2> QED BY <1>4, <2>1, NowIs, Zenon
<1>9. Told(Strings, R0) BY <1>1, <1>4, Zenon DEF Told
<1>10. Strings \in Seq(Seq(Nat)) /\ Len(InVars) \in Nat /\ IsFiniteSet(Names) BY <1>1, StringsAre, NamesFinite, Zenon
<1>11. Others(R0.syms) \subseteq Names
  <2>1. Others(Now.syms) \subseteq Names BY <1>1, NoNames, Zenon
  <2> QED BY <1>4, <2>1, Zenon
<1>12. IF E.failed THEN Overfull(Strings, Names) \/ Len(InVars) > ELF_MAX_RELS
       ELSE Told(Strings, E) /\ Len(E.strs) = Len(R0.strs) + Len(Texts(items))
  <2>1. Ahead(Strings, Len(R0.strs), StrParts(items)) BY <1>6, <1>7, <1>8, Zenon
  <2>2. Len(R0.strs) + Len(Texts(items)) <= Len(InVars) BY <1>6, <1>7, <1>8, Zenon
  <2> HIDE DEF node, E, T, base, X
  <2>3. CanEmit(Strings, Names, R0, node, Len(InVars))
    <3>1. Good(R0) /\ Len(R0.rels) = Len(R0.strs) BY <1>4, <1>8, Zenon
    <3>2. node.elem \in Nat /\ node.items \in Seq(Items) BY <1>7, Zenon
    <3>3. Ahead(Strings, Len(R0.strs), StrParts(node.items)) /\ Len(R0.strs) + Len(Texts(node.items)) <= Len(InVars)
      BY <2>1, <2>2, Zenon
    <3>4. Told(Strings, R0) /\ Others(R0.syms) \subseteq Names BY <1>9, <1>11, Zenon
    <3> QED BY <3>1, <3>2, <3>3, <3>4, <1>10, Zenon DEF CanEmit
  <2>4. EmitEnds(Strings, Names, R0, node, Len(InVars), Emitted(R0, node)[Len(node.items)])
    BY <2>3, EmitsTold, Zenon
  <2> QED BY <2>4, Zenon DEF E, EmitEnds
<1> HIDE DEF T, E, base, X
<1>13. T.failed => OutOfRoom
  <2>1. SUFFICES ASSUME T.failed PROVE OutOfRoom OBVIOUS
  <2>2. E.failed BY <1>5, <2>1
  <2>3. Overfull(Strings, Names) \/ Len(InVars) > ELF_MAX_RELS BY <1>12, <2>2, Zenon
  <2> QED BY <2>3, OverOut, Zenon DEF OutOfRoom
<1>14. ASSUME ~T.failed
       PROVE  /\ Good(T) /\ Told(Strings, T) /\ Later(Now, T, off) /\ VarHeld(T, off, d)
              /\ Len(T.data) <= off + node.ival
              /\ Len(T.rels) = Len(T.strs) /\ Len(T.strs) = Len(Upto(VarTexts)[at])
  <2>1. /\ Good(T) /\ Later(R0, T, off) /\ Len(T.data) <= off + node.ival /\ VarHeld(T, off, d)
    BY <1>4, <1>5, <1>14, Zenon DEF InitDone, node
  <2>2. ~E.failed BY <1>5, <1>14
  <2>3. Told(Strings, E) /\ Len(E.strs) = Len(R0.strs) + Len(Texts(items)) BY <1>12, <2>2, Zenon
  <2>4. Told(Strings, T) BY <1>5, <2>3, Zenon DEF Told
  <2>5. Later(Now, T, off)
    <3>1. T \in Sections /\ R0 \in Sections BY <1>4, <2>1, Zenon DEF Good
    <3>2. off <= off BY <1>2
    <3> QED BY <1>1, <1>2, <1>4, <2>1, <3>1, <3>2, LaterBeyond, Zenon
  <2>6. Len(T.rels) = Len(T.strs)
    <3>1. Len(T.rels) + Len(R0.strs) = Len(R0.rels) + Len(T.strs) BY <2>1, Zenon DEF Later
    <3>2. T \in Sections BY <2>1, Zenon DEF Good
    <3>3. Len(T.rels) \in Nat /\ Len(T.strs) \in Nat BY <3>2, LaterParts, Zenon
    <3>4. Len(T.rels) + base = base + Len(T.strs) BY <1>8, <3>1, Zenon
    <3> QED BY <1>6, <3>3, <3>4, SumsSame, Zenon
  <2>7. Len(T.strs) = Len(Upto(VarTexts)[at])
    <3>1. Len(T.strs) = base + Len(Joined(X)) BY <1>5, <1>6, <1>7, <1>8, <2>3, Zenon
    <3> QED BY <1>6, <3>1, Zenon
  <2> QED BY <2>1, <2>4, <2>5, <2>6, <2>7, Zenon
<1> QED BY <1>2, <1>3, <1>13, <1>14, Zenon DEF off

-----------------------------------------------------------------------------
(* A variable with an initialiser. *)
LEMMA InitialisedVarKeeps ==
  ASSUME Whole, Hyp, InitialisedVar
  PROVE  Whole'
<1> DEFINE d   == prog.vars[at]
           off == Up(dataOffset, 8)
           T   == Behind(d)
           n   == at - 1
           y   == Symb(d, off)
           U   == Adding(T, d, off)
           e   == off + Node(d).ival
<1>1. /\ AtVar /\ Node(d).expr
      /\ IF T.failed \/ Len(T.syms) >= MAX_SYMS THEN Fail ELSE Finished(T, d, off)
  BY InitialisedIs, Zenon
<1>2. /\ prog \in Programs /\ pc = "vars" /\ VarsSoFar /\ Agreed /\ Distinct
      /\ Good(Now) /\ Now \in Sections
      /\ VarsPlaced(Now, prog.vars, n, dataOffset, bssOffset) /\ Defined(Now, prog, Names, n, 0, TRUE)
      /\ n \in Nat /\ n + 1 = at /\ at \in 1 .. Len(prog.vars)
      /\ dataOffset \in Nat /\ bssOffset \in Nat /\ IsVar(d) /\ Described(d)
  BY <1>1, BeforeVar, Zenon
<1>3. d.given # "none" /\ Node(d).name = d.name /\ Node(d).ival \in Nat
  <2>1. Node(d).expr = (d.given # "none") /\ Node(d).name = d.name /\ Node(d).ival \in Nat
    BY <1>2, NodeIs, GivenIs, Zenon
  <2> QED BY <1>1, <2>1, Zenon
<1>4. at <= Len(prog.vars) /\ n + 1 <= Len(prog.vars) BY <1>1, <1>2, Zenon DEF AtVar
<1>5. /\ off \in Nat /\ dataOffset <= off
      /\ T.failed => OutOfRoom
      /\ ~T.failed =>
           /\ Good(T) /\ Told(Strings, T) /\ Later(Now, T, off) /\ VarHeld(T, off, d)
           /\ Len(T.data) <= off + Node(d).ival
           /\ Len(T.rels) = Len(T.strs) /\ Len(T.strs) = Len(Upto(VarTexts)[at])
  BY <1>1, BehindIs, Zenon
<1> HIDE DEF off, T
<1>6. CASE T.failed
  <2>1. Fail BY <1>1, <1>6
  <2> QED BY <1>5, <1>6, <2>1, Fails, Zenon
<1>7. CASE ~T.failed
  <2>1. /\ Good(T) /\ Told(Strings, T) /\ Later(Now, T, off) /\ VarHeld(T, off, d)
        /\ Len(T.data) <= off + Node(d).ival
        /\ Len(T.rels) = Len(T.strs) /\ Len(T.strs) = Len(Upto(VarTexts)[at])
    BY <1>5, <1>7, Zenon
  <2>2. T \in Sections /\ Unique(T.syms) BY <2>1, Zenon DEF Good, Tables
  <2>3. Extends(Now.syms, T.syms) /\ \A i \in Len(Now.syms) + 1 .. Len(T.syms) : Strung(T.syms[i])
    BY <2>1, Zenon DEF Later
  <2>4. Defined(T, prog, Names, n, 0, TRUE) BY <1>2, <2>2, <2>3, DefinedLater, Zenon
  <2>5. VarsPlaced(T, prog.vars, n, dataOffset, bssOffset)
    <3>1. n \in 0 .. Len(prog.vars)
      <4>1. Len(prog.vars) \in Nat BY <1>2, ProgIs, Zenon
      <4> QED BY <1>2, <1>4, <4>1, SMT
    <3>2. SomeVars(prog.vars, n) BY <1>2, <3>1, VarsSome, Zenon
    <3>3. Keeps(Now.syms, T.syms) BY <2>3, ExtendsKeeps, Zenon
    <3>4. dataOffset <= dataOffset /\ bssOffset <= bssOffset BY <1>2, ZeroUp, Zenon
    <3> QED BY <1>2, <1>5, <2>1, <2>2, <3>2, <3>3, <3>4, VarsKeptLater, Zenon
  <2>6. CASE Len(T.syms) >= MAX_SYMS
    <3>1. Fail BY <1>1, <2>6, Zenon
    <3>2. OutOfRoom BY <1>2, <1>4, <2>1, <2>4, <2>6, NoRoomForVar, Zenon
    <3> QED BY <3>1, <3>2, Fails, Zenon
  <2>7. CASE ~(Len(T.syms) >= MAX_SYMS)
    <3>1. Finished(T, d, off) BY <1>1, <1>7, <2>7, Zenon
    <3>2. /\ data' = T.data /\ dataRels' = T.rels /\ pool' = T.pool /\ strInfos' = T.strs
          /\ dataOffset' = e /\ bssOffset' = bssOffset /\ at' = at + 1
          /\ syms' = Append(T.syms, Symbol(Node(d).name, off, Node(d).ival, 3))
          /\ UNCHANGED <<prog, pc, use, begin, code, rels, used>>
      BY <3>1, Zenon DEF Finished
    <3>3. Symbol(Node(d).name, off, Node(d).ival, 3) = y BY <1>3, Zenon DEF Symb
    <3>4. Now' = U
      <4>1. syms' = Append(T.syms, y) BY <3>2, <3>3, Zenon
      <4> HIDE DEF y
      <4> QED BY <3>2, <4>1, Zenon DEF Now, With, Adding, y
    <3>5. e \in Nat /\ dataOffset <= e /\ bssOffset <= bssOffset /\ e <= e BY <1>2, <1>3, <1>5, SMT
    <3>6. PlaceFits(T, d, off, dataOffset, bssOffset, e, bssOffset)
      BY <1>3, <1>5, <2>1, <3>5, Zenon DEF PlaceFits, e
    <3> HIDE DEF e
    <3>7. CanAdd(T, n, d, off, dataOffset, bssOffset, e, bssOffset)
      <4>1. d = prog.vars[n + 1] BY <1>2, Zenon
      <4> QED BY <1>2, <1>4, <1>5, <2>1, <2>4, <2>5, <3>5, <4>1, Zenon DEF CanAdd
    <3> HIDE DEF U
    <3>8. /\ Good(U) /\ Told(Strings, U)
          /\ VarsPlaced(U, prog.vars, n + 1, e, bssOffset) /\ Defined(U, prog, Names, n + 1, 0, TRUE)
      BY <1>2, <3>6, <3>7, VarDone, Zenon DEF U
    <3>9. /\ dataOffset' \in Nat /\ bssOffset' \in Nat /\ Len(data') <= dataOffset'
          /\ Len(dataRels') = Len(strInfos') /\ Len(strInfos') = Len(Upto(VarTexts)[at])
      BY <1>2, <2>1, <3>2, <3>5, Zenon DEF e
    <3>10. Good(Now') /\ Told(Strings, Now') /\ VarsPlaced(Now', prog.vars, (at - 1) + 1, dataOffset', bssOffset')
           /\ Defined(Now', prog, Names, (at - 1) + 1, 0, TRUE)
      BY <3>2, <3>4, <3>8, Zenon
    <3> QED BY <1>2, <1>4, <3>2, <3>9, <3>10, VarsGoOn, Zenon
  <2> QED BY <2>6, <2>7, Zenon
<1> QED BY <1>6, <1>7, Zenon

-----------------------------------------------------------------------------
(* In a function: what the steps ask. *)
LEMMA BeforeFunc ==
  ASSUME Whole, Hyp, AtFunc
  PROVE  /\ prog \in Programs /\ pc = "funcs" /\ FuncsSoFar /\ Core /\ Agreed /\ Distinct
         /\ Good(Now) /\ Now \in Sections /\ Told(Strings, Now) /\ Tables(Now.strs, Now.syms)
         /\ CodePlaced(Now, Len(code), rels, used)
         /\ VarsPlaced(Now, prog.vars, Len(prog.vars), dataOffset, bssOffset)
         /\ SomeVars(prog.vars, Len(prog.vars))
         /\ Defined(Now, prog, Names, Len(prog.vars), at - 1, FALSE)
         /\ at \in Nat /\ at - 1 \in Nat /\ at \in 1 .. Len(prog.funcs) /\ use \in Nat
         /\ dataOffset \in Nat /\ bssOffset \in Nat /\ Len(code) \in Nat /\ begin \in Nat /\ begin <= Len(code)
         /\ code \in Seq(Nat) /\ rels \in Seq(Relocs) /\ Len(rels) \in Nat
         /\ IsFunc(Func) /\ Len(Func.uses) \in Nat /\ DOMAIN Func.uses = 1 .. Len(Func.uses)
<1>1. pc = "funcs" /\ at <= Len(prog.funcs) BY Zenon DEF AtFunc
<1>2. FuncsSoFar /\ prog \in Programs BY <1>1, Zenon DEF Whole
<1>3. Core /\ VarsPlaced(Now, prog.vars, Len(prog.vars), dataOffset, bssOffset)
      /\ Defined(Now, prog, Names, Len(prog.vars), at - 1, FALSE)
  BY <1>2, Zenon DEF FuncsSoFar
<1>4. Good(Now) /\ Told(Strings, Now) /\ dataOffset \in Nat /\ bssOffset \in Nat /\ at \in Nat \ {0}
      /\ use \in Nat /\ begin \in Nat /\ begin <= Len(code) /\ code \in Seq(Nat) /\ rels \in Seq(Relocs)
      /\ CodePlaced(Now, Len(code), rels, used)
  BY <1>3, Zenon DEF Core
<1>5. at \in Nat /\ at - 1 \in Nat /\ at \in 1 .. Len(prog.funcs)
  <2>1. Len(prog.funcs) \in Nat BY <1>2, ProgIs, Zenon
  <2> QED BY <1>1, <1>4, <2>1, SMT
<1>6. IsFunc(Func) BY <1>2, <1>5, ProgIs, Zenon DEF Func
<1>7. Len(Func.uses) \in Nat /\ DOMAIN Func.uses = 1 .. Len(Func.uses) BY <1>6, UsesAre, Zenon
<1>8. Len(code) \in Nat /\ Len(rels) \in Nat BY <1>4, LenNat, Zenon
<1>9. SomeVars(prog.vars, Len(prog.vars))
  <2>1. Len(prog.vars) \in Nat BY <1>2, ProgIs, Zenon
  <2>2. Len(prog.vars) \in 0 .. Len(prog.vars) BY <2>1, ZeroUp, Zenon
  <2> QED BY <1>2, <2>2, VarsSome, Zenon DEF Hyp
<1> QED BY <1>1, <1>2, <1>3, <1>4, <1>5, <1>6, <1>7, <1>8, <1>9, Zenon DEF Good, Hyp

(* The functions go on. *)
LEMMA FuncsGoOn ==
  ASSUME Whole, pc = "funcs", UNCHANGED <<prog, pc, data, dataOffset, bssOffset, dataRels>>,
         at' \in Nat \ {0}, use' \in Nat, begin' \in Nat, begin' <= Len(code'),
         code' \in Seq(Nat), rels' \in Seq(Relocs), Good(Now'), Told(Strings, Now'),
         CodePlaced(Now', Len(code'), rels', used'), at' - 1 <= Len(prog.funcs),
         use' > 0 => at' <= Len(prog.funcs) /\ use' <= Len(prog.funcs[at'].uses) + 1,
         Len(strInfos') = Before(at', use'),
         Len(rels') <= Len(Upto(FuncUses)[at' - 1]) + IF use' = 0 THEN 0 ELSE use' - 1,
         VarsPlaced(Now', prog.vars, Len(prog.vars), dataOffset, bssOffset),
         Defined(Now', prog, Names, Len(prog.vars), at' - 1, FALSE)
  PROVE  Whole'
<1>1. FuncsSoFar /\ prog \in Programs BY Zenon DEF Whole
<1>2. Core /\ Len(data) = dataOffset BY <1>1, Zenon DEF FuncsSoFar
<1>3. Strings' = Strings /\ Names' = Names /\ FuncUses' = FuncUses BY SameProg, SMT
<1>4. /\ prog' = prog /\ pc' = "funcs" /\ data' = data /\ dataOffset' = dataOffset /\ bssOffset' = bssOffset
      /\ dataRels' = dataRels
  OBVIOUS
<1>5. Core'
  <2>1. dataOffset \in Nat /\ bssOffset \in Nat BY <1>2, Zenon DEF Core
  <2> QED BY <1>3, <1>4, <2>1, Zenon DEF Core
<1>6. Before(at, use)' = Before(at', use') BY <1>4, BeforeNext, Zenon
<1>7. FuncsSoFar' BY <1>2, <1>3, <1>4, <1>5, <1>6, Zenon DEF FuncsSoFar
<1>8. Len(data') \in Nat /\ dataOffset' \in Nat /\ Len(data') <= dataOffset'
  <2>1. Len(data) \in Nat /\ dataOffset \in Nat /\ Len(data) <= dataOffset BY Zenon DEF Whole
  <2> QED BY <1>4, <2>1, Zenon
<1> QED BY <1>1, <1>4, <1>7, <1>8, SMT DEF Whole

-----------------------------------------------------------------------------
(* The tables T have all that is in R, the data being the same. *)
Kept(R, T) ==
  /\ Good(T) /\ Told(Strings, T) /\ Extends(R.strs, T.strs) /\ Extends(R.pool, T.pool)
  /\ Keeps(R.syms, T.syms) /\ SameNames(R.syms, T.syms) /\ T.data = R.data /\ T.rels = R.rels

(* An instruction has some bytes. *)
LEMMA OpcodeIs ==
  ASSUME NEW op \in {"call", "var", "str"}
  PROVE  Opcode(op) \in Nat /\ Opcode(op) + 4 \in Nat
<1>1. op = "call" \/ op = "var" \/ op = "str" OBVIOUS
<1>2. CASE op = "call" BY <1>2 DEF Opcode
<1>3. CASE op = "var" BY <1>3 DEF Opcode
<1>4. CASE op = "str" BY <1>4 DEF Opcode
<1> QED BY <1>1, <1>2, <1>3, <1>4, Zenon

(* What the code of a use is. *)
LEMMA UsePlaced ==
  ASSUME code \in Seq(Nat), NEW op \in {"call", "var", "str"}, Placed(op)
  PROVE  /\ code' \in Seq(Nat) /\ Len(code') \in Nat /\ Len(code) \in Nat /\ Len(code) <= Len(code')
         /\ Len(code) + Opcode(op) \in Nat /\ Len(code) <= Len(code) + Opcode(op)
         /\ Len(code) + Opcode(op) < Len(code')
         /\ used' = used \cup {[off |-> Len(code) + Opcode(op), use |-> Func.uses[use]]}
         /\ use' = use + 1
<1>1. Opcode(op) \in Nat /\ Opcode(op) + 4 \in Nat BY OpcodeIs, Zenon
<1>2. /\ code' = code \o Zeros(Opcode(op) + 4) /\ use' = use + 1
      /\ used' = used \cup {[off |-> Len(code) + Opcode(op), use |-> Func.uses[use]]}
  BY Zenon DEF Placed
<1>3. 0 \in Nat /\ Len(code) \in Nat OBVIOUS
<1> DEFINE m == Opcode(op) + 4
<1>4. /\ code \o Zeros(m) \in Seq(Nat)
      /\ Len(code \o Zeros(m)) = Len(code) + (IF m > 0 THEN m ELSE 0)
  <2>1. m \in Int BY <1>1
  <2> HIDE DEF m
  <2> QED BY <1>3, <2>1, WithZeros, Zenon
<1>5. Len(code') = Len(code) + (Opcode(op) + 4)
  <2>1. m > 0 BY <1>1
  <2>2. Len(code') = Len(code) + m BY <1>2, <1>4, <2>1, Zenon
  <2> QED BY <2>2
<1>6. code' \in Seq(Nat) BY <1>2, <1>4, Zenon
<1>7. /\ Len(code') \in Nat /\ Len(code) <= Len(code') /\ Len(code) + Opcode(op) \in Nat
      /\ Len(code) <= Len(code) + Opcode(op) /\ Len(code) + Opcode(op) < Len(code')
  BY <1>1, <1>3, <1>5, SMT
<1> QED BY <1>2, <1>3, <1>6, <1>7, Zenon

(* A use is done. *)
LEMMA UseDone ==
  ASSUME Whole, Hyp, AtFunc, use \in DOMAIN Func.uses, NEW op \in {"call", "var", "str"},
         Placed(op), UNCHANGED <<prog, pc, at, begin, data, dataOffset, bssOffset, dataRels>>,
         Kept(Now, Now'), Defined(Now', prog, Names, Len(prog.vars), at - 1, FALSE),
         Len(strInfos') = Before(at, use + 1),
         \/ rels' = rels /\ (~(Len(rels) < MAX_RELS) \/ ~(Len(Now'.syms) < MAX_SYMS))
         \/ \E i \in Nat : rels' = Append(rels, Reloc(op, i)) /\ Meant(Now', i, Func.uses[use])
  PROVE  Whole'
<1> DEFINE o  == Len(code) + Opcode(op)
           u  == Func.uses[use]
           T  == Now'
           nv == Len(prog.vars)
<1>1. /\ prog \in Programs /\ pc = "funcs" /\ FuncsSoFar /\ Core
      /\ Good(Now) /\ Now \in Sections
      /\ CodePlaced(Now, Len(code), rels, used)
      /\ VarsPlaced(Now, prog.vars, nv, dataOffset, bssOffset) /\ SomeVars(prog.vars, nv)
      /\ at \in Nat /\ at - 1 \in Nat /\ at \in 1 .. Len(prog.funcs) /\ use \in Nat
      /\ dataOffset \in Nat /\ bssOffset \in Nat /\ Len(code) \in Nat /\ begin \in Nat /\ begin <= Len(code)
      /\ code \in Seq(Nat) /\ rels \in Seq(Relocs) /\ Len(rels) \in Nat
      /\ IsFunc(Func) /\ Len(Func.uses) \in Nat /\ DOMAIN Func.uses = 1 .. Len(Func.uses)
  BY BeforeFunc, Zenon
<1>2. /\ code' \in Seq(Nat) /\ Len(code') \in Nat /\ Len(code) <= Len(code')
      /\ o \in Nat /\ Len(code) <= o /\ o < Len(code')
      /\ used' = used \cup {[off |-> o, use |-> u]} /\ use' = use + 1
  BY <1>1, UsePlaced, Zenon
<1>3. /\ Good(T) /\ Told(Strings, T) /\ Extends(Now.strs, T.strs) /\ Extends(Now.pool, T.pool)
      /\ Keeps(Now.syms, T.syms) /\ SameNames(Now.syms, T.syms) /\ T.data = Now.data /\ T.rels = Now.rels
  BY Zenon DEF Kept
<1>4. T \in Sections /\ Unique(T.syms) BY <1>3, Zenon DEF Good, Tables
<1>5. use \in 1 .. Len(Func.uses) /\ IsUse(u) BY <1>1, UsesAre, Zenon
<1>6. prog' = prog /\ pc' = pc /\ at' = at /\ begin' = begin OBVIOUS
<1> HIDE DEF T, o, u
<1>7. CodePlaced(T, Len(code), rels, used)
  <2>1. Len(code) <= Len(code) BY <1>1, ZeroUp, Zenon
  <2> QED BY <1>1, <1>3, <1>4, <2>1, CodeKept, Zenon
<1>8. CodePlaced(T, Len(code'), rels', used') /\ rels' \in Seq(Relocs) /\ Len(rels') \in Nat /\ Len(rels') <= Len(rels) + 1
  <2>1. CASE rels' = rels /\ (~(Len(rels) < MAX_RELS) \/ ~(Len(T.syms) < MAX_SYMS))
    <3>1. CodePlaced(T, Len(code'), rels, used \cup {[off |-> o, use |-> u]})
      BY <1>1, <1>2, <1>5, <1>7, <2>1, CodeFull, Zenon
    <3>2. Len(rels) <= Len(rels) + 1 BY <1>1
    <3> QED BY <1>1, <1>2, <2>1, <3>1, <3>2, Zenon
  <2>2. CASE \E i \in Nat : rels' = Append(rels, Reloc(op, i)) /\ Meant(T, i, u)
    <3>1. PICK i \in Nat : rels' = Append(rels, Reloc(op, i)) /\ Meant(T, i, u) BY <2>2, Zenon
    <3>2. Reloc(op, i) = [off |-> o, sym |-> i] BY Zenon DEF Reloc, o
    <3>3. CodePlaced(T, Len(code'), Append(rels, [off |-> o, sym |-> i]), used \cup {[off |-> o, use |-> u]})
      BY <1>1, <1>2, <1>5, <1>7, <3>1, CodeMore, Zenon
    <3>4. [off |-> o, sym |-> i] \in Relocs BY <1>2 DEF Relocs
    <3> DEFINE r == [off |-> o, sym |-> i]
    <3> HIDE DEF r
    <3>5. r \in Relocs => Append(rels, r) \in Seq(Relocs) /\ Len(Append(rels, r)) = Len(rels) + 1 BY <1>1
    <3>6. Len(rels) + 1 \in Nat /\ Len(rels) + 1 <= Len(rels) + 1 BY <1>1
    <3>7. rels' = Append(rels, r) BY <3>1, <3>2, Zenon DEF r
    <3>8. CodePlaced(T, Len(code'), rels', used') BY <1>2, <3>3, <3>7, Zenon DEF r
    <3> QED BY <3>4, <3>5, <3>6, <3>7, <3>8, Zenon DEF r
  <2>3. \/ rels' = rels /\ (~(Len(rels) < MAX_RELS) \/ ~(Len(T.syms) < MAX_SYMS))
        \/ \E i \in Nat : rels' = Append(rels, Reloc(op, i)) /\ Meant(T, i, u)
    BY Zenon DEF T, u
  <2> QED BY <2>1, <2>2, <2>3, Zenon
<1>9. VarsPlaced(T, prog.vars, nv, dataOffset, bssOffset)
  <2>1. dataOffset <= dataOffset /\ bssOffset <= bssOffset BY <1>1, ZeroUp, Zenon
  <2> QED BY <1>1, <1>3, <1>4, <2>1, VarsKeptMore, Zenon
<1>10. begin <= Len(code') BY <1>1, <1>2, SMT
<1>11. at \in Nat \ {0} /\ at - 1 <= Len(prog.funcs) /\ at <= Len(prog.funcs)
  <2> DEFINE m == Len(prog.funcs)
  <2>1. at \in 1 .. m /\ m \in Nat BY <1>1, ProgIs, Zenon
  <2> HIDE DEF m
  <2>2. at \in Nat \ {0} /\ at - 1 <= m /\ at <= m BY <2>1, SMT
  <2> QED BY <2>2, Zenon DEF m
<1>12. use + 1 \in Nat /\ use + 1 > 0 /\ use + 1 <= Len(Func.uses) + 1 /\ ~(use + 1 = 0) /\ (use + 1) - 1 = use
       /\ use > 0 /\ ~(use = 0)
  <2> DEFINE l == Len(Func.uses)
  <2>1. l \in Nat /\ use \in 1 .. l /\ use \in Nat BY <1>1, <1>5, Zenon
  <2> HIDE DEF l
  <2>2. use + 1 \in Nat /\ use + 1 > 0 /\ use + 1 <= l + 1 /\ ~(use + 1 = 0) /\ (use + 1) - 1 = use
        /\ use > 0 /\ ~(use = 0)
    BY <2>1, SMT
  <2> QED BY <2>2, Zenon DEF l
<1>13. Len(rels') <= Len(Upto(FuncUses)[at - 1]) + ((use + 1) - 1)
  <2> DEFINE b == Len(Upto(FuncUses)[at - 1])
  <2>1. Len(rels) <= b + (use - 1)
    <3>1. Len(rels) <= b + IF use = 0 THEN 0 ELSE use - 1 BY <1>1, Zenon DEF FuncsSoFar
    <3> QED BY <1>12, <3>1, Zenon
  <2>2. b \in Nat
    <3>1. FuncUses \in Seq(Seq(AllUses)) /\ Len(FuncUses) = Len(prog.funcs) BY <1>1, FuncUsesAre, Zenon
    <3>2. at - 1 \in 0 .. Len(prog.funcs) BY <1>1, <1>11, SMT
    <3>3. Upto(FuncUses)[at - 1] \in Seq(AllUses) BY <3>1, <3>2, UptoFacts, Zenon
    <3> QED BY <3>3, LenNat, Zenon
  <2> HIDE DEF b
  <2> DEFINE r == Len(rels)
             r1 == Len(rels')
  <2>3. r \in Nat /\ use \in Nat /\ r1 \in Nat /\ r1 <= r + 1 /\ r <= b + (use - 1) BY <1>1, <1>8, <2>1, Zenon
  <2> HIDE DEF r, r1
  <2>4. r1 <= b + ((use + 1) - 1) BY <2>2, <2>3, SMT
  <2> QED BY <2>4, Zenon DEF b, r1
<1>14. /\ Good(Now') /\ Told(Strings, Now') /\ CodePlaced(Now', Len(code'), rels', used')
       /\ VarsPlaced(Now', prog.vars, Len(prog.vars), dataOffset, bssOffset)
  BY <1>3, <1>8, <1>9, Zenon DEF T
<1>15. /\ at' \in Nat \ {0} /\ use' \in Nat /\ begin' \in Nat /\ begin' <= Len(code')
       /\ at' - 1 <= Len(prog.funcs)
  BY <1>1, <1>2, <1>6, <1>10, <1>11, <1>12, Zenon
<1>16. at' <= Len(prog.funcs) /\ use' <= Len(prog.funcs[at'].uses) + 1 BY <1>2, <1>6, <1>11, <1>12, Zenon DEF Func
<1>17. Len(strInfos') = Before(at', use') BY <1>2, <1>6, Zenon
<1>18. Len(rels') <= Len(Upto(FuncUses)[at' - 1]) + IF use' = 0 THEN 0 ELSE use' - 1
  BY <1>2, <1>6, <1>12, <1>13, Zenon
<1>19. Defined(Now', prog, Names, Len(prog.vars), at' - 1, FALSE) BY <1>6, Zenon
<1>20. UNCHANGED <<prog, pc, data, dataOffset, bssOffset, dataRels>> OBVIOUS
<1> QED BY <1>1, <1>2, <1>8, <1>14, <1>15, <1>16, <1>17, <1>18, <1>19, <1>20, FuncsGoOn, Zenon

-----------------------------------------------------------------------------
(* The next string of the file is added. *)
LEMMA StringAdded ==
  ASSUME prog \in Programs, NEW R, Good(R), Told(Strings, R), NEW s \in Seq(Nat),
         Len(R.strs) + 1 <= Len(Strings), Strings[Len(R.strs) + 1] = s, NEW T, T \in Sections,
         T.data = R.data, T.rels = R.rels, ~T.failed, T.pool = AddString(R, s).pool,
         T.syms = AddString(R, s).syms, T.strs = AddString(R, s).strs
  PROVE  /\ Kept(R, T) /\ Extends(R.syms, T.syms) /\ Len(T.strs) = Len(R.strs) + 1
         /\ \A i \in Len(R.syms) + 1 .. Len(T.syms) : Strung(T.syms[i])
         /\ Len(T.syms) \in 1 .. Len(T.syms) /\ Len(T.syms) \in Nat
         /\ Stands(T.strs, T.pool, Len(T.syms), s)
<1> DEFINE A == AddString(R, s)
<1>1. R \in Sections /\ Tables(R.strs, R.syms) /\ Inside(R) BY Zenon DEF Good
<1>2. StrsNamed(R.strs, R.syms) BY <1>1, Zenon DEF Tables
<1>3. /\ Extends(R.pool, A.pool) /\ Extends(R.syms, A.syms) /\ Extends(R.strs, A.strs)
      /\ Len(A.pool) = Len(R.pool) + Len(s) + 1
      /\ Len(A.syms) = Len(R.syms) + 1 /\ Len(A.strs) = Len(R.strs) + 1
      /\ A.syms[Len(A.syms)] = Symbol(<<"LC", Len(R.strs)>>, 0, Len(s) + 1, 1)
      /\ StrsNamed(A.strs, A.syms)
      /\ Stands(A.strs, A.pool, Len(A.syms), s)
  BY <1>1, <1>2, Added, Zenon
<1>4. /\ A.strs = Append(R.strs, [poolOffset |-> Len(R.pool), sym |-> Len(R.syms) + 1])
      /\ A.pool \in Seq(Nat) /\ A.syms \in Seq(Symbols) /\ A.strs \in Seq(StrInfos)
  BY <1>1, AddedParts, Zenon
<1> HIDE DEF A
<1>5. T.pool = A.pool /\ T.syms = A.syms /\ T.strs = A.strs BY Zenon DEF A
<1>6. /\ R.syms \in Seq(Symbols) /\ R.pool \in Seq(Nat) /\ R.strs \in Seq(StrInfos)
      /\ Len(R.syms) \in Nat /\ Len(R.strs) \in Nat /\ Len(R.pool) \in Nat
  BY <1>1, LaterParts, Zenon
<1>7. Tables(A.strs, A.syms)
  <2>1. A.strs[Len(A.strs)].sym = Len(A.syms)
    <3> DEFINE z == [poolOffset |-> Len(R.pool), sym |-> Len(R.syms) + 1]
    <3>1. z.sym = Len(R.syms) + 1 OBVIOUS
    <3> HIDE DEF z
    <3>2. A.strs = Append(R.strs, z) BY <1>4, Zenon DEF z
    <3>3. A.strs[Len(A.strs)] = z BY <1>6, <3>2
    <3> QED BY <1>3, <3>1, <3>3, Zenon
  <2>2. A.syms[Len(A.syms)].name = <<"LC", Len(R.strs)>>
    <3>1. \A x : Symbol(x, 0, Len(s) + 1, 1).name = x BY DEF Symbol
    <3> QED BY <1>3, <3>1, Zenon
  <2> QED BY <1>1, <1>3, <1>4, <1>6, <2>1, <2>2, AddedTables, Zenon
<1>8. Good(T)
  <2>1. Inside(T) BY <1>1, Zenon DEF Inside
  <2> QED BY <1>5, <1>7, <2>1, Zenon DEF Good
<1>9. Told(Strings, T)
  <2>1. Strings \in Seq(Seq(Nat)) BY StringsAre, Zenon
  <2>2. Len(T.strs) = Len(R.strs) + 1 BY <1>3, <1>5, Zenon
  <2>3. Len(T.pool) = Len(R.pool) + Len(Strings[Len(R.strs) + 1]) + 1 BY <1>3, <1>5, Zenon
  <2> QED BY <1>1, <2>1, <2>2, <2>3, ToldMore, Zenon
<1>10. Keeps(R.syms, T.syms) /\ SameNames(R.syms, T.syms) BY <1>3, <1>5, ExtendsKeeps, Zenon
<1>11. \A i \in Len(R.syms) + 1 .. Len(T.syms) : Strung(T.syms[i])
  <2> SUFFICES ASSUME NEW i \in Len(R.syms) + 1 .. Len(T.syms) PROVE Strung(T.syms[i]) OBVIOUS
  <2>1. Len(T.syms) = Len(R.syms) + 1 BY <1>3, <1>5, Zenon
  <2>2. i = Len(T.syms) BY <1>6, <2>1, SMT
  <2>3. \A n, o : Strung(Symbol(<<"LC", n>>, o, Len(s) + 1, 1)) BY DEF Strung, Symbol
  <2>4. Strung(Symbol(<<"LC", Len(R.strs)>>, 0, Len(s) + 1, 1)) BY <2>3, Zenon
  <2>5. T.syms[i] = Symbol(<<"LC", Len(R.strs)>>, 0, Len(s) + 1, 1) BY <1>3, <1>5, <2>2, Zenon
  <2> QED BY <2>4, <2>5, Zenon
<1>12. Len(T.syms) \in 1 .. Len(T.syms) /\ Len(T.syms) \in Nat
  <2>1. Len(T.syms) = Len(R.syms) + 1 BY <1>3, <1>5, Zenon
  <2> QED BY <1>6, <2>1, SMT
<1> QED BY <1>3, <1>5, <1>8, <1>9, <1>10, <1>11, <1>12, Zenon DEF Kept

(* A literal in a function. *)
LEMMA UseStringKeeps ==
  ASSUME Whole, Hyp, UseString
  PROVE  Whole'
<1> DEFINE u == Func.uses[use]
           s == u.s
           R == [pool |-> pool, syms |-> syms, strs |-> strInfos]
           A == AddString(R, s)
           B == AddString(Now, s)
           T == Now'
<1>1. AtUse("str") /\ AtFunc /\ use \in DOMAIN Func.uses /\ u.u = "str" BY Zenon DEF UseString, AtUse
<1>2. /\ prog \in Programs /\ pc = "funcs" /\ FuncsSoFar
      /\ Good(Now) /\ Now \in Sections /\ Told(Strings, Now) /\ Tables(Now.strs, Now.syms)
      /\ Defined(Now, prog, Names, Len(prog.vars), at - 1, FALSE)
      /\ at \in 1 .. Len(prog.funcs) /\ use \in Nat /\ rels \in Seq(Relocs) /\ Len(rels) \in Nat
      /\ IsFunc(Func) /\ DOMAIN Func.uses = 1 .. Len(Func.uses)
  BY <1>1, BeforeFunc, Zenon
<1>3. use \in 1 .. Len(Func.uses) /\ IsUse(u) /\ s \in Seq(Nat)
  <2>1. use \in 1 .. Len(Func.uses) /\ IsUse(u) BY <1>1, <1>2, UsesAre, Zenon
  <2> QED BY <2>1, Zenon DEF IsUse
<1>4. /\ Len(Now.strs) = Before(at, use) /\ Before(at, use) \in Nat
      /\ Before(at, use + 1) = Len(Now.strs) + 1 /\ Len(Now.strs) + 1 <= Len(Strings)
      /\ Strings[Len(Now.strs) + 1] = s
  <2>1. Len(Now.strs) = Before(at, use) BY <1>2, NowIs, Zenon DEF FuncsSoFar
  <2>2. use \in 1 .. Len(prog.funcs[at].uses) BY <1>3, Zenon DEF Func
  <2>3. LET v == prog.funcs[at].uses[use]
        IN  /\ Before(at, use) \in Nat
            /\ v.u = "str" => /\ Before(at, use + 1) = Before(at, use) + 1
                              /\ Before(at, use) + 1 <= Len(Strings)
                              /\ Strings[Before(at, use) + 1] = v.s
    BY <1>2, <2>2, LiteralAhead, Zenon
  <2> QED BY <1>1, <2>1, <2>3, Zenon DEF Func
<1>5. R.pool = Now.pool /\ R.syms = Now.syms /\ R.strs = Now.strs BY NowIs
<1>6. StringFits(R, s) = StringFits(Now, s) BY <1>5, Zenon DEF StringFits
<1>7. R \in Pools
  <2>1. Now.pool \in Seq(Nat) /\ Now.syms \in Seq(Symbols) /\ Now.strs \in Seq(StrInfos) BY <1>2, LaterParts, Zenon
  <2>2. pool \in Seq(Nat) /\ syms \in Seq(Symbols) /\ strInfos \in Seq(StrInfos) BY <2>1, NowIs, Zenon
  <2> QED BY <2>2 DEF Pools
<1>8. A.pool = B.pool /\ A.syms = B.syms /\ A.strs = B.strs
  <2>1. /\ A.pool = R.pool \o Append(s, 0)
        /\ A.syms = Append(R.syms, Symbol(<<"LC", Len(R.strs)>>, 0, Len(s) + 1, 1))
        /\ A.strs = Append(R.strs, [poolOffset |-> Len(R.pool), sym |-> Len(R.syms) + 1])
    <3> HIDE DEF s, R
    <3> QED BY <1>3, <1>7, AddedParts, Zenon
  <2>2. /\ B.pool = Now.pool \o Append(s, 0)
        /\ B.syms = Append(Now.syms, Symbol(<<"LC", Len(Now.strs)>>, 0, Len(s) + 1, 1))
        /\ B.strs = Append(Now.strs, [poolOffset |-> Len(Now.pool), sym |-> Len(Now.syms) + 1])
    <3> HIDE DEF s
    <3> QED BY <1>2, <1>3, AddedParts, Zenon
  <2> HIDE DEF s, R, A, B
  <2> QED BY <1>5, <2>1, <2>2, Zenon
<1>9. IF ~StringFits(R, s) THEN Fail
      ELSE /\ pool' = A.pool /\ syms' = A.syms /\ strInfos' = A.strs
           /\ Placed("str") /\ RelocIfRoom("str", Len(A.syms))
           /\ UNCHANGED <<prog, pc, at, begin, data, dataOffset, bssOffset, dataRels>>
  BY Zenon DEF UseString
<1> HIDE DEF A, B, R
<1>10. CASE ~StringFits(R, s)
  <2>1. Fail BY <1>9, <1>10, Zenon
  <2>2. Others(Now.syms) \subseteq Names BY <1>2, NoNames, Zenon
  <2>3. Strings \in Seq(Seq(Nat)) /\ IsFiniteSet(Names) BY <1>2, StringsAre, NamesFinite, Zenon
  <2>4. ~StringFits(Now, Strings[Len(Now.strs) + 1]) BY <1>4, <1>6, <1>10, Zenon
  <2>5. Overfull(Strings, Names) BY <1>2, <1>4, <2>2, <2>3, <2>4, FullTables, Zenon
  <2> QED BY <2>1, <2>5, OverOut, Fails, Zenon
<1>11. CASE StringFits(R, s)
  <2>1. /\ pool' = B.pool /\ syms' = B.syms /\ strInfos' = B.strs
        /\ Placed("str") /\ RelocIfRoom("str", Len(B.syms))
        /\ UNCHANGED <<prog, pc, at, begin, data, dataOffset, bssOffset, dataRels>>
    BY <1>8, <1>9, <1>11, Zenon
  <2>2. /\ T.data = Now.data /\ T.rels = Now.rels /\ ~T.failed /\ T.pool = B.pool /\ T.syms = B.syms
        /\ T.strs = B.strs
    <3>1. data' = data /\ dataRels' = dataRels BY <2>1
    <3>2. T.failed = FALSE BY NowNext
    <3>3. ~T.failed BY <3>2
    <3> QED BY <2>1, <3>1, <3>3, NowIs, NowNext, Zenon
  <2>3. T \in Sections
    <3>1. B.pool \in Seq(Nat) /\ B.syms \in Seq(Symbols) /\ B.strs \in Seq(StrInfos)
      <4> HIDE DEF s
      <4> QED BY <1>2, <1>3, AddedParts, Zenon DEF B
    <3>2. data \in Seq(Octets) /\ dataRels \in Seq(Relocs) BY <1>2, LaterParts, NowIs, Zenon
    <3>3. data' = data /\ dataRels' = dataRels BY <2>1
    <3>4. data' \in Seq(Octets) /\ dataRels' \in Seq(Relocs) /\ pool' \in Seq(Nat) /\ syms' \in Seq(Symbols)
          /\ strInfos' \in Seq(StrInfos)
      BY <2>1, <3>1, <3>2, <3>3, Zenon
    <3> QED BY <3>4 DEF Now, Sections
  <2> HIDE DEF T, s, u
  <2>4. /\ Kept(Now, T) /\ Extends(Now.syms, T.syms) /\ Len(T.strs) = Len(Now.strs) + 1
        /\ \A i \in Len(Now.syms) + 1 .. Len(T.syms) : Strung(T.syms[i])
        /\ Len(T.syms) \in 1 .. Len(T.syms) /\ Len(T.syms) \in Nat
        /\ Stands(T.strs, T.pool, Len(T.syms), s)
    BY <1>2, <1>3, <1>4, <2>2, <2>3, StringAdded, Zenon DEF B
  <2>5. Defined(T, prog, Names, Len(prog.vars), at - 1, FALSE) BY <1>2, <2>3, <2>4, DefinedLater, Zenon
  <2>6. Len(strInfos') = Before(at, use + 1) BY <1>4, <2>1, <2>2, <2>4, Zenon
  <2>7. Meant(T, Len(T.syms), u) BY <1>1, <2>4, Zenon DEF Meant, s, u
  <2>8. \/ rels' = rels /\ (~(Len(rels) < MAX_RELS) \/ ~(Len(T.syms) < MAX_SYMS))
        \/ \E i \in Nat : rels' = Append(rels, Reloc("str", i)) /\ Meant(T, i, u)
    <3>1. rels' = IF Len(rels) < MAX_RELS THEN Append(rels, Reloc("str", Len(T.syms))) ELSE rels
      BY <2>1, <2>2, Zenon DEF RelocIfRoom
    <3> QED BY <2>4, <2>7, <3>1, Zenon
  <2>9. "str" \in {"call", "var", "str"} OBVIOUS
  <2> QED BY <1>1, <2>1, <2>4, <2>5, <2>6, <2>8, <2>9, UseDone, Zenon DEF T, u
<1> QED BY <1>10, <1>11, Zenon

-----------------------------------------------------------------------------
(* The tables are the same but for the symbols, which are names. *)
NowWith(names) ==
  /\ syms' = names
  /\ UNCHANGED <<prog, pc, begin, data, dataOffset, bssOffset, dataRels, pool, strInfos>>

(* The tables are in order with symbols that are. *)
LEMMA NowWithIs ==
  ASSUME Good(Now), NEW names \in Seq(Symbols), NowWith(names), Tables(strInfos, names)
  PROVE  /\ Good(Now') /\ Now'.data = Now.data /\ Now'.rels = Now.rels /\ Now'.pool = Now.pool
         /\ Now'.strs = Now.strs /\ Now'.syms = names
         /\ Told(Strings, Now) => Told(Strings, Now')
         /\ Extends(Now.strs, Now'.strs) /\ Extends(Now.pool, Now'.pool)
<1>1. Now' = With(Now, names)
  <2>1. syms' = names /\ data' = data /\ dataRels' = dataRels /\ pool' = pool /\ strInfos' = strInfos
    BY DEF NowWith
  <2> QED BY <2>1, NowIs, Zenon DEF Now, With
<1>2. Now \in Sections BY Zenon DEF Good
<1>3. Now.strs = strInfos BY NowIs, Zenon
<1>4. /\ With(Now, names).data = Now.data /\ With(Now, names).rels = Now.rels /\ With(Now, names).syms = names
      /\ With(Now, names).pool = Now.pool /\ With(Now, names).strs = Now.strs
  BY <1>2, WithIs, Zenon
<1>5. Good(With(Now, names)) BY <1>3, WithGood, Zenon
<1> DEFINE T == Now'
<1>6. /\ Good(T) /\ T.data = Now.data /\ T.rels = Now.rels /\ T.pool = Now.pool
      /\ T.strs = Now.strs /\ T.syms = names
  BY <1>1, <1>4, <1>5, Zenon
<1> HIDE DEF T
<1>7. Told(Strings, Now) => Told(Strings, T) BY <1>6, Zenon DEF Told
<1>8. Extends(Now.strs, T.strs) /\ Extends(Now.pool, T.pool)
  <2>1. Now.strs \in Seq(StrInfos) /\ Now.pool \in Seq(Nat) BY <1>2, LaterParts, Zenon
  <2> QED BY <1>6, <2>1, ExtendsSelf, Zenon
<1> QED BY <1>6, <1>7, <1>8, Zenon DEF T

(* The symbol of a name that is used. *)
LEMMA NameFound ==
  ASSUME prog \in Programs, Good(Now), Told(Strings, Now), NEW nv, NEW m,
         Defined(Now, prog, Names, nv, m, FALSE), NEW x \in Names, OfC(x), NowWith(WithSymbol(x))
  PROVE  /\ Kept(Now, Now') /\ Defined(Now', prog, Names, nv, m, FALSE)
         /\ Found(x) \in 1 .. Len(Now'.syms) /\ Found(x) \in Nat /\ Now'.syms[Found(x)].name = x
         /\ Now'.strs = Now.strs
<1> DEFINE names  == syms
           names1 == WithSymbol(x)
           y      == Symbol(x, 0, 0, 0)
<1>1. Now \in Sections /\ Tables(Now.strs, Now.syms) BY Zenon DEF Good
<1>2. names \in Seq(Symbols) /\ strInfos \in Seq(StrInfos) /\ Tables(strInfos, names)
      /\ Len(names) \in Nat /\ DOMAIN names = 1 .. Len(names)
  <2>1. Now.syms \in Seq(Symbols) /\ Now.strs \in Seq(StrInfos) BY <1>1, LaterParts, Zenon
  <2>2. names \in Seq(Symbols) /\ strInfos \in Seq(StrInfos) /\ Tables(strInfos, names)
    BY <1>1, <2>1, NowIs, Zenon
  <2>3. Len(names) \in Nat /\ DOMAIN names = 1 .. Len(names) BY <2>2
  <2> QED BY <2>2, <2>3, Zenon
<1>3. y \in Symbols /\ ~Strung(y) /\ y.name = x /\ y.shndx = 0
  <2>1. x \in STRING \X Nat /\ x[1] # "LC" BY DEF OfC
  <2>2. x \in Labels BY <2>1 DEF Labels
  <2>3. y \in Symbols BY <2>2 DEF Symbols, Symbol
  <2>4. y.name = x /\ y.shndx = 0 BY DEF Symbol
  <2> QED BY <2>1, <2>3, <2>4, Zenon DEF Strung
<1> HIDE DEF y
<1>4. Named(x) = {i \in 1 .. Len(names) : names[i].name = x} BY <1>2, Zenon DEF Named
<1>5. CASE Named(x) = {}
  <2>1. names1 = Append(names, y) /\ Found(x) = Len(names) + 1
    BY <1>5, Zenon DEF WithSymbol, Found, y
  <2>2. \A i \in 1 .. Len(names) : names[i].name # y.name BY <1>3, <1>4, <1>5, Zenon
  <2>3. /\ names1 \in Seq(Symbols) /\ Tables(strInfos, names1) /\ Keeps(names, names1) /\ Extends(names, names1)
        /\ Len(names1) = Len(names) + 1 /\ names1[Len(names) + 1] = y
    <3> DEFINE a == Append(names, y)
    <3>1. /\ a \in Seq(Symbols) /\ Tables(strInfos, a) /\ Keeps(names, a) /\ Extends(names, a)
          /\ Len(a) = Len(names) + 1 /\ a[Len(names) + 1] = y
      BY <1>2, <1>3, <2>2, NameAdded, Zenon
    <3> QED BY <2>1, <3>1, Zenon
  <2>4. SameNames(names, names1) BY <2>3, ExtendsKeeps, Zenon
  <2> HIDE DEF names1
  <2>5. Found(x) \in 1 .. Len(names1) /\ Found(x) \in Nat
    <3>1. Len(names) + 1 \in 1 .. Len(names) + 1 /\ Len(names) + 1 \in Nat BY <1>2
    <3> QED BY <2>1, <2>3, <3>1, Zenon
  <2>6. \A i \in 1 .. Len(names1) : i \in 1 .. Len(names) \/ i = Len(names) + 1
    <3>1. \A i \in 1 .. Len(names) + 1 : i \in 1 .. Len(names) \/ i = Len(names) + 1 BY <1>2
    <3> QED BY <2>3, <3>1, Zenon
  <2>7. \A i \in 1 .. Len(names1) : (i \in 1 .. Len(names) /\ names1[i] = names[i]) \/ names1[i] = y
    BY <2>3, <2>6, Zenon DEF Extends
  <2>8. names1[Found(x)].name = x BY <1>3, <2>1, <2>3, Zenon
  <2>9. /\ Good(Now') /\ Now'.data = Now.data /\ Now'.rels = Now.rels /\ Now'.pool = Now.pool
        /\ Now'.strs = Now.strs /\ Now'.syms = names1 /\ Told(Strings, Now')
        /\ Extends(Now.strs, Now'.strs) /\ Extends(Now.pool, Now'.pool)
    BY <2>3, NowWithIs, Zenon DEF names1
  <2>10. Kept(Now, Now') BY <2>3, <2>4, <2>9, NowIs, Zenon DEF Kept
  <2>11. Defined(Now', prog, Names, nv, m, FALSE)
    <3> DEFINE T == Now'
    <3>1. T.syms = names1 BY <2>9, Zenon
    <3> HIDE DEF T
    <3>2. SUFFICES ASSUME NEW i \in 1 .. Len(T.syms), ~Strung(T.syms[i])
          PROVE  /\ T.syms[i].name \in Names
                 /\ FALSE \/ T.syms[i].shndx # 0 => \/ \E v \in 1 .. nv : T.syms[i].name = prog.vars[v].name
                                                    \/ \E f \in 1 .. m : T.syms[i].name = prog.funcs[f].name
      BY Zenon DEF Defined, T
    <3>3. CASE i \in 1 .. Len(names) /\ T.syms[i] = names[i]
      <4>1. T.syms[i] = Now.syms[i] /\ i \in 1 .. Len(Now.syms) BY <3>3, NowIs, Zenon
      <4> QED BY <3>2, <4>1, Zenon DEF Defined
    <3>4. CASE T.syms[i] = y BY <1>3, <3>4, Zenon
    <3> QED BY <2>7, <3>1, <3>2, <3>3, <3>4, Zenon
  <2> QED BY <2>5, <2>8, <2>9, <2>10, <2>11, Zenon
<1>6. CASE Named(x) # {}
  <2>1. names1 = names /\ Found(x) = Lowest(Named(x)) BY <1>6, Zenon DEF WithSymbol, Found
  <2>2. Found(x) \in Named(x)
    <3>1. Named(x) \subseteq Nat BY <1>4
    <3> QED BY <1>6, <2>1, <3>1, HasLeast, Zenon
  <2>3. Found(x) \in 1 .. Len(names) /\ names[Found(x)].name = x BY <1>4, <2>2, Zenon
  <2>4. Found(x) \in Nat BY <1>2, <2>3
  <2>5. NowWith(names) BY <2>1, Zenon
  <2>6. /\ Good(Now') /\ Now'.data = Now.data /\ Now'.rels = Now.rels /\ Now'.pool = Now.pool
        /\ Now'.strs = Now.strs /\ Now'.syms = names /\ Told(Strings, Now')
        /\ Extends(Now.strs, Now'.strs) /\ Extends(Now.pool, Now'.pool)
    BY <1>2, <2>5, NowWithIs, Zenon
  <2>7. Keeps(names, names) /\ SameNames(names, names) BY <1>2, KeepsSelf, Zenon
  <2>8. Kept(Now, Now') BY <2>6, <2>7, NowIs, Zenon DEF Kept
  <2>9. Now'.syms = Now.syms BY <2>6, NowIs, Zenon
  <2>10. Defined(Now', prog, Names, nv, m, FALSE) BY <2>9, Zenon DEF Defined
  <2> QED BY <2>3, <2>4, <2>6, <2>8, <2>10, Zenon
<1> QED BY <1>5, <1>6, Zenon

-----------------------------------------------------------------------------
(* What is at hand where a variable or a function is used. *)
LEMMA BeforeUse ==
  ASSUME Whole, Hyp, AtFunc, use \in DOMAIN Func.uses, Func.uses[use].u # "str"
  PROVE  /\ IsUse(Func.uses[use]) /\ OfC(Func.uses[use].x) /\ Func.uses[use].x \in Names
         /\ Before(at, use + 1) = Before(at, use) /\ Len(strInfos) = Before(at, use)
         /\ Len(rels) < Len(InFuncs) /\ Len(InFuncs) \in Nat
<1>1. /\ prog \in Programs /\ FuncsSoFar /\ at \in 1 .. Len(prog.funcs) /\ use \in Nat
      /\ at - 1 \in Nat /\ Len(rels) \in Nat
      /\ IsFunc(Func) /\ Len(Func.uses) \in Nat /\ DOMAIN Func.uses = 1 .. Len(Func.uses)
  BY BeforeFunc, Zenon
<1>2. use \in 1 .. Len(Func.uses) /\ IsUse(Func.uses[use]) BY <1>1, UsesAre, Zenon
<1>3. OfC(Func.uses[use].x) BY <1>2, Zenon DEF IsUse
<1>4. use \in 1 .. Len(prog.funcs[at].uses) /\ prog.funcs[at].uses[use].u # "str" BY <1>2, Zenon DEF Func
<1>5. Before(at, use + 1) = Before(at, use) BY <1>1, <1>4, LiteralAhead, Zenon
<1>6. Len(strInfos) = Before(at, use) BY <1>1, Zenon DEF FuncsSoFar
<1>7. prog.funcs[at].uses[use].x \in Names /\ Len(Upto(FuncUses)[at - 1]) + use <= Len(InFuncs)
  BY <1>1, <1>4, NamesHave, Zenon
<1>8. Len(rels) < Len(InFuncs) /\ Len(InFuncs) \in Nat
  <2> DEFINE b == Len(Upto(FuncUses)[at - 1])
             l == Len(InFuncs)
             h == Len(Func.uses)
  <2>1. use \in 1 .. h /\ h \in Nat BY <1>1, <1>2, Zenon
  <2> HIDE DEF h
  <2>2. ~(use = 0) BY <2>1
  <2>3. Len(rels) <= b + (use - 1)
    <3>1. Len(rels) <= b + IF use = 0 THEN 0 ELSE use - 1 BY <1>1, Zenon DEF FuncsSoFar
    <3> QED BY <2>2, <3>1, Zenon
  <2>4. FuncUses \in Seq(Seq(AllUses)) /\ Len(FuncUses) = Len(prog.funcs) /\ InFuncs = Joined(FuncUses)
    BY <1>1, FuncUsesAre, Zenon
  <2>5. at - 1 \in 0 .. Len(prog.funcs) BY <1>1, SMT
  <2>6. Upto(FuncUses)[at - 1] \in Seq(AllUses) /\ InFuncs \in Seq(AllUses) BY <2>4, <2>5, UptoFacts, Zenon
  <2>7. b \in Nat /\ l \in Nat BY <2>6, LenNat, Zenon
  <2>8. b + use <= l BY <1>7, Zenon
  <2> HIDE DEF b, l
  <2>9. Len(rels) < l BY <1>1, <2>1, <2>3, <2>7, <2>8, SMT
  <2> QED BY <2>7, <2>9, Zenon DEF l
<1> QED BY <1>2, <1>3, <1>5, <1>6, <1>7, <1>8, Zenon DEF Func

(* A variable is used in a function. *)
LEMMA UseVariableKeeps ==
  ASSUME Whole, Hyp, UseVariable
  PROVE  Whole'
<1> DEFINE u == Func.uses[use]
           x == u.x
           T == Now'
<1>1. AtFunc /\ use \in DOMAIN Func.uses /\ u.u = "var" BY Zenon DEF UseVariable, AtUse
<1>2. /\ Placed("var")
      /\ IF NoRoom(x) THEN UNCHANGED <<syms, rels>>
         ELSE syms' = WithSymbol(x) /\ RelocIfRoom("var", Found(x))
      /\ UNCHANGED <<prog, pc, at, begin, data, dataOffset, bssOffset, dataRels, pool, strInfos>>
  BY Zenon DEF UseVariable
<1>3. u.u # "str" /\ "var" \in {"call", "var", "str"}
  <2>1. "var" # "str" /\ "var" \in {"call", "var", "str"} OBVIOUS
  <2> QED BY <1>1, <2>1, Zenon
<1>4. /\ IsUse(u) /\ OfC(x) /\ x \in Names
      /\ Before(at, use + 1) = Before(at, use) /\ Len(strInfos) = Before(at, use)
  BY <1>1, <1>3, BeforeUse, Zenon
<1>5. /\ prog \in Programs /\ Good(Now) /\ Now \in Sections /\ Told(Strings, Now)
      /\ Defined(Now, prog, Names, Len(prog.vars), at - 1, FALSE) /\ Len(rels) \in Nat
  BY <1>1, BeforeFunc, Zenon
<1>6. Len(strInfos') = Before(at, use + 1)
  <2>1. strInfos' = strInfos BY <1>2
  <2> QED BY <1>4, <2>1, Zenon
<1>7. UNCHANGED <<prog, pc, at, begin, data, dataOffset, bssOffset, dataRels>> BY <1>2
<1>8. CASE NoRoom(x)
  <2>1. syms' = syms /\ rels' = rels BY <1>2, <1>8
  <2>2. NowWith(syms)
    <3>1. UNCHANGED <<prog, pc, begin, data, dataOffset, bssOffset, dataRels, pool, strInfos>> BY <1>2
    <3> QED BY <2>1, <3>1, Zenon DEF NowWith
  <2>3. syms \in Seq(Symbols) /\ Tables(strInfos, syms)
    <3>1. Now.syms \in Seq(Symbols) /\ Tables(Now.strs, Now.syms) BY <1>5, LaterParts, Zenon DEF Good
    <3> QED BY <3>1, NowIs, Zenon
  <2>4. /\ Good(T) /\ T.data = Now.data /\ T.rels = Now.rels /\ T.pool = Now.pool
        /\ T.strs = Now.strs /\ T.syms = syms /\ Told(Strings, T)
        /\ Extends(Now.strs, T.strs) /\ Extends(Now.pool, T.pool)
    BY <1>5, <2>2, <2>3, NowWithIs, Zenon
  <2>5. Keeps(syms, syms) /\ SameNames(syms, syms) BY <2>3, KeepsSelf, Zenon
  <2> HIDE DEF T
  <2>6. Kept(Now, T) /\ T.syms = Now.syms BY <2>4, <2>5, NowIs, Zenon DEF Kept
  <2>7. Defined(T, prog, Names, Len(prog.vars), at - 1, FALSE) BY <1>5, <2>6, Zenon DEF Defined
  <2>8. ~(Len(T.syms) < MAX_SYMS)
    <3>1. Len(syms) >= MAX_SYMS BY <1>8, Zenon DEF NoRoom
    <3>2. Len(syms) \in Nat BY <2>3, LenNat, Zenon
    <3>3. ~(Len(syms) < MAX_SYMS) BY <3>1, <3>2, SizesAssumption, SMT
    <3> QED BY <2>4, <3>3, Zenon
  <2> QED BY <1>1, <1>2, <1>3, <1>6, <1>7, <2>1, <2>6, <2>7, <2>8, UseDone, Zenon DEF T
<1>9. CASE ~NoRoom(x)
  <2>1. syms' = WithSymbol(x) /\ RelocIfRoom("var", Found(x)) BY <1>2, <1>9, Zenon
  <2>2. NowWith(WithSymbol(x))
    <3>1. UNCHANGED <<prog, pc, begin, data, dataOffset, bssOffset, dataRels, pool, strInfos>> BY <1>2
    <3> QED BY <2>1, <3>1, Zenon DEF NowWith
  <2> HIDE DEF x
  <2>3. /\ Kept(Now, T) /\ Defined(T, prog, Names, Len(prog.vars), at - 1, FALSE)
        /\ Found(x) \in 1 .. Len(T.syms) /\ Found(x) \in Nat /\ T.syms[Found(x)].name = x
    BY <1>4, <1>5, <2>2, NameFound, Zenon
  <2> HIDE DEF T
  <2>4. Meant(T, Found(x), u) BY <1>3, <2>3, Zenon DEF Meant, x
  <2>5. \/ rels' = rels /\ (~(Len(rels) < MAX_RELS) \/ ~(Len(T.syms) < MAX_SYMS))
        \/ \E i \in Nat : rels' = Append(rels, Reloc("var", i)) /\ Meant(T, i, u)
    <3>1. rels' = IF Len(rels) < MAX_RELS THEN Append(rels, Reloc("var", Found(x))) ELSE rels
      BY <2>1, Zenon DEF RelocIfRoom
    <3> QED BY <2>3, <2>4, <3>1, Zenon
  <2> QED BY <1>1, <1>2, <1>3, <1>6, <1>7, <2>3, <2>5, UseDone, Zenon DEF T
<1> QED BY <1>8, <1>9, Zenon

(* A function is called. *)
LEMMA UseFunctionKeeps ==
  ASSUME Whole, Hyp, UseFunction
  PROVE  Whole'
<1> DEFINE u == Func.uses[use]
           x == u.x
           T == Now'
<1>1. AtFunc /\ use \in DOMAIN Func.uses /\ u.u = "call" BY Zenon DEF UseFunction, AtUse
<1>2. IF NoRoom(x) \/ Len(rels) >= MAX_RELS THEN Fail
      ELSE /\ syms' = WithSymbol(x)
           /\ rels' = Append(rels, Reloc("call", Found(x)))
           /\ Placed("call")
           /\ UNCHANGED <<prog, pc, at, begin, data, dataOffset, bssOffset, dataRels, pool, strInfos>>
  BY Zenon DEF UseFunction
<1>3. u.u # "str" /\ "call" \in {"call", "var", "str"}
  <2>1. "call" # "str" /\ "call" \in {"call", "var", "str"} OBVIOUS
  <2> QED BY <1>1, <2>1, Zenon
<1>4. /\ IsUse(u) /\ OfC(x) /\ x \in Names
      /\ Before(at, use + 1) = Before(at, use) /\ Len(strInfos) = Before(at, use)
      /\ Len(rels) < Len(InFuncs) /\ Len(InFuncs) \in Nat
  BY <1>1, <1>3, BeforeUse, Zenon
<1>5. /\ prog \in Programs /\ Good(Now) /\ Now \in Sections /\ Told(Strings, Now) /\ Tables(Now.strs, Now.syms)
      /\ Defined(Now, prog, Names, Len(prog.vars), at - 1, FALSE) /\ Len(rels) \in Nat
  BY <1>1, BeforeFunc, Zenon
<1>6. CASE NoRoom(x)
  <2>1. Fail BY <1>2, <1>6, Zenon
  <2>2. Named(x) = {} /\ Len(syms) >= MAX_SYMS BY <1>6, Zenon DEF NoRoom
  <2>3. x \notin Others(Now.syms)
    <3>1. Now.syms = syms BY NowIs, Zenon
    <3>2. syms \in Seq(Symbols) BY <1>5, <3>1, LaterParts, Zenon
    <3>3. DOMAIN syms = 1 .. Len(syms) BY <3>2
    <3> QED BY <2>2, <3>1, <3>3, Zenon DEF Named, Others
  <2>4. Others(Now.syms) \subseteq Names BY <1>5, NoNames, Zenon
  <2>5. Strings \in Seq(Seq(Nat)) /\ IsFiniteSet(Names) BY <1>5, StringsAre, NamesFinite, Zenon
  <2>6. Len(Now.syms) >= MAX_SYMS BY <2>2, NowIs, Zenon
  <2> HIDE DEF x
  <2>7. Overfull(Strings, Names) BY <1>4, <1>5, <2>3, <2>4, <2>5, <2>6, FullSymbols, Zenon
  <2> QED BY <2>1, <2>7, OverOut, Fails, Zenon
<1>7. CASE Len(rels) >= MAX_RELS
  <2>1. Fail BY <1>2, <1>7, Zenon
  <2> DEFINE l == Len(InFuncs)
  <2>2. Len(rels) < l /\ l \in Nat BY <1>4, Zenon
  <2> HIDE DEF l
  <2>3. l > MAX_RELS BY <1>5, <1>7, <2>2, SizesAssumption, SMT
  <2>4. OutOfRoom BY <2>3, Zenon DEF OutOfRoom, l
  <2> QED BY <2>1, <2>4, Fails, Zenon
<1>8. CASE ~NoRoom(x) /\ ~(Len(rels) >= MAX_RELS)
  <2>1. /\ syms' = WithSymbol(x) /\ rels' = Append(rels, Reloc("call", Found(x))) /\ Placed("call")
        /\ UNCHANGED <<prog, pc, at, begin, data, dataOffset, bssOffset, dataRels, pool, strInfos>>
    BY <1>2, <1>8, Zenon
  <2>2. NowWith(WithSymbol(x))
    <3>1. UNCHANGED <<prog, pc, begin, data, dataOffset, bssOffset, dataRels, pool, strInfos>> BY <2>1
    <3> QED BY <2>1, <3>1, Zenon DEF NowWith
  <2> HIDE DEF x
  <2>3. /\ Kept(Now, T) /\ Defined(T, prog, Names, Len(prog.vars), at - 1, FALSE)
        /\ Found(x) \in 1 .. Len(T.syms) /\ Found(x) \in Nat /\ T.syms[Found(x)].name = x
    BY <1>4, <1>5, <2>2, NameFound, Zenon
  <2> HIDE DEF T
  <2>4. Meant(T, Found(x), u) BY <1>3, <2>3, Zenon DEF Meant, x
  <2>5. \E i \in Nat : rels' = Append(rels, Reloc("call", i)) /\ Meant(T, i, u) BY <2>1, <2>3, <2>4, Zenon
  <2>6. Len(strInfos') = Before(at, use + 1)
    <3>1. strInfos' = strInfos BY <2>1
    <3> QED BY <1>4, <3>1, Zenon
  <2>7. UNCHANGED <<prog, pc, at, begin, data, dataOffset, bssOffset, dataRels>> BY <2>1
  <2> QED BY <1>1, <1>3, <2>1, <2>3, <2>5, <2>6, <2>7, UseDone, Zenon DEF T
<1> QED BY <1>6, <1>7, <1>8, Zenon

-----------------------------------------------------------------------------
(* The symbol of a function takes the place of the one that was used, or *)

(* is the only one of its name. *)
LEMMA AddSymIs ==
  ASSUME prog \in Programs, Distinct, Good(Now), at \in 1 .. Len(prog.funcs), at - 1 \in Nat,
         Defined(Now, prog, Names, Len(prog.vars), at - 1, FALSE),
         NEW y \in Symbols, y.name = Func.name, y.shndx = 1
  PROVE  /\ AddSym(y) \in Seq(Symbols) /\ Tables(strInfos, AddSym(y)) /\ Keeps(syms, AddSym(y))
         /\ SameNames(syms, AddSym(y))
         /\ \A i \in 1 .. Len(AddSym(y)) :
              AddSym(y)[i] = y \/ (i \in 1 .. Len(syms) /\ AddSym(y)[i] = syms[i])
         /\ \/ Len(AddSym(y)) = Len(syms)
            \/ Len(AddSym(y)) = Len(syms) + 1 /\ y.name \notin Others(Now.syms)
<1> DEFINE open == {i \in Named(y.name) : syms[i].shndx = 0}
<1>1. Now \in Sections /\ Tables(Now.strs, Now.syms) BY Zenon DEF Good
<1>2. syms \in Seq(Symbols) /\ strInfos \in Seq(StrInfos) /\ Tables(strInfos, syms)
      /\ Len(syms) \in Nat /\ DOMAIN syms = 1 .. Len(syms)
  <2>1. Now.syms \in Seq(Symbols) /\ Now.strs \in Seq(StrInfos) BY <1>1, LaterParts, Zenon
  <2>2. syms \in Seq(Symbols) /\ strInfos \in Seq(StrInfos) /\ Tables(strInfos, syms)
    BY <1>1, <2>1, NowIs, Zenon
  <2>3. Len(syms) \in Nat /\ DOMAIN syms = 1 .. Len(syms) BY <2>2
  <2> QED BY <2>2, <2>3, Zenon
<1>3. OfC(y.name) /\ ~Strung(y)
  <2>1. OfC(Func.name) BY ProgIs, Zenon DEF IsFunc, Func
  <2> QED BY <2>1, Zenon DEF OfC, Strung
<1>4. \A i \in 1 .. Len(syms) : syms[i].name = y.name => ~Strung(syms[i])
  BY <1>3, Zenon DEF Strung
<1>5. open = {i \in 1 .. Len(syms) : syms[i].name = y.name /\ syms[i].shndx = 0} BY <1>2, SMT DEF Named
<1>6. AddSym(y) = IF open # {} THEN [syms EXCEPT ![Lowest(open)] = y] ELSE Append(syms, y)
  BY Zenon DEF AddSym
<1> HIDE DEF open
<1>7. CASE open # {}
  <2> DEFINE i0     == Lowest(open)
             names1 == [syms EXCEPT ![i0] = y]
  <2>1. i0 \in open
    <3>1. open \subseteq Nat BY <1>5
    <3> QED BY <1>7, <3>1, HasLeast, Zenon
  <2>2. i0 \in 1 .. Len(syms) /\ syms[i0].name = y.name /\ syms[i0].shndx = 0 BY <1>5, <2>1, Zenon
  <2> HIDE DEF i0
  <2>3. AddSym(y) = names1 BY <1>6, <1>7, Zenon DEF i0
  <2>4. /\ names1 \in Seq(Symbols) /\ Len(names1) = Len(syms) /\ names1[i0] = y
        /\ \A i \in 1 .. Len(syms) : i # i0 => names1[i] = syms[i]
    BY <1>2, <2>2
  <2> HIDE DEF names1
  <2>5. \A i \in 1 .. Len(syms) : names1[i].name = syms[i].name BY <2>2, <2>4, Zenon
  <2>6. SameNames(syms, names1)
    <3>1. Len(syms) <= Len(names1) BY <1>2, <2>4, ZeroUp, Zenon
    <3> QED BY <2>5, <3>1, Zenon DEF SameNames
  <2>7. Keeps(syms, names1)
    <3>1. Len(syms) <= Len(names1) BY <1>2, <2>4, ZeroUp, Zenon
    <3> QED BY <2>2, <2>4, <3>1, Zenon DEF Keeps
  <2>8. StrsNamed(strInfos, names1)
    <3> SUFFICES ASSUME NEW k \in 1 .. Len(strInfos)
                 PROVE  /\ strInfos[k].sym \in 1 .. Len(names1)
                        /\ names1[strInfos[k].sym].name = <<"LC", k - 1>> /\ names1[strInfos[k].sym].shndx = 1
      BY Zenon DEF StrsNamed
    <3>1. /\ strInfos[k].sym \in 1 .. Len(syms)
          /\ syms[strInfos[k].sym].name = <<"LC", k - 1>> /\ syms[strInfos[k].sym].shndx = 1
      BY <1>2, Zenon DEF Tables, StrsNamed
    <3>2. 1 # 0 OBVIOUS
    <3>3. strInfos[k].sym # i0 BY <2>2, <3>1, <3>2, Zenon
    <3> QED BY <2>4, <3>1, <3>3, Zenon
  <2>9. Owned(strInfos, names1)
    <3> SUFFICES ASSUME NEW i \in 1 .. Len(names1), Strung(names1[i])
                 PROVE  \E k \in 1 .. Len(strInfos) : strInfos[k].sym = i
      BY Zenon DEF Owned
    <3>1. i \in 1 .. Len(syms) /\ Strung(syms[i]) BY <2>4, <2>5, Zenon DEF Strung
    <3> QED BY <1>2, <3>1, Zenon DEF Tables, Owned
  <2>10. Unique(names1)
    <3> SUFFICES ASSUME NEW i \in 1 .. Len(names1), NEW j \in 1 .. Len(names1), names1[i].name = names1[j].name
                 PROVE  i = j
      BY Zenon DEF Unique
    <3>1. i \in 1 .. Len(syms) /\ j \in 1 .. Len(syms) /\ syms[i].name = syms[j].name BY <2>4, <2>5, Zenon
    <3> QED BY <1>2, <3>1, Zenon DEF Tables, Unique
  <2>11. Tables(strInfos, names1) BY <2>8, <2>9, <2>10, Zenon DEF Tables
  <2>12. \A i \in 1 .. Len(names1) : names1[i] = y \/ (i \in 1 .. Len(syms) /\ names1[i] = syms[i])
    BY <2>4, Zenon
  <2> QED BY <2>3, <2>4, <2>6, <2>7, <2>11, <2>12, Zenon
<1>8. CASE open = {}
  <2> DEFINE names1 == Append(syms, y)
  <2>1. AddSym(y) = names1 BY <1>6, <1>8, Zenon
  <2>2. \A i \in 1 .. Len(syms) : syms[i].name # y.name
    <3> SUFFICES ASSUME NEW i \in 1 .. Len(syms), syms[i].name = y.name PROVE FALSE OBVIOUS
    <3>1. ~Strung(syms[i]) /\ syms[i].shndx # 0 BY <1>4, <1>5, <1>8, Zenon
    <3>2. i \in 1 .. Len(Now.syms) /\ Now.syms[i] = syms[i] BY NowIs, Zenon
    <3>3. \/ \E v \in 1 .. Len(prog.vars) : syms[i].name = prog.vars[v].name
          \/ \E f \in 1 .. at - 1 : syms[i].name = prog.funcs[f].name
      BY <3>1, <3>2, Zenon DEF Defined
    <3>4. DOMAIN prog.vars = 1 .. Len(prog.vars) /\ DOMAIN prog.funcs = 1 .. Len(prog.funcs)
          /\ Len(prog.funcs) \in Nat
      BY ProgIs, Zenon
    <3>5. syms[i].name = prog.funcs[at].name BY Zenon DEF Func
    <3>6. \A f \in 1 .. at - 1 : f \in 1 .. Len(prog.funcs) /\ f # at BY <3>4, SMT
    <3>7. \A v \in 1 .. Len(prog.vars) : prog.vars[v].name # prog.funcs[at].name BY <3>4, Zenon DEF Distinct
    <3>8. \A f \in 1 .. Len(prog.funcs) : prog.funcs[f].name = prog.funcs[at].name => f = at
      BY <3>4, Zenon DEF Distinct
    <3> QED BY <3>3, <3>5, <3>6, <3>7, <3>8, Zenon
  <2>3. /\ names1 \in Seq(Symbols) /\ Tables(strInfos, names1) /\ Keeps(syms, names1) /\ Extends(syms, names1)
        /\ Len(names1) = Len(syms) + 1 /\ names1[Len(syms) + 1] = y
    BY <1>2, <1>3, <2>2, NameAdded, Zenon
  <2>4. SameNames(syms, names1) BY <2>3, ExtendsKeeps, Zenon
  <2> HIDE DEF names1
  <2>5. \A i \in 1 .. Len(names1) : i \in 1 .. Len(syms) \/ i = Len(syms) + 1
    <3>1. \A i \in 1 .. Len(syms) + 1 : i \in 1 .. Len(syms) \/ i = Len(syms) + 1 BY <1>2
    <3> QED BY <2>3, <3>1, Zenon
  <2>6. \A i \in 1 .. Len(names1) : names1[i] = y \/ (i \in 1 .. Len(syms) /\ names1[i] = syms[i])
    BY <2>3, <2>5, Zenon DEF Extends
  <2>7. y.name \notin Others(Now.syms) BY <2>2, NowIs, Zenon DEF Others
  <2> QED BY <2>1, <2>3, <2>4, <2>6, <2>7, Zenon
<1> QED BY <1>7, <1>8, Zenon

-----------------------------------------------------------------------------
(* How many strings there are at the beginning and the end of a function. *)
LEMMA BeforeEnds ==
  ASSUME prog \in Programs, at \in 1 .. Len(prog.funcs), at - 1 \in Nat
  PROVE  /\ Before(at, 1) = Before(at, 0)
         /\ Before(at, Len(Func.uses) + 1) = Before(at + 1, 0)
         /\ Len(Upto(FuncUses)[at]) = Len(Upto(FuncUses)[at - 1]) + Len(Func.uses)
         /\ Len(Upto(FuncUses)[at - 1]) \in Nat /\ Len(Func.uses) \in Nat
<1> DEFINE f == prog.funcs[at]
           X == UseParts(f.uses)
           h == Len(f.uses)
           a == Len(InVars)
           b == Len(Upto(FuncTexts)[at - 1])
<1>1. IsFunc(f) /\ h \in Nat /\ Len(prog.funcs) \in Nat
  <2>1. IsFunc(f) /\ Len(prog.funcs) \in Nat BY ProgIs, Zenon
  <2> QED BY <2>1, UsesAre, Zenon
<1>2. X \in Seq(Seq(Seq(Nat))) /\ Len(X) = h /\ Literals(f.uses) = Joined(X) BY <1>1, UsePartsAre, Zenon
<1>3. Joined(X) = Upto(X)[h] /\ Upto(X)[0] = <<>> BY <1>1, <1>2, UptoAre, Zenon
<1>4. FuncTexts \in Seq(Seq(Seq(Nat))) /\ Len(FuncTexts) = Len(prog.funcs) /\ FuncTexts[at] = Literals(f.uses)
  BY FuncTextsAre, Zenon
<1>5. at - 1 \in 0 .. Len(prog.funcs) /\ at \in Nat /\ (at + 1) - 1 = at BY <1>1, SMT
<1>6. Upto(FuncTexts)[at - 1] \in Seq(Seq(Nat)) /\ Len(Upto(FuncTexts)[at]) = b + Len(FuncTexts[at])
  BY <1>4, <1>5, UptoFacts, Zenon
<1>7. a \in Nat /\ b \in Nat
  <2>1. a \in Nat BY StringsAre, Zenon
  <2> QED BY <1>6, <2>1, LenNat, Zenon
<1>8. Before(at, 1) = Before(at, 0)
  <2>1. Before(at, 0) = a + b + 0 BY Zenon DEF Before, InFunc
  <2>2. ~(1 = 0) /\ 1 - 1 = 0 OBVIOUS
  <2>3. InFunc(at, 1) = Len(Upto(X)[0])
    BY <2>2, Zenon DEF InFunc
  <2>4. Len(<<>>) = 0 OBVIOUS
  <2>5. InFunc(at, 1) = 0 BY <1>3, <2>3, <2>4, Zenon
  <2>6. Before(at, 1) = a + b + InFunc(at, 1) BY Zenon DEF Before
  <2> QED BY <2>1, <2>5, <2>6, Zenon
<1>9. Before(at, h + 1) = Before(at + 1, 0)
  <2>1. ~(h + 1 = 0) /\ (h + 1) - 1 = h BY <1>1
  <2>2. InFunc(at, h + 1) = Len(Upto(X)[h])
    <3> HIDE DEF h
    <3> QED BY <2>1, Zenon DEF InFunc
  <2> DEFINE c == Len(FuncTexts[at])
  <2>3. InFunc(at, h + 1) = c BY <1>2, <1>3, <1>4, <2>2, Zenon
  <2>4. Before(at, h + 1) = a + b + c BY <2>3, Zenon DEF Before
  <2>5. Before(at + 1, 0) = a + Len(Upto(FuncTexts)[at]) + 0
    <3>1. InFunc(at + 1, 0) = 0 BY Zenon DEF InFunc
    <3> QED BY <1>5, <3>1, Zenon DEF Before
  <2>6. c \in Nat
    <3>1. FuncTexts[at] \in Seq(Seq(Nat)) BY <1>4
    <3> QED BY <3>1, LenNat, Zenon
  <2>7. Len(Upto(FuncTexts)[at]) = b + c BY <1>6, Zenon
  <2> HIDE DEF a, b, c
  <2>8. a + b + c = a + (b + c) + 0 BY <1>7, <2>6, SMT
  <2> QED BY <2>4, <2>5, <2>7, <2>8, Zenon
<1>10. FuncUses \in Seq(Seq(AllUses)) /\ Len(FuncUses) = Len(prog.funcs) /\ FuncUses[at] = f.uses
  BY FuncUsesAre, Zenon
<1>11. Upto(FuncUses)[at - 1] \in Seq(AllUses)
       /\ Len(Upto(FuncUses)[at]) = Len(Upto(FuncUses)[at - 1]) + Len(FuncUses[at])
  BY <1>5, <1>10, UptoFacts, Zenon
<1>12. Len(Upto(FuncUses)[at - 1]) \in Nat BY <1>11, LenNat, Zenon
<1> QED BY <1>1, <1>8, <1>9, <1>10, <1>11, <1>12, Zenon DEF Func

(* Code with n bytes more. *)
LEMMA MoreCode ==
  ASSUME code \in Seq(Nat), NEW n \in Nat, n > 0
  PROVE  LET c == code \o Zeros(n)
         IN  c \in Seq(Nat) /\ Len(c) = Len(code) + n /\ Len(code) \in Nat /\ Len(c) \in Nat /\ Len(code) <= Len(c)
<1>1. 0 \in Nat /\ Len(code) \in Nat /\ n \in Int OBVIOUS
<1> DEFINE c == code \o Zeros(n)
<1>2. c \in Seq(Nat) /\ Len(c) = Len(code) + (IF n > 0 THEN n ELSE 0) BY <1>1, WithZeros, Zenon
<1> HIDE DEF c
<1>3. Len(c) = Len(code) + n BY <1>2, Zenon
<1>4. Len(c) \in Nat /\ Len(code) <= Len(c) BY <1>1, <1>3, SMT
<1> QED BY <1>1, <1>2, <1>3, <1>4, Zenon DEF c

(* A function begins. *)
LEMMA FunctionBeginsKeeps ==
  ASSUME Whole, Hyp, FunctionBegins
  PROVE  Whole'
<1> DEFINE nv == Len(prog.vars)
<1>1. /\ AtFunc /\ use = 0 /\ code' = code \o Zeros(4) /\ use' = 1 /\ begin' = Len(code)
      /\ UNCHANGED <<prog, pc, at, data, dataOffset, bssOffset, dataRels, rels, syms, pool, strInfos, used>>
  BY Zenon DEF FunctionBegins, Prologue
<1>2. /\ prog \in Programs /\ pc = "funcs" /\ FuncsSoFar
      /\ Good(Now) /\ Now \in Sections /\ Told(Strings, Now)
      /\ CodePlaced(Now, Len(code), rels, used)
      /\ VarsPlaced(Now, prog.vars, nv, dataOffset, bssOffset)
      /\ Defined(Now, prog, Names, nv, at - 1, FALSE)
      /\ at \in Nat /\ at - 1 \in Nat /\ at \in 1 .. Len(prog.funcs)
      /\ code \in Seq(Nat) /\ rels \in Seq(Relocs) /\ Len(rels) \in Nat
  BY <1>1, BeforeFunc, Zenon
<1>3. code' \in Seq(Nat) /\ Len(code) \in Nat /\ Len(code') \in Nat /\ Len(code) <= Len(code')
  <2>1. 4 \in Nat /\ 4 > 0 OBVIOUS
  <2> QED BY <1>1, <1>2, <2>1, MoreCode, Zenon
<1>4. /\ prog' = prog /\ pc' = pc /\ at' = at /\ data' = data /\ dataRels' = dataRels /\ syms' = syms
      /\ pool' = pool /\ strInfos' = strInfos /\ rels' = rels /\ used' = used
  BY <1>1
<1>5. Now' = Now BY <1>4, Zenon DEF Now
<1>6. CodePlaced(Now, Len(code'), rels, used)
  <2>1. Now.strs \in Seq(StrInfos) /\ Now.pool \in Seq(Nat) /\ Now.syms \in Seq(Symbols) BY <1>2, LaterParts, Zenon
  <2>2. Extends(Now.strs, Now.strs) /\ Extends(Now.pool, Now.pool) /\ SameNames(Now.syms, Now.syms)
    BY <2>1, ExtendsSelf, KeepsSelf, Zenon
  <2> QED BY <1>2, <1>3, <2>2, CodeKept, Zenon
<1>7. /\ Before(at, 1) = Before(at, 0) /\ Len(Upto(FuncUses)[at - 1]) \in Nat /\ Len(Func.uses) \in Nat
  BY <1>2, BeforeEnds, Zenon
<1>8. Len(strInfos) = Before(at, 0) BY <1>1, <1>2, Zenon DEF FuncsSoFar
<1>9. Len(rels) <= Len(Upto(FuncUses)[at - 1]) + 0
  <2>1. Len(rels) <= Len(Upto(FuncUses)[at - 1]) + IF use = 0 THEN 0 ELSE use - 1 BY <1>2, Zenon DEF FuncsSoFar
  <2> QED BY <1>1, <2>1, Zenon
<1>10. /\ at \in Nat \ {0} /\ at - 1 <= Len(prog.funcs) /\ at <= Len(prog.funcs)
       /\ 1 \in Nat /\ ~(1 = 0) /\ 1 - 1 = 0
  <2>1. Len(prog.funcs) \in Nat BY <1>2, ProgIs, Zenon
  <2> QED BY <1>2, <2>1, SMT
<1>11. 1 <= Len(Func.uses) + 1
  <2> DEFINE h == Len(Func.uses)
  <2>1. h \in Nat BY <1>7
  <2> HIDE DEF h
  <2>2. 1 <= h + 1 BY <2>1
  <2> QED BY <2>2, Zenon DEF h
<1>12. /\ Good(Now') /\ Told(Strings, Now') /\ CodePlaced(Now', Len(code'), rels', used')
       /\ VarsPlaced(Now', prog.vars, nv, dataOffset, bssOffset) /\ Defined(Now', prog, Names, nv, at' - 1, FALSE)
       /\ rels' \in Seq(Relocs)
  BY <1>2, <1>4, <1>5, <1>6, Zenon
<1>13. Len(strInfos') = Before(at', use') /\ at' \in Nat \ {0} /\ use' \in Nat /\ begin' \in Nat
       /\ begin' <= Len(code') /\ at' - 1 <= Len(prog.funcs)
  BY <1>1, <1>3, <1>4, <1>7, <1>8, <1>10, Zenon
<1>14. at' <= Len(prog.funcs) /\ use' <= Len(prog.funcs[at'].uses) + 1 BY <1>1, <1>4, <1>10, <1>11, Zenon DEF Func
<1>15. Len(rels') <= Len(Upto(FuncUses)[at' - 1]) + IF use' = 0 THEN 0 ELSE use' - 1
  BY <1>1, <1>4, <1>9, <1>10, Zenon
<1>16. UNCHANGED <<prog, pc, data, dataOffset, bssOffset, dataRels>> BY <1>1
<1> QED BY <1>2, <1>3, <1>12, <1>13, <1>14, <1>15, <1>16, FuncsGoOn, Zenon

-----------------------------------------------------------------------------
(* There is no room for the symbol of a function. *)
LEMMA FuncSymbol ==
  ASSUME prog \in Programs, at \in 1 .. Len(prog.funcs), NEW b \in Nat, NEW l \in Nat, b <= l
  PROVE  LET y == Symbol(Func.name, b, (l + 2) - b, 1)
         IN  y \in Symbols /\ y.name = Func.name /\ y.shndx = 1 /\ Func.name \in Names
<1>1. OfC(Func.name) /\ Func.name \in Names
  <2>1. OfC(Func.name) BY ProgIs, Zenon DEF IsFunc, Func
  <2>2. Func.name \in Names BY NamesHave, Zenon DEF Func
  <2> QED BY <2>1, <2>2, Zenon
<1> DEFINE x == Func.name
           w == (l + 2) - b
<1>2. x \in Labels BY <1>1 DEF OfC, Labels
<1>3. w \in Nat OBVIOUS
<1> HIDE DEF x, w
<1>4. /\ Symbol(x, b, w, 1) \in Symbols /\ Symbol(x, b, w, 1).name = x /\ Symbol(x, b, w, 1).shndx = 1
  BY <1>2, <1>3 DEF Symbol, Symbols
<1> QED BY <1>1, <1>4, Zenon DEF x, w

(* One symbol too many is one name or string too many. *)
LEMMA TooMany ==
  ASSUME prog \in Programs, Good(Now), Told(Strings, Now), NEW nv, NEW m,
         Defined(Now, prog, Names, nv, m, FALSE), NEW x \in Names, NEW l,
         \/ l = Len(syms)
         \/ l = Len(syms) + 1 /\ x \notin Others(Now.syms),
         l > MAX_SYMS
  PROVE  OutOfRoom
<1>1. Now \in Sections /\ Tables(Now.strs, Now.syms) BY Zenon DEF Good
<1>2. Others(Now.syms) \subseteq Names BY <1>1, NoNames, Zenon
<1>3. Strings \in Seq(Seq(Nat)) /\ IsFiniteSet(Names) /\ Len(Strings) \in Nat BY StringsAre, NamesFinite, Zenon
<1>4. Now.syms \in Seq(Symbols) /\ Now.strs \in Seq(StrInfos) /\ Len(Now.syms) \in Nat /\ Len(Now.strs) \in Nat
  BY <1>1, LaterParts, Zenon
<1>5. Now.syms = syms BY NowIs, Zenon
<1>6. CASE l = Len(syms) + 1 /\ x \notin Others(Now.syms)
  <2>1. Len(Now.syms) >= MAX_SYMS BY <1>4, <1>5, <1>6, SizesAssumption, SMT
  <2>2. Overfull(Strings, Names) BY <1>1, <1>2, <1>3, <1>6, <2>1, FullSymbols, Zenon
  <2> QED BY <2>2, OverOut, Zenon
<1>7. CASE l = Len(syms)
  <2> DEFINE c == Cardinality(Names)
             t == Len(Strings)
             r == Len(Now.strs)
  <2>1. Len(Now.syms) <= r + c BY <1>1, <1>2, <1>3, <1>4, Counted, Zenon
  <2>2. c \in Nat BY <1>3, FS_CardinalityType, Zenon
  <2>3. r <= t /\ r \in Nat /\ t \in Nat BY <1>3, <1>4, Zenon DEF Told
  <2>4. l = Len(Now.syms) BY <1>5, <1>7, Zenon
  <2> HIDE DEF c, t, r
  <2>5. t + c > MAX_SYMS BY <1>4, <2>1, <2>2, <2>3, <2>4, SizesAssumption, SMT
  <2>6. Overfull(Strings, Names) BY <2>5, Zenon DEF Overfull, t, c
  <2> QED BY <2>6, OverOut, Zenon
<1> QED BY <1>6, <1>7, Zenon

(* A function ends and its symbol gets its place. *)
LEMMA FunctionEndsKeeps ==
  ASSUME Whole, Hyp, FunctionEnds
  PROVE  Whole'
<1> DEFINE nv == Len(prog.vars)
           h  == Len(Func.uses)
           y  == Symbol(Func.name, begin, (Len(code) + 2) - begin, 1)
           a  == AddSym(y)
           T  == Now'
<1>1. /\ AtFunc /\ use > h
      /\ IF Len(a) > MAX_SYMS THEN Fail
         ELSE /\ code' = code \o Zeros(2) /\ syms' = a /\ at' = at + 1 /\ use' = 0
              /\ UNCHANGED <<prog, pc, begin, data, dataOffset, bssOffset, dataRels, rels, pool, strInfos, used>>
  <2> DEFINE z == AddSym(Symbol(Func.name, begin, (Len(code) + Epilogue) - begin, 1))
  <2>1. AtFunc /\ use > Len(Func.uses) BY Zenon DEF FunctionEnds
  <2>2. Epilogue = 2 BY DEF Epilogue
  <2>3. a = z BY Zenon DEF Epilogue
  <2>4. ASSUME Len(z) > MAX_SYMS PROVE Fail BY <2>4, Zenon DEF FunctionEnds
  <2>5. ASSUME ~(Len(z) > MAX_SYMS)
        PROVE  /\ code' = code \o Zeros(Epilogue) /\ at' = at + 1 /\ use' = 0
               /\ UNCHANGED <<prog, pc, begin, data, dataOffset, bssOffset, dataRels, rels, pool, strInfos, used>>
    BY <2>5, Zenon DEF FunctionEnds
  <2>6. ASSUME ~(Len(z) > MAX_SYMS) PROVE syms' = z BY <2>6, Zenon DEF FunctionEnds
  <2> HIDE DEF z, a
  <2> QED BY <2>1, <2>2, <2>3, <2>4, <2>5, <2>6, Zenon
<1>2. /\ prog \in Programs /\ pc = "funcs" /\ FuncsSoFar /\ Distinct
      /\ Good(Now) /\ Now \in Sections /\ Told(Strings, Now)
      /\ CodePlaced(Now, Len(code), rels, used)
      /\ VarsPlaced(Now, prog.vars, nv, dataOffset, bssOffset) /\ SomeVars(prog.vars, nv)
      /\ Defined(Now, prog, Names, nv, at - 1, FALSE)
      /\ at \in Nat /\ at - 1 \in Nat /\ at \in 1 .. Len(prog.funcs) /\ use \in Nat
      /\ dataOffset \in Nat /\ bssOffset \in Nat /\ Len(code) \in Nat /\ begin \in Nat /\ begin <= Len(code)
      /\ code \in Seq(Nat) /\ rels \in Seq(Relocs) /\ Len(rels) \in Nat /\ h \in Nat
  BY <1>1, BeforeFunc, Zenon
<1>3. y \in Symbols /\ y.name = Func.name /\ y.shndx = 1 /\ Func.name \in Names BY <1>2, FuncSymbol, Zenon
<1> HIDE DEF y
<1>4. /\ a \in Seq(Symbols) /\ Tables(strInfos, a) /\ Keeps(syms, a) /\ SameNames(syms, a)
      /\ \A i \in 1 .. Len(a) : a[i] = y \/ (i \in 1 .. Len(syms) /\ a[i] = syms[i])
      /\ \/ Len(a) = Len(syms)
         \/ Len(a) = Len(syms) + 1 /\ y.name \notin Others(Now.syms)
  BY <1>2, <1>3, AddSymIs, Zenon
<1> HIDE DEF a
<1>5. CASE Len(a) > MAX_SYMS
  <2>1. Fail BY <1>1, <1>5, Zenon
  <2>2. OutOfRoom BY <1>2, <1>3, <1>4, <1>5, TooMany, Zenon
  <2> QED BY <2>1, <2>2, Fails, Zenon
<1>6. CASE ~(Len(a) > MAX_SYMS)
  <2>1. /\ code' = code \o Zeros(2) /\ syms' = a /\ at' = at + 1 /\ use' = 0
        /\ UNCHANGED <<prog, pc, begin, data, dataOffset, bssOffset, dataRels, rels, pool, strInfos, used>>
    BY <1>1, <1>6, Zenon
  <2>2. code' \in Seq(Nat) /\ Len(code') \in Nat /\ Len(code) <= Len(code')
    <3>1. 2 \in Nat /\ 2 > 0 OBVIOUS
    <3> QED BY <1>2, <2>1, <3>1, MoreCode, Zenon
  <2>3. NowWith(a)
    <3>1. UNCHANGED <<prog, pc, begin, data, dataOffset, bssOffset, dataRels, pool, strInfos>> BY <2>1
    <3> QED BY <2>1, <3>1, Zenon DEF NowWith
  <2>4. /\ Good(T) /\ T.data = Now.data /\ T.rels = Now.rels /\ T.pool = Now.pool
        /\ T.strs = Now.strs /\ T.syms = a /\ Told(Strings, T)
        /\ Extends(Now.strs, T.strs) /\ Extends(Now.pool, T.pool)
    BY <1>2, <1>4, <2>3, NowWithIs, Zenon
  <2>5. T \in Sections /\ Unique(T.syms) BY <2>4, Zenon DEF Good, Tables
  <2>6. Keeps(Now.syms, T.syms) /\ SameNames(Now.syms, T.syms) BY <1>4, <2>4, NowIs, Zenon
  <2> HIDE DEF T
  <2>7. VarsPlaced(T, prog.vars, nv, dataOffset, bssOffset)
    <3>1. dataOffset <= dataOffset /\ bssOffset <= bssOffset BY <1>2, ZeroUp, Zenon
    <3> QED BY <1>2, <2>4, <2>5, <2>6, <3>1, VarsKeptMore, Zenon
  <2>8. CodePlaced(T, Len(code'), rels, used) BY <1>2, <2>2, <2>4, <2>5, <2>6, CodeKept, Zenon
  <2>9. at \in 1 .. at /\ \A f \in 1 .. at - 1 : f \in 1 .. at BY <1>2
  <2>10. Defined(T, prog, Names, nv, at, FALSE)
    <3>1. SUFFICES ASSUME NEW i \in 1 .. Len(T.syms), ~Strung(T.syms[i])
          PROVE  /\ T.syms[i].name \in Names
                 /\ FALSE \/ T.syms[i].shndx # 0 => \/ \E v \in 1 .. nv : T.syms[i].name = prog.vars[v].name
                                                    \/ \E f \in 1 .. at : T.syms[i].name = prog.funcs[f].name
      BY Zenon DEF Defined
    <3>2. CASE T.syms[i] = y
      <4>1. T.syms[i].name = prog.funcs[at].name BY <1>3, <3>2, Zenon DEF Func
      <4> QED BY <1>3, <2>9, <3>2, <4>1, Zenon
    <3>3. CASE i \in 1 .. Len(syms) /\ T.syms[i] = syms[i]
      <4>1. i \in 1 .. Len(Now.syms) /\ T.syms[i] = Now.syms[i] BY <3>3, NowIs, Zenon
      <4>2. /\ T.syms[i].name \in Names
            /\ FALSE \/ T.syms[i].shndx # 0 => \/ \E v \in 1 .. nv : T.syms[i].name = prog.vars[v].name
                                               \/ \E f \in 1 .. at - 1 : T.syms[i].name = prog.funcs[f].name
        BY <1>2, <3>1, <4>1, Zenon DEF Defined
      <4> QED BY <2>9, <4>2, Zenon
    <3> QED BY <1>4, <2>4, <3>2, <3>3, Zenon
  <2>11. /\ Before(at, h + 1) = Before(at + 1, 0)
         /\ Len(Upto(FuncUses)[at]) = Len(Upto(FuncUses)[at - 1]) + h
    BY <1>2, BeforeEnds, Zenon
  <2>12. use = h + 1
    <3>1. use > 0 => use <= Len(prog.funcs[at].uses) + 1 BY <1>2, Zenon DEF FuncsSoFar
    <3>2. use > 0 => use <= h + 1 BY <3>1, Zenon DEF Func
    <3>3. use > h /\ h \in Nat /\ use \in Nat BY <1>1, <1>2, Zenon
    <3> HIDE DEF h
    <3> QED BY <3>2, <3>3, SMT
  <2>13. Len(strInfos) = Before(at + 1, 0)
    <3>1. Len(strInfos) = Before(at, use) BY <1>2, Zenon DEF FuncsSoFar
    <3> QED BY <2>11, <2>12, <3>1, Zenon
  <2>14. Len(rels) <= Len(Upto(FuncUses)[at]) + 0
    <3> DEFINE b == Len(Upto(FuncUses)[at - 1])
    <3>1. b \in Nat BY <1>2, BeforeEnds, Zenon
    <3>2. Len(rels) <= b + IF use = 0 THEN 0 ELSE use - 1 BY <1>2, Zenon DEF FuncsSoFar
    <3>3. Len(Upto(FuncUses)[at]) = b + h BY <2>11, Zenon
    <3>4. h \in Nat BY <1>2, Zenon
    <3> HIDE DEF b, h
    <3>5. ~(h + 1 = 0) /\ (h + 1) - 1 = h BY <3>4
    <3>6. Len(rels) <= b + h BY <2>12, <3>2, <3>5, Zenon
    <3>7. b + h + 0 = b + h BY <3>1, <3>4
    <3> QED BY <3>3, <3>6, <3>7, Zenon
  <2>15. at + 1 \in Nat \ {0} /\ (at + 1) - 1 = at /\ at <= Len(prog.funcs) /\ 0 \in Nat /\ ~(0 > 0) /\ 0 = 0
    <3>1. Len(prog.funcs) \in Nat BY <1>2, ProgIs, Zenon
    <3> QED BY <1>2, <3>1, SMT
  <2>16. /\ prog' = prog /\ pc' = pc /\ begin' = begin /\ rels' = rels /\ strInfos' = strInfos /\ used' = used
    BY <2>1
  <2>17. begin <= Len(code') BY <1>2, <2>2, SMT
  <2>18. /\ Good(Now') /\ Told(Strings, Now') /\ CodePlaced(Now', Len(code'), rels', used')
         /\ VarsPlaced(Now', prog.vars, nv, dataOffset, bssOffset) /\ Defined(Now', prog, Names, nv, at' - 1, FALSE)
         /\ rels' \in Seq(Relocs)
    BY <1>2, <2>1, <2>4, <2>7, <2>8, <2>10, <2>15, <2>16, Zenon DEF T
  <2>19. /\ at' \in Nat \ {0} /\ use' \in Nat /\ begin' \in Nat /\ begin' <= Len(code')
         /\ at' - 1 <= Len(prog.funcs) /\ ~(use' > 0) /\ Len(strInfos') = Before(at', use')
    BY <1>2, <2>1, <2>13, <2>15, <2>16, <2>17, Zenon
  <2>20. Len(rels') <= Len(Upto(FuncUses)[at' - 1]) + IF use' = 0 THEN 0 ELSE use' - 1
    BY <2>1, <2>14, <2>15, <2>16, Zenon
  <2>21. UNCHANGED <<prog, pc, data, dataOffset, bssOffset, dataRels>> BY <2>1
  <2> QED BY <1>2, <2>2, <2>18, <2>19, <2>20, <2>21, FuncsGoOn, Zenon
<1> QED BY <1>5, <1>6, Zenon

-----------------------------------------------------------------------------
(* The strings are put after the code. *)
LEMMA PlaceStringsKeeps ==
  ASSUME Whole, Hyp, PlaceStrings
  PROVE  Whole'
<1>1. /\ pc = "funcs" /\ at > Len(prog.funcs)
      /\ IF pool # <<>> /\ Len(code) + Len(pool) > CODE_BUF_SIZE THEN Fail
         ELSE /\ code' = code \o pool
              /\ syms' = [i \in DOMAIN syms |-> Moved(i, Len(code))]
              /\ pc' = "done"
              /\ UNCHANGED <<prog, at, use, begin, data, dataOffset, bssOffset, dataRels, rels, pool, strInfos, used>>
  BY Zenon DEF PlaceStrings
<1>2. CASE pool # <<>> /\ Len(code) + Len(pool) > CODE_BUF_SIZE
  <2>1. Fail BY <1>1, <1>2, Zenon
  <2>2. OutOfRoom BY <1>2, Zenon DEF OutOfRoom
  <2> QED BY <2>1, <2>2, Fails, Zenon
<1>3. CASE ~(pool # <<>> /\ Len(code) + Len(pool) > CODE_BUF_SIZE)
  <2>1. /\ code' = code \o pool /\ syms' = [i \in DOMAIN syms |-> Moved(i, Len(code))] /\ pc' = "done"
        /\ UNCHANGED <<prog, at, use, begin, data, dataOffset, bssOffset, dataRels, rels, pool, strInfos, used>>
    BY <1>1, <1>3, Zenon
  <2>2. /\ prog' = prog /\ data' = data /\ dataOffset' = dataOffset /\ bssOffset' = bssOffset
        /\ dataRels' = dataRels /\ rels' = rels /\ pool' = pool /\ strInfos' = strInfos /\ used' = used
    BY <2>1
  <2>3. FuncsSoFar /\ prog \in Programs /\ Len(data) \in Nat /\ dataOffset \in Nat /\ Len(data) <= dataOffset
    BY <1>1, Zenon DEF Whole
  <2>4. Core /\ Len(data) = dataOffset /\ VarsPlaced(Now, prog.vars, Len(prog.vars), dataOffset, bssOffset)
    BY <2>3, Zenon DEF FuncsSoFar
  <2>5. Good(Now) /\ bssOffset \in Nat /\ code \in Seq(Nat) /\ rels \in Seq(Relocs)
        /\ CodePlaced(Now, Len(code), rels, used)
    BY <2>4, Zenon DEF Core
  <2>6. Now \in Sections BY <2>5, Zenon DEF Good
  <2>7. syms \in Seq(Symbols)
    <3>1. Now.syms \in Seq(Symbols) BY <2>6, LaterParts, Zenon
    <3> QED BY <3>1, NowIs, Zenon
  <2>8. With(Now', syms) = Now BY <2>2, NowNext, Zenon DEF With, Now
  <2>9. syms' = [i \in DOMAIN syms |-> Shifted(syms, strInfos', i, Len(code))]
    <3>1. \A i : Moved(i, Len(code)) = Shifted(syms, strInfos, i, Len(code)) BY Zenon DEF Moved, Shifted
    <3>2. [i \in DOMAIN syms |-> Moved(i, Len(code))] = [i \in DOMAIN syms |-> Shifted(syms, strInfos, i, Len(code))]
      BY <3>1, Zenon
    <3> QED BY <2>1, <2>2, <3>2, Zenon
  <2>10. /\ Good(With(Now', syms)) /\ CodePlaced(With(Now', syms), Len(code), rels', used')
         /\ VarsPlaced(With(Now', syms), prog'.vars, Len(prog'.vars), dataOffset', bssOffset')
    BY <2>2, <2>4, <2>5, <2>8, Zenon
  <2>11. code' = code \o pool' BY <2>1, <2>2, Zenon
  <2>12. /\ code \in Seq(Nat) /\ syms \in Seq(Symbols) /\ code' = code \o pool'
         /\ syms' = [i \in DOMAIN syms |-> Shifted(syms, strInfos', i, Len(code))]
         /\ Good(With(Now', syms)) /\ Len(data') = dataOffset' /\ bssOffset' \in Nat /\ rels' \in Seq(Relocs)
         /\ VarsPlaced(With(Now', syms), prog'.vars, Len(prog'.vars), dataOffset', bssOffset')
         /\ CodePlaced(With(Now', syms), Len(code), rels', used')
    BY <2>2, <2>4, <2>5, <2>7, <2>9, <2>10, <2>11, Zenon
  <2>13. AllPlaced'
    <3>1. \E names, c :
            /\ c \in Seq(Nat) /\ names \in Seq(Symbols) /\ code' = c \o pool'
            /\ syms' = [i \in DOMAIN names |-> Shifted(names, strInfos', i, Len(c))]
            /\ Good(With(Now', names)) /\ Len(data') = dataOffset' /\ bssOffset' \in Nat /\ rels' \in Seq(Relocs)
            /\ VarsPlaced(With(Now', names), prog'.vars, Len(prog'.vars), dataOffset', bssOffset')
            /\ CodePlaced(With(Now', names), Len(c), rels', used')
      BY <2>12, Zenon
    <3> QED BY <3>1, Zenon DEF AllPlaced, PlacedFrom
  <2> QED BY <2>1, <2>2, <2>3, <2>13, SMT DEF Whole
<1> QED BY <1>2, <1>3, Zenon

-----------------------------------------------------------------------------
(* The symbols when the strings are placed. *)
LEMMA ShiftedIs ==
  ASSUME NEW strs \in Seq(StrInfos), NEW names \in Seq(Symbols), StrsNamed(strs, names), NEW from \in Nat,
         NEW i \in 1 .. Len(names)
  PROVE  LET y == Shifted(names, strs, i, from)
         IN  /\ y.name = names[i].name /\ y.shndx = names[i].shndx
             /\ ~Strung(names[i]) => y = names[i]
             /\ \A k \in 1 .. Len(strs) : strs[k].sym = i => y.offset = from + strs[k].poolOffset /\ y.shndx = 1
<1> DEFINE y == Shifted(names, strs, i, from)
           p == CHOOSE k \in DOMAIN strs : strs[k].sym = i
<1>1. DOMAIN strs = 1 .. Len(strs) /\ Len(strs) \in Nat OBVIOUS
<1>2. names[i] \in Symbols OBVIOUS
<1>3. CASE ~\E k \in DOMAIN strs : strs[k].sym = i
  <2>1. y = names[i] BY <1>3, Zenon DEF Shifted
  <2> QED BY <1>1, <1>3, <2>1, Zenon
<1>4. CASE \E k \in DOMAIN strs : strs[k].sym = i
  <2>1. p \in 1 .. Len(strs) /\ strs[p].sym = i BY <1>1, <1>4, Zenon
  <2> HIDE DEF p
  <2>2. y = [names[i] EXCEPT !.offset = from + strs[p].poolOffset] BY <1>4, Zenon DEF Shifted, p

  <2>4. y.name = names[i].name /\ y.shndx = names[i].shndx /\ y.offset = from + strs[p].poolOffset
    <3> DEFINE o == from + strs[p].poolOffset
               x == names[i]
               z == [x EXCEPT !.offset = o]
    <3>1. x \in Symbols /\ y = z BY <1>2, <2>2, Zenon
    <3> HIDE DEF o, x, y
    <3>2. z.name = x.name /\ z.shndx = x.shndx /\ z.offset = o BY <3>1 DEF Symbols
    <3> HIDE DEF z
    <3>3. y.name = x.name /\ y.shndx = x.shndx /\ y.offset = o BY <3>1, <3>2, Zenon
    <3> QED BY <3>3, Zenon DEF o, x
  <2>5. names[i].name = <<"LC", p - 1>> /\ names[i].shndx = 1 BY <2>1, Zenon DEF StrsNamed
  <2>6. Strung(names[i])
    <3>1. \A n : <<"LC", n>>[1] = "LC" OBVIOUS
    <3> QED BY <2>5, <3>1, Zenon DEF Strung
  <2>7. \A k \in 1 .. Len(strs) : strs[k].sym = i => k = p
    <3> SUFFICES ASSUME NEW k \in 1 .. Len(strs), strs[k].sym = i PROVE k = p OBVIOUS
    <3>1. names[i].name = <<"LC", k - 1>> BY Zenon DEF StrsNamed
    <3>2. \A a, b : <<"LC", a>> = <<"LC", b>> => a = b OBVIOUS
    <3>3. k - 1 = p - 1 BY <2>5, <3>1, <3>2, Zenon
    <3> QED BY <1>1, <2>1, <3>3, SMT
  <2> HIDE DEF y
  <2> QED BY <2>4, <2>5, <2>6, <2>7, Zenon DEF y
<1> QED BY <1>3, <1>4, Zenon

(* A part of a sequence, item by item. *)
Part(s, a, n) == SubSeq(s, a + 1, a + n)
IsPart(T, s, a, n, f) ==
  /\ s \in Seq(T) /\ a \in Nat /\ n \in Nat /\ a + n <= Len(s) /\ f \in Seq(T) /\ Len(f) = n
  /\ \A i \in 1 .. n : s[a + i] = f[i]

(* Part, by its elements. *)
LEMMA PartIs ==
  ASSUME NEW T, NEW s, NEW a, NEW n, NEW f, IsPart(T, s, a, n, f)
  PROVE  Part(s, a, n) = f
<1>0. /\ s \in Seq(T) /\ a \in Nat /\ n \in Nat /\ a + n <= Len(s) /\ f \in Seq(T) /\ Len(f) = n
      /\ \A i \in 1 .. n : s[a + i] = f[i]
  BY Zenon DEF IsPart
<1> USE <1>0
<1>1. SubSeq(s, a + 1, a + n) \in Seq(T) /\ Len(SubSeq(s, a + 1, a + n)) = n OBVIOUS
<1>2. \A i \in 1 .. n : SubSeq(s, a + 1, a + n)[i] = s[a + i] OBVIOUS
<1>3. \A i \in 1 .. n : SubSeq(s, a + 1, a + n)[i] = f[i] BY <1>2
<1> DEFINE g == SubSeq(s, a + 1, a + n)
<1> HIDE DEF g
<1>4. g \in Seq(T) /\ Len(g) = n /\ \A i \in 1 .. n : g[i] = f[i] BY <1>1, <1>3, Zenon DEF g
<1>5. g = f BY <1>4
<1> QED BY <1>5, Zenon DEF g, Part

(* What a symbol of a string stands for. *)
LEMMA StandsPlaced ==
  ASSUME NEW names, NEW c, PlacedFrom(names, c), NEW i \in 1 .. Len(names), NEW s \in Seq(Nat),
         Stands(strInfos, pool, i, s)
  PROVE  StringAt(syms[i], s)
<1>1. c \in Seq(Nat) /\ names \in Seq(Symbols) /\ code = c \o pool
      /\ syms = [j \in DOMAIN names |-> Shifted(names, strInfos, j, Len(c))] /\ Good(With(Now, names))
  BY Zenon DEF PlacedFrom
<1>2. strInfos \in Seq(StrInfos) /\ pool \in Seq(Nat) /\ StrsNamed(strInfos, names)
  <2> DEFINE R == With(Now, names)
  <2>1. R.strs = strInfos /\ R.pool = pool /\ R.syms = names BY NowIs DEF With
  <2> HIDE DEF R
  <2>2. Good(R) BY <1>1, Zenon DEF R
  <2>3. R \in Sections /\ StrsNamed(R.strs, R.syms) BY <2>2, Zenon DEF Good, Tables
  <2>4. R.strs \in Seq(StrInfos) /\ R.pool \in Seq(Nat) BY <2>3, LaterParts, Zenon
  <2> QED BY <2>1, <2>3, <2>4, Zenon
<1>3. PICK k \in 1 .. Len(strInfos) :
        /\ strInfos[k].sym = i /\ strInfos[k].poolOffset + Len(s) + 1 <= Len(pool)
        /\ \A j \in 1 .. Len(s) + 1 : pool[strInfos[k].poolOffset + j] = Append(s, 0)[j]
  BY Zenon DEF Stands
<1> DEFINE q == strInfos[k].poolOffset
           l == Len(c)
           t == Append(s, 0)
           n == Len(s) + 1
           y == syms[i]
           m == Len(pool)
<1>4. l \in Nat /\ q \in Nat /\ n \in Nat /\ Len(s) \in Nat /\ m \in Nat /\ t \in Seq(Nat) /\ Len(t) = n
  <2>1. l \in Nat BY <1>1
  <2>2. strInfos[k] \in StrInfos BY <1>2
  <2>3. q \in Nat BY <2>2 DEF StrInfos
  <2>4. n \in Nat /\ Len(s) \in Nat /\ t \in Seq(Nat) /\ Len(t) = n OBVIOUS
  <2>5. m \in Nat BY <1>2
  <2> QED BY <2>1, <2>3, <2>4, <2>5, Zenon
<1>5. y.offset = l + q /\ y.shndx = 1
  <2>1. DOMAIN names = 1 .. Len(names) BY <1>1
  <2>2. y = Shifted(names, strInfos, i, l) BY <1>1, <2>1, Zenon
  <2>3. \A j \in 1 .. Len(strInfos) :
          strInfos[j].sym = i => Shifted(names, strInfos, i, l).offset = l + strInfos[j].poolOffset
                                 /\ Shifted(names, strInfos, i, l).shndx = 1
    <3> HIDE DEF l
    <3> QED BY <1>1, <1>2, <1>4, ShiftedIs, Zenon
  <2> QED BY <1>3, <2>2, <2>3, Zenon
<1>6. Len(code) = l + m /\ (\A p \in 1 .. m : code[l + p] = pool[p])
  <2>1. /\ Len(c \o pool) = l + m
        /\ \A p \in 1 .. m : (c \o pool)[l + p] = pool[p]
    <3>1. c \in Seq(Nat) /\ pool \in Seq(Nat) BY <1>1, <1>2, Zenon
    <3>2. /\ Len(c \o pool) = Len(c) + Len(pool)
          /\ \A p \in 1 .. Len(pool) : (c \o pool)[Len(c) + p] = pool[p]
      BY <3>1, JoinedTwo, SMT
    <3> QED BY <3>2, Zenon
  <2> QED BY <1>1, <2>1, Zenon
<1>7. code \in Seq(Nat) BY <1>1, <1>2, JoinedTwo, Zenon
<1>8. q + n <= m
  <2>1. q + Len(s) + 1 <= m BY <1>3, Zenon
  <2>2. q + Len(s) + 1 = q + n
    <3>1. \A a, b \in Nat : a + b + 1 = a + (b + 1) OBVIOUS
    <3> QED BY <1>4, <3>1, Zenon
  <2> QED BY <2>1, <2>2, Zenon
<1>9. \A j \in 1 .. n : pool[q + j] = t[j] BY <1>3, Zenon
<1> HIDE DEF q, l, t, n, y, m
<1> DEFINE a == l + q
<1>10. a \in Nat /\ a + n <= Len(code) BY <1>4, <1>6, <1>8, SMT
<1>11. \A j \in 1 .. n : code[a + j] = t[j]
  <2> SUFFICES ASSUME NEW j \in 1 .. n PROVE code[a + j] = t[j] OBVIOUS
  <2>1. q + j \in 1 .. m /\ l + (q + j) = a + j BY <1>4, <1>8, SMT
  <2> HIDE DEF a
  <2>2. code[l + (q + j)] = pool[q + j] BY <1>6, <2>1, Zenon
  <2> QED BY <1>9, <2>1, <2>2, Zenon
<1> HIDE DEF a
<1>12. SubSeq(code, a + 1, a + n) = t
  <2>1. IsPart(Nat, code, a, n, t) BY <1>4, <1>7, <1>10, <1>11, Zenon DEF IsPart
  <2>2. Part(code, a, n) = t BY <2>1, PartIs, Zenon
  <2> QED BY <2>2, Zenon DEF Part
<1>13. a + n = a + Len(s) + 1 /\ a + Len(s) < Len(code)
  <2>1. n = Len(s) + 1 BY Zenon DEF n
  <2>2. Len(code) \in Nat BY <1>7, LenNat, Zenon
  <2> QED BY <1>4, <1>10, <2>1, <2>2, SMT
<1>14. y.offset = a BY <1>5, Zenon DEF a
<1> QED BY <1>5, <1>12, <1>13, <1>14, Zenon DEF StringAt, y, t

-----------------------------------------------------------------------------
(* What the tables are when the strings are placed. *)
LEMMA PlacedParts ==
  ASSUME NEW names, NEW c, PlacedFrom(names, c)
  PROVE  LET R == With(Now, names)
         IN  /\ Good(R) /\ R \in Sections /\ R.data = data /\ R.rels = dataRels /\ R.syms = names
             /\ R.pool = pool /\ R.strs = strInfos
             /\ StrsNamed(strInfos, names) /\ Unique(names) /\ strInfos \in Seq(StrInfos)
             /\ pool \in Seq(Nat) /\ dataRels \in Seq(Relocs) /\ data \in Seq(Octets) /\ names \in Seq(Symbols)
             /\ c \in Seq(Nat) /\ Len(c) \in Nat /\ Len(data) = dataOffset /\ Len(data) \in Nat
<1> DEFINE R == With(Now, names)
<1>1. Good(R) /\ names \in Seq(Symbols) /\ c \in Seq(Nat) /\ Len(data) = dataOffset BY Zenon DEF PlacedFrom
<1>2. R.data = data /\ R.rels = dataRels /\ R.syms = names /\ R.pool = pool /\ R.strs = strInfos
  BY NowIs DEF With
<1> HIDE DEF R
<1>3. R \in Sections /\ StrsNamed(R.strs, R.syms) /\ Unique(R.syms) BY <1>1, Zenon DEF Good, Tables
<1>4. R.strs \in Seq(StrInfos) /\ R.pool \in Seq(Nat) /\ R.rels \in Seq(Relocs) /\ R.data \in Seq(Octets)
      /\ Len(R.data) \in Nat
  BY <1>3, LaterParts, Zenon
<1>5. Len(c) \in Nat BY <1>1, LenNat, Zenon
<1> QED BY <1>1, <1>2, <1>3, <1>4, <1>5, Zenon DEF R

(* Bytes that are what the cell says. *)
LEMMA CellBytes ==
  ASSUME data \in Seq(Octets), Len(data) \in Nat, NEW from \in Nat, NEW size \in Nat, from + size <= Len(data),
         NEW it, it \in Items, NEW list \in BOOLEAN, ~(list /\ it.str),
         \A i \in 1 .. size : ByteAt(data, from + i) = Value(list, it, i)
  PROVE  SubSeq(data, from + 1, from + size) = IF list THEN Bytes(it.v, size) ELSE Zeros(size)
<1>1. \A i \in 1 .. size : data[from + i] = Value(list, it, i)
  <2> SUFFICES ASSUME NEW i \in 1 .. size PROVE data[from + i] = Value(list, it, i) OBVIOUS
  <2>1. from + i \in 1 .. Len(data) OBVIOUS
  <2>2. ByteAt(data, from + i) = data[from + i] BY <2>1, Zenon DEF ByteAt
  <2>3. ByteAt(data, from + i) = Value(list, it, i) BY Zenon
  <2> QED BY <2>2, <2>3, Zenon
<1>2. CASE list
  <2> DEFINE f == Bytes(it.v, size)
  <2>1. it.v \in Int
    <3>1. it.str \in BOOLEAN /\ (~it.str => it.v \in Int) BY ItemIs, Zenon
    <3> QED BY <1>2, <3>1, Zenon
  <2>2. f \in Seq(Octets) /\ Len(f) = size /\ \A i \in 1 .. size : f[i] = Byte(it.v, i - 1) BY <2>1, BytesAre, Zenon
  <2>3. \A i \in 1 .. size : data[from + i] = f[i] BY <1>1, <1>2, <2>2, Zenon DEF Value
  <2> HIDE DEF f
  <2>4. IsPart(Octets, data, from, size, f) BY <2>2, <2>3, Zenon DEF IsPart
  <2>5. Part(data, from, size) = f BY <2>4, PartIs, Zenon
  <2> QED BY <1>2, <2>5, Zenon DEF f, Part
<1>3. CASE ~list
  <2> DEFINE f == Zeros(size)
  <2>1. f \in Seq(Octets) /\ Len(f) = size /\ \A i \in 1 .. size : f[i] = 0
    <3>1. size \in Int /\ (IF size > 0 THEN size ELSE 0) = size OBVIOUS
    <3> QED BY <3>1, ZeroIn, ZerosAre, Zenon
  <2>2. \A i \in 1 .. size : data[from + i] = f[i] BY <1>1, <1>3, <2>1, Zenon DEF Value
  <2> HIDE DEF f
  <2>3. IsPart(Octets, data, from, size, f) BY <2>1, <2>2, Zenon DEF IsPart
  <2>4. Part(data, from, size) = f BY <2>3, PartIs, Zenon
  <2> QED BY <1>3, <2>4, Zenon DEF f, Part
<1> QED BY <1>2, <1>3, Zenon

(* A variable holds what its declaration says. *)
LEMMA HoldsPlaced ==
  ASSUME NEW names, NEW c, PlacedFrom(names, c), NEW d, IsVar(d), Described(d), NEW o \in Nat,
         o + Node(d).ival <= dataOffset, VarHeld(With(Now, names), o, d), NEW y, y.offset = o
  PROVE  Holds(d, y)
<1> DEFINE R == With(Now, names)
           list == d.given = "list"
<1>1. /\ R.data = data /\ R.rels = dataRels /\ R.pool = pool /\ R.strs = strInfos
      /\ StrsNamed(strInfos, names) /\ dataRels \in Seq(Relocs) /\ data \in Seq(Octets)
      /\ Len(data) = dataOffset /\ Len(data) \in Nat
  BY PlacedParts, Zenon
<1>2. DOMAIN dataRels = 1 .. Len(dataRels) BY <1>1
<1>3. \A e \in Image(d) : e[1] \in Nat /\ e[2] \in Nat /\ e[3] \in Items /\ e[1] + e[2] <= Node(d).ival
  <2>1. (d.given = "list" /\ LaidAsC(d)) \/ (d.given # "list" /\ ~d.open) BY Zenon DEF Described
  <2> QED BY <2>1, ImageIn, Zenon
<1>4. Node(d).ival \in Nat BY ItemsAre, Zenon
<1> SUFFICES ASSUME NEW e \in Image(d)
             PROVE  LET from == o + e[1]
                        here == {k \in DOMAIN dataRels : dataRels[k].off + 8 > from /\ dataRels[k].off < from + e[2]}
                    IN  IF d.given = "list" /\ e[3].str
                        THEN \E k \in here : /\ here = {k} /\ dataRels[k].off = from
                                             /\ StringAt(syms[dataRels[k].sym], e[3].s)
                        ELSE /\ here = {}
                             /\ SubSeq(data, from + 1, from + e[2])
                                  = IF d.given = "list" THEN Bytes(e[3].v, e[2]) ELSE Zeros(e[2])
  BY Zenon DEF Holds
<1> DEFINE from == o + e[1]
           size == e[2]
           it   == e[3]
           here == {k \in DOMAIN dataRels : dataRels[k].off + 8 > from /\ dataRels[k].off < from + size}
<1>5. size \in Nat /\ it \in Items /\ e[1] \in Nat /\ e[1] + size <= Node(d).ival BY <1>3, Zenon
<1>6. from \in Nat /\ from + size <= Len(data)
  <2> DEFINE w == Node(d).ival
             x == e[1]
             z == Len(data)
  <2>1. w \in Nat /\ x \in Nat /\ x + size <= w /\ o + w <= z /\ z \in Nat /\ size \in Nat BY <1>1, <1>4, <1>5, Zenon
  <2> HIDE DEF w, x, z, size
  <2>2. o + x \in Nat /\ (o + x) + size <= z BY <2>1
  <2> QED BY <2>2, Zenon DEF x, z
<1>7. CellOk(R, from, size, it, list) BY Zenon DEF VarHeld
<1>8. here = {k \in 1 .. Len(dataRels) : Touches(dataRels[k], from, size)} BY <1>2, Zenon DEF Touches
<1> HIDE DEF from, size, it, here, R
<1>9. CASE list /\ it.str
  <2>1. \E k \in 1 .. Len(R.rels) :
          /\ R.rels[k].off = from /\ Stands(R.strs, R.pool, R.rels[k].sym, it.s)
          /\ Touches(R.rels[k], from, size)
          /\ \A j \in 1 .. Len(R.rels) : Touches(R.rels[j], from, size) => j = k
    BY <1>7, <1>9, Zenon DEF CellOk
  <2>2. PICK k \in 1 .. Len(dataRels) :
          /\ dataRels[k].off = from /\ Stands(strInfos, pool, dataRels[k].sym, it.s)
          /\ Touches(dataRels[k], from, size)
          /\ \A j \in 1 .. Len(dataRels) : Touches(dataRels[j], from, size) => j = k
    BY <1>1, <2>1, Zenon
  <2>3. k \in here /\ here = {k} BY <1>8, <2>2, Zenon
  <2>4. it.s \in Seq(Nat) BY <1>5, <1>9, ItemIs, Zenon
  <2>5. dataRels[k].sym \in 1 .. Len(names) BY <1>1, <2>2, Zenon DEF Stands, StrsNamed
  <2>6. StringAt(syms[dataRels[k].sym], it.s) BY <2>2, <2>4, <2>5, StandsPlaced, Zenon
  <2> QED BY <1>9, <2>2, <2>3, <2>6, Zenon DEF from, it, here, size
<1>10. CASE ~(list /\ it.str)
  <2>1. /\ \A j \in 1 .. Len(R.rels) : ~Touches(R.rels[j], from, size)
        /\ \A i \in 1 .. size : ByteAt(R.data, from + i) = Value(list, it, i)
    BY <1>7, <1>10, Zenon DEF CellOk
  <2>2. here = {} BY <1>1, <1>8, <2>1, Zenon
  <2>3. \A i \in 1 .. size : ByteAt(data, from + i) = Value(list, it, i) BY <1>1, <2>1, Zenon
  <2>4. list \in BOOLEAN OBVIOUS
  <2> HIDE DEF list
  <2>5. SubSeq(data, from + 1, from + size) = IF list THEN Bytes(it.v, size) ELSE Zeros(size)
    BY <1>1, <1>5, <1>6, <1>10, <2>3, <2>4, CellBytes, ZenonT(30)
  <2> QED BY <1>10, <2>2, <2>5, Zenon DEF from, it, here, size, list
<1> QED BY <1>9, <1>10, Zenon

-----------------------------------------------------------------------------
(* The symbols in the end have the names, and a variable the place, that *)

(* they had. *)
LEMMA PlacedSymbols ==
  ASSUME NEW names, NEW c, PlacedFrom(names, c)
  PROVE  /\ DOMAIN syms = 1 .. Len(names) /\ Len(syms) = Len(names)
         /\ \A i \in 1 .. Len(names) :
              /\ syms[i].name = names[i].name /\ syms[i].shndx = names[i].shndx
              /\ ~Strung(names[i]) => syms[i] = names[i]
<1>1. /\ names \in Seq(Symbols) /\ strInfos \in Seq(StrInfos) /\ StrsNamed(strInfos, names) /\ Len(c) \in Nat
  BY PlacedParts, Zenon
<1>2. syms = [i \in DOMAIN names |-> Shifted(names, strInfos, i, Len(c))] BY Zenon DEF PlacedFrom
<1>3. DOMAIN names = 1 .. Len(names) /\ Len(names) \in Nat BY <1>1
<1>4. syms = [i \in 1 .. Len(names) |-> Shifted(names, strInfos, i, Len(c))] BY <1>2, <1>3, Zenon
<1>5. DOMAIN syms = 1 .. Len(names) /\ Len(syms) = Len(names)
  <2> DEFINE n == Len(names)
             F(i) == Shifted(names, strInfos, i, Len(c))
  <2>1. syms = [i \in 1 .. n |-> F(i)] /\ n \in Nat BY <1>3, <1>4, Zenon
  <2> HIDE DEF F, n
  <2>2. DOMAIN syms = 1 .. n /\ Len(syms) = n BY <2>1
  <2> QED BY <2>2, Zenon DEF n
<1>6. ASSUME NEW i \in 1 .. Len(names)
      PROVE  /\ syms[i].name = names[i].name /\ syms[i].shndx = names[i].shndx
             /\ ~Strung(names[i]) => syms[i] = names[i]
  <2>1. syms[i] = Shifted(names, strInfos, i, Len(c)) BY <1>4, Zenon
  <2>2. LET y == Shifted(names, strInfos, i, Len(c))
        IN  y.name = names[i].name /\ y.shndx = names[i].shndx /\ (~Strung(names[i]) => y = names[i])
    BY <1>1, ShiftedIs, Zenon
  <2> QED BY <2>1, <2>2, Zenon
<1> QED BY <1>5, <1>6, Zenon

(* The least of one number. *)
LEMMA LowestOne == ASSUME NEW i \in Nat PROVE Lowest({i}) = i
<1>1. {i} \subseteq Nat /\ {i} # {} OBVIOUS
<1>2. Lowest({i}) \in {i} BY <1>1, HasLeast, Zenon
<1> QED BY <1>2

(* The symbol of a variable. *)
LEMMA SymbolPlaced ==
  ASSUME NEW names, NEW c, PlacedFrom(names, c), NEW d, IsVar(d), NEW o \in Nat, Has(names, d, o)
  PROVE  SymbolOf(d.name) = Symb(d, o)
<1>1. PICK i \in 1 .. Len(names) : names[i] = Symb(d, o) BY Zenon DEF Has
<1>2. ~Strung(names[i]) /\ names[i].shndx # 0 /\ names[i].name = d.name
  <2> DEFINE y == Symb(d, o)
  <2>1. ~Strung(y) /\ y.name = d.name /\ (y.shndx = 5 \/ y.shndx = 3)
    <3>1. ~Strung(y) /\ y.name = d.name BY SymbIs, Zenon
    <3>2. y.shndx = 5 \/ y.shndx = 3 BY DEF Symb, Symbol
    <3> QED BY <3>1, <3>2, Zenon
  <2> HIDE DEF y
  <2>2. y.shndx # 0 BY <2>1
  <2>3. names[i] = y BY <1>1, Zenon DEF y
  <2> QED BY <2>1, <2>2, <2>3, Zenon
<1>3. /\ DOMAIN syms = 1 .. Len(names)
      /\ \A j \in 1 .. Len(names) :
           /\ syms[j].name = names[j].name /\ syms[j].shndx = names[j].shndx
           /\ ~Strung(names[j]) => syms[j] = names[j]
  BY PlacedSymbols, Zenon
<1>4. syms[i] = Symb(d, o) BY <1>1, <1>2, <1>3, Zenon
<1>5. Unique(names) BY PlacedParts, Zenon
<1>6. \A j \in DOMAIN syms : syms[j].name = d.name => j = i BY <1>2, <1>3, <1>5, Zenon DEF Unique
<1>7. {j \in DOMAIN syms : syms[j].name = d.name /\ syms[j].shndx # 0} = {i}
  BY <1>2, <1>3, <1>6, Zenon
<1>8. i \in Nat
  <2>1. names \in Seq(Symbols) BY PlacedParts, Zenon
  <2>2. Len(names) \in Nat BY <2>1, LenNat, Zenon
  <2> QED BY <2>2
<1>9. Lowest({i}) = i BY <1>8, LowestOne, Zenon
<1> QED BY <1>4, <1>7, <1>9, Zenon DEF SymbolOf

(* Every variable is as C says when the strings are placed. *)
LEMMA VariablesPlaced ==
  ASSUME prog \in Programs, Agreed, NEW names, NEW c, PlacedFrom(names, c), NEW v \in 1 .. Len(prog.vars)
  PROVE  VariableAsC(prog.vars[v])
<1> DEFINE n == Len(prog.vars)
           R == With(Now, names)
           d == prog.vars[v]
<1>1. n \in Nat /\ DOMAIN prog.vars = 1 .. n BY ProgIs, Zenon
<1>2. SomeVars(prog.vars, n)
  <2>1. n \in 0 .. n BY <1>1, ZeroUp, Zenon
  <2> QED BY <2>1, VarsSome, Zenon
<1>3. VarsPlaced(R, prog.vars, n, dataOffset, bssOffset) BY Zenon DEF PlacedFrom
<1>4. R.syms = names BY PlacedParts, Zenon
<1>5. \A w \in 1 .. n : IsVar(prog.vars[w]) /\ Described(prog.vars[w]) BY <1>2, Zenon DEF SomeVars
<1>6. \A w \in 1 .. n : \E o \in Nat : VarAt(R, prog.vars[w], o, dataOffset, bssOffset) BY <1>3, Zenon DEF VarsPlaced
<1> HIDE DEF R
<1>7. PICK o \in Nat : VarAt(R, d, o, dataOffset, bssOffset) BY <1>6, Zenon
<1>8. Has(names, d, o) BY <1>4, <1>7, Zenon DEF VarAt
<1>9. IsVar(d) /\ Described(d) BY <1>5, Zenon
<1> DEFINE y == Symb(d, o)
<1>10. SymbolOf(d.name) = y BY <1>8, <1>9, SymbolPlaced, Zenon
<1>11. y.offset = o /\ y.size = Node(d).ival /\ y.shndx = (IF d.given = "none" THEN 5 ELSE 3)
  BY DEF Symb, Symbol
<1> HIDE DEF y
<1>12. y.size >= CSize(d)
  <2>1. (d.given = "list" /\ LaidAsC(d)) \/ (d.given # "list" /\ ~d.open) BY <1>9, Zenon DEF Described
  <2>2. CSize(d) <= Node(d).ival BY <1>9, <2>1, ImageIn, Zenon
  <2>3. Node(d).ival >= CSize(d) BY <2>2
  <2> QED BY <1>11, <2>3, Zenon
<1>13. y.offset + y.size <= IF y.shndx = 3 THEN dataOffset ELSE bssOffset
  <2>1. 3 = 3 /\ 5 # 3 OBVIOUS
  <2>2. IF d.given = "none" THEN o + Node(d).ival <= bssOffset ELSE o + Node(d).ival <= dataOffset
    BY <1>7, Zenon DEF VarAt
  <2> QED BY <1>11, <2>1, <2>2, Zenon
<1>14. IF d.given = "none" THEN y.shndx = 5 ELSE y.shndx = 3 /\ Holds(d, y)
  <2>1. d.given # "none" => o + Node(d).ival <= dataOffset /\ VarHeld(R, o, d) BY <1>7, Zenon DEF VarAt
  <2>2. d.given # "none" => Holds(d, y) BY <1>9, <1>11, <2>1, HoldsPlaced, Zenon DEF R
  <2> QED BY <1>11, <2>2, Zenon
<1>15. \A e \in Range(prog.vars) \ {d} : Apart(y, SymbolOf(e.name))
  <2> SUFFICES ASSUME NEW w \in 1 .. n, prog.vars[w] # d PROVE Apart(y, SymbolOf(prog.vars[w].name))
    BY <1>1, Zenon DEF Range
  <2> DEFINE e == prog.vars[w]
  <2>1. PICK p \in Nat : VarAt(R, e, p, dataOffset, bssOffset) BY <1>6, Zenon
  <2>2. Has(names, e, p) BY <1>4, <2>1, Zenon DEF VarAt
  <2>3. SymbolOf(e.name) = Symb(e, p) BY <1>5, <2>2, SymbolPlaced, Zenon
  <2> DEFINE z == Symb(e, p)
  <2>4. z.offset = p /\ z.size = Node(e).ival /\ z.shndx = (IF e.given = "none" THEN 5 ELSE 3)
    BY DEF Symb, Symbol
  <2> HIDE DEF z
  <2>5. Clear(d, o, e, p)
    <3>1. v # w BY Zenon
    <3> QED BY <1>3, <1>4, <1>8, <2>2, <3>1, Zenon DEF VarsPlaced
  <2>6. 5 # 3 OBVIOUS
  <2>7. Apart(y, z) BY <1>11, <2>4, <2>5, <2>6, Zenon DEF Clear, Apart
  <2> QED BY <2>3, <2>7, Zenon DEF z
<1> QED BY <1>10, <1>12, <1>13, <1>14, <1>15, Zenon DEF VariableAsC

(* Every use is resolved when the strings are placed. *)
LEMMA UsesPlaced ==
  ASSUME NEW names, NEW c, PlacedFrom(names, c), Len(rels) < MAX_RELS, Len(syms) < MAX_SYMS, NEW u \in used
  PROVE  Resolved(u)
<1> DEFINE R == With(Now, names)
<1>1. R.syms = names /\ R.strs = strInfos /\ R.pool = pool /\ Unique(names) BY PlacedParts, Zenon
<1>2. CodePlaced(R, Len(c), rels, used) /\ rels \in Seq(Relocs) BY Zenon DEF PlacedFrom
<1>3. /\ DOMAIN syms = 1 .. Len(names) /\ Len(syms) = Len(names)
      /\ \A j \in 1 .. Len(names) : syms[j].name = names[j].name
  BY PlacedSymbols, Zenon
<1>4. DOMAIN rels = 1 .. Len(rels) BY <1>2
<1> HIDE DEF R
<1>5. /\ \A j, k \in 1 .. Len(rels) : rels[j].off = rels[k].off => j = k
      /\ IsUse(u.use)
      /\ \E k \in 1 .. Len(rels) : rels[k].off = u.off /\ Meant(R, rels[k].sym, u.use)
  BY <1>1, <1>2, <1>3, Zenon DEF CodePlaced
<1>6. PICK k \in 1 .. Len(rels) : rels[k].off = u.off /\ Meant(R, rels[k].sym, u.use) BY <1>5, Zenon
<1>7. {j \in DOMAIN rels : rels[j].off = u.off} = {k} BY <1>4, <1>5, <1>6, Zenon
<1> DEFINE i == rels[k].sym
<1>8. i \in 1 .. Len(names) /\ IF u.use.u = "str" THEN Stands(strInfos, pool, i, u.use.s) ELSE names[i].name = u.use.x
  BY <1>1, <1>6, Zenon DEF Meant
<1> HIDE DEF i
<1>9. u.use.u = "str" => StringAt(syms[i], u.use.s)
  <2>1. u.use.s \in Seq(Nat) BY <1>5, Zenon DEF IsUse
  <2> QED BY <1>8, <2>1, StandsPlaced, Zenon
<1>10. ASSUME u.use.u # "str"
       PROVE  syms[i].name = u.use.x /\ (syms[i].shndx # 0 \/ \A j \in Named(u.use.x) : syms[j].shndx = 0)
  <2>1. names[i].name = u.use.x BY <1>8, <1>10, Zenon
  <2>2. syms[i].name = u.use.x BY <1>3, <1>8, <2>1, Zenon
  <2>3. \A j \in Named(u.use.x) : j = i
    <3> SUFFICES ASSUME NEW j \in Named(u.use.x) PROVE j = i OBVIOUS
    <3>1. j \in 1 .. Len(names) /\ syms[j].name = u.use.x BY <1>3, Zenon DEF Named
    <3>2. names[j].name = names[i].name BY <1>3, <2>1, <3>1, Zenon
    <3> QED BY <1>1, <1>8, <3>1, <3>2, Zenon DEF Unique
  <2> QED BY <2>2, <2>3, Zenon
<1> QED BY <1>4, <1>6, <1>7, <1>9, <1>10, Zenon DEF Resolved, i

-----------------------------------------------------------------------------
(* Every step leaves the program as it is. *)
LEMMA ProgSame == ASSUME [Next]_vars PROVE prog' = prog
<1>1. CASE InitialisedVar
  <2> DEFINE node == Node(prog.vars[at])
             L(o, R) == IF R.failed \/ Len(R.syms) >= MAX_SYMS THEN Fail
                        ELSE /\ data' = R.data /\ dataRels' = R.rels /\ pool' = R.pool /\ strInfos' = R.strs
                             /\ dataOffset' = o + node.ival
                             /\ syms' = Append(R.syms, Symbol(node.name, o, node.ival, 3))
                             /\ at' = at + 1
                             /\ UNCHANGED <<prog, pc, use, begin, bssOffset, code, rels, used>>
  <2>1. Initialised(node) BY <1>1, Zenon DEF InitialisedVar
  <2>2. \E o, R : L(o, R) BY <2>1, Zenon DEF Initialised
  <2>3. PICK o, R : L(o, R) BY <2>2, Zenon
  <2> QED BY <2>3, Zenon DEF Fail
<1>2. CASE BssVar BY <1>2, Zenon DEF BssVar, Fail
<1>3. CASE VarsEnd BY <1>3, Zenon DEF VarsEnd, Fail
<1>4. CASE FunctionBegins BY <1>4, Zenon DEF FunctionBegins
<1>5. CASE UseString BY <1>5, Zenon DEF UseString, Fail
<1>6. CASE UseVariable BY <1>6, Zenon DEF UseVariable
<1>7. CASE UseFunction BY <1>7, Zenon DEF UseFunction, Fail
<1>8. CASE FunctionEnds BY <1>8, Zenon DEF FunctionEnds, Fail
<1>9. CASE PlaceStrings BY <1>9, Zenon DEF PlaceStrings, Fail
<1>10. CASE UNCHANGED vars BY <1>10, Zenon DEF vars
<1> QED BY <1>1, <1>2, <1>3, <1>4, <1>5, <1>6, <1>7, <1>8, <1>9, <1>10, Zenon DEF Next

(* A file of which both agree stays one. *)
LEMMA HypSame == ASSUME prog' = prog PROVE Hyp' = Hyp
BY Zenon DEF Hyp, Agreed, Distinct

(* The inductive invariant. *)
LEMMA WholeKeeps ==
  ASSUME Hyp => Whole, [Next]_vars
  PROVE  (Hyp => Whole)'
<1>1. prog' = prog BY ProgSame, Zenon
<1>2. Hyp' = Hyp BY <1>1, HypSame, Zenon
<1> SUFFICES ASSUME Hyp PROVE Whole'
  BY <1>2, Zenon
<1>3. Whole OBVIOUS
<1>4. CASE InitialisedVar BY <1>3, <1>4, InitialisedVarKeeps, Zenon
<1>5. CASE BssVar BY <1>3, <1>5, BssVarKeeps, Zenon
<1>6. CASE VarsEnd BY <1>3, <1>6, VarsEndKeeps, Zenon
<1>7. CASE FunctionBegins BY <1>3, <1>7, FunctionBeginsKeeps, Zenon
<1>8. CASE UseString BY <1>3, <1>8, UseStringKeeps, Zenon
<1>9. CASE UseVariable BY <1>3, <1>9, UseVariableKeeps, Zenon
<1>10. CASE UseFunction BY <1>3, <1>10, UseFunctionKeeps, Zenon
<1>11. CASE FunctionEnds BY <1>3, <1>11, FunctionEndsKeeps, Zenon
<1>12. CASE PlaceStrings BY <1>3, <1>12, PlaceStringsKeeps, Zenon
<1>13. CASE UNCHANGED vars
  <2>1. /\ prog' = prog /\ pc' = pc /\ at' = at /\ use' = use /\ begin' = begin
        /\ data' = data /\ dataOffset' = dataOffset /\ bssOffset' = bssOffset /\ dataRels' = dataRels
        /\ code' = code /\ rels' = rels /\ syms' = syms /\ pool' = pool /\ strInfos' = strInfos /\ used' = used
    BY <1>13, Zenon DEF vars
  <2>2. Now' = Now BY <2>1, Zenon DEF Now
  <2>3. /\ Names' = Names /\ Strings' = Strings /\ VarTexts' = VarTexts /\ FuncTexts' = FuncTexts
        /\ FuncUses' = FuncUses /\ InVars' = InVars /\ InFuncs' = InFuncs
    BY <2>1, SameProg, Zenon
  <2>4. Core' = Core BY <2>1, <2>2, <2>3, Zenon DEF Core
  <2>5. VarsSoFar' = VarsSoFar BY <2>1, <2>2, <2>3, <2>4, Zenon DEF VarsSoFar
  <2>6. Before(at, use)' = Before(at, use) BY <2>1, <2>3, Zenon DEF Before, InFunc
  <2>7. FuncsSoFar' = FuncsSoFar BY <2>1, <2>2, <2>3, <2>4, <2>6, Zenon DEF FuncsSoFar
  <2>8. AllPlaced' = AllPlaced BY <2>1, <2>2, Zenon DEF AllPlaced, PlacedFrom
  <2>9. OutOfRoom' = OutOfRoom BY <2>1, <2>3, Zenon DEF OutOfRoom
  <2> QED BY <1>3, <2>1, <2>5, <2>7, <2>8, <2>9, Zenon DEF Whole
<1> QED BY <1>4, <1>5, <1>6, <1>7, <1>8, <1>9, <1>10, <1>11, <1>12, <1>13, Zenon DEF Next

(* What the invariant says when the file is compiled. *)
LEMMA WholeAsC ==
  ASSUME Whole, Hyp, Room
  PROVE  ImageAsC
<1>1. prog \in Programs /\ Agreed BY Zenon DEF Whole, Hyp
<1>2. ASSUME pc = "done"
      PROVE  /\ \A i \in DOMAIN prog.vars : VariableAsC(prog.vars[i])
             /\ \A u \in used : Resolved(u)
  <2>1. Len(rels) < MAX_RELS /\ Len(syms) < MAX_SYMS BY <1>2, Zenon DEF Room
  <2>2. PICK names, c : PlacedFrom(names, c) BY <1>2, Zenon DEF Whole, AllPlaced
  <2>3. DOMAIN prog.vars = 1 .. Len(prog.vars) BY <1>1, ProgIs, Zenon
  <2>4. \A i \in 1 .. Len(prog.vars) : VariableAsC(prog.vars[i]) BY <1>1, <2>2, VariablesPlaced, Zenon
  <2>5. \A u \in used : Resolved(u) BY <2>1, <2>2, UsesPlaced, Zenon
  <2> QED BY <2>3, <2>4, <2>5, Zenon
<1>3. pc = "failed" => OutOfRoom BY Zenon DEF Whole
<1>4. Len(data) <= DATA_BUF_SIZE
  <2>1. Len(data) \in Nat /\ dataOffset \in Nat /\ Len(data) <= dataOffset BY Zenon DEF Whole
  <2>2. dataOffset <= DATA_BUF_SIZE /\ DATA_BUF_SIZE \in Nat BY SizesAssumption, Zenon DEF Room
  <2> QED BY <2>1, <2>2
<1> QED BY <1>2, <1>3, <1>4, Zenon DEF ImageAsC

(* A file of which C and the compiler agree, in which no name is defined   *)
(* twice and for which there is room, has when it is compiled the image    *)
(* that C describes: each initialised variable holds the values of its     *)
(* items and the strings they refer to, no two variables overlap, each use *)
(* in a function is what it names; it is rejected only when what C counts  *)
(* of it is more than a table has room for.                                *)
THEOREM DataImage == Spec => [](Agreed /\ Distinct /\ Room => ImageAsC)
<1> DEFINE J == Hyp => Whole
<1>1. Init => J BY Starts, Zenon
<1>2. J /\ [Next]_vars => J'
  <2> SUFFICES ASSUME J, [Next]_vars PROVE J' OBVIOUS
  <2> QED BY WholeKeeps, Zenon
<1>3. J => (Agreed /\ Distinct /\ Room => ImageAsC) BY WholeAsC, Zenon DEF Hyp
<1> QED BY <1>1, <1>2, <1>3, PTL DEF Spec
=============================================================================
