---------------------------- MODULE ChannelProofs ----------------------------
(***************************************************************************)
(* Proofs about the channels: the packets and contents of Codec and        *)
(* Framing, for every base and width of integers, every set of types and   *)
(* transactions and any number of packets; and the counters and lifetimes  *)
(* of Interfaces, for any number of places, holders, keys and data.        *)
(*                                                                         *)
(* Framing.  The recursive functions of Codec are first shown to satisfy   *)
(* their equations (Recursion, by induction over a set of numbers, which   *)
(* is well-founded).  Then: an integer is read as it was written, and a    *)
(* size that was read is written as it was; sequences that are written one *)
(* behind the other are found again between the others; so the loop of     *)
(* deparseBuffer has always loaded exactly the bytes it has passed, and    *)
(* loads what parseBuffers has written; so the units of a processor read   *)
(* every value as it was assigned.                                         *)
(*                                                                         *)
(* On the states: Types and Unbroken are inductive whatever the network    *)
(* does, as a processor is only given a content that was loaded for the    *)
(* type the receiver has of the transaction, and that type stays.  That    *)
(* packets arrive in order needs to know where in the stream the receiver  *)
(* is: Between two packets, or Inside one whose size it has read, with all *)
(* of what was sent and not given ahead of it; that is Aligned, which      *)
(* every step keeps that moves as much as it was asked to.                 *)
(*                                                                         *)
(* Interfaces.  TypeOK, Counted and Lifetimes are inductive only together: *)
(* the counters must be right for a leave to end what it should, and what  *)
(* was released must have nobody left who could still count on it.  Right  *)
(* is the record that data with so many descriptors and references should  *)
(* have; the lemmas on the counters are about these two numbers alone, and *)
(* those on the actions say how an action changes the two sets that are    *)
(* counted.  Kept is what makes a reference that is made one more: a       *)
(* holder may have an interface for the same key only if the center still  *)
(* keeps it.                                                               *)
(***************************************************************************)
EXTENDS Framing, Interfaces, FiniteSetTheorems, SequenceTheorems, NaturalsInduction,
        WellFoundedInduction, TLAPS

-----------------------------------------------------------------------------
(* Recursion.  A recursive function on the numbers satisfies its equation. *)

(* Induction, over a set of numbers.                                       *)
LEMMA Induct ==
    ASSUME NEW S, 0 \in S, \A n \in Nat : n \in S => n + 1 \in S
    PROVE  \A n \in Nat : n \in S
<1> SUFFICES ASSUME NEW k \in Nat, k \notin S
             PROVE  FALSE
  OBVIOUS
<1>1. PICK R : R = {pair \in Nat \X Nat : pair[1] < pair[2]}
  OBVIOUS
<1>2. IsWellFoundedOn(R, Nat)
  BY <1>1, NatLessThanWellFounded DEF OpToRel
<1>3. PICK x \in Nat \ S : \A y \in Nat \ S : <<y, x>> \notin R
  BY <1>2, WFMin
<1>4. x # 0 /\ x - 1 \in Nat /\ x - 1 + 1 = x
  OBVIOUS
<1>5. <<x - 1, x>> \in R
  BY <1>1, <1>4
<1>6. x - 1 \in S
  BY <1>3, <1>4, <1>5
<1>7. QED
  BY <1>3, <1>4, <1>6

(* f begins with a, and goes on as g says up to n.                         *)
Segment(f, n, T, a, g) ==
    /\ f \in [0..n -> T] /\ f[0] = a
    /\ \A i \in 0..n - 1 : f[i + 1] = g[<<i, f[i]>>]

Agree(f, e, n) == \A i \in 0..n : f[i] = e[i]

(* h is the function whose first value is a and whose next is as g says.   *)
Follows(h, T, a, g) ==
    /\ h \in [Nat -> T]
    /\ \A n \in Nat : h[n] = IF n = 0 THEN a ELSE g[<<n - 1, h[n - 1]>>]

(* A function up to n can be continued to n + 1.                           *)
LEMMA LongerSegment ==
    ASSUME NEW T, NEW a \in T, NEW g \in [Nat \X T -> T],
           NEW n \in Nat, NEW f, Segment(f, n, T, a, g)
    PROVE  \E e : Segment(e, n + 1, T, a, g)
<1> DEFINE next == g[<<n, f[n]>>]
           e == [i \in 0..n + 1 |-> IF i = n + 1 THEN next ELSE f[i]]
<1>1. f \in [0..n -> T] /\ f[0] = a /\ \A i \in 0..n - 1 : f[i + 1] = g[<<i, f[i]>>]
  BY DEF Segment
<1>2. next \in T
  BY <1>1
<1>3. e[n + 1] = g[<<n, f[n]>>]
  OBVIOUS
<1> HIDE DEF next
<1>4. e \in [0..n + 1 -> T] /\ e[0] = a
  BY <1>1, <1>2
<1>5. \A i \in 0..n : e[i] = f[i]
  OBVIOUS
<1>6. \A i \in 0..n - 1 : e[i + 1] = f[i + 1]
  OBVIOUS
<1> HIDE DEF e
<1>7. ASSUME NEW i \in 0..n PROVE e[i + 1] = g[<<i, e[i]>>]
  <2>1. CASE i = n
    BY <1>3, <1>5, <2>1
  <2>2. CASE i # n
    <3>1. i \in 0..n - 1
      BY <2>2
    <3>2. QED
      BY <1>1, <1>5, <1>6, <3>1
  <2>3. QED
    BY <2>1, <2>2
<1>8. n + 1 - 1 = n
  OBVIOUS
<1>9. QED
  BY <1>4, <1>7, <1>8 DEF Segment

(* There is only one up to each number.                                    *)
LEMMA SameSegment ==
    ASSUME NEW T, NEW a \in T, NEW g \in [Nat \X T -> T],
           NEW n \in Nat, NEW m \in Nat, NEW f, NEW e, n <= m,
           Segment(f, n, T, a, g), Segment(e, m, T, a, g)
    PROVE  Agree(f, e, n)
<1> DEFINE U == {i \in Nat : i <= n => f[i] = e[i]}
<1>1. 0 \in U
  BY DEF Segment
<1>2. ASSUME NEW i \in Nat, i \in U PROVE i + 1 \in U
  <2>1. CASE i + 1 <= n
    <3>1. i \in 0..n - 1 /\ i \in 0..m - 1 /\ f[i] = e[i]
      BY <1>2, <2>1
    <3>2. f[i + 1] = e[i + 1]
      BY <3>1 DEF Segment
    <3>3. QED
      BY <3>2
  <2>2. CASE ~(i + 1 <= n)
    BY <2>2
  <2>3. QED
    BY <2>1, <2>2
<1> HIDE DEF U
<1>3. \A i \in Nat : i \in U
  BY <1>1, <1>2, Induct
<1>4. QED
  BY <1>3 DEF U, Agree

(* There is a function with a first value and a rule for the next, and it  *)
(* satisfies the equation of the recursive function.                       *)
LEMMA Recursion ==
    ASSUME NEW T, NEW a \in T, NEW g \in [Nat \X T -> T]
    PROVE  \E h : Follows(h, T, a, g)
<1> DEFINE Is(n, f) == Segment(f, n, T, a, g)
           S == {n \in Nat : \E f : Is(n, f)}
<1>1. 0 \in S
  <2>1. Is(0, [i \in 0..0 |-> a])
    BY DEF Segment
  <2>2. QED
    BY <2>1
<1>2. \A n \in Nat : n \in S => n + 1 \in S
  BY LongerSegment
<1>3. \A n \in Nat : \E f : Is(n, f)
  <2> HIDE DEF Is
  <2>1. \A n \in Nat : n \in S
    <3> HIDE DEF S
    <3>1. QED
      BY <1>1, <1>2, Induct
  <2>2. QED
    BY <2>1
<1> DEFINE F == [n \in Nat |-> CHOOSE f : Is(n, f)]
           h == [n \in Nat |-> F[n][n]]
<1>4. \A n \in Nat : Is(n, F[n])
  <2> HIDE DEF Is
  <2>1. QED
    BY <1>3
<1> HIDE DEF F
<1>5. \A n \in Nat : F[n][n] \in T
  BY <1>4 DEF Segment
<1>6. h \in [Nat -> T]
  BY <1>5
<1>7. F[0][0] = a
  BY <1>4 DEF Segment
<1>8. ASSUME NEW n \in Nat, n # 0 PROVE F[n][n] = g[<<n - 1, F[n - 1][n - 1]>>]
  <2>1. n - 1 \in Nat /\ n - 1 \in 0..n - 1 /\ n - 1 \in 0..n /\ n - 1 + 1 = n /\ n - 1 <= n
    BY <1>8
  <2>2. Is(n - 1, F[n - 1]) /\ Is(n, F[n])
    BY <1>4, <2>1
  <2>3. F[n - 1][n - 1] = F[n][n - 1]
    <3>1. PICK k \in Nat : k = n - 1 /\ k <= n /\ k \in 0..k
      BY <2>1
    <3>2. PICK f, e : f = F[k] /\ e = F[n]
      OBVIOUS
    <3>3. Segment(f, k, T, a, g) /\ Segment(e, n, T, a, g)
      BY <2>2, <3>1, <3>2
    <3>4. Agree(f, e, k)
      BY <3>1, <3>3, SameSegment, Zenon
    <3>5. QED
      BY <3>1, <3>2, <3>4 DEF Agree
  <2>4. F[n][n] = g[<<n - 1, F[n][n - 1]>>]
    BY <2>1, <2>2 DEF Segment
  <2>5. QED
    BY <2>3, <2>4
<1>9. \A n \in Nat : h[n] = IF n = 0 THEN a ELSE g[<<n - 1, h[n - 1]>>]
  BY <1>7, <1>8
<1>10. QED
  BY <1>6, <1>9 DEF Follows

(* What f has first and keeps it always has.                               *)
LEMMA Always ==
    ASSUME NEW T, NEW f, f[0] \in T, \A n \in Nat : f[n] \in T => f[n + 1] \in T
    PROVE  \A n \in Nat : f[n] \in T
<1> DEFINE S == {n \in Nat : f[n] \in T}
<1>1. 0 \in S /\ \A n \in Nat : n \in S => n + 1 \in S
  OBVIOUS
<1> HIDE DEF S
<1>2. \A n \in Nat : n \in S
  BY <1>1, Induct
<1>3. QED
  BY <1>2 DEF S

(* Numbers before and after another.                                       *)
LEMMA Before == \A n \in Nat : n # 0 => n - 1 \in Nat /\ n - 1 + 1 = n
OBVIOUS
(* As for the number before.                                               *)
LEMMA After == \A n \in Nat : n + 1 \in Nat /\ n + 1 # 0 /\ n + 1 - 1 = n
OBVIOUS

-----------------------------------------------------------------------------
(* Powers and digits.                                                      *)

(* Power satisfies its equation, and has values.                           *)
LEMMA PowerIs ==
    /\ Power[0] = 1
    /\ \A n \in Nat : Power[n] \in Nat \ {0}
    /\ \A n \in Nat : Power[n + 1] = Base * Power[n]
<1> DEFINE T == Nat \ {0}
           g == [p \in Nat \X T |-> Base * p[2]]
<1>1. g \in [Nat \X T -> T] /\ 1 \in T
  BY WidthAssumption
<1>2. PICK h : Follows(h, T, 1, g)
  <2> HIDE DEF T, g
  <2>1. QED
    BY <1>1, Recursion, Zenon
<1>3. h \in [Nat -> T] /\ \A n \in Nat : h[n] = IF n = 0 THEN 1 ELSE g[<<n - 1, h[n - 1]>>]
  BY <1>2 DEF Follows
<1>4. \A n \in Nat : n # 0 => g[<<n - 1, h[n - 1]>>] = Base * h[n - 1]
  BY <1>3, Before
<1>5. h = [n \in Nat |-> IF n = 0 THEN 1 ELSE Base * h[n - 1]]
  <2> HIDE DEF g
  <2>1. QED
    BY <1>3, <1>4
<1>6. Power = [n \in Nat |-> IF n = 0 THEN 1 ELSE Base * Power[n - 1]]
  BY <1>5, Zenon DEF Power
<1> HIDE DEF g
<1>7. Power[0] = 1
  BY <1>6
<1>8. \A n \in Nat : Power[n + 1] = Base * Power[n]
  BY <1>6, After
<1>9. \A n \in Nat : Power[n] \in T
  <2>1. \A n \in Nat : Power[n] \in T => Power[n + 1] \in T
    BY <1>8, WidthAssumption
  <2> HIDE DEF T
  <2>2. QED
    BY <1>1, <1>7, <2>1, Always
<1>10. QED
  BY <1>7, <1>8, <1>9

(* Shifted divides by the base once for every digit.                       *)
LEMMA ShiftedIs ==
    ASSUME NEW v \in Int
    PROVE  /\ Shifted(v, 0) = v
           /\ \A n \in Nat : Shifted(v, n) \in Int
           /\ \A n \in Nat : Shifted(v, n + 1) = Shifted(v, n) \div Base
<1> DEFINE g == [p \in Nat \X Int |-> p[2] \div Base]
<1>1. g \in [Nat \X Int -> Int]
  BY WidthAssumption
<1>2. PICK h : Follows(h, Int, v, g)
  <2> HIDE DEF g
  <2>1. QED
    BY <1>1, Recursion, Zenon
<1>3. h \in [Nat -> Int] /\ \A n \in Nat : h[n] = IF n = 0 THEN v ELSE g[<<n - 1, h[n - 1]>>]
  BY <1>2 DEF Follows
<1>4. \A n \in Nat : n # 0 => g[<<n - 1, h[n - 1]>>] = h[n - 1] \div Base
  BY <1>3, Before
<1>5. h = [n \in Nat |-> IF n = 0 THEN v ELSE h[n - 1] \div Base]
  <2> HIDE DEF g
  <2>1. QED
    BY <1>3, <1>4
<1> DEFINE s == CHOOSE s : s = [n \in Nat |-> IF n = 0 THEN v ELSE s[n - 1] \div Base]
<1>6. s = [n \in Nat |-> IF n = 0 THEN v ELSE s[n - 1] \div Base]
  BY <1>5, Zenon
<1>7. \A n \in Nat : Shifted(v, n) = s[n]
  BY Zenon DEF Shifted
<1> HIDE DEF g, s
<1>8. s[0] = v
  BY <1>6
<1>9. \A n \in Nat : s[n + 1] = s[n] \div Base
  BY <1>6, After
<1>10. \A n \in Nat : s[n] \in Int
  <2>1. \A n \in Nat : s[n] \in Int => s[n + 1] \in Int
    BY <1>9, WidthAssumption
  <2>2. QED
    BY <1>8, <2>1, Always
<1>11. QED
  BY <1>7, <1>8, <1>9, <1>10, After

(* A sum and a product of numbers.                                         *)
LEMMA SumAndProduct == \A d, c, y \in Nat : d + c * y \in Nat
OBVIOUS

(* LastDigits takes one digit more, from the end, with every step.         *)
LEMMA LastDigitsIs ==
    ASSUME NEW b \in Seq(Byte)
    PROVE  /\ LastDigits(b, 0) = 0
           /\ \A n \in 0..Len(b) : LastDigits(b, n) \in Nat
           /\ \A n \in 0..Len(b) - 1 :
                 LastDigits(b, n + 1) = b[Len(b) - n] + Base * LastDigits(b, n)
<1>1. /\ Len(b) \in Nat /\ \A i \in 1..Len(b) : b[i] \in Nat /\ b[i] < Base
      /\ Base \in Nat /\ Base > 1
  BY WidthAssumption DEF Byte
<1> DEFINE D == 0..Len(b)
           g == [p \in Nat \X Nat |-> IF p[1] < Len(b) THEN b[Len(b) - p[1]] + Base * p[2] ELSE 0]
<1>2. g \in [Nat \X Nat -> Nat]
  <2>1. ASSUME NEW k \in Nat, NEW x \in Nat, k < Len(b) PROVE b[Len(b) - k] + Base * x \in Nat
    <3>1. Len(b) - k \in 1..Len(b)
      BY <1>1, <2>1
    <3>2. PICK d \in Nat : d = b[Len(b) - k]
      BY <1>1, <3>1
    <3>3. d + Base * x \in Nat
      BY <1>1, SumAndProduct, Zenon
    <3>4. QED
      BY <3>2, <3>3
  <2>2. QED
    BY <2>1
<1>3. PICK e : Follows(e, Nat, 0, g)
  <2> HIDE DEF g
  <2>1. QED
    BY <1>2, Recursion, Zenon
<1>4. e \in [Nat -> Nat] /\ \A n \in Nat : e[n] = IF n = 0 THEN 0 ELSE g[<<n - 1, e[n - 1]>>]
  BY <1>3 DEF Follows
<1>5. \A n \in Nat : n # 0 /\ n <= Len(b) =>
         g[<<n - 1, e[n - 1]>>] = b[Len(b) + 1 - n] + Base * e[n - 1]
  <2> SUFFICES ASSUME NEW n \in Nat, n # 0, n <= Len(b)
               PROVE  g[<<n - 1, e[n - 1]>>] = b[Len(b) + 1 - n] + Base * e[n - 1]
    OBVIOUS
  <2>1. n - 1 \in Nat /\ n - 1 < Len(b) /\ Len(b) - (n - 1) = Len(b) + 1 - n
    BY <1>1
  <2>2. e[n - 1] \in Nat
    <3>1. e \in [Nat -> Nat]
      BY <1>4, Zenon
    <3>2. QED
      BY <2>1, <3>1, Zenon
  <2>3. QED
    BY <2>1, <2>2
<1> DEFINE h == [n \in D |-> e[n]]
<1>6. h = [n \in D |-> IF n = 0 THEN 0 ELSE b[Len(b) + 1 - n] + Base * h[n - 1]]
  <2>1. \A n \in D : n \in Nat /\ n <= Len(b) /\ (n # 0 => n - 1 \in D)
    BY <1>1
  <2> HIDE DEF g, D
  <2>2. QED
    BY <1>4, <1>5, <2>1
<1> HIDE DEF h, g
<1> DEFINE s == CHOOSE s : s = [n \in D |-> IF n = 0 THEN 0 ELSE b[Len(b) + 1 - n] + Base * s[n - 1]]
<1>7. s = [n \in D |-> IF n = 0 THEN 0 ELSE b[Len(b) + 1 - n] + Base * s[n - 1]]
  BY <1>6, Zenon
<1>8. \A n : LastDigits(b, n) = s[n]
  BY Zenon DEF LastDigits
<1> HIDE DEF s
<1>9. s[0] = 0
  BY <1>1, <1>7
<1>10. ASSUME NEW n \in 0..Len(b) - 1 PROVE s[n + 1] = b[Len(b) - n] + Base * s[n]
  <2>1. n + 1 \in D /\ n + 1 # 0 /\ n + 1 - 1 = n /\ Len(b) + 1 - (n + 1) = Len(b) - n
    BY <1>1
  <2>2. QED
    BY <1>7, <2>1
<1>11. \A n \in D : s[n] \in Nat
  <2> DEFINE S == {n \in Nat : n <= Len(b) => s[n] \in Nat}
  <2>1. 0 \in S
    BY <1>9
  <2>2. ASSUME NEW n \in Nat, n \in S PROVE n + 1 \in S
    <3>1. CASE n + 1 <= Len(b)
      <4>1. n \in 0..Len(b) - 1 /\ s[n] \in Nat /\ Len(b) - n \in 1..Len(b)
        BY <1>1, <2>2, <3>1
      <4>2. s[n + 1] = b[Len(b) - n] + Base * s[n] /\ b[Len(b) - n] \in Nat
        BY <1>1, <1>10, <4>1
      <4>3. PICK d \in Nat, y \in Nat : d = b[Len(b) - n] /\ y = s[n]
        BY <4>1, <4>2, Zenon
      <4>4. d + Base * y \in Nat
        BY <1>1, SumAndProduct, Zenon
      <4>5. s[n + 1] \in Nat
        BY <4>2, <4>3, <4>4, Zenon
      <4>6. QED
        BY <4>5
    <3>2. CASE ~(n + 1 <= Len(b))
      BY <3>2
    <3>3. QED
      BY <3>1, <3>2
  <2> HIDE DEF S
  <2>3. \A n \in Nat : n \in S
    BY <2>1, <2>2, Induct
  <2>4. QED
    BY <1>1, <2>3 DEF S
<1>12. QED
  BY <1>8, <1>9, <1>10, <1>11

-----------------------------------------------------------------------------
(* Integers.                                                               *)

(* The greatest integer and the number of integers.                        *)
LEMMA BoundIs ==
    /\ Bound \in Nat \ {0} /\ Bound > 1
    /\ IntMax \in Nat /\ 2 * IntMax + 2 <= Bound /\ Bound <= 2 * IntMax + 3
<1>1. Width \in Nat /\ Width # 0 /\ Width - 1 \in Nat /\ Width - 1 + 1 = Width
  BY WidthAssumption
<1>2. Bound \in Nat \ {0}
  BY <1>1, PowerIs DEF Bound
<1>3. Bound = Base * Power[Width - 1] /\ Power[Width - 1] \in Nat \ {0}
  BY <1>1, PowerIs DEF Bound
<1>4. Bound > 1
  BY <1>2, <1>3, WidthAssumption
<1>5. QED
  BY <1>2, <1>4 DEF IntMax

(* The digits of the division by the base.                                 *)
LEMMA Dividing ==
    /\ \A x \in Int : /\ x \div Base \in Int /\ x % Base \in Byte
                      /\ x = (x % Base) + Base * (x \div Base)
    /\ \A x \in Int : \A d \in Byte : /\ (d + Base * x) \div Base = x
                                      /\ (d + Base * x) % Base = d
<1>1. Base \in Nat /\ Base > 1
  BY WidthAssumption
<1>2. \A x \in Int : x \div Base \in Int /\ x % Base \in Byte
  BY <1>1 DEF Byte
<1>3. \A x \in Int : x = (x % Base) + Base * (x \div Base)
  BY <1>1
<1>4. \A x, d \in Int : 0 <= d /\ d < Base => (d + Base * x) \div Base = x /\ (d + Base * x) % Base = d
  BY <1>1
<1>5. \A d \in Byte : d \in Int /\ 0 <= d /\ d < Base
  BY <1>1 DEF Byte
<1>6. QED
  BY <1>2, <1>3, <1>4, <1>5

(* A product of integers is one.                                           *)
LEMMA Times == \A x, y, z \in Int : /\ x * y \in Int /\ x * (y * z) = y * (x * z)
                                    /\ x * (y - z) = x * y - x * z
OBVIOUS

(* What Encode writes has Width bytes.                                     *)
LEMMA EncodeIs ==
    ASSUME NEW v \in Int
    PROVE  /\ Encode(v) \in Seq(Byte) /\ Len(Encode(v)) = Width
           /\ \A i \in 1..Width : Encode(v)[i] = Shifted(v, i - 1) % Base
<1>1. Width \in Nat
  BY WidthAssumption
<1>2. \A i \in 1..Width : i - 1 \in Nat
  BY <1>1
<1>3. \A i \in 1..Width : Shifted(v, i - 1) % Base \in Byte
  BY <1>2, ShiftedIs, Dividing
<1> DEFINE e(i) == Shifted(v, i - 1) % Base
<1>4. [i \in 1..Width |-> e(i)] \in Seq(Byte)
  <2> HIDE DEF e
  <2>1. \A i \in 1..Width : e(i) \in Byte
    BY <1>3 DEF e
  <2>2. QED
    BY <1>1, <2>1, IsASeq
<1>5. Encode(v) \in Seq(Byte)
  BY <1>4 DEF Encode
<1>6. DOMAIN Encode(v) = 1..Width
  BY DEF Encode
<1>7. Len(Encode(v)) = Width
  <2>1. Len(Encode(v)) \in Nat /\ 1..Len(Encode(v)) = 1..Width
    BY <1>5, <1>6, LenProperties
  <2>2. QED
    BY <1>1, <2>1
<1>8. QED
  BY <1>5, <1>7 DEF Encode

(* What Encode writes is v, or what is as far from it as the numbers       *)
(* repeat.                                                                 *)
LEMMA UnsignedOfEncode ==
    ASSUME NEW v \in Int
    PROVE  Unsigned(Encode(v)) = v - Shifted(v, Width) * Bound
<1>1. Width \in Nat
  BY WidthAssumption
<1> DEFINE b == Encode(v)
           top == Shifted(v, Width)
<1>2. b \in Seq(Byte) /\ Len(b) = Width /\ top \in Int
  BY <1>1, EncodeIs, ShiftedIs
<1>3. \A i \in 1..Width : b[i] = Shifted(v, i - 1) % Base
  BY EncodeIs
<1> HIDE DEF b, top
<1> DEFINE S == {n \in Nat : n <= Width =>
                    LastDigits(b, n) = Shifted(v, Width - n) - top * Power[n]}
<1>4. 0 \in S
  <2>1. LastDigits(b, 0) = 0 /\ Power[0] = 1 /\ Width - 0 = Width
    BY <1>1, <1>2, LastDigitsIs, PowerIs
  <2>2. QED
    BY <1>2, <2>1 DEF top
<1>5. ASSUME NEW n \in Nat, n \in S PROVE n + 1 \in S
  <2> SUFFICES ASSUME n + 1 <= Width
               PROVE  LastDigits(b, n + 1) = Shifted(v, Width - (n + 1)) - top * Power[n + 1]
    OBVIOUS
  <2>1. PICK k \in Nat : k = Width - (n + 1)
    BY <1>1
  <2>2. Width - n = k + 1 /\ Width - n \in 1..Width /\ n \in 0..Len(b) - 1 /\ k + 1 - 1 = k /\ n <= Width
    BY <1>1, <1>2, <2>1
  <2>3. LastDigits(b, n + 1) = b[Width - n] + Base * LastDigits(b, n)
    BY <1>2, <2>2, LastDigitsIs
  <2>4. LastDigits(b, n) = Shifted(v, k + 1) - top * Power[n]
    BY <1>5, <2>2
  <2>5. b[Width - n] = Shifted(v, k) % Base
    BY <1>3, <2>2
  <2>6. Shifted(v, k + 1) = Shifted(v, k) \div Base /\ Shifted(v, k) \in Int
    BY ShiftedIs
  <2>7. PICK x \in Int : x = Shifted(v, k)
    BY <2>6
  <2>8. PICK p \in Int : p = Power[n] /\ Power[n + 1] = Base * p
    BY PowerIs
  <2>9. LastDigits(b, n + 1) = (x % Base) + Base * ((x \div Base) - top * p)
    BY <2>3, <2>4, <2>5, <2>6, <2>7, <2>8
  <2>10. PICK y \in Int, d \in Int : y = x \div Base /\ d = x % Base /\ x = d + Base * y
    <3>1. x \div Base \in Int /\ x % Base \in Int
      BY Dividing, WidthAssumption DEF Byte
    <3>2. QED
      BY <3>1, Dividing
  <2>11. d + Base * (y - top * p) = x - top * (Base * p)
    <3>1. Base \in Int /\ top * p \in Int
      BY <1>2, Times, WidthAssumption
    <3>2. Base * (y - top * p) = Base * y - Base * (top * p)
      BY <3>1, Times
    <3>3. Base * (top * p) = top * (Base * p)
      BY <1>2, <3>1, Times
    <3>4. PICK s \in Int, r \in Int : s = Base * y /\ r = top * (Base * p)
      BY <1>2, <3>1, Times
    <3>5. x = d + s
      BY <2>10, <3>4
    <3>6. d + (s - r) = x - r
      <4> HIDE DEF b, top
      <4>1. \A d1, s1, x1, r1 \in Int : x1 = d1 + s1 => d1 + (s1 - r1) = x1 - r1
        OBVIOUS
      <4>2. QED
        BY <3>4, <3>5, <4>1, <2>7, <2>10
    <3>7. QED
      BY <3>2, <3>3, <3>4, <3>6
  <2>12. QED
    BY <2>1, <2>7, <2>8, <2>9, <2>10, <2>11
<1> HIDE DEF S
<1>6. \A n \in Nat : n \in S
  BY <1>4, <1>5, Induct
<1>7. LastDigits(b, Width) = Shifted(v, Width - Width) - top * Power[Width]
  BY <1>1, <1>6 DEF S
<1>8. Width - Width = 0 /\ Shifted(v, 0) = v
  BY <1>1, ShiftedIs
<1>9. QED
  BY <1>2, <1>7, <1>8 DEF Unsigned, Bound, b, top

(* Division by the base of numbers below a multiple of it.                 *)
LEMMA Multiples ==
    \A x \in Int, p \in Nat : LET q == Base * p
                              IN  /\ q \in Nat
                                  /\ x < q => x \div Base < p
                                  /\ x >= -q => x \div Base >= -p
                                  /\ x >= 0 <=> x \div Base >= 0
<1> SUFFICES ASSUME NEW x \in Int, NEW p \in Nat
             PROVE  /\ Base * p \in Nat
                    /\ x < Base * p => x \div Base < p
                    /\ x >= -(Base * p) => x \div Base >= -p
                    /\ x >= 0 <=> x \div Base >= 0
  OBVIOUS
<1>1. Base \in Nat /\ Base > 1
  BY WidthAssumption
<1>2. PICK y \in Int, d \in Int : y = x \div Base /\ d >= 0 /\ d < Base /\ x = d + Base * y
  <2>1. x \div Base \in Int /\ x % Base \in Int /\ x % Base >= 0 /\ x % Base < Base
    BY <1>1
  <2>2. x = (x % Base) + Base * (x \div Base)
    BY Dividing
  <2>3. QED
    BY <2>1, <2>2
<1>3. d >= 0 /\ d < Base
  BY <1>2
<1>4. \A c, e \in Int : c >= e + 1 => Base * c >= Base * e + Base
  <2> SUFFICES ASSUME NEW c \in Int, NEW e \in Int, c >= e + 1
               PROVE  Base * c >= Base * e + Base
    OBVIOUS
  <2>1. PICK f \in Nat : c = e + 1 + f
    <3>1. c - e - 1 \in Nat /\ c = e + 1 + (c - e - 1)
      OBVIOUS
    <3>2. QED
      BY <3>1
  <2>2. Base * c = Base * e + Base + Base * f
    BY <1>1, <2>1
  <2>3. Base * f \in Nat
    BY <1>1
  <2>4. Base * e \in Int
    BY <1>1
  <2>5. QED
    BY <1>1, <2>2, <2>3, <2>4
<1>5. Base * y \in Int /\ Base * p \in Nat
  BY <1>1
<1>6. x < Base * p => y < p
  <2> SUFFICES ASSUME x < Base * p, y >= p PROVE FALSE
    BY <1>2
  <2>1. Base * y >= Base * p
    <3>1. CASE y = p
      BY <3>1, <1>5
    <3>2. CASE y >= p + 1
      BY <3>2, <1>1, <1>4, <1>5
    <3>3. QED
      BY <3>1, <3>2
  <2>2. PICK s \in Int, q \in Nat : s = Base * y /\ q = Base * p
    BY <1>5
  <2>3. x = d + s /\ s >= q /\ x < q
    BY <1>2, <2>1, <2>2
  <2>4. QED
    BY <1>3, <2>2, <2>3
<1>7. x >= -(Base * p) => y >= -p
  <2> SUFFICES ASSUME x >= -(Base * p), -p >= y + 1 PROVE FALSE
    BY <1>2
  <2>1. Base * (-p) >= Base * y + Base
    <3>1. -p \in Int
      OBVIOUS
    <3>2. QED
      BY <1>4, <3>1
  <2>2. Base * (-p) = -(Base * p)
    BY <1>1
  <2>3. PICK s \in Int, q \in Nat : s = Base * y /\ q = Base * p
    BY <1>5
  <2>4. x = d + s /\ -q >= s + Base /\ x >= -q
    BY <1>2, <2>1, <2>2, <2>3
  <2>5. QED
    BY <1>1, <1>3, <2>3, <2>4
<1>8. x >= 0 <=> y >= 0
  <2>1. ASSUME y >= 0 PROVE x >= 0
    <3>1. Base * y \in Nat
      BY <1>1, <2>1
    <3>2. QED
      BY <1>2, <3>1
  <2>2. ASSUME 0 >= y + 1 PROVE x < 0
    <3>1. Base * 0 >= Base * y + Base
      BY <1>4, <2>2
    <3>2. Base * 0 = 0
      BY <1>1
    <3>3. PICK s \in Int : s = Base * y
      BY <1>5
    <3>4. x = d + s /\ 0 >= s + Base
      BY <1>2, <3>1, <3>2, <3>3
    <3>5. QED
      BY <1>1, <1>2, <3>3, <3>4
  <2>3. QED
    BY <1>2, <2>1, <2>2
<1>9. QED
  BY <1>2, <1>5, <1>6, <1>7, <1>8

(* The number of n digits is less than that power of the base.             *)
LEMMA DigitsBelow ==
    ASSUME NEW b \in Seq(Byte)
    PROVE  \A n \in 0..Len(b) : LastDigits(b, n) < Power[n]
<1>1. Base \in Nat /\ Base > 1 /\ Len(b) \in Nat
  BY WidthAssumption
<1> DEFINE S == {n \in Nat : n <= Len(b) => LastDigits(b, n) < Power[n]}
<1>2. 0 \in S
  BY LastDigitsIs, PowerIs
<1>3. ASSUME NEW n \in Nat, n \in S PROVE n + 1 \in S
  <2> SUFFICES ASSUME n + 1 <= Len(b)
               PROVE  LastDigits(b, n + 1) < Power[n + 1]
    OBVIOUS
  <2>1. n \in 0..Len(b) - 1 /\ n \in 0..Len(b) /\ Len(b) - n \in 1..Len(b) /\ n <= Len(b)
    BY <1>1
  <2>2. LastDigits(b, n) < Power[n]
    BY <1>3, <2>1
  <2>3. PICK x \in Nat, d \in Byte : x = LastDigits(b, n) /\ d = b[Len(b) - n]
    BY <2>1, LastDigitsIs
  <2>4. LastDigits(b, n + 1) = d + Base * x
    BY <2>1, <2>3, LastDigitsIs
  <2>5. PICK p \in Nat : p = Power[n] /\ Power[n + 1] = Base * p
    BY PowerIs
  <2>6. d + Base * x \in Int /\ (d + Base * x) \div Base = x
    <3>1. d \in Int
      BY <1>1 DEF Byte
    <3>2. d + Base * x \in Int
      BY <1>1, <3>1
    <3>3. (d + Base * x) \div Base = x
      BY Dividing
    <3>4. QED
      BY <3>2, <3>3
  <2>7. PICK y \in Int : y = d + Base * x
    BY <2>6
  <2>8. y \div Base < p
    BY <2>2, <2>3, <2>5, <2>6, <2>7
  <2>9. PICK q \in Nat : q = Base * p
    BY <1>1
  <2>10. y < q
    <3> SUFFICES ASSUME y >= q PROVE FALSE
      OBVIOUS
    <3>1. PICK z \in Int : z = (q - y) - 1 + Base
      BY <1>1
    <3>2. x + 1 <= p /\ d <= Base - 1
      BY <2>2, <2>3, <2>5 DEF Byte
    <3>3. PICK f \in Nat : p = x + 1 + f
      <4>1. p - x - 1 \in Nat /\ p = x + 1 + (p - x - 1)
        BY <3>2
      <4>2. QED
        BY <4>1
    <3>4. Base * p = Base * x + Base + Base * f
      BY <1>1, <3>3
    <3>5. PICK s \in Nat, r \in Nat : s = Base * x /\ r = Base * f
      BY <1>1
    <3>6. q = s + Base + r /\ y = d + s
      BY <2>7, <2>9, <3>4, <3>5
    <3>7. QED
      BY <1>1, <3>2, <3>5, <3>6 DEF Byte
  <2>11. QED
    BY <2>4, <2>5, <2>7, <2>9, <2>10
<1> HIDE DEF S
<1>4. \A n \in Nat : n \in S
  BY <1>2, <1>3, Induct
<1>5. QED
  BY <1>1, <1>4 DEF S

(* What Encode writes of a number that was read are its digits.            *)
LEMMA EncodeOfUnsigned ==
    ASSUME NEW b \in Seq(Byte), Len(b) = Width
    PROVE  /\ Unsigned(b) \in 0..Bound - 1
           /\ Encode(Unsigned(b)) = b
<1>1. Width \in Nat /\ Width \in 0..Len(b) /\ Base \in Nat
  BY WidthAssumption
<1>2. Unsigned(b) \in Nat /\ Unsigned(b) < Bound /\ Bound \in Nat
  BY <1>1, LastDigitsIs, DigitsBelow, BoundIs DEF Unsigned, Bound
<1> DEFINE u == Unsigned(b)
           S == {n \in Nat : n <= Width => Shifted(u, n) = LastDigits(b, Width - n)}
<1>3. u \in Int /\ u = LastDigits(b, Width)
  BY <1>2 DEF Unsigned
<1> HIDE DEF u
<1>4. 0 \in S
  BY <1>1, <1>3, ShiftedIs
<1>5. ASSUME NEW n \in Nat, n \in S PROVE n + 1 \in S
  <2> SUFFICES ASSUME n + 1 <= Width
               PROVE  Shifted(u, n + 1) = LastDigits(b, Width - (n + 1))
    OBVIOUS
  <2>1. PICK k \in Nat : k = Width - (n + 1)
    BY <1>1
  <2>2. n <= Width /\ Width - n = k + 1 /\ k \in 0..Len(b) - 1 /\ k \in 0..Len(b) /\ Len(b) - k \in 1..Len(b)
    BY <1>1, <2>1
  <2>3. PICK x \in Nat, d \in Byte : x = LastDigits(b, k) /\ d = b[Len(b) - k]
    BY <2>2, LastDigitsIs
  <2>4. LastDigits(b, k + 1) = d + Base * x
    BY <2>2, <2>3, LastDigitsIs
  <2>5. Shifted(u, n) = d + Base * x
    BY <1>5, <2>2, <2>4
  <2>6. Shifted(u, n + 1) = (d + Base * x) \div Base
    BY <1>3, <2>5, ShiftedIs
  <2>7. (d + Base * x) \div Base = x
    BY Dividing
  <2>8. QED
    BY <2>1, <2>3, <2>6, <2>7
<1>6. \A n \in Nat : n \in S
  <2> HIDE DEF S
  <2>1. QED
    BY <1>4, <1>5, Induct
<1>7. ASSUME NEW i \in 1..Width PROVE Encode(u)[i] = b[i]
  <2>1. PICK k \in Nat : k = Width - i
    BY <1>1
  <2>2. i - 1 \in Nat /\ i - 1 <= Width /\ Width - (i - 1) = k + 1 /\ k \in 0..Len(b) - 1 /\ k \in 0..Len(b)
        /\ Len(b) - k = i /\ i \in 1..Len(b)
    BY <1>1, <2>1
  <2>3. PICK x \in Nat, d \in Byte : x = LastDigits(b, k) /\ d = b[i]
    BY <2>2, LastDigitsIs
  <2>4. LastDigits(b, k + 1) = d + Base * x
    BY <2>2, <2>3, LastDigitsIs
  <2>5. Shifted(u, i - 1) = LastDigits(b, Width - (i - 1))
    BY <1>6, <2>2
  <2>6. Shifted(u, i - 1) = d + Base * x
    BY <2>2, <2>4, <2>5
  <2>7. (d + Base * x) % Base = d
    BY Dividing
  <2>8. QED
    BY <1>3, <2>3, <2>6, <2>7, EncodeIs
<1>8. Encode(u) = b
  <2>1. Encode(u) \in Seq(Byte) /\ Len(Encode(u)) = Width
    BY <1>3, EncodeIs
  <2>2. QED
    BY <1>7, <2>1, SeqEqual
<1>9. QED
  BY <1>2, <1>8 DEF u

(* Width digits hold every number between -Bound and Bound, up to its      *)
(* sign.                                                                   *)
LEMMA ShiftedOut ==
    ASSUME NEW v \in Int, -Bound <= v, v < Bound
    PROVE  Shifted(v, Width) = IF v >= 0 THEN 0 ELSE -1
<1>1. Width \in Nat
  BY WidthAssumption
<1> DEFINE S == {n \in Nat : n <= Width =>
                    /\ Shifted(v, n) < Power[Width - n]
                    /\ Shifted(v, n) >= -Power[Width - n]
                    /\ Shifted(v, n) >= 0 <=> v >= 0}
<1>2. 0 \in S
  <2>1. Width - 0 = Width /\ Shifted(v, 0) = v /\ Bound = Power[Width]
    BY <1>1, ShiftedIs DEF Bound
  <2>2. QED
    BY <2>1
<1>3. ASSUME NEW n \in Nat, n \in S PROVE n + 1 \in S
  <2> SUFFICES ASSUME n + 1 <= Width
               PROVE  /\ Shifted(v, n + 1) < Power[Width - (n + 1)]
                      /\ Shifted(v, n + 1) >= -Power[Width - (n + 1)]
                      /\ Shifted(v, n + 1) >= 0 <=> v >= 0
    OBVIOUS
  <2>1. PICK k \in Nat : k = Width - (n + 1)
    BY <1>1
  <2>2. n <= Width /\ Width - n = k + 1
    BY <1>1, <2>1
  <2>3. PICK x \in Int : x = Shifted(v, n) /\ Shifted(v, n + 1) = x \div Base
    BY ShiftedIs
  <2>4. PICK p \in Nat : p = Power[k] /\ Power[k + 1] = Base * p
    BY PowerIs
  <2>5. x < Base * p /\ x >= -(Base * p) /\ (x >= 0 <=> v >= 0)
    BY <1>3, <2>2, <2>3, <2>4
  <2>6. x \div Base < p /\ x \div Base >= -p /\ (x \div Base >= 0 <=> x >= 0)
    BY <2>5, Multiples
  <2>7. QED
    BY <2>1, <2>3, <2>4, <2>5, <2>6
<1>4. \A n \in Nat : n \in S
  <2> HIDE DEF S
  <2>1. QED
    BY <1>2, <1>3, Induct
<1>5. Width - Width = 0 /\ Power[0] = 1 /\ Shifted(v, Width) \in Int
  BY <1>1, PowerIs, ShiftedIs
<1>6. QED
  BY <1>1, <1>4, <1>5

(* A number of the header is read as it was written.                       *)
LEMMA UnsignedOf ==
    ASSUME NEW v \in 0..Bound - 1
    PROVE  Unsigned(Encode(v)) = v
<1>1. v \in Int /\ -Bound <= v /\ v < Bound /\ v >= 0 /\ Bound \in Nat
  BY BoundIs
<1>2. Shifted(v, Width) = 0
  BY <1>1, ShiftedOut
<1>3. Unsigned(Encode(v)) = v - 0 * Bound
  BY <1>1, <1>2, UnsignedOfEncode
<1>4. QED
  BY <1>1, <1>3

(* An integer that was written is read as it was, also one that is         *)
(* negative: appendValue and the reads of it agree.                        *)
THEOREM IntegersReadBack ==
    ASSUME NEW v \in Integer
    PROVE  Signed(Encode(v)) = v
<1>1. /\ v \in Int /\ -Bound <= v /\ v < Bound /\ Bound \in Nat
      /\ IntMax \in Nat /\ v <= IntMax /\ v >= -(IntMax + 1) /\ 2 * IntMax + 2 <= Bound
  BY BoundIs DEF Integer
<1>2. CASE v >= 0
  <2>1. v \in 0..Bound - 1
    BY <1>1, <1>2
  <2>2. QED
    BY <1>1, <2>1, UnsignedOf DEF Signed
<1>3. CASE v < 0
  <2>1. Shifted(v, Width) = -1
    BY <1>1, <1>3, ShiftedOut
  <2>2. Unsigned(Encode(v)) = v - (-1) * Bound
    BY <1>1, <2>1, UnsignedOfEncode
  <2>3. v - (-1) * Bound = v + Bound
    BY <1>1
  <2>4. v + Bound > IntMax /\ v + Bound - Bound = v
    BY <1>1
  <2>5. Unsigned(Encode(v)) = v + Bound
    BY <2>2, <2>3
  <2>6. Unsigned(Encode(v)) > IntMax /\ Unsigned(Encode(v)) - Bound = v
    BY <1>1, <2>4, <2>5
  <2>7. QED
    BY <2>6, Zenon DEF Signed
<1>4. QED
  BY <1>1, <1>2, <1>3

(* A size that was read is written as it was.                              *)
LEMMA EncodeOfSigned ==
    ASSUME NEW b \in Seq(Byte), Len(b) = Width
    PROVE  /\ Signed(b) \in Int /\ Signed(b) <= IntMax
           /\ Signed(b) >= 0 => Encode(Signed(b)) = b
<1>1. Unsigned(b) \in 0..Bound - 1 /\ Encode(Unsigned(b)) = b
  BY EncodeOfUnsigned
<1>2. Bound \in Nat /\ IntMax \in Nat
  BY BoundIs
<1>3. CASE Unsigned(b) > IntMax
  <2>1. Signed(b) = Unsigned(b) - Bound
    BY <1>3 DEF Signed
  <2>2. Signed(b) \in Int /\ Signed(b) < 0
    BY <1>1, <1>2, <2>1
  <2>3. QED
    BY <1>2, <2>2
<1>4. CASE ~(Unsigned(b) > IntMax)
  <2>1. Signed(b) = Unsigned(b)
    BY <1>4 DEF Signed
  <2>2. QED
    BY <1>1, <1>2, <1>4, <2>1
<1>5. QED
  BY <1>3, <1>4

-----------------------------------------------------------------------------
(* Sequences and their concatenations.                                     *)

(* All the elements of a sequence.                                         *)
Entire(s) == SubSeq(s, 1, Len(s)) = s

(* They are the sequence.                                                  *)
LEMMA AllOf ==
    ASSUME NEW T, NEW s \in Seq(T)
    PROVE  Entire(s)
BY SubSeqFull, SMTT(60) DEF Entire

(* A sequence and its elements.                                            *)
LEMMA Elements ==
    ASSUME NEW T, NEW s \in Seq(T)
    PROVE  /\ Len(s) \in Nat /\ DOMAIN s = 1..Len(s) /\ \A i \in 1..Len(s) : s[i] \in T
           /\ SubSeq(s, 1, 0) = <<>> /\ SubSeq(s, 1, Len(s)) = s
<1>1. SubSeq(s, 1, Len(s)) = s
  BY AllOf, Zenon DEF Entire
<1>2. QED
  BY <1>1, SMTT(60)

(* The other order in which three sequences are concatenated.              *)
Grouped(q, e, x) == (q \o e) \o x = q \o (e \o x)

(* It makes no difference.                                                 *)
LEMMA Group ==
    ASSUME NEW T, NEW q \in Seq(T), NEW e \in Seq(T), NEW x \in Seq(T)
    PROVE  Grouped(q, e, x)
BY ConcatAssociative, SMTT(60) DEF Grouped

(* A concatenation and its length.                                         *)
LEMMA Joined ==
    ASSUME NEW T, NEW s \in Seq(T), NEW t \in Seq(T)
    PROVE  \E u \in Seq(T) : u = s \o t /\ Len(u) = Len(s) + Len(t)
<1>1. s \o t \in Seq(T) /\ Len(s \o t) = Len(s) + Len(t)
  OBVIOUS
<1>2. QED
  BY <1>1, Zenon

-----------------------------------------------------------------------------
(* Sequences.                                                              *)

(* f has the beginnings of the elements of ss, one behind the other.       *)
Flattens(f, ss, T) ==
    /\ f \in [1..Len(ss) -> Seq(T)]
    /\ f[1] = ss[1]
    /\ \A i \in 1..Len(ss) : i # 1 => f[i] = f[i - 1] \o ss[i]
    /\ \A m \in 1..Len(ss) : FlattenSeq(SubSeq(ss, 1, m)) = f[m]

(* FlattenSeq satisfies its equation.                                      *)
LEMMA FlattenIs ==
    ASSUME NEW T, NEW ss \in Seq(Seq(T)), ss # <<>>
    PROVE  \E f : Flattens(f, ss, T)
<1>1. Len(ss) \in Nat /\ Len(ss) # 0 /\ \A i \in 1..Len(ss) : ss[i] \in Seq(T)
  OBVIOUS
<1> DEFINE W == Seq(T)
           g == [p \in Nat \X W |-> IF p[1] + 2 <= Len(ss) THEN p[2] \o ss[p[1] + 2] ELSE p[2]]
<1>2. g \in [Nat \X W -> W]
  <2>1. ASSUME NEW k \in Nat, NEW x \in W, k + 2 <= Len(ss) PROVE x \o ss[k + 2] \in W
    <3>1. k + 2 \in 1..Len(ss)
      BY <1>1, <2>1
    <3>2. ss[k + 2] \in W
      BY <1>1, <3>1
    <3>3. QED
      BY <3>2
  <2> HIDE DEF W
  <2>2. QED
    BY <2>1
<1>3. ss[1] \in W
  BY <1>1
<1>4. PICK e : Follows(e, W, ss[1], g)
  <2> HIDE DEF g, W
  <2>1. QED
    BY <1>2, <1>3, Recursion, Zenon
<1>5. e \in [Nat -> W] /\ \A n \in Nat : e[n] = IF n = 0 THEN ss[1] ELSE g[<<n - 1, e[n - 1]>>]
  BY <1>4 DEF Follows
<1>6. \A n \in Nat : n # 0 /\ n + 1 <= Len(ss) => e[n] = e[n - 1] \o ss[n + 1]
  <2> SUFFICES ASSUME NEW n \in Nat, n # 0, n + 1 <= Len(ss)
               PROVE  e[n] = e[n - 1] \o ss[n + 1]
    OBVIOUS
  <2>1. n - 1 \in Nat /\ n - 1 + 2 = n + 1
    OBVIOUS
  <2>2. e[n] = g[<<n - 1, e[n - 1]>>] /\ e[n - 1] \in W
    BY <1>5, <2>1
  <2> HIDE DEF W
  <2>3. QED
    BY <2>1, <2>2
<1> HIDE DEF g
<1> DEFINE f == [i \in 1..Len(ss) |-> e[i - 1]]
<1>7. f \in [1..Len(ss) -> W]
  <2>1. \A i \in 1..Len(ss) : i - 1 \in Nat
    BY <1>1
  <2> HIDE DEF W
  <2>2. QED
    BY <1>5, <2>1
<1>8. f[1] = ss[1]
  <2>1. 1 \in 1..Len(ss) /\ 1 - 1 = 0 /\ 0 \in Nat
    BY <1>1
  <2>2. QED
    BY <1>5, <2>1
<1>9. \A i \in 1..Len(ss) : i # 1 => f[i] = f[i - 1] \o ss[i]
  <2> SUFFICES ASSUME NEW i \in 1..Len(ss), i # 1 PROVE f[i] = f[i - 1] \o ss[i]
    OBVIOUS
  <2>1. PICK n \in Nat : n = i - 1 /\ n # 0 /\ n + 1 = i /\ n + 1 <= Len(ss) /\ n \in 1..Len(ss) /\ i - 1 = n
    BY <1>1
  <2>2. e[n] = e[n - 1] \o ss[n + 1]
    BY <1>6, <2>1
  <2>3. f[i] = e[n] /\ f[i - 1] = e[n - 1]
    BY <2>1
  <2>4. QED
    BY <2>1, <2>2, <2>3
<1> HIDE DEF f
<1>10. ASSUME NEW m \in 1..Len(ss) PROVE FlattenSeq(SubSeq(ss, 1, m)) = f[m]
  <2> DEFINE t == SubSeq(ss, 1, m)
             h == [i \in 1..m |-> f[i]]
  <2>1. t \in Seq(W) /\ Len(t) = m /\ m # 0 /\ m \in Nat /\ m <= Len(ss) /\ \A i \in 1..m : t[i] = ss[i]
    BY <1>1
  <2>2. \A i \in 1..m : i \in 1..Len(ss) /\ (i # 1 => i - 1 \in 1..m)
    BY <1>1, <2>1
  <2> HIDE DEF t
  <2>3. h = [i \in 1..m |-> IF i = 1 THEN t[i] ELSE h[i - 1] \o t[i]]
    <3>1. \A i \in 1..m : f[i] = IF i = 1 THEN t[i] ELSE f[i - 1] \o t[i]
      BY <1>8, <1>9, <2>1, <2>2
    <3>2. \A i \in 1..m : i # 1 => h[i - 1] = f[i - 1]
      BY <2>2
    <3> DEFINE rhs(i) == IF i = 1 THEN t[i] ELSE h[i - 1] \o t[i]
    <3>3. \A i \in 1..m : f[i] = rhs(i)
      BY <3>1, <3>2
    <3>4. QED
      BY <3>3, Zenon
  <2> HIDE DEF h
  <2> DEFINE s == CHOOSE s : s = [i \in 1..m |-> IF i = 1 THEN t[i] ELSE s[i - 1] \o t[i]]
  <2>4. s = [i \in 1..m |-> IF i = 1 THEN t[i] ELSE s[i - 1] \o t[i]]
    BY <2>3, Zenon
  <2>5. FlattenSeq(t) = s[m]
    <3>1. FlattenSeq(t) = IF Len(t) = 0 THEN t ELSE
             (LET flatten[i \in 1..Len(t)] == IF i = 1 THEN t[i] ELSE flatten[i-1] \o t[i] IN flatten[Len(t)])
      BY Zenon DEF FlattenSeq
    <3>2. QED
      BY <2>1, <3>1, Zenon
  <2> HIDE DEF s
  <2>6. \A i \in 1..m : s[i] = f[i]
    <3> DEFINE U == {n \in Nat : n + 1 <= m => s[n + 1] = f[n + 1]}
    <3>1. 0 \in U
      BY <1>8, <2>1, <2>2, <2>4
    <3>2. ASSUME NEW n \in Nat, n \in U PROVE n + 1 \in U
      <4> SUFFICES ASSUME n + 1 + 1 <= m PROVE s[n + 1 + 1] = f[n + 1 + 1]
        OBVIOUS
      <4>1. PICK k \in 1..m : k = n + 1 + 1 /\ k # 1 /\ k - 1 = n + 1 /\ n + 1 <= m /\ k \in 1..Len(ss)
        BY <2>1, <2>2
      <4>2. s[k] = s[k - 1] \o t[k]
        BY <2>4, <4>1
      <4>3. f[k] = f[k - 1] \o ss[k] /\ t[k] = ss[k]
        BY <1>9, <2>1, <4>1
      <4>4. s[k - 1] = f[k - 1]
        BY <3>2, <4>1
      <4>5. QED
        BY <4>1, <4>2, <4>3, <4>4
    <3> HIDE DEF U
    <3>3. \A n \in Nat : n \in U
      BY <3>1, <3>2, Induct
    <3>4. ASSUME NEW i \in 1..m PROVE s[i] = f[i]
      <4>1. i - 1 \in Nat /\ i - 1 + 1 = i /\ i <= m
        BY <2>1
      <4>2. QED
        BY <3>3, <4>1 DEF U
    <3>5. QED
      BY <3>4
  <2>7. m \in 1..m
    BY <2>1
  <2>8. FlattenSeq(t) = f[m]
    BY <2>5, <2>6, <2>7
  <2>9. QED
    BY <2>8, Zenon DEF t
<1>11. Flattens(f, ss, T)
  BY <1>7, <1>8, <1>9, <1>10 DEF Flattens
<1>12. QED
  BY <1>11

(* Of nothing.                                                             *)
LEMMA FlattenEmpty == FlattenSeq(<<>>) = <<>>
<1>1. Len(<<>>) = 0
  OBVIOUS
<1>2. QED
  BY <1>1, Zenon DEF FlattenSeq

(* FlattenSeq makes a sequence of the same elements.                       *)
LEMMA FlattenType ==
    ASSUME NEW T, NEW ss \in Seq(Seq(T))
    PROVE  FlattenSeq(ss) \in Seq(T)
<1>1. CASE ss = <<>>
  <2>1. FlattenSeq(ss) = <<>>
    BY <1>1, FlattenEmpty, Zenon
  <2>2. QED
    BY <2>1
<1>2. CASE ss # <<>>
  <2>1. PICK f : Flattens(f, ss, T)
    BY <1>2, FlattenIs, Zenon
  <2>2. /\ f \in [1..Len(ss) -> Seq(T)]
        /\ \A m \in 1..Len(ss) : FlattenSeq(SubSeq(ss, 1, m)) = f[m]
    BY <2>1 DEF Flattens
  <2>3. Len(ss) \in 1..Len(ss) /\ SubSeq(ss, 1, Len(ss)) = ss
    <3>1. Len(ss) \in Nat /\ Len(ss) # 0
      BY <1>2
    <3>2. SubSeq(ss, 1, Len(ss)) = ss
      BY AllOf, Zenon DEF Entire
    <3>3. QED
      BY <3>1, <3>2
  <2>4. FlattenSeq(ss) = f[Len(ss)]
    BY <2>2, <2>3
  <2>5. f[Len(ss)] \in Seq(T)
    BY <2>2, <2>3
  <2>6. QED
    BY <2>4, <2>5
<1>3. QED
  BY <1>1, <1>2

(* An element more comes last.                                             *)
LEMMA FlattenAppend ==
    ASSUME NEW T, NEW ss \in Seq(Seq(T)), NEW x \in Seq(T)
    PROVE  FlattenSeq(Append(ss, x)) = FlattenSeq(ss) \o x
<1> DEFINE us == Append(ss, x)
           n == Len(ss)
<1>1. /\ us \in Seq(Seq(T)) /\ us # <<>> /\ Len(us) = n + 1 /\ us[n + 1] = x /\ n \in Nat
      /\ n + 1 \in 1..Len(us) /\ SubSeq(us, 1, n) = ss
  OBVIOUS
<1>2. SubSeq(us, 1, n + 1) = us
  <2>1. Entire(us)
    BY <1>1, AllOf, Zenon
  <2>2. QED
    BY <1>1, <2>1, Zenon DEF Entire
<1> HIDE DEF us
<1>3. us \in Seq(Seq(T)) /\ us # <<>>
  BY <1>1
<1>4. PICK f : Flattens(f, us, T)
  BY <1>3, FlattenIs, Zenon
<1>5. /\ f[1] = us[1]
      /\ \A i \in 1..Len(us) : i # 1 => f[i] = f[i - 1] \o us[i]
      /\ \A m \in 1..Len(us) : FlattenSeq(SubSeq(us, 1, m)) = f[m]
  BY <1>4 DEF Flattens
<1>6. FlattenSeq(us) = f[n + 1]
  BY <1>1, <1>2, <1>5
<1>7. CASE n = 0
  <2>1. ss = <<>> /\ n + 1 = 1
    BY <1>7
  <2>2. FlattenSeq(us) = x
    BY <1>1, <1>5, <1>6, <2>1
  <2>3. FlattenSeq(ss) = <<>>
    BY <2>1, FlattenEmpty
  <2>4. QED
    BY <2>2, <2>3 DEF us
<1>8. CASE n # 0
  <2>1. n + 1 # 1 /\ n + 1 - 1 = n /\ n \in 1..Len(us)
    BY <1>1, <1>8
  <2>2. f[n + 1] = f[n] \o x
    <3>1. PICK k \in 1..Len(us) : k = n + 1
      BY <1>1
    <3>2. k # 1 /\ k - 1 = n /\ us[k] = x
      BY <1>1, <2>1, <3>1
    <3>3. f[k] = f[k - 1] \o us[k]
      BY <1>5, <3>2
    <3>4. QED
      BY <3>1, <3>2, <3>3
  <2>3. FlattenSeq(ss) = f[n]
    BY <1>1, <1>5, <2>1
  <2>4. QED
    BY <1>6, <2>2, <2>3 DEF us
<1>9. QED
  BY <1>7, <1>8

(* One element put before the others of p, and another one behind them.    *)
AddedAround(x, p, y, T) ==
    <<x>> \o Append(p, y) = Append(<<x>> \o p, y) /\ <<x>> \o p \in Seq(T)

(* The two may be put there in either order.                               *)
LEMMA Around ==
    ASSUME NEW T, NEW x \in T, NEW p \in Seq(T), NEW y \in T
    PROVE  AddedAround(x, p, y, T)
<1>1. /\ <<x>> \in Seq(T) /\ <<y>> \in Seq(T)
      /\ Append(p, y) = p \o <<y>> /\ Append(<<x>> \o p, y) = (<<x>> \o p) \o <<y>>
      /\ <<x>> \o p \in Seq(T)
  BY SMTT(60)
<1>2. PICK a \in Seq(T), c \in Seq(T) : a = <<x>> /\ c = <<y>>
  BY <1>1, Zenon
<1>3. Grouped(a, p, c)
  BY Group, Zenon
<1>4. QED
  BY <1>1, <1>2, <1>3, Zenon DEF Grouped, AddedAround

(* An element before the others comes first.                               *)
LEMMA FlattenCons ==
    ASSUME NEW T, NEW x \in Seq(T), NEW ss \in Seq(Seq(T))
    PROVE  FlattenSeq(<<x>> \o ss) = x \o FlattenSeq(ss)
<1> DEFINE part(n) == SubSeq(ss, 1, n)
           S == {n \in Nat : n <= Len(ss) => FlattenSeq(<<x>> \o part(n)) = x \o FlattenSeq(part(n))}
<1>1. Len(ss) \in Nat /\ \A i \in 1..Len(ss) : ss[i] \in Seq(T)
  OBVIOUS
<1>2. 0 \in S
  <2>1. part(0) = <<>> /\ <<x>> \o <<>> = Append(<<>>, x) /\ <<>> \in Seq(Seq(T)) /\ <<>> \o x = x /\ x \o <<>> = x
    OBVIOUS
  <2>2. FlattenSeq(Append(<<>>, x)) = FlattenSeq(<<>>) \o x
    BY <2>1, FlattenAppend
  <2>3. QED
    BY <2>1, <2>2, FlattenEmpty
<1>3. ASSUME NEW n \in Nat, n \in S PROVE n + 1 \in S
  <2> SUFFICES ASSUME n + 1 <= Len(ss)
               PROVE  FlattenSeq(<<x>> \o part(n + 1)) = x \o FlattenSeq(part(n + 1))
    <3>1. n + 1 \in Nat
      OBVIOUS
    <3>2. QED
      BY <3>1, Zenon
  <2>1. PICK y \in Seq(T) : y = ss[n + 1]
    BY <1>1
  <2>2. n \in Nat /\ n <= Len(ss)
    BY <1>1
  <2>3. PICK p \in Seq(Seq(T)) : p = part(n)
    <3>1. part(n) \in Seq(Seq(T))
      BY <1>1, <2>2
    <3> HIDE DEF part
    <3>2. QED
      BY <3>1
  <2>4. part(n + 1) = Append(p, y)
    BY <1>1, <2>2, <2>1, <2>3
  <2>5. <<x>> \o Append(p, y) = Append(<<x>> \o p, y) /\ <<x>> \o p \in Seq(Seq(T))
    BY Around, Zenon DEF AddedAround
  <2>6. FlattenSeq(<<x>> \o p) = x \o FlattenSeq(p)
    <3> HIDE DEF part
    <3>1. QED
      BY <1>3, <2>2, <2>3
  <2>7. FlattenSeq(Append(<<x>> \o p, y)) = FlattenSeq(<<x>> \o p) \o y
    BY <2>5, FlattenAppend
  <2>8. FlattenSeq(Append(p, y)) = FlattenSeq(p) \o y
    BY FlattenAppend
  <2>9. FlattenSeq(p) \in Seq(T)
    BY FlattenType
  <2>10. (x \o FlattenSeq(p)) \o y = x \o (FlattenSeq(p) \o y)
    <3>1. PICK q \in Seq(T) : q = FlattenSeq(p)
      BY <2>9, Zenon
    <3>2. Grouped(x, q, y)
      BY Group, Zenon
    <3>3. QED
      BY <3>1, <3>2, Zenon DEF Grouped
  <2>11. QED
    <3> HIDE DEF part
    <3>1. QED
      BY <2>4, <2>5, <2>6, <2>7, <2>8, <2>10
<1>4. \A n \in Nat : n \in S
  <2> HIDE DEF S
  <2>1. QED
    BY <1>2, <1>3, Induct
<1>5. part(Len(ss)) = ss
  BY AllOf, Zenon DEF Entire
<1>6. FlattenSeq(<<x>> \o part(Len(ss))) = x \o FlattenSeq(part(Len(ss)))
  <2> HIDE DEF part
  <2>1. Len(ss) \in Nat /\ Len(ss) <= Len(ss)
    BY <1>1
  <2>2. QED
    BY <1>4, <2>1, Zenon
<1>7. QED
  BY <1>5, <1>6

-----------------------------------------------------------------------------
(* What a function writes.                                                 *)

(* What f makes of the elements of a sequence, and the same written one    *)
(* behind the other.                                                       *)
Each(f, s) == [i \in DOMAIN s |-> f[s[i]]]
Written(f, s) == FlattenSeq(Each(f, s))

(* f writes the elements of X as elements of T.                            *)
Writes(f, X, T) == f \in [X -> Seq(T)]

(* m has what f makes of s.                                                *)
Maps(m, f, s, T) ==
    /\ m \in Seq(Seq(T)) /\ Len(m) = Len(s)
    /\ \A i \in 1..Len(s) : m[i] = f[s[i]]

(* Each has what f makes of every element.                                 *)
LEMMA EachIs ==
    ASSUME NEW T, NEW X, NEW f, Writes(f, X, T), NEW s \in Seq(X)
    PROVE  Maps(Each(f, s), f, s, T)
<1>1. f \in [X -> Seq(T)]
  BY DEF Writes
<1>2. Len(s) \in Nat /\ DOMAIN s = 1..Len(s) /\ \A i \in 1..Len(s) : f[s[i]] \in Seq(T)
  BY <1>1
<1> DEFINE e(i) == f[s[i]]
           n == Len(s)
           W == Seq(T)
<1>3. \A i \in 1..n : e(i) \in W
  BY <1>2
<1>4. [i \in 1..n |-> e(i)] \in Seq(W)
  <2> HIDE DEF e, n, W
  <2>1. QED
    BY <1>2, <1>3, IsASeq DEF n
<1>5. Each(f, s) = [i \in 1..n |-> e(i)]
  BY <1>2, Zenon DEF Each
<1>6. Each(f, s) \in Seq(W)
  BY <1>4, <1>5, Zenon
<1>7. DOMAIN Each(f, s) = 1..n /\ \A i \in 1..n : Each(f, s)[i] = f[s[i]]
  BY <1>2, Zenon DEF Each
<1>8. Len(Each(f, s)) = n
  <2> DEFINE m == Each(f, s)
  <2> HIDE DEF m, W, n
  <2>1. Len(m) \in Nat /\ DOMAIN m = 1..Len(m)
    BY <1>6, LenProperties DEF m
  <2>2. QED
    BY <1>2, <1>7, <2>1 DEF m, n
<1>9. QED
  BY <1>6, <1>7, <1>8, Zenon DEF Maps

(* Each of a sequence with an element more.                                *)
LEMMA EachAppend ==
    ASSUME NEW T, NEW X, NEW f, Writes(f, X, T), NEW s \in Seq(X), NEW x \in X
    PROVE  Each(f, Append(s, x)) = Append(Each(f, s), f[x])
<1>1. f \in [X -> Seq(T)]
  BY DEF Writes
<1> DEFINE u == Append(s, x)
           W == Seq(T)
<1>2. u \in Seq(X) /\ Len(u) = Len(s) + 1 /\ Len(s) \in Nat /\ u[Len(s) + 1] = x
      /\ \A i \in 1..Len(s) : u[i] = s[i]
  OBVIOUS
<1> HIDE DEF u
<1>3. f[x] \in W
  BY <1>1
<1> DEFINE m == Each(f, s)
           w == Each(f, u)
<1>4. m \in Seq(W) /\ Len(m) = Len(s) /\ \A i \in 1..Len(s) : m[i] = f[s[i]]
  <2>1. Maps(m, f, s, T)
    BY EachIs
  <2>2. QED
    BY <2>1, Zenon DEF Maps
<1>5. w \in Seq(W) /\ Len(w) = Len(s) + 1 /\ \A i \in 1..Len(s) + 1 : w[i] = f[u[i]]
  <2>1. Maps(w, f, u, T)
    BY <1>2, EachIs, Zenon
  <2>2. QED
    BY <1>2, <2>1, Zenon DEF Maps
<1> HIDE DEF m, w, W
<1>6. PICK y \in W : y = f[x]
  BY <1>3
<1> DEFINE a == Append(m, y)
<1>7. a \in Seq(W) /\ Len(a) = Len(s) + 1 /\ a[Len(s) + 1] = y /\ \A i \in 1..Len(s) : a[i] = m[i]
  BY <1>4
<1> HIDE DEF a
<1>8. \A i \in 1..Len(s) + 1 : w[i] = a[i]
  <2> SUFFICES ASSUME NEW i \in 1..Len(s) + 1 PROVE w[i] = a[i]
    OBVIOUS
  <2>1. CASE i = Len(s) + 1
    BY <1>2, <1>5, <1>6, <1>7, <2>1
  <2>2. CASE i # Len(s) + 1
    <3>1. i \in 1..Len(s)
      BY <1>2, <2>2
    <3>2. w[i] = f[u[i]]
      BY <1>5, Zenon
    <3>3. u[i] = s[i] /\ m[i] = f[s[i]] /\ a[i] = m[i]
      BY <1>2, <1>4, <1>7, <3>1, Zenon
    <3>4. QED
      BY <3>2, <3>3, Zenon
  <2>3. QED
    BY <2>1, <2>2
<1>9. w = a
  BY <1>2, <1>5, <1>7, <1>8, SeqEqual
<1>10. QED
  BY <1>6, <1>9 DEF w, a, m, u

(* Each of a first element and the others.                                 *)
LEMMA EachCons ==
    ASSUME NEW T, NEW X, NEW f, Writes(f, X, T), NEW s \in Seq(X), s # <<>>
    PROVE  Each(f, s) = <<f[s[1]]>> \o Each(f, Tail(s))
<1>1. f \in [X -> Seq(T)]
  BY DEF Writes
<1> DEFINE W == Seq(T)
           t == Tail(s)
<1>2. t \in Seq(X) /\ Len(t) = Len(s) - 1 /\ Len(s) \in Nat /\ Len(s) > 0 /\ s[1] \in X
      /\ \A i \in 1..Len(s) - 1 : t[i] = s[i + 1]
  OBVIOUS
<1> HIDE DEF t
<1> DEFINE m == Each(f, s)
           w == Each(f, t)
<1>3. m \in Seq(W) /\ Len(m) = Len(s) /\ \A i \in 1..Len(s) : m[i] = f[s[i]]
  <2>1. Maps(m, f, s, T)
    BY EachIs
  <2>2. QED
    BY <2>1, Zenon DEF Maps
<1>4. w \in Seq(W) /\ Len(w) = Len(s) - 1 /\ \A i \in 1..Len(s) - 1 : w[i] = f[t[i]]
  <2>1. Maps(w, f, t, T)
    BY <1>2, EachIs, Zenon
  <2>2. QED
    BY <1>2, <2>1, Zenon DEF Maps
<1>5. f[s[1]] \in W
  BY <1>1, <1>2
<1> HIDE DEF m, w, W
<1>6. PICK y \in W : y = f[s[1]]
  BY <1>5
<1> DEFINE a == <<y>> \o w
<1>7. a \in Seq(W) /\ Len(a) = Len(s) /\ a[1] = y /\ \A i \in 1..Len(s) - 1 : a[i + 1] = w[i]
  BY <1>2, <1>4
<1> HIDE DEF a
<1>8. \A i \in 1..Len(s) : m[i] = a[i]
  <2> SUFFICES ASSUME NEW i \in 1..Len(s) PROVE m[i] = a[i]
    OBVIOUS
  <2>1. CASE i = 1
    BY <1>3, <1>6, <1>7, <2>1
  <2>2. CASE i # 1
    <3>1. PICK k \in 1..Len(s) - 1 : i = k + 1
      <4>1. i - 1 \in 1..Len(s) - 1 /\ i = i - 1 + 1
        BY <1>2, <2>2
      <4>2. QED
        BY <4>1
    <3>2. QED
      BY <1>2, <1>3, <1>4, <1>7, <3>1
  <2>3. QED
    BY <2>1, <2>2
<1>9. m = a
  BY <1>2, <1>3, <1>7, <1>8, SeqEqual
<1>10. QED
  BY <1>6, <1>9 DEF m, a, w, t

(* Nothing is written of no elements.                                      *)
LEMMA WrittenEmpty == \A f : Written(f, <<>>) = <<>>
<1> TAKE f
<1>1. Each(f, <<>>) = <<>>
  BY DEF Each
<1>2. QED
  BY <1>1, FlattenEmpty, Zenon DEF Written

(* What is written are elements of T.                                      *)
LEMMA WrittenType ==
    ASSUME NEW T, NEW X, NEW f, Writes(f, X, T), NEW s \in Seq(X)
    PROVE  Written(f, s) \in Seq(T)
<1>1. Each(f, s) \in Seq(Seq(T))
  BY EachIs, Zenon DEF Maps
<1>2. QED
  BY <1>1, FlattenType, Zenon DEF Written

(* An element more is written last.                                        *)
LEMMA WrittenAppend ==
    ASSUME NEW T, NEW X, NEW f, Writes(f, X, T), NEW s \in Seq(X), NEW x \in X
    PROVE  Written(f, Append(s, x)) = Written(f, s) \o f[x]
<1>1. f \in [X -> Seq(T)]
  BY DEF Writes
<1>2. Each(f, s) \in Seq(Seq(T)) /\ f[x] \in Seq(T)
  BY <1>1, EachIs, Zenon DEF Maps
<1>3. Each(f, Append(s, x)) = Append(Each(f, s), f[x])
  BY EachAppend, SMTT(60)
<1>4. FlattenSeq(Append(Each(f, s), f[x])) = FlattenSeq(Each(f, s)) \o f[x]
  BY <1>2, FlattenAppend, Zenon
<1>5. QED
  BY <1>3, <1>4, Zenon DEF Written

(* The first element is written first.                                     *)
LEMMA WrittenCons ==
    ASSUME NEW T, NEW X, NEW f, Writes(f, X, T), NEW s \in Seq(X), s # <<>>
    PROVE  Written(f, s) = f[s[1]] \o Written(f, Tail(s))
<1>1. f \in [X -> Seq(T)]
  BY DEF Writes
<1>2. Tail(s) \in Seq(X) /\ s[1] \in X
  OBVIOUS
<1>3. Each(f, Tail(s)) \in Seq(Seq(T)) /\ f[s[1]] \in Seq(T)
  BY <1>1, <1>2, EachIs, Zenon DEF Maps
<1>4. Each(f, s) = <<f[s[1]]>> \o Each(f, Tail(s))
  BY EachCons, SMTT(60)
<1>5. FlattenSeq(<<f[s[1]]>> \o Each(f, Tail(s))) = f[s[1]] \o FlattenSeq(Each(f, Tail(s)))
  BY <1>3, FlattenCons, Zenon
<1>6. QED
  BY <1>4, <1>5, Zenon DEF Written

(* The first n elements of a sequence.                                     *)
LEMMA Beginning ==
    ASSUME NEW X, NEW s \in Seq(X), NEW n \in Nat, n <= Len(s)
    PROVE  SubSeq(s, 1, n) \in Seq(X) /\ Len(SubSeq(s, 1, n)) = n
<1>1. \A i \in 1..n : s[i] \in X
  OBVIOUS
<1>2. SubSeq(s, 1, n) \in Seq(X) /\ Len(SubSeq(s, 1, n)) = IF 1 <= n THEN n - 1 + 1 ELSE 0
  BY <1>1, SubSeqProperties
<1>3. QED
  BY <1>2

(* The first n + 1 elements are one more than n.                           *)
LEMMA BeginningNext ==
    ASSUME NEW X, NEW s \in Seq(X), NEW n \in Nat, n + 1 <= Len(s)
    PROVE  s[n + 1] \in X /\ SubSeq(s, 1, n + 1) = Append(SubSeq(s, 1, n), s[n + 1])
OBVIOUS

(* a is a beginning of b.                                                  *)
Begins(b, a, T) == \E r \in Seq(T) : b = a \o r

(* What is written of the first elements begins what is written of all.    *)
LEMMA WrittenPrefix ==
    ASSUME NEW T, NEW X, NEW f, Writes(f, X, T), NEW s \in Seq(X), NEW k \in Nat, k <= Len(s)
    PROVE  Begins(Written(f, s), Written(f, SubSeq(s, 1, k)), T)
<1>1. f \in [X -> Seq(T)]
  BY DEF Writes
<1> DEFINE part(n) == SubSeq(s, 1, n)
           S == {j \in Nat : k + j <= Len(s) =>
                    \E r \in Seq(T) : Written(f, part(k + j)) = Written(f, part(k)) \o r}
<1>2. Len(s) \in Nat
  OBVIOUS
<1>3. \A n \in Nat : n <= Len(s) => part(n) \in Seq(X)
  BY Beginning
<1>4. \A n \in Nat : n + 1 <= Len(s) =>
         s[n + 1] \in X /\ part(n + 1) = Append(part(n), s[n + 1])
  BY BeginningNext
<1>5. part(Len(s)) = s
  BY AllOf, Zenon DEF Entire
<1> HIDE DEF part
<1>6. PICK q \in Seq(T) : q = Written(f, part(k))
  BY <1>3, WrittenType
<1>7. 0 \in S
  <2>1. q = q \o <<>> /\ <<>> \in Seq(T) /\ k + 0 = k
    OBVIOUS
  <2>2. QED
    BY <1>6, <2>1
<1>8. ASSUME NEW j \in Nat, j \in S PROVE j + 1 \in S
  <2>1. CASE k + (j + 1) <= Len(s)
    <3>1. PICK n \in Nat : n = k + j /\ n + 1 = k + (j + 1) /\ n <= Len(s) /\ n + 1 <= Len(s)
      BY <1>2, <2>1
    <3>2. PICK r \in Seq(T) : Written(f, part(n)) = q \o r
      BY <1>6, <1>8, <3>1
    <3>3. PICK x \in X : x = s[n + 1] /\ part(n + 1) = Append(part(n), x)
      BY <1>4, <3>1
    <3>4. Written(f, part(n + 1)) = Written(f, part(n)) \o f[x]
      <4>1. part(n) \in Seq(X)
        BY <1>3, <3>1, Zenon
      <4>2. PICK p \in Seq(X) : p = part(n)
        BY <4>1, Zenon
      <4>3. Written(f, Append(p, x)) = Written(f, p) \o f[x]
        BY WrittenAppend
      <4>4. QED
        BY <3>3, <4>2, <4>3, Zenon
    <3>5. PICK z \in Seq(T) : z = f[x]
      BY <1>1, <3>3
    <3>6. (q \o r) \o z = q \o (r \o z)
      <4>1. Grouped(q, r, z)
        BY Group, Zenon
      <4>2. QED
        BY <4>1, Zenon DEF Grouped
    <3>7. PICK y \in Seq(T) : y = r \o z
      BY Joined, Zenon
    <3>8. Written(f, part(n + 1)) = q \o y
      BY <3>2, <3>4, <3>5, <3>6, <3>7, Zenon
    <3>9. \E y1 \in Seq(T) : Written(f, part(k + (j + 1))) = Written(f, part(k)) \o y1
      BY <1>6, <3>1, <3>7, <3>8, Zenon
    <3>10. j + 1 \in Nat
      OBVIOUS
    <3>11. QED
      BY <3>9, <3>10, Zenon
  <2>2. CASE ~(k + (j + 1) <= Len(s))
    BY <2>2
  <2>3. QED
    BY <2>1, <2>2
<1>9. \A j \in Nat : j \in S
  <2> HIDE DEF S
  <2>1. QED
    BY <1>7, <1>8, Induct
<1>10. PICK j \in Nat : j = Len(s) - k /\ k + j = Len(s) /\ k + j <= Len(s)
  <2>1. Len(s) - k \in Nat /\ k + (Len(s) - k) = Len(s) /\ k + (Len(s) - k) <= Len(s)
    BY <1>2
  <2>2. QED
    BY <2>1, Zenon
<1>11. \E r \in Seq(T) : Written(f, part(k + j)) = Written(f, part(k)) \o r
  BY <1>9, <1>10
<1>12. QED
  BY <1>5, <1>10, <1>11 DEF part, Begins

-----------------------------------------------------------------------------
(* Contents.                                                               *)

(* An item of a content: its size and its bytes.                           *)
Sized(x) == Encode(Len(x)) \o x

(* A sized item is as long as its size and its bytes.                      *)
LEMMA SizedType ==
    ASSUME NEW x \in Seq(Byte)
    PROVE  Sized(x) \in Seq(Byte) /\ Len(Sized(x)) = Width + Len(x)
<1>1. Len(x) \in Int
  OBVIOUS
<1>2. Encode(Len(x)) \in Seq(Byte) /\ Len(Encode(Len(x))) = Width
  BY <1>1, EncodeIs
<1>3. QED
  BY <1>2 DEF Sized

(* Sized as a function.                                                    *)
SizedOf == [x \in Seq(Byte) |-> Sized(x)]

(* It writes bytes of bytes.                                               *)
LEMMA SizedOfIs == Writes(SizedOf, Seq(Byte), Byte) /\ \A x \in Seq(Byte) : SizedOf[x] = Sized(x)
BY SizedType DEF SizedOf, Writes

(* parseBuffers writes the sized items one behind the other.               *)
LEMMA ParseBuffersIs ==
    ASSUME NEW items \in Seq(Seq(Byte))
    PROVE  ParseBuffers(items) = Written(SizedOf, items)
<1>1. DOMAIN items = 1..Len(items) /\ \A i \in 1..Len(items) : items[i] \in Seq(Byte)
  OBVIOUS
<1>2. \A i \in DOMAIN items : SizedOf[items[i]] = Encode(Len(items[i])) \o items[i]
  BY <1>1, SizedOfIs DEF Sized
<1>3. Each(SizedOf, items) = [i \in DOMAIN items |-> Encode(Len(items[i])) \o items[i]]
  BY <1>2, Zenon DEF Each
<1>4. QED
  BY <1>3, Zenon DEF ParseBuffers, Written

(* It writes bytes.                                                        *)
LEMMA ParseBuffersType ==
    ASSUME NEW items \in Seq(Seq(Byte))
    PROVE  ParseBuffers(items) \in Seq(Byte)
BY SizedOfIs, ParseBuffersIs, WrittenType, Zenon

(* A content without items is empty.                                       *)
LEMMA ParseBuffersEmpty == ParseBuffers(<<>>) = <<>>
<1>1. <<>> \in Seq(Seq(Byte))
  OBVIOUS
<1>2. QED
  BY <1>1, ParseBuffersIs, WrittenEmpty

(* An item more comes last.                                                *)
LEMMA ParseBuffersAppend ==
    ASSUME NEW items \in Seq(Seq(Byte)), NEW x \in Seq(Byte)
    PROVE  ParseBuffers(Append(items, x)) = ParseBuffers(items) \o Sized(x)
<1>1. Append(items, x) \in Seq(Seq(Byte))
  OBVIOUS
<1>2. Written(SizedOf, Append(items, x)) = Written(SizedOf, items) \o SizedOf[x]
  BY SizedOfIs, WrittenAppend
<1>3. QED
  BY <1>1, <1>2, SizedOfIs, ParseBuffersIs

(* The bytes of the first items are those of a content's beginning.        *)
LEMMA ParseBuffersPrefix ==
    ASSUME NEW items \in Seq(Seq(Byte)), NEW k \in Nat, k <= Len(items)
    PROVE  \E r \in Seq(Byte) :
              ParseBuffers(items) = ParseBuffers(SubSeq(items, 1, k)) \o r
<1>1. PICK p \in Seq(Seq(Byte)) : p = SubSeq(items, 1, k)
  BY Beginning
<1>2. PICK r \in Seq(Byte) : Written(SizedOf, items) = Written(SizedOf, p) \o r
  <2>1. Begins(Written(SizedOf, items), Written(SizedOf, p), Byte)
    BY <1>1, SizedOfIs, WrittenPrefix
  <2>2. QED
    BY <2>1 DEF Begins
<1>3. ParseBuffers(items) = ParseBuffers(p) \o r
  BY <1>1, <1>2, ParseBuffersIs
<1>4. QED
  BY <1>1, <1>2, <1>3, Zenon

(* A part of a sequence, by its elements.                                  *)
LEMMA Slice ==
    ASSUME NEW T, NEW s \in Seq(T), NEW m \in Nat, NEW n \in Nat, m <= n, n <= Len(s)
    PROVE  /\ SubSeq(s, m + 1, n) \in Seq(T) /\ Len(SubSeq(s, m + 1, n)) = n - m
           /\ \A i \in 1..n - m : SubSeq(s, m + 1, n)[i] = s[m + i]
<1>1. m + 1 \in Int /\ n \in Int /\ \A i \in m + 1..n : s[i] \in T
  OBVIOUS
<1>2. /\ SubSeq(s, m + 1, n) \in Seq(T)
      /\ Len(SubSeq(s, m + 1, n)) = IF m + 1 <= n THEN n - (m + 1) + 1 ELSE 0
      /\ \A i \in 1..n - (m + 1) + 1 : SubSeq(s, m + 1, n)[i] = s[m + 1 + i - 1]
  BY <1>1, SubSeqProperties
<1>3. n - (m + 1) + 1 = n - m /\ (m + 1 <= n \/ n - m = 0) /\ \A i \in Int : m + 1 + i - 1 = m + i
  OBVIOUS
<1>4. QED
  BY <1>2, <1>3

(* The parts of a concatenation.                                           *)
LEMMA Parts ==
    ASSUME NEW T, NEW s \in Seq(T), NEW t \in Seq(T)
    PROVE  /\ SubSeq(s \o t, 1, Len(s)) = s
           /\ SubSeq(s \o t, Len(s) + 1, Len(s \o t)) = t
           /\ Len(s \o t) = Len(s) + Len(t) /\ s \o t \in Seq(T)
<1> DEFINE u == s \o t
<1>1. /\ u \in Seq(T) /\ Len(u) = Len(s) + Len(t) /\ Len(s) \in Nat /\ Len(t) \in Nat
      /\ \A i \in 1..Len(s) : u[i] = s[i]
      /\ \A i \in 1..Len(t) : u[Len(s) + i] = t[i]
  OBVIOUS
<1> HIDE DEF u
<1>2. SubSeq(u, 1, Len(s)) = s
  BY <1>1
<1>3. SubSeq(u, Len(s) + 1, Len(u)) = t
  BY <1>1
<1>4. QED
  BY <1>1, <1>2, <1>3 DEF u

(* The part of a concatenation that is the second of three.                *)
LEMMA Slices ==
    ASSUME NEW T, NEW s \in Seq(T), NEW t \in Seq(T), NEW r \in Seq(T)
    PROVE  SubSeq((s \o t) \o r, Len(s) + 1, Len(s) + Len(t)) = t
<1> DEFINE u == s \o t
           w == u \o r
<1>1. /\ u \in Seq(T) /\ Len(u) = Len(s) + Len(t) /\ Len(s) \in Nat /\ Len(t) \in Nat
      /\ \A i \in 1..Len(t) : u[Len(s) + i] = t[i]
  OBVIOUS
<1> HIDE DEF u
<1>2. /\ w \in Seq(T) /\ Len(w) = Len(u) + Len(r) /\ Len(r) \in Nat
      /\ \A i \in 1..Len(u) : w[i] = u[i]
  BY <1>1, SMTT(60)
<1> HIDE DEF w
<1>3. \A i \in 1..Len(t) : w[Len(s) + i] = t[i]
  <2> TAKE i \in 1..Len(t)
  <2>1. Len(s) + i \in 1..Len(u)
    BY <1>1
  <2>2. u[Len(s) + i] = t[i] /\ w[Len(s) + i] = u[Len(s) + i]
    BY <1>1, <1>2, <2>1, Zenon
  <2>3. QED
    BY <2>2, Zenon
<1>4. SubSeq(w, Len(s) + 1, Len(s) + Len(t)) = t
  <2>1. PICK m \in Nat, n \in Nat : m = Len(s) /\ n = Len(s) + Len(t) /\ m <= n /\ n <= Len(w) /\ n - m = Len(t)
    BY <1>1, <1>2
  <2> DEFINE v == SubSeq(w, m + 1, n)
  <2>2. v \in Seq(T) /\ Len(v) = n - m /\ \A i \in 1..n - m : v[i] = w[m + i]
    BY <1>2, <2>1, Slice
  <2> HIDE DEF v
  <2>3. v = t
    BY <1>3, <2>1, <2>2, SeqEqual
  <2>4. QED
    BY <2>1, <2>3 DEF v
<1>5. QED
  BY <1>4 DEF w, u

(* Two parts side by side are one.                                         *)
LEMMA Adjacent ==
    ASSUME NEW T, NEW s \in Seq(T), NEW m \in Nat, NEW n \in Nat, m <= n, n <= Len(s)
    PROVE  SubSeq(s, 1, m) \o SubSeq(s, m + 1, n) = SubSeq(s, 1, n)
<1>1. 1 \in 1..Len(s) + 1 /\ m \in 1 - 1..Len(s) /\ n \in m..Len(s)
  OBVIOUS
<1>2. QED
  BY <1>1, ConcatAdjacentSubSeq

-----------------------------------------------------------------------------
(* What the loop of deparseBuffer has loaded.                              *)

(* How the loop can end.                                                   *)
End == {"loaded", "unknown", "overrun", "refused"}

(* Its items are always what is in the buffer up to where it is.           *)
Loaders(b) ==
    {l \in [end : End, p : 0..Len(b), items : Seq(Seq(Byte))] :
        ParseBuffers(l.items) = SubSeq(b, 1, l.p)}

(* The loop starts with nothing loaded.                                    *)
LEMMA LoadingIs ==
    ASSUME NEW b \in Seq(Byte)
    PROVE  Loading \in Loaders(b)
<1>1. SubSeq(b, 1, 0) = <<>> /\ <<>> \in Seq(Seq(Byte)) /\ 0 \in 0..Len(b) /\ "loaded" \in End
  BY DEF End
<1>2. QED
  BY <1>1, ParseBuffersEmpty DEF Loading, Loaders

(* A round loads an item of exactly the bytes it passes.                   *)
LEMMA LoadItemIs ==
    ASSUME NEW b \in Seq(Byte), NEW l \in Loaders(b)
    PROVE  LoadItem(b, l) \in Loaders(b)
<1>1. /\ l \in [end : End, p : 0..Len(b), items : Seq(Seq(Byte))]
      /\ ParseBuffers(l.items) = SubSeq(b, 1, l.p)
  BY DEF Loaders
<1>2. PICK p \in Nat : p = l.p /\ p <= Len(b)
  BY <1>1
<1>3. Width \in Nat /\ Width > 0 /\ Len(b) \in Nat
  BY WidthAssumption
<1> DEFINE digits == SubSeq(b, p + 1, p + Width)
           size == Signed(digits)
           next == p + Width + size
<1>4. Len(b) - p >= Width => digits \in Seq(Byte) /\ Len(digits) = Width
  <2> SUFFICES ASSUME Len(b) - p >= Width PROVE digits \in Seq(Byte) /\ Len(digits) = Width
    OBVIOUS
  <2>1. PICK m \in Nat : m = p + Width /\ p <= m /\ m <= Len(b) /\ m - p = Width
    BY <1>2, <1>3
  <2>2. SubSeq(b, p + 1, m) \in Seq(Byte) /\ Len(SubSeq(b, p + 1, m)) = m - p
    BY <2>1, Slice
  <2>3. QED
    BY <2>1, <2>2
<1>5. ASSUME NEW why \in End PROVE [l EXCEPT !.end = why] \in Loaders(b)
  BY <1>1 DEF Loaders
<1>6. ASSUME Len(b) - p >= Width, size >= 0, next <= Len(b)
      PROVE  [end |-> "loaded", p |-> next, items |-> Append(l.items, SubSeq(b, p + Width + 1, next))] \in Loaders(b)
  <2>1. digits \in Seq(Byte) /\ Len(digits) = Width
    BY <1>4, <1>6
  <2>2. size \in Int /\ Encode(size) = digits
    <3> HIDE DEF digits
    <3>1. QED
      BY <1>6, <2>1, EncodeOfSigned
  <2>3. PICK z \in Nat : z = size
    <3> HIDE DEF size
    <3>1. QED
      BY <1>6, <2>2
  <2>4. PICK m \in Nat : m = p + Width /\ m <= Len(b)
    BY <1>2, <1>3, <1>6
  <2>5. PICK n \in Nat : n = m + z /\ n = next /\ m <= n /\ n <= Len(b)
    <3> HIDE DEF size
    <3>1. QED
      BY <1>6, <2>3, <2>4
  <2> DEFINE x == SubSeq(b, m + 1, n)
  <2>6. x \in Seq(Byte) /\ Len(x) = z
    <3> HIDE DEF size
    <3>1. m <= n /\ n <= Len(b) /\ n - m = z
      BY <2>5
    <3>2. QED
      BY <3>1, Slice
  <2>7. Sized(x) = SubSeq(b, p + 1, m) \o x
    <3> HIDE DEF size, x
    <3>1. Encode(Len(x)) = SubSeq(b, p + 1, m)
      BY <2>2, <2>3, <2>4, <2>6
    <3>2. QED
      BY <3>1 DEF Sized
  <2> HIDE DEF size, x
  <2>8. ParseBuffers(Append(l.items, x)) = SubSeq(b, 1, n)
    <3>1. ParseBuffers(Append(l.items, x)) = SubSeq(b, 1, p) \o Sized(x)
      BY <1>1, <1>2, <2>6, ParseBuffersAppend
    <3>2. p <= m /\ SubSeq(b, 1, p) \in Seq(Byte) /\ SubSeq(b, p + 1, m) \in Seq(Byte)
      <4>1. p <= m /\ m <= Len(b) /\ 0 <= p /\ p <= Len(b) /\ 0 + 1 = 1 /\ 0 \in Nat
        BY <1>2, <1>3, <2>4
      <4>2. SubSeq(b, 0 + 1, p) \in Seq(Byte) /\ SubSeq(b, p + 1, m) \in Seq(Byte)
        BY <4>1, Slice
      <4>3. QED
        BY <4>1, <4>2
    <3>3. SubSeq(b, 1, p) \o (SubSeq(b, p + 1, m) \o x) = (SubSeq(b, 1, p) \o SubSeq(b, p + 1, m)) \o x
      <4>1. PICK q \in Seq(Byte), r \in Seq(Byte) : q = SubSeq(b, 1, p) /\ r = SubSeq(b, p + 1, m)
        BY <3>2
      <4>2. PICK y \in Seq(Byte) : y = x
        BY <2>6
      <4>3. Grouped(q, r, y)
        BY Group, Zenon
      <4>4. QED
        BY <4>1, <4>2, <4>3, Zenon DEF Grouped
    <3>4. SubSeq(b, 1, p) \o SubSeq(b, p + 1, m) = SubSeq(b, 1, m)
      BY <1>2, <2>4, <3>2, Adjacent
    <3>5. SubSeq(b, 1, m) \o SubSeq(b, m + 1, n) = SubSeq(b, 1, n)
      BY <2>4, <2>5, Adjacent
    <3>6. QED
      BY <2>7, <3>1, <3>3, <3>4, <3>5 DEF x
  <2>9. n \in 0..Len(b) /\ Append(l.items, x) \in Seq(Seq(Byte))
    BY <1>1, <2>5, <2>6
  <2>10. [end |-> "loaded", p |-> n, items |-> Append(l.items, x)] \in Loaders(b)
    <3>1. PICK e : e = [end |-> "loaded", p |-> n, items |-> Append(l.items, x)]
      OBVIOUS
    <3>2. e \in [end : End, p : 0..Len(b), items : Seq(Seq(Byte))]
      <4>1. "loaded" \in End
        BY DEF End
      <4> DEFINE y == Append(l.items, x)
      <4> HIDE DEF y
      <4>2. y \in Seq(Seq(Byte))
        BY <2>9 DEF y
      <4>3. e = [end |-> "loaded", p |-> n, items |-> y]
        BY <3>1 DEF y
      <4>4. QED
        BY <2>9, <4>1, <4>2, <4>3
    <3>3. e.p = n /\ e.items = Append(l.items, x)
      BY <1>1, <3>1
    <3>4. QED
      BY <2>8, <3>1, <3>2, <3>3 DEF Loaders
  <2>11. QED
    BY <2>4, <2>5, <2>10 DEF x
<1>7. CASE l.end # "loaded" \/ l.p = Len(b)
  BY <1>7 DEF LoadItem
<1>8. CASE l.end = "loaded" /\ l.p # Len(b)
  <2> DEFINE e == IF size < 0 \/ next > Len(b) THEN [l EXCEPT !.end = "refused"]
                  ELSE [end |-> "loaded", p |-> next, items |-> Append(l.items, SubSeq(b, p + Width + 1, next))]
  <2>1. LoadItem(b, l) =
           CASE Len(b) - p < Width -> [l EXCEPT !.end = "unknown"]
             [] Len(b) - p >= Width /\ next > IntMax -> [l EXCEPT !.end = "overrun"]
             [] Len(b) - p >= Width /\ next <= IntMax -> e
    BY <1>2, <1>8, Zenon DEF LoadItem
  <2>2. CASE Len(b) - p < Width
    <3> HIDE DEF e, next
    <3>1. ~(Len(b) - p >= Width)
      BY <1>2, <1>3, <2>2
    <3>2. LoadItem(b, l) = [l EXCEPT !.end = "unknown"]
      BY <2>1, <2>2, <3>1, Zenon
    <3>3. "unknown" \in End
      BY DEF End
    <3>4. QED
      BY <1>5, <3>2, <3>3, Zenon
  <2>3. CASE Len(b) - p >= Width
    <3>1. ~(Len(b) - p < Width)
      BY <1>2, <1>3, <2>3
    <3>2. size \in Int
      <4>1. digits \in Seq(Byte) /\ Len(digits) = Width
        BY <2>3, <1>4
      <4> HIDE DEF digits
      <4>2. QED
        BY <4>1, EncodeOfSigned
    <3>3. next \in Int /\ IntMax \in Int
      <4> HIDE DEF size
      <4>1. QED
        BY <1>2, <1>3, <3>2, BoundIs
    <3>4. CASE next > IntMax
      <4>1. ~(next <= IntMax)
        <5> HIDE DEF next
        <5>1. QED
          BY <3>3, <3>4
      <4>2. LoadItem(b, l) = [l EXCEPT !.end = "overrun"]
        <5> HIDE DEF e, next
        <5>1. QED
          BY <2>1, <2>3, <3>1, <3>4, <4>1, Zenon
      <4>3. "overrun" \in End
        BY DEF End
      <4>4. QED
        BY <1>5, <4>2, <4>3, Zenon
    <3>5. CASE next <= IntMax
      <4>1. ~(next > IntMax)
        <5> HIDE DEF next
        <5>1. QED
          BY <3>3, <3>5
      <4>2. LoadItem(b, l) = e
        <5> HIDE DEF e, next
        <5>1. QED
          BY <2>1, <2>3, <3>1, <3>5, <4>1, Zenon
      <4>3. "refused" \in End
        BY DEF End
      <4>4. CASE size < 0 \/ next > Len(b)
        <5>1. e = [l EXCEPT !.end = "refused"]
          BY <4>4, Zenon
        <5>2. QED
          BY <1>5, <4>2, <4>3, <5>1, Zenon
      <4>5. CASE ~(size < 0 \/ next > Len(b))
        <5>1. e = [end |-> "loaded", p |-> next, items |-> Append(l.items, SubSeq(b, p + Width + 1, next))]
          BY <4>5, Zenon
        <5>2. size >= 0 /\ next <= Len(b)
          <6> HIDE DEF size, next
          <6>1. QED
            BY <1>3, <3>2, <3>3, <4>5
        <5>3. QED
          BY <1>6, <2>3, <4>2, <5>1, <5>2, Zenon
      <4>6. QED
        BY <4>4, <4>5
    <3>6. QED
      <4> HIDE DEF next
      <4>1. QED
        BY <3>3, <3>4, <3>5
  <2>4. QED
    BY <1>2, <1>3, <2>2, <2>3
<1>9. QED
  BY <1>7, <1>8

(* The rounds of the loop, one after the other.                            *)
LEMMA LoadItemsIs ==
    ASSUME NEW b \in Seq(Byte)
    PROVE  /\ LoadItems(b, 0) = Loading
           /\ \A n \in Nat : LoadItems(b, n) \in Loaders(b)
           /\ \A n \in Nat : LoadItems(b, n + 1) = LoadItem(b, LoadItems(b, n))
<1> DEFINE T == Loaders(b)
           g == [q \in Nat \X T |-> LoadItem(b, q[2])]
<1>1. \A l \in T : LoadItem(b, l) \in T
  BY LoadItemIs
<1>2. Loading \in T
  BY LoadingIs
<1> HIDE DEF T
<1>3. g \in [Nat \X T -> T]
  BY <1>1
<1>4. PICK h : Follows(h, T, Loading, g)
  <2> HIDE DEF g
  <2>1. QED
    BY <1>2, <1>3, Recursion, Zenon
<1>5. h \in [Nat -> T] /\ \A n \in Nat : h[n] = IF n = 0 THEN Loading ELSE g[<<n - 1, h[n - 1]>>]
  BY <1>4 DEF Follows
<1>6. \A n \in Nat : n # 0 => g[<<n - 1, h[n - 1]>>] = LoadItem(b, h[n - 1])
  BY <1>5, Before
<1>7. h = [n \in Nat |-> IF n = 0 THEN Loading ELSE LoadItem(b, h[n - 1])]
  <2> HIDE DEF g
  <2>1. QED
    BY <1>5, <1>6
<1> DEFINE s == CHOOSE s : s = [n \in Nat |-> IF n = 0 THEN Loading ELSE LoadItem(b, s[n - 1])]
<1>8. s = [n \in Nat |-> IF n = 0 THEN Loading ELSE LoadItem(b, s[n - 1])]
  BY <1>7, Zenon
<1>9. \A n \in Nat : LoadItems(b, n) = s[n]
  BY Zenon DEF LoadItems
<1> HIDE DEF g, s
<1>10. s[0] = Loading
  BY <1>8
<1>11. \A n \in Nat : s[n + 1] = LoadItem(b, s[n])
  BY <1>8, After
<1>12. \A n \in Nat : s[n] \in T
  <2>1. \A n \in Nat : s[n] \in T => s[n + 1] \in T
    BY <1>1, <1>11
  <2>2. QED
    BY <1>2, <1>10, <2>1, Always
<1>13. QED
  BY <1>9, <1>10, <1>11, <1>12, After DEF T

(* A content that was loaded by deparseBuffer has all of its items, and    *)
(* they are all of the bytes of the buffer, whatever the buffer is.        *)
THEOREM ContentsWhole ==
    ASSUME NEW b \in Seq(Byte), NEW n \in Nat,
           DeparseBuffer(b, n).end = "loaded"
    PROVE  /\ DeparseBuffer(b, n).items \in Seq(Seq(Byte))
           /\ Len(DeparseBuffer(b, n).items) = n
           /\ ParseBuffers(DeparseBuffer(b, n).items) = b
<1> DEFINE l == LoadItems(b, n)
<1>1. /\ l \in [end : End, p : 0..Len(b), items : Seq(Seq(Byte))]
      /\ ParseBuffers(l.items) = SubSeq(b, 1, l.p)
  BY LoadItemsIs DEF Loaders
<1>2. Len(b) \in Nat /\ Width \in Nat /\ Width > 0
  BY WidthAssumption
<1> HIDE DEF l
<1>3. b # <<>> /\ Len(b) >= Width /\ n > 0
  <2>1. CASE b = <<>>
    <3>1. DeparseBuffer(b, n) = Stop("stale")
      BY <1>2, <2>1 DEF DeparseBuffer
    <3>2. QED
      BY <3>1 DEF Stop
  <2>2. CASE b # <<>> /\ (Len(b) < Width \/ n = 0)
    <3>1. ~(Len(b) >= Width /\ n > 0)
      BY <1>2, <2>2
    <3>2. DeparseBuffer(b, n) = Stop("refused")
      BY <2>2, <3>1, Zenon DEF DeparseBuffer
    <3>3. QED
      BY <3>2 DEF Stop
  <2>3. QED
    BY <1>2, <2>1, <2>2
<1>4. DeparseBuffer(b, n) = Finish(b, n, l)
  <2>1. ~(Len(b) < Width \/ n = 0)
    BY <1>2, <1>3
  <2>2. QED
    BY <1>3, <2>1, Zenon DEF DeparseBuffer, l
<1>5. l.end = "loaded"
  <2> SUFFICES ASSUME l.end # "loaded" PROVE FALSE
    OBVIOUS
  <2>1. Finish(b, n, l) = Stop(l.end)
    BY Zenon DEF Finish
  <2>2. Stop(l.end).end = l.end
    BY DEF Stop
  <2>3. QED
    BY <1>4, <2>1, <2>2
<1>6. l.p = Len(b) /\ Len(l.items) = n
  <2> SUFFICES ASSUME ~(l.p = Len(b) /\ Len(l.items) = n) PROVE FALSE
    OBVIOUS
  <2>1. Finish(b, n, l) = Stop("refused")
    BY <1>5, Zenon DEF Finish
  <2>2. Stop("refused").end = "refused"
    BY DEF Stop
  <2>3. QED
    BY <1>4, <2>1, <2>2
<1>7. Finish(b, n, l) = Loaded(l.items)
  BY <1>5, <1>6, Zenon DEF Finish
<1>8. DeparseBuffer(b, n).items = l.items
  BY <1>4, <1>7 DEF Loaded
<1>9. SubSeq(b, 1, Len(b)) = b
  BY AllOf, Zenon DEF Entire
<1>10. QED
  BY <1>1, <1>6, <1>8, <1>9

(* What deparseBuffer can end with.                                        *)
LEMMA DeparseType ==
    ASSUME NEW b \in Seq(Byte), NEW n \in Nat
    PROVE  DeparseBuffer(b, n) \in [end : End \cup {"stale"}, items : Seq(Seq(Byte))]
<1>1. Len(b) \in Nat /\ Width \in Nat /\ <<>> \in Seq(Seq(Byte))
  BY WidthAssumption
<1>2. \A why \in End \cup {"stale"} : Stop(why) \in [end : End \cup {"stale"}, items : Seq(Seq(Byte))]
  BY <1>1 DEF Stop
<1>3. "stale" \in End \cup {"stale"} /\ "refused" \in End \cup {"stale"} /\ "loaded" \in End \cup {"stale"}
  BY DEF End
<1>4. CASE b = <<>>
  <2>1. ~(Len(b) >= Width /\ n > 0)
    BY <1>4, WidthAssumption
  <2>2. DeparseBuffer(b, n) = Stop("stale")
    BY <1>4, <2>1, Zenon DEF DeparseBuffer
  <2>3. QED
    BY <1>2, <1>3, <2>2
<1>5. CASE b # <<>> /\ (Len(b) < Width \/ n = 0)
  <2>1. ~(Len(b) >= Width /\ n > 0)
    BY <1>1, <1>5
  <2>2. DeparseBuffer(b, n) = Stop("refused")
    BY <1>5, <2>1, Zenon DEF DeparseBuffer
  <2>3. QED
    BY <1>2, <1>3, <2>2
<1>6. CASE b # <<>> /\ ~(Len(b) < Width \/ n = 0)
  <2> DEFINE l == LoadItems(b, n)
  <2>1. l \in [end : End, p : 0..Len(b), items : Seq(Seq(Byte))]
    BY LoadItemsIs DEF Loaders
  <2>2. Len(b) >= Width /\ n > 0
    BY <1>1, <1>6
  <2> HIDE DEF l
  <2>3. DeparseBuffer(b, n) = Finish(b, n, l)
    BY <1>6, <2>2, Zenon DEF DeparseBuffer, l
  <2>4. CASE l.end # "loaded"
    <3>1. Finish(b, n, l) = Stop(l.end)
      BY <2>4, Zenon DEF Finish
    <3>2. l.end \in End \cup {"stale"}
      BY <2>1
    <3>3. QED
      BY <1>2, <2>3, <3>1, <3>2
  <2>5. CASE l.end = "loaded" /\ l.p = Len(b) /\ Len(l.items) = n
    <3>1. Finish(b, n, l) = Loaded(l.items)
      BY <2>5, Zenon DEF Finish
    <3>2. QED
      BY <1>3, <2>1, <2>3, <3>1 DEF Loaded
  <2>6. CASE l.end = "loaded" /\ ~(l.p = Len(b) /\ Len(l.items) = n)
    <3>1. Finish(b, n, l) = Stop("refused")
      BY <2>6, Zenon DEF Finish
    <3>2. QED
      BY <1>2, <1>3, <2>3, <3>1
  <2>7. QED
    BY <2>4, <2>5, <2>6
<1>7. QED
  BY <1>4, <1>5, <1>6

(* The two other orders in which four sequences are concatenated.          *)
Regrouped(q, e, x, r) ==
    /\ (q \o (e \o x)) \o r = (q \o e) \o (x \o r)
    /\ (q \o (e \o x)) \o r = ((q \o e) \o x) \o r

(* They are the same.                                                      *)
LEMMA Regroup ==
    ASSUME NEW T, NEW q \in Seq(T), NEW e \in Seq(T), NEW x \in Seq(T), NEW r \in Seq(T)
    PROVE  Regrouped(q, e, x, r)
<1>1. (q \o (e \o x)) \o r = (q \o e) \o (x \o r)
  <2>1. PICK y \in Seq(T) : y = e \o x
    BY Joined, Zenon
  <2>2. PICK z \in Seq(T) : z = x \o r
    BY Joined, Zenon
  <2>3. Grouped(q, y, r) /\ Grouped(e, x, r) /\ Grouped(q, e, z)
    BY Group, Zenon
  <2>4. QED
    BY <2>1, <2>2, <2>3, Zenon DEF Grouped
<1>2. Grouped(q, e, x)
  BY Group, Zenon
<1>3. QED
  BY <1>1, <1>2, Zenon DEF Grouped, Regrouped

(* Where the parts of b are.                                               *)
LaidOut(b, q, e, x, r) ==
    /\ SubSeq(b, Len(q) + 1, Len(q) + Len(e)) = e
    /\ SubSeq(b, Len(q) + Len(e) + 1, Len(q) + Len(e) + Len(x)) = x
    /\ Len(b) = Len(q) + Len(e) + Len(x) + Len(r)

(* The parts of a concatenation of four are where they should be.          *)
LEMMA Layout ==
    ASSUME NEW T, NEW q \in Seq(T), NEW e \in Seq(T), NEW x \in Seq(T), NEW r \in Seq(T)
    PROVE  LaidOut((q \o (e \o x)) \o r, q, e, x, r)
<1> DEFINE b == (q \o (e \o x)) \o r
<1>1. (q \o e) \o (x \o r) = b /\ ((q \o e) \o x) \o r = b
  <2>1. Regrouped(q, e, x, r)
    BY Regroup, Zenon
  <2>2. QED
    BY <2>1, Zenon DEF Regrouped
<1>2. ((q \o e) \o x) \o r = b
  BY <1>1
<1> HIDE DEF b
<1>3. SubSeq(b, Len(q) + 1, Len(q) + Len(e)) = e
  <2>1. PICK z \in Seq(T) : z = x \o r
    BY Joined, Zenon
  <2>2. SubSeq((q \o e) \o z, Len(q) + 1, Len(q) + Len(e)) = e
    BY Slices
  <2>3. QED
    BY <1>1, <2>1, <2>2, Zenon
<1>4. PICK f \in Seq(T) : f = q \o e /\ Len(f) = Len(q) + Len(e)
  BY Joined, Zenon
<1>5. SubSeq(b, Len(q) + Len(e) + 1, Len(q) + Len(e) + Len(x)) = x
  <2>1. SubSeq((f \o x) \o r, Len(f) + 1, Len(f) + Len(x)) = x
    BY Slices
  <2>2. QED
    BY <1>2, <1>4, <2>1, Zenon
<1>6. Len(b) = Len(q) + Len(e) + Len(x) + Len(r)
  <2>1. PICK g \in Seq(T) : g = f \o x /\ Len(g) = Len(f) + Len(x)
    BY <1>4, Joined, Zenon
  <2>2. Len(g \o r) = Len(g) + Len(r)
    OBVIOUS
  <2>3. b = g \o r
    BY <1>2, <1>4, <2>1, Zenon
  <2>4. QED
    BY <1>4, <2>1, <2>2, <2>3
<1>7. QED
  BY <1>3, <1>5, <1>6, Zenon DEF b, LaidOut

(* The loop behind the bytes q, of which it has loaded items.              *)
At(q, items) == [end |-> "loaded", p |-> Len(q), items |-> items]

(* b has the sized item x between q and r.                                 *)
Splits(b, q, x, r) ==
    /\ q \in Seq(Byte) /\ x \in Seq(Byte) /\ r \in Seq(Byte)
    /\ b = (q \o Sized(x)) \o r /\ Len(b) <= IntMax

(* A round of the loop inside a content that was parsed loads the next     *)
(* item.                                                                   *)
LEMMA LoadItemNext ==
    ASSUME NEW b, NEW q, NEW x, NEW r, NEW items, Splits(b, q, x, r)
    PROVE  LoadItem(b, At(q, items)) = At(q \o Sized(x), Append(items, x))
<1>1. q \in Seq(Byte) /\ x \in Seq(Byte) /\ r \in Seq(Byte)
  BY DEF Splits
<1> DEFINE p == Len(q)
           z == Len(x)
           d == Encode(z)
           l == At(q, items)
<1>2. p \in Nat /\ z \in Nat /\ Len(r) \in Nat /\ Width \in Nat /\ Width > 0 /\ IntMax \in Nat /\ z \in Int
  BY <1>1, WidthAssumption, BoundIs
<1>3. d \in Seq(Byte) /\ Len(d) = Width
  BY <1>2, EncodeIs
<1>4. b = (q \o (d \o x)) \o r /\ Sized(x) = d \o x
  BY Zenon DEF Sized, Splits
<1> HIDE DEF d, l
<1>5. /\ SubSeq(b, p + 1, p + Width) = d
      /\ SubSeq(b, p + Width + 1, p + Width + z) = x
      /\ Len(b) = p + Width + z + Len(r)
  <2>1. PICK e \in Seq(Byte) : e = d
    BY <1>3
  <2>2. LaidOut((q \o (e \o x)) \o r, q, e, x, r)
    BY <1>1, <2>1, Layout, Zenon
  <2>3. LaidOut(b, q, d, x, r)
    BY <1>4, <2>1, <2>2, Zenon
  <2>4. QED
    BY <1>3, <2>3, Zenon DEF LaidOut
<1>6. Len(q \o Sized(x)) = p + Width + z
  <2>1. PICK y \in Seq(Byte) : y = Sized(x) /\ Len(y) = Width + z
    BY <1>1, SizedType
  <2>2. Len(q \o y) = Len(q) + Len(y)
    BY <1>1
  <2>3. QED
    BY <1>2, <2>1, <2>2
<1> HIDE DEF p, z
<1>7. Len(b) <= IntMax
  BY DEF Splits
<1>8. Signed(d) = z
  <2>1. z \in Integer
    BY <1>2, <1>5, <1>7 DEF Integer
  <2>2. QED
    BY <2>1, IntegersReadBack DEF d
<1>9. PICK m \in Nat : m = p + Width + z
  BY <1>2
<1>10. l.p = p /\ l.end = "loaded" /\ l.items = items
  BY DEF p, l, At
<1>11. PICK n \in Nat : n = Len(b)
  BY <1>2, <1>5
<1>12. /\ n # p /\ ~(n - p < Width) /\ n - p >= Width /\ ~(m > IntMax) /\ m <= IntMax
       /\ ~(z < 0 \/ m > n)
  BY <1>2, <1>5, <1>7, <1>9, <1>11
<1>13. Signed(SubSeq(b, l.p + 1, l.p + Width)) = z /\ l.p + Width + z = m
       /\ SubSeq(b, l.p + Width + 1, m) = x
  BY <1>5, <1>8, <1>9, <1>10, Zenon
<1>14. LoadItem(b, l) = [end |-> "loaded", p |-> m, items |-> Append(items, x)]
  BY <1>10, <1>11, <1>12, <1>13, Zenon DEF LoadItem
<1>15. QED
  BY <1>6, <1>9, <1>14, Zenon DEF l, At

(* What parseBuffers has written is loaded by deparseBuffer as it was, if  *)
(* it is not longer than an integer can say.                               *)
THEOREM ContentsReadBack ==
    ASSUME NEW items \in Seq(Seq(Byte)), items # <<>>,
           Len(ParseBuffers(items)) <= IntMax
    PROVE  /\ ParseBuffers(items) # <<>>
           /\ DeparseBuffer(ParseBuffers(items), Len(items)) = Loaded(items)
<1> DEFINE b == ParseBuffers(items)
           part(n) == SubSeq(items, 1, n)
           state(n) == At(ParseBuffers(part(n)), part(n))
           S == {n \in Nat : n <= Len(items) => LoadItems(b, n) = state(n)}
<1>1. b \in Seq(Byte) /\ Len(items) \in Nat /\ Len(items) > 0
  <2>1. b \in Seq(Byte)
    BY ParseBuffersType, Zenon
  <2>2. Len(items) \in Nat /\ Len(items) > 0
    BY EmptySeq
  <2>3. QED
    BY <2>1, <2>2
<1>2. \A n \in Nat : n <= Len(items) => part(n) \in Seq(Seq(Byte))
  <2> SUFFICES ASSUME NEW n \in Nat, n <= Len(items) PROVE part(n) \in Seq(Seq(Byte))
    OBVIOUS
  <2>1. 0 \in Nat /\ 0 <= n /\ 0 + 1 = 1
    OBVIOUS
  <2>2. SubSeq(items, 0 + 1, n) \in Seq(Seq(Byte))
    BY <2>1, Slice
  <2>3. QED
    BY <2>1, <2>2
<1>3. \A n \in Nat : n + 1 <= Len(items) =>
         items[n + 1] \in Seq(Byte) /\ part(n + 1) = Append(part(n), items[n + 1])
  OBVIOUS
<1>4. part(0) = <<>> /\ part(Len(items)) = items
  BY Elements, Zenon
<1>5. \A n \in Nat : n <= Len(items) =>
         \E r \in Seq(Byte) : b = ParseBuffers(part(n)) \o r
  BY ParseBuffersPrefix
<1> HIDE DEF part, b
<1>6. 0 \in S
  <2>1. state(0) = Loading
    BY <1>4, ParseBuffersEmpty DEF Loading, At
  <2>2. QED
    BY <1>1, <2>1, LoadItemsIs
<1>7. ASSUME NEW n \in Nat, n \in S, n + 1 <= Len(items) PROVE LoadItems(b, n + 1) = state(n + 1)
  <2>1. n <= Len(items) /\ n + 1 \in Nat
    BY <1>1, <1>7
  <2>2. PICK x \in Seq(Byte) : x = items[n + 1] /\ part(n + 1) = Append(part(n), x)
    BY <1>3, <1>7
  <2>3. PICK q \in Seq(Byte) : q = ParseBuffers(part(n))
    BY <1>2, <2>1, ParseBuffersType
  <2>4. ParseBuffers(part(n + 1)) = q \o Sized(x)
    BY <1>2, <2>1, <2>2, <2>3, ParseBuffersAppend
  <2>5. PICK r \in Seq(Byte) : b = (q \o Sized(x)) \o r
    BY <1>5, <1>7, <2>1, <2>4
  <2>6. LoadItems(b, n) = At(q, part(n))
    BY <1>7, <2>1, <2>3, Zenon
  <2>7. LoadItem(b, At(q, part(n))) = At(q \o Sized(x), Append(part(n), x))
    <3>1. Len(b) <= IntMax
      BY DEF b
    <3>2. Splits(b, q, x, r)
      BY <2>5, <3>1 DEF Splits
    <3>3. QED
      BY <3>2, LoadItemNext
  <2>8. LoadItems(b, n + 1) = LoadItem(b, LoadItems(b, n))
    BY <1>1, <1>7, LoadItemsIs
  <2>9. QED
    BY <2>2, <2>4, <2>6, <2>7, <2>8, Zenon
<1>8. \A n \in Nat : n \in S
  <2> HIDE DEF state
  <2>1. \A n \in Nat : n \in S => n + 1 \in S
    BY <1>7
  <2> HIDE DEF S
  <2>2. QED
    BY <1>6, <2>1, Induct
<1>9. LoadItems(b, Len(items)) = [end |-> "loaded", p |-> Len(b), items |-> items]
  <2>1. LoadItems(b, Len(items)) = state(Len(items))
    BY <1>1, <1>8
  <2>2. QED
    BY <1>4, <2>1 DEF b, At
<1>10. Len(b) >= Width /\ Len(b) \in Nat /\ Width \in Nat /\ Width > 0
  <2>1. 1 \in Nat /\ 0 \in Nat /\ 0 + 1 = 1 /\ 1 <= Len(items) /\ 0 <= Len(items)
    BY <1>1
  <2>2. PICK x \in Seq(Byte) : x = items[0 + 1] /\ part(0 + 1) = Append(part(0), x)
    BY <1>3, <2>1
  <2>3. ParseBuffers(part(1)) = <<>> \o Sized(x)
    <3>1. <<>> \in Seq(Seq(Byte))
      OBVIOUS
    <3>2. ParseBuffers(Append(<<>>, x)) = ParseBuffers(<<>>) \o Sized(x)
      BY <3>1, ParseBuffersAppend
    <3>3. QED
      BY <1>4, <2>1, <2>2, <3>2, ParseBuffersEmpty
  <2>4. PICK z \in Seq(Byte) : z = Sized(x) /\ Len(z) = Width + Len(x)
    BY SizedType
  <2>5. <<>> \o z = z
    OBVIOUS
  <2>6. PICK r \in Seq(Byte) : b = z \o r
    BY <1>5, <2>1, <2>3, <2>4, <2>5
  <2>7. QED
    BY <2>4, <2>6, WidthAssumption
<1>11. b # <<>> /\ ~(Len(b) < Width \/ Len(items) = 0) /\ Len(items) > 0
  BY <1>1, <1>10
<1>12. DeparseBuffer(b, Len(items)) = Finish(b, Len(items), LoadItems(b, Len(items)))
  BY <1>10, <1>11, Zenon DEF DeparseBuffer
<1> DEFINE l == [end |-> "loaded", p |-> Len(b), items |-> items]
<1>13. l.end = "loaded" /\ l.p = Len(b) /\ l.items = items
  OBVIOUS
<1> HIDE DEF l
<1>14. Finish(b, Len(items), l) = Loaded(items)
  BY <1>13, Zenon DEF Finish
<1>15. LoadItems(b, Len(items)) = l
  BY <1>9 DEF l
<1>16. QED
  BY <1>11, <1>12, <1>14, <1>15 DEF b

-----------------------------------------------------------------------------
(* Values.                                                                 *)

(* b has s between q and r.                                                *)
Holds(b, q, s, r) ==
    q \in Seq(Byte) /\ s \in Seq(Byte) /\ r \in Seq(Byte) /\ b = (q \o s) \o r

(* Where s is.                                                             *)
Held(b, q, s, r) ==
    /\ b \in Seq(Byte) /\ Len(q) \in Nat /\ Len(s) \in Nat
    /\ Len(b) = Len(q) + Len(s) + Len(r) /\ Len(q) + Len(s) <= Len(b)
    /\ SubSeq(b, Len(q) + 1, Len(q) + Len(s)) = s

(* It is there.                                                            *)
LEMMA HoldsIs ==
    ASSUME NEW b, NEW q, NEW s, NEW r, Holds(b, q, s, r)
    PROVE  Held(b, q, s, r)
<1>1. q \in Seq(Byte) /\ s \in Seq(Byte) /\ r \in Seq(Byte) /\ b = (q \o s) \o r
  BY DEF Holds
<1>2. PICK f \in Seq(Byte) : f = q \o s /\ Len(f) = Len(q) + Len(s)
  BY <1>1, Joined, Zenon
<1>3. PICK g \in Seq(Byte) : g = f \o r /\ Len(g) = Len(f) + Len(r)
  BY <1>1, <1>2, Joined, Zenon
<1>4. SubSeq((q \o s) \o r, Len(q) + 1, Len(q) + Len(s)) = s
  BY <1>1, Slices
<1>5. b = g
  BY <1>1, <1>2, <1>3, Zenon
<1>6. SubSeq(b, Len(q) + 1, Len(q) + Len(s)) = s
  BY <1>1, <1>4, Zenon
<1>7. Len(q) \in Nat /\ Len(s) \in Nat /\ Len(r) \in Nat
  BY <1>1
<1>8. QED
  BY <1>2, <1>3, <1>5, <1>6, <1>7 DEF Held

(* What holds a sequence holds its two parts.                              *)
HoldsBoth(b, q, s, t, r) == Holds(b, q, s, t \o r) /\ Holds(b, q \o s, t, r)

(* So a value that is saved in two parts is read in two.                   *)
LEMMA HoldsParts ==
    ASSUME NEW b, NEW q, NEW s \in Seq(Byte), NEW t \in Seq(Byte), NEW r, Holds(b, q, s \o t, r)
    PROVE  HoldsBoth(b, q, s, t, r)
<1>1. q \in Seq(Byte) /\ r \in Seq(Byte) /\ b = (q \o (s \o t)) \o r
  BY Zenon DEF Holds
<1>2. b = (q \o s) \o (t \o r) /\ b = ((q \o s) \o t) \o r
  <2>1. Regrouped(q, s, t, r)
    BY <1>1, Regroup, Zenon
  <2>2. QED
    BY <1>1, <2>1, Zenon DEF Regrouped
<1>3. PICK z \in Seq(Byte) : z = t \o r
  BY <1>1, Joined, Zenon
<1>4. PICK w \in Seq(Byte) : w = q \o s
  BY <1>1, Joined, Zenon
<1>5. QED
  BY <1>1, <1>2, <1>3, <1>4, Zenon DEF Holds, HoldsBoth

(* An integer is read as it was saved, wherever it is.                     *)
LEMMA UploadIntIs ==
    ASSUME NEW b, NEW q, NEW v \in Integer, NEW r, Holds(b, q, Encode(v), r)
    PROVE  UploadInt(b, Len(q)) = Uploaded(v, Len(q) + Width)
<1>1. v \in Int
  BY BoundIs DEF Integer
<1>2. Len(Encode(v)) = Width
  BY <1>1, EncodeIs
<1>3. Len(q) + Width <= Len(b) /\ SubSeq(b, Len(q) + 1, Len(q) + Width) = Encode(v)
  <2>1. Held(b, q, Encode(v), r)
    BY HoldsIs, Zenon
  <2>2. QED
    BY <1>2, <2>1, Zenon DEF Held
<1>4. Signed(Encode(v)) = v
  BY IntegersReadBack
<1>5. QED
  BY <1>3, <1>4, Zenon DEF UploadInt

(* So is a text.                                                           *)
LEMMA UploadStringIs ==
    ASSUME NEW b, NEW q, NEW v \in Seq(Byte), NEW r, Holds(b, q, SaveString(v), r), Len(b) <= IntMax
    PROVE  UploadString(b, Len(q)) = Uploaded(v, Len(q) + Len(SaveString(v)))
<1>1. SaveString(v) = Sized(v)
  BY Zenon DEF SaveString, Sized
<1>2. Len(v) \in Nat /\ Width \in Nat /\ IntMax \in Nat
  BY WidthAssumption, BoundIs
<1>3. Len(SaveString(v)) = Width + Len(v)
  BY <1>1, SizedType
<1>4. Encode(Len(v)) \in Seq(Byte) /\ Len(Encode(Len(v))) = Width
  BY <1>2, EncodeIs
<1>5. Holds(b, q, Encode(Len(v)) \o v, r)
  BY Zenon DEF SaveString
<1>6. Holds(b, q, Encode(Len(v)), v \o r) /\ Holds(b, q \o Encode(Len(v)), v, r)
  BY <1>4, <1>5, HoldsParts, Zenon DEF HoldsBoth
<1>7. Len(b) \in Nat /\ Len(q) \in Nat /\ Len(q) + Len(SaveString(v)) <= Len(b)
  <2>1. Held(b, q, SaveString(v), r)
    BY HoldsIs, Zenon
  <2>2. QED
    BY <2>1 DEF Held
<1>8. Len(v) \in Integer
  BY <1>2, <1>3, <1>7 DEF Integer
<1>9. UploadInt(b, Len(q)) = Uploaded(Len(v), Len(q) + Width)
  BY <1>6, <1>8, UploadIntIs
<1>10. Len(q \o Encode(Len(v))) = Len(q) + Width
  <2>1. q \in Seq(Byte)
    BY DEF Holds
  <2>2. QED
    BY <1>4, <2>1
<1>11. SubSeq(b, (Len(q) + Width) + 1, (Len(q) + Width) + Len(v)) = v
  <2>1. PICK p : p = q \o Encode(Len(v))
    OBVIOUS
  <2>2. Held(b, p, v, r)
    BY <1>6, <2>1, HoldsIs, Zenon
  <2>3. QED
    BY <1>10, <2>1, <2>2, Zenon DEF Held
<1>12. (Len(q) + Width) + Len(v) <= Len(b) /\ Len(v) >= 0 /\ (Len(q) + Width) + Len(v) = Len(q) + Len(SaveString(v))
  BY <1>2, <1>3, <1>7
<1> DEFINE size == UploadInt(b, Len(q))
<1>13. size.known = TRUE /\ size.value = Len(v) /\ size.p = Len(q) + Width
  BY <1>9 DEF Uploaded
<1> HIDE DEF size
<1>14. UploadString(b, Len(q)) =
          IF size.known /\ size.value >= 0 /\ size.p + size.value <= Len(b)
          THEN Uploaded(SubSeq(b, size.p + 1, size.p + size.value), size.p + size.value)
          ELSE Beyond("string")
  BY Zenon DEF UploadString, size
<1>15. QED
  BY <1>11, <1>12, <1>13, <1>14, Zenon

(* What an address is saved as.                                            *)
LEMMA SaveAddressIs ==
    ASSUME NEW a \in Address
    PROVE  /\ a.port \in Integer /\ a.address \in Seq(Byte)
           /\ Encode(a.port) \in Seq(Byte) /\ Len(Encode(a.port)) = Width
           /\ SaveString(a.address) \in Seq(Byte)
           /\ SaveAddress(a) \in Seq(Byte)
           /\ Len(SaveAddress(a)) = Width + Len(SaveString(a.address))
<1>1. a.port \in Integer /\ a.address \in Seq(Byte)
  BY DEF Address
<1>2. a.port \in Int
  BY <1>1, BoundIs DEF Integer
<1>3. Encode(a.port) \in Seq(Byte) /\ Len(Encode(a.port)) = Width
  BY <1>2, EncodeIs
<1>4. SaveString(a.address) \in Seq(Byte)
  <2>1. SaveString(a.address) = Sized(a.address)
    BY Zenon DEF SaveString, Sized
  <2>2. QED
    BY <1>1, <2>1, SizedType
<1>5. PICK s \in Seq(Byte) : s = Encode(a.port) \o SaveString(a.address)
                            /\ Len(s) = Len(Encode(a.port)) + Len(SaveString(a.address))
  BY <1>3, <1>4, Joined, Zenon
<1>6. QED
  BY <1>1, <1>3, <1>4, <1>5 DEF SaveAddress

(* An address is read as it was saved, wherever it is.                     *)
LEMMA UploadAddressIs ==
    ASSUME NEW b, NEW q, NEW a \in Address, NEW r, Holds(b, q, SaveAddress(a), r), Len(b) <= IntMax
    PROVE  UploadAddress(b, Len(q)) = Uploaded(a, Len(q) + Len(SaveAddress(a)))
<1>1. /\ a.port \in Integer /\ a.address \in Seq(Byte)
      /\ Encode(a.port) \in Seq(Byte) /\ Len(Encode(a.port)) = Width
      /\ SaveString(a.address) \in Seq(Byte)
      /\ Len(SaveAddress(a)) = Width + Len(SaveString(a.address))
  BY SaveAddressIs
<1>2. Holds(b, q, Encode(a.port) \o SaveString(a.address), r)
  BY Zenon DEF SaveAddress
<1>3. /\ Holds(b, q, Encode(a.port), SaveString(a.address) \o r)
      /\ Holds(b, q \o Encode(a.port), SaveString(a.address), r)
  BY <1>1, <1>2, HoldsParts, Zenon DEF HoldsBoth
<1>4. UploadInt(b, Len(q)) = Uploaded(a.port, Len(q) + Width)
  BY <1>1, <1>3, UploadIntIs
<1>5. q \in Seq(Byte) /\ Len(q) \in Nat /\ Width \in Nat /\ Len(SaveString(a.address)) \in Nat
  BY <1>1, WidthAssumption DEF Holds
<1>6. Len(q \o Encode(a.port)) = Len(q) + Width
  <2>1. PICK e \in Seq(Byte) : e = q \o Encode(a.port) /\ Len(e) = Len(q) + Len(Encode(a.port))
    BY <1>1, <1>5, Joined, Zenon
  <2>2. QED
    BY <1>1, <2>1
<1>7. UploadString(b, Len(q) + Width) = Uploaded(a.address, Len(q) + Width + Len(SaveString(a.address)))
  BY <1>1, <1>3, <1>6, UploadStringIs
<1>8. Len(q) + Width + Len(SaveString(a.address)) = Len(q) + Len(SaveAddress(a))
  BY <1>1, <1>5
<1> DEFINE port == UploadInt(b, Len(q))
           address == UploadString(b, port.p)
<1>9. port.known = TRUE /\ port.value = a.port /\ port.p = Len(q) + Width
  BY <1>4 DEF Uploaded
<1> HIDE DEF port
<1>10. address = Uploaded(a.address, Len(q) + Len(SaveAddress(a)))
  BY <1>7, <1>8, <1>9, Zenon
<1> HIDE DEF address
<1>11. address.known = TRUE /\ address.value = a.address /\ address.p = Len(q) + Len(SaveAddress(a))
  BY <1>10 DEF Uploaded
<1>12. UploadAddress(b, Len(q)) =
          IF port.known /\ address.known
          THEN Uploaded([port |-> port.value, address |-> address.value], address.p)
          ELSE Beyond("address")
  BY Zenon DEF UploadAddress, port, address
<1>13. [port |-> a.port, address |-> a.address] = a
  BY DEF Address
<1>14. QED
  BY <1>9, <1>11, <1>12, <1>13, Zenon

(* What upload() returns, of whatever bytes.                               *)
Upload(V) == [known : BOOLEAN, value : V, p : Nat]

(* Its constructors.                                                       *)
LEMMA UploadedType ==
    /\ \A V : \A v \in V : \A p \in Nat : Uploaded(v, p) \in Upload(V)
    /\ Beyond("int") \in Upload(Int) /\ Beyond("string") \in Upload(Seq(Byte))
    /\ Beyond("address") \in Upload([port : Int, address : Seq(Byte)])
    /\ Beyond("addresses") \in Upload(Seq([port : Int, address : Seq(Byte)]))
<1>1. \A V : \A v \in V : \A p \in Nat : Uploaded(v, p) \in Upload(V)
  BY DEF Uploaded, Upload
<1>2. /\ Default("int") = 0 /\ Default("string") = <<>> /\ Default("addresses") = <<>>
      /\ Default("address") = NoAddress
  BY DEF Default
<1>3. <<>> \in Seq(Byte) /\ <<>> \in Seq([port : Int, address : Seq(Byte)])
  OBVIOUS
<1>4. NoAddress \in [port : Int, address : Seq(Byte)]
  BY <1>3 DEF NoAddress
<1>5. \A V, kind : Default(kind) \in V => Beyond(kind) \in Upload(V)
  BY DEF Beyond, Upload
<1>6. Beyond("int") \in Upload(Int)
  <2>1. Default("int") \in Int
    BY <1>2
  <2>2. QED
    BY <1>5, <2>1, Zenon
<1>7. Beyond("string") \in Upload(Seq(Byte))
  BY <1>2, <1>3, <1>5, Zenon
<1>8. Beyond("address") \in Upload([port : Int, address : Seq(Byte)])
  BY <1>2, <1>4, <1>5, Zenon
<1>9. Beyond("addresses") \in Upload(Seq([port : Int, address : Seq(Byte)]))
  BY <1>2, <1>3, <1>5, Zenon
<1>10. QED
  BY <1>1, <1>6, <1>7, <1>8, <1>9, Zenon

(* Of an integer.                                                          *)
LEMMA UploadIntType ==
    ASSUME NEW b \in Seq(Byte), NEW p \in Nat
    PROVE  UploadInt(b, p) \in Upload(Int)
<1>1. Width \in Nat /\ Len(b) \in Nat
  BY WidthAssumption
<1>2. CASE p + Width <= Len(b)
  <2>1. PICK m \in Nat : m = p + Width /\ p <= m /\ m <= Len(b) /\ m - p = Width
    BY <1>1, <1>2
  <2>2. SubSeq(b, p + 1, m) \in Seq(Byte) /\ Len(SubSeq(b, p + 1, m)) = m - p
    BY <2>1, Slice
  <2>3. Signed(SubSeq(b, p + 1, m)) \in Int
    BY <2>1, <2>2, EncodeOfSigned
  <2>4. UploadInt(b, p) = Uploaded(Signed(SubSeq(b, p + 1, m)), m)
    BY <1>2, <2>1, Zenon DEF UploadInt
  <2>5. QED
    BY <2>3, <2>4, UploadedType
<1>3. CASE ~(p + Width <= Len(b))
  <2>1. UploadInt(b, p) = Beyond("int")
    BY <1>3, Zenon DEF UploadInt
  <2>2. QED
    BY <2>1, UploadedType
<1>4. QED
  BY <1>2, <1>3

(* Of a text.                                                              *)
LEMMA UploadStringType ==
    ASSUME NEW b \in Seq(Byte), NEW p \in Nat
    PROVE  UploadString(b, p) \in Upload(Seq(Byte))
<1> DEFINE size == UploadInt(b, p)
           end == size.p + size.value
<1>1. size.value \in Int /\ size.p \in Nat
  BY UploadIntType DEF Upload
<1> HIDE DEF size
<1>2. CASE size.known /\ size.value >= 0 /\ end <= Len(b)
  <2>1. PICK m \in Nat, n \in Nat : m = size.p /\ n = end /\ m <= n /\ n <= Len(b)
    BY <1>1, <1>2
  <2>2. SubSeq(b, m + 1, n) \in Seq(Byte)
    BY <2>1, Slice
  <2>3. UploadString(b, p) = Uploaded(SubSeq(b, m + 1, n), n)
    BY <1>2, <2>1, Zenon DEF UploadString, size
  <2>4. QED
    BY <2>2, <2>3, UploadedType
<1>3. CASE ~(size.known /\ size.value >= 0 /\ end <= Len(b))
  <2>1. UploadString(b, p) = Beyond("string")
    BY <1>3, Zenon DEF UploadString, size
  <2>2. QED
    BY <2>1, UploadedType
<1>4. QED
  BY <1>2, <1>3

(* Of an address.                                                          *)
LEMMA UploadAddressType ==
    ASSUME NEW b \in Seq(Byte), NEW p \in Nat
    PROVE  UploadAddress(b, p) \in Upload([port : Int, address : Seq(Byte)])
<1> DEFINE port == UploadInt(b, p)
           address == UploadString(b, port.p)
<1>1. port.value \in Int /\ port.p \in Nat
  BY UploadIntType DEF Upload
<1> HIDE DEF port
<1>2. address.value \in Seq(Byte) /\ address.p \in Nat
  BY <1>1, UploadStringType DEF Upload
<1> HIDE DEF address
<1>3. CASE port.known /\ address.known
  <2>1. UploadAddress(b, p) = Uploaded([port |-> port.value, address |-> address.value], address.p)
    BY <1>3, Zenon DEF UploadAddress, port, address
  <2>2. [port |-> port.value, address |-> address.value] \in [port : Int, address : Seq(Byte)]
    BY <1>1, <1>2
  <2>3. QED
    BY <1>2, <2>1, <2>2, UploadedType
<1>4. CASE ~(port.known /\ address.known)
  <2>1. UploadAddress(b, p) = Beyond("address")
    BY <1>4, Zenon DEF UploadAddress, port, address
  <2>2. QED
    BY <2>1, UploadedType
<1>5. QED
  BY <1>3, <1>4

(* What a port and an address are read as.                                 *)
AnyAddress == [port : Int, address : Seq(Byte)]

(* Of the addresses read so far and the next.                              *)
LEMMA UploadNextType ==
    ASSUME NEW b \in Seq(Byte), NEW read \in Upload(Seq(AnyAddress))
    PROVE  UploadNext(b, read) \in Upload(Seq(AnyAddress))
<1>1. read.value \in Seq(AnyAddress) /\ read.p \in Nat
  BY DEF Upload
<1> DEFINE next == UploadAddress(b, read.p)
<1>2. next.value \in AnyAddress /\ next.p \in Nat
  BY <1>1, UploadAddressType DEF Upload, AnyAddress
<1> HIDE DEF next
<1>3. CASE read.known /\ next.known
  <2>1. UploadNext(b, read) = Uploaded(Append(read.value, next.value), next.p)
    BY <1>3, Zenon DEF UploadNext, next
  <2>2. Append(read.value, next.value) \in Seq(AnyAddress)
    BY <1>1, <1>2
  <2>3. QED
    BY <1>2, <2>1, <2>2, UploadedType
<1>4. CASE ~(read.known /\ next.known)
  <2>1. UploadNext(b, read) = Beyond("addresses")
    BY <1>4, Zenon DEF UploadNext, next
  <2>2. QED
    BY <2>1, UploadedType DEF AnyAddress
<1>5. QED
  BY <1>3, <1>4

(* The loop of upload() of an array: r has read its elements one by one.   *)
Reads(r, b, p) ==
    /\ r[0] = Uploaded(<<>>, p)
    /\ \A n \in Nat : r[n + 1] = UploadNext(b, r[n])

(* upload() of an array is that loop.                                      *)
LEMMA UploadAddressesReads ==
    ASSUME NEW b \in Seq(Byte), NEW p \in Nat, UploadInt(b, p).known
    PROVE  \E r : /\ Reads(r, b, UploadInt(b, p).p)
                  /\ UploadAddresses(b, p) =
                        r[IF UploadInt(b, p).value < 0 THEN 0 ELSE UploadInt(b, p).value]
<1> DEFINE size == UploadInt(b, p)
           T == Upload(Seq(AnyAddress))
           a == Uploaded(<<>>, size.p)
           g == [q \in Nat \X T |-> UploadNext(b, q[2])]
<1>1. size.p \in Nat
  BY UploadIntType DEF Upload
<1> HIDE DEF size
<1>2. a \in T
  <2>1. <<>> \in Seq(AnyAddress)
    OBVIOUS
  <2>2. QED
    BY <1>1, <2>1, UploadedType
<1>3. \A x \in T : UploadNext(b, x) \in T
  BY UploadNextType
<1> HIDE DEF T, a
<1>4. g \in [Nat \X T -> T]
  BY <1>3
<1>5. PICK h : Follows(h, T, a, g)
  <2> HIDE DEF g
  <2>1. QED
    BY <1>2, <1>4, Recursion, Zenon
<1>6. h \in [Nat -> T] /\ \A n \in Nat : h[n] = IF n = 0 THEN a ELSE g[<<n - 1, h[n - 1]>>]
  BY <1>5 DEF Follows
<1>7. \A n \in Nat : n # 0 => g[<<n - 1, h[n - 1]>>] = UploadNext(b, h[n - 1])
  BY <1>6, Before
<1>8. h = [n \in Nat |-> IF n = 0 THEN a ELSE UploadNext(b, h[n - 1])]
  <2> HIDE DEF g
  <2>1. QED
    BY <1>6, <1>7
<1> DEFINE s == CHOOSE s : s = [n \in Nat |-> IF n = 0 THEN a ELSE UploadNext(b, s[n - 1])]
<1>9. s = [n \in Nat |-> IF n = 0 THEN a ELSE UploadNext(b, s[n - 1])]
  BY <1>8, Zenon
<1>10. UploadAddresses(b, p) = s[IF size.value < 0 THEN 0 ELSE size.value]
  BY Zenon DEF UploadAddresses, size, a
<1> HIDE DEF g, s
<1>11. s[0] = a
  BY <1>9
<1>12. \A n \in Nat : s[n + 1] = UploadNext(b, s[n])
  BY <1>9, After
<1>13. Reads(s, b, size.p)
  BY <1>11, <1>12, Zenon DEF Reads, a
<1>14. QED
  BY <1>10, <1>13, Zenon DEF size

-----------------------------------------------------------------------------
(* Sequences that are written one element behind the other, step by step.  *)

(* A number below another.                                                 *)
LEMMA Lower == \A n, m \in Nat : n + 1 \in Nat /\ (n + 1 <= m => n <= m)
OBVIOUS

(* A name for what Encode writes.                                          *)
LEMMA EncodeOf ==
    ASSUME NEW v \in Int
    PROVE  \E d \in Seq(Byte) : d = Encode(v) /\ Len(d) = Width
<1>1. Encode(v) \in Seq(Byte) /\ Len(Encode(v)) = Width
  BY EncodeIs
<1>2. QED
  BY <1>1, Zenon

(* f writes at least one element for each.                                 *)
Fills(f, X) == \A x \in X : Len(f[x]) >= 1

(* So as much is written as there are elements, or more.                   *)
LEMMA WrittenLength ==
    ASSUME NEW T, NEW X, NEW f, Writes(f, X, T), Fills(f, X), NEW s \in Seq(X)
    PROVE  Len(s) <= Len(Written(f, s))
<1> DEFINE part(n) == SubSeq(s, 1, n)
           w(n) == Written(f, part(n))
           L == {n \in Nat : n <= Len(s) => Len(w(n)) >= n}
<1>1. Len(s) \in Nat /\ part(0) = <<>> /\ part(Len(s)) = s
  BY Elements
<1>2. \A n \in Nat : n <= Len(s) => part(n) \in Seq(X)
  BY Beginning
<1>3. \A n \in Nat : n + 1 <= Len(s) => s[n + 1] \in X /\ part(n + 1) = Append(part(n), s[n + 1])
  BY BeginningNext
<1> HIDE DEF part
<1>4. \A n \in Nat : n <= Len(s) => w(n) \in Seq(T)
  BY <1>2, WrittenType, Zenon
<1>5. w(0) = <<>>
  BY <1>1, WrittenEmpty, Zenon
<1>6. \A x \in X : f[x] \in Seq(T) /\ Len(f[x]) >= 1
  BY DEF Writes, Fills
<1>7. 0 \in L
  BY <1>5
<1>8. ASSUME NEW n \in Nat, n \in L PROVE n + 1 \in L
  <2>1. CASE n + 1 <= Len(s)
    <3>1. n <= Len(s) /\ Len(w(n)) >= n
      BY <1>1, <1>8, <2>1
    <3>2. PICK p \in Seq(X) : p = part(n)
      BY <1>2, <3>1, Zenon
    <3>3. PICK x \in X : x = s[n + 1]
      BY <1>3, <2>1, Zenon
    <3>4. part(n + 1) = Append(p, x)
      BY <1>3, <2>1, <3>2, <3>3, Zenon
    <3>5. Written(f, Append(p, x)) = Written(f, p) \o f[x]
      BY WrittenAppend
    <3>6. PICK u \in Seq(T) : u = w(n)
      BY <1>4, <3>1, Zenon
    <3>7. PICK v \in Seq(T) : v = f[x] /\ Len(v) >= 1
      BY <1>6, Zenon
    <3>8. w(n + 1) = u \o v
      BY <3>2, <3>4, <3>5, <3>6, <3>7, Zenon
    <3>9. PICK z \in Seq(T) : z = u \o v /\ Len(z) = Len(u) + Len(v)
      BY Joined, Zenon
    <3>10. Len(u) \in Nat /\ Len(v) \in Nat /\ Len(w(n + 1)) = Len(u) + Len(v) /\ Len(u) >= n
      BY <3>1, <3>6, <3>8, <3>9
    <3> HIDE DEF w
    <3>11. QED
      BY <3>7, <3>10
  <2>2. CASE ~(n + 1 <= Len(s))
    BY <2>2
  <2>3. QED
    BY <2>1, <2>2
<1>9. \A n \in Nat : n \in L
  <2> HIDE DEF L
  <2>1. QED
    BY <1>7, <1>8, Induct
<1>10. Len(w(Len(s))) >= Len(s)
  <2> HIDE DEF w
  <2>1. QED
    BY <1>1, <1>9
<1>11. w(Len(s)) = Written(f, s)
  BY <1>1, Zenon
<1>12. Len(Written(f, s)) \in Nat
  <2>1. PICK z \in Seq(T) : z = Written(f, s)
    BY WrittenType, Zenon
  <2>2. QED
    BY <2>1
<1>13. QED
  <2> HIDE DEF w
  <2>1. QED
    BY <1>1, <1>10, <1>11, <1>12

(* Behind d, what is written of n elements, the next one and the rest.     *)
Stepping(d, f, s, n, T) ==
    \E q, r \in Seq(T) :
        /\ q = d \o Written(f, SubSeq(s, 1, n))
        /\ d \o Written(f, s) = (q \o f[s[n + 1]]) \o r
        /\ d \o Written(f, SubSeq(s, 1, n + 1)) = q \o f[s[n + 1]]

(* What is written is what was, the next and the rest.                     *)
LEMMA WrittenStep ==
    ASSUME NEW T, NEW X, NEW f, Writes(f, X, T), NEW s \in Seq(X), NEW n \in Nat, n + 1 <= Len(s),
           NEW d \in Seq(T)
    PROVE  Stepping(d, f, s, n, T)
<1>1. Len(s) \in Nat /\ n <= Len(s) /\ n + 1 \in Nat
  BY Elements
<1>2. PICK p \in Seq(X) : p = SubSeq(s, 1, n)
  BY <1>1, Beginning, Zenon
<1>3. s[n + 1] \in X /\ SubSeq(s, 1, n + 1) = Append(p, s[n + 1])
  BY <1>2, BeginningNext
<1>4. PICK x \in X : x = s[n + 1]
  BY <1>3, Zenon
<1>5. PICK y \in Seq(T) : y = f[x]
  <2>1. f[x] \in Seq(T)
    BY DEF Writes
  <2>2. QED
    BY <2>1, Zenon
<1>6. PICK u \in Seq(T) : u = Written(f, p)
  BY WrittenType, Zenon
<1>7. Written(f, SubSeq(s, 1, n + 1)) = u \o y
  <2>1. Written(f, Append(p, x)) = Written(f, p) \o f[x]
    BY WrittenAppend
  <2>2. QED
    BY <1>3, <1>4, <1>5, <1>6, <2>1, Zenon
<1>8. PICK r \in Seq(T) : Written(f, s) = (u \o y) \o r
  <2>1. Begins(Written(f, s), Written(f, SubSeq(s, 1, n + 1)), T)
    BY <1>1, WrittenPrefix, Zenon
  <2>2. QED
    BY <1>7, <2>1, Zenon DEF Begins
<1>9. PICK q \in Seq(T) : q = d \o u
  BY Joined, Zenon
<1>10. PICK z \in Seq(T) : z = u \o y
  BY Joined, Zenon
<1>11. (d \o z) \o r = d \o (z \o r)
  <2>1. Grouped(d, z, r)
    BY Group, Zenon
  <2>2. QED
    BY <2>1, Zenon DEF Grouped
<1>12. (d \o u) \o y = d \o (u \o y)
  <2>1. Grouped(d, u, y)
    BY Group, Zenon
  <2>2. QED
    BY <2>1, Zenon DEF Grouped
<1>13. d \o Written(f, s) = (q \o y) \o r /\ d \o Written(f, SubSeq(s, 1, n + 1)) = q \o y
  BY <1>7, <1>8, <1>9, <1>10, <1>11, <1>12, Zenon
<1>14. QED
  BY <1>2, <1>4, <1>5, <1>6, <1>9, <1>13, Zenon DEF Stepping

-----------------------------------------------------------------------------
(* Arrays of addresses.                                                    *)

(* SaveAddress as a function.                                              *)
AddressOf == [a \in Address |-> SaveAddress(a)]

(* It writes bytes of addresses.                                           *)
LEMMA AddressOfIs ==
    /\ Writes(AddressOf, Address, Byte) /\ Fills(AddressOf, Address)
    /\ \A a \in Address : AddressOf[a] = SaveAddress(a)
<1>1. \A a \in Address : SaveAddress(a) \in Seq(Byte) /\ Len(SaveAddress(a)) >= 1
  <2> SUFFICES ASSUME NEW a \in Address
               PROVE  SaveAddress(a) \in Seq(Byte) /\ Len(SaveAddress(a)) >= 1
    OBVIOUS
  <2>1. /\ SaveAddress(a) \in Seq(Byte) /\ SaveString(a.address) \in Seq(Byte)
        /\ Len(SaveAddress(a)) = Width + Len(SaveString(a.address))
    BY SaveAddressIs
  <2>2. Len(SaveString(a.address)) \in Nat
    BY <2>1
  <2>3. QED
    BY <2>1, <2>2, WidthAssumption
<1>2. QED
  BY <1>1 DEF AddressOf, Writes, Fills

(* An array is its size and what it writes.                                *)
LEMMA SaveAddressesIs ==
    ASSUME NEW as \in Seq(Address)
    PROVE  SaveAddresses(as) = Encode(Len(as)) \o Written(AddressOf, as)
<1>1. DOMAIN as = 1..Len(as) /\ \A i \in 1..Len(as) : as[i] \in Address
  BY Elements
<1>2. \A i \in DOMAIN as : AddressOf[as[i]] = SaveAddress(as[i])
  BY <1>1, AddressOfIs
<1>3. Each(AddressOf, as) = [i \in DOMAIN as |-> SaveAddress(as[i])]
  BY <1>2, Zenon DEF Each
<1>4. QED
  BY <1>3, Zenon DEF SaveAddresses, Written

(* A round of the loop of upload() reads the address that is next.         *)
LEMMA UploadNextIs ==
    ASSUME NEW b, NEW q, NEW a \in Address, NEW r, Holds(b, q, SaveAddress(a), r), Len(b) <= IntMax,
           NEW items
    PROVE  UploadNext(b, Uploaded(items, Len(q)))
              = Uploaded(Append(items, a), Len(q \o SaveAddress(a)))
<1> DEFINE read == Uploaded(items, Len(q))
           next == UploadAddress(b, read.p)
<1>1. read.known = TRUE /\ read.value = items /\ read.p = Len(q)
  BY DEF Uploaded
<1> HIDE DEF read
<1>2. next = Uploaded(a, Len(q) + Len(SaveAddress(a)))
  BY <1>1, UploadAddressIs
<1> HIDE DEF next
<1>3. next.known = TRUE /\ next.value = a /\ next.p = Len(q) + Len(SaveAddress(a))
  BY <1>2 DEF Uploaded
<1>4. UploadNext(b, read) = IF read.known /\ next.known
                            THEN Uploaded(Append(read.value, next.value), next.p)
                            ELSE Beyond("addresses")
  BY Zenon DEF UploadNext, next
<1>5. Len(q \o SaveAddress(a)) = Len(q) + Len(SaveAddress(a))
  <2>1. q \in Seq(Byte) /\ SaveAddress(a) \in Seq(Byte)
    BY DEF Holds
  <2>2. PICK e \in Seq(Byte) : e = q \o SaveAddress(a) /\ Len(e) = Len(q) + Len(SaveAddress(a))
    BY <2>1, Joined, Zenon
  <2>3. QED
    BY <2>2, Zenon
<1>6. QED
  BY <1>1, <1>3, <1>4, <1>5, Zenon DEF read

(* What the array is written as, and where its loop starts.                *)
LEMMA SavedAddresses ==
    ASSUME NEW as \in Seq(Address), Len(SaveAddresses(as)) <= IntMax
    PROVE  /\ SaveAddresses(as) \in Seq(Byte) /\ Len(SaveAddresses(as)) >= Width
           /\ UploadInt(SaveAddresses(as), 0) = Uploaded(Len(as), Width)
<1>1. PICK z \in Nat : z = Len(as)
  BY Elements
<1>2. PICK d \in Seq(Byte) : d = Encode(z) /\ Len(d) = Width
  <2>1. z \in Int
    BY <1>1
  <2>2. QED
    BY <2>1, EncodeOf, Zenon
<1>3. PICK t \in Seq(Byte) : t = Written(AddressOf, as)
  BY AddressOfIs, WrittenType, Zenon
<1>4. PICK b \in Seq(Byte) : b = d \o t /\ Len(b) = Width + Len(t)
  BY <1>2, Joined, Zenon
<1>5. b = SaveAddresses(as)
  BY <1>1, <1>2, <1>3, <1>4, SaveAddressesIs
<1>6. z <= Len(t)
  BY <1>1, <1>3, AddressOfIs, WrittenLength
<1>7. Len(b) <= IntMax
  BY <1>5
<1>8. z \in Integer
  <2>1. Len(t) \in Nat /\ IntMax \in Nat /\ Width \in Nat
    BY BoundIs, WidthAssumption
  <2>2. QED
    BY <1>4, <1>6, <1>7, <2>1 DEF Integer
<1>9. Holds(b, <<>>, Encode(z), t)
  <2>1. <<>> \o d = d /\ <<>> \in Seq(Byte)
    OBVIOUS
  <2>2. QED
    BY <1>2, <1>4, <2>1, Zenon DEF Holds
<1>10. UploadInt(b, 0) = Uploaded(z, Width)
  <2>1. UploadInt(b, Len(<<>>)) = Uploaded(z, Len(<<>>) + Width)
    BY <1>8, <1>9, UploadIntIs
  <2>2. Len(<<>>) = 0 /\ 0 + Width = Width
    BY WidthAssumption
  <2>3. QED
    BY <2>1, <2>2, Zenon
<1>11. Len(b) >= Width
  BY <1>4, WidthAssumption
<1>12. QED
  BY <1>1, <1>5, <1>10, <1>11, Zenon

(* An array that was written is read as it was.                            *)
LEMMA UploadAddressesIs ==
    ASSUME NEW as \in Seq(Address), Len(SaveAddresses(as)) <= IntMax
    PROVE  UploadAddresses(SaveAddresses(as), 0) = Uploaded(as, Len(SaveAddresses(as)))
<1> DEFINE part(n) == SubSeq(as, 1, n)
<1>1. PICK z \in Nat : z = Len(as)
  BY Elements
<1>2. PICK d \in Seq(Byte) : d = Encode(z) /\ Len(d) = Width
  <2>1. z \in Int
    BY <1>1
  <2>2. QED
    BY <2>1, EncodeOf, Zenon
<1>3. PICK b \in Seq(Byte) : b = SaveAddresses(as)
  BY SavedAddresses, Zenon
<1>4. b = d \o Written(AddressOf, as)
  BY <1>1, <1>2, <1>3, SaveAddressesIs
<1>5. Len(b) <= IntMax
  BY <1>3
<1>6. UploadInt(b, 0) = Uploaded(z, Width)
  BY <1>1, <1>3, SavedAddresses
<1>7. UploadInt(b, 0).known = TRUE /\ UploadInt(b, 0).value = z /\ UploadInt(b, 0).p = Width
  BY <1>6 DEF Uploaded
<1>8. PICK r : Reads(r, b, Width) /\ UploadAddresses(b, 0) = r[z]
  <2>1. b \in Seq(Byte) /\ 0 \in Nat /\ UploadInt(b, 0).known /\ ~(z < 0)
    BY <1>7
  <2>2. PICK r : /\ Reads(r, b, UploadInt(b, 0).p)
                 /\ UploadAddresses(b, 0) = r[IF UploadInt(b, 0).value < 0 THEN 0 ELSE UploadInt(b, 0).value]
    BY <2>1, UploadAddressesReads, Zenon
  <2>3. QED
    BY <1>7, <2>1, <2>2, Zenon
<1>9. r[0] = Uploaded(<<>>, Width) /\ \A n \in Nat : r[n + 1] = UploadNext(b, r[n])
  BY <1>8, Zenon DEF Reads
<1>10. part(0) = <<>> /\ part(z) = as
  BY <1>1, Elements
<1>11. \A n \in Nat : n + 1 <= z => as[n + 1] \in Address /\ part(n + 1) = Append(part(n), as[n + 1])
  BY <1>1, BeginningNext
<1> DEFINE at(n) == d \o Written(AddressOf, part(n))
           state(n) == Uploaded(part(n), Len(at(n)))
           S == {n \in Nat : n <= z => r[n] = state(n)}
<1>12. \A n \in Nat : n + 1 <= z => Stepping(d, AddressOf, as, n, Byte)
  BY <1>1, AddressOfIs, WrittenStep, Zenon
<1> HIDE DEF part
<1>13. 0 \in S
  <2>1. at(0) = d
    <3>1. d \o <<>> = d
      OBVIOUS
    <3>2. QED
      BY <1>10, <3>1, WrittenEmpty, Zenon
  <2>2. r[0] = state(0)
    BY <1>2, <1>9, <1>10, <2>1, Zenon
  <2> HIDE DEF state
  <2>3. QED
    BY <2>2
<1>14. \A n \in Nat : r[n] = state(n) /\ n + 1 <= z => r[n + 1] = state(n + 1)
  <2> SUFFICES ASSUME NEW n \in Nat, r[n] = state(n), n + 1 <= z PROVE r[n + 1] = state(n + 1)
    BY Zenon
  <2>1. PICK a \in Address : a = as[n + 1] /\ part(n + 1) = Append(part(n), a)
    BY <1>11, Zenon
  <2>2. PICK q \in Seq(Byte), rest \in Seq(Byte) :
              /\ q = at(n) /\ b = (q \o SaveAddress(a)) \o rest
              /\ at(n + 1) = q \o SaveAddress(a)
    <3>1. SaveAddress(a) = AddressOf[as[n + 1]]
      BY <2>1, AddressOfIs, Zenon
    <3>2. QED
      BY <1>4, <1>12, <3>1, Zenon DEF Stepping, part
  <2>3. Holds(b, q, SaveAddress(a), rest)
    BY <2>2, SaveAddressIs, Zenon DEF Holds
  <2>4. UploadNext(b, Uploaded(part(n), Len(q))) = Uploaded(Append(part(n), a), Len(q \o SaveAddress(a)))
    BY <1>5, <2>3, UploadNextIs
  <2>5. r[n] = Uploaded(part(n), Len(q))
    BY <2>2, Zenon
  <2>6. QED
    BY <1>9, <2>1, <2>2, <2>4, <2>5, Zenon
<1>15. \A n \in Nat : n \in S
  <2> HIDE DEF state
  <2>1. \A n \in Nat : n + 1 \in Nat /\ (n + 1 <= z => n <= z)
    BY Lower, Zenon
  <2>2. \A n \in Nat : n \in S => n + 1 \in S
    BY <1>14, <2>1, Zenon
  <2> HIDE DEF S
  <2>3. QED
    BY <1>13, <2>2, Induct
<1>16. r[z] = Uploaded(as, Len(b))
  <2>1. r[z] = state(z)
    <3> HIDE DEF state
    <3>1. z <= z
      BY <1>1
    <3>2. QED
      BY <1>1, <1>15, <3>1, Zenon
  <2>2. QED
    BY <1>4, <1>10, <2>1, Zenon
<1>17. QED
  BY <1>3, <1>8, <1>16, Zenon

(* What a unit of a kind can hold.                                         *)
Filled(kind) == {<<>>} \cup {<<v>> : v \in Assigned(kind)}

(* What a unit holds that holds something.                                 *)
LEMMA FilledIs ==
    ASSUME NEW kind, NEW held \in Filled(kind), held # <<>>
    PROVE  \E v \in Assigned(kind) : held = <<v>> /\ held[1] = v /\ Meaning(kind, held) = v
<1>1. PICK v \in Assigned(kind) : held = <<v>>
  BY DEF Filled
<1>2. held[1] = v
  BY <1>1
<1>3. Meaning(kind, held) = v
  BY <1>2, Zenon DEF Meaning
<1>4. QED
  BY <1>1, <1>2, <1>3, Zenon

(* A value that was saved and is read again.                               *)
Saves(kind, v, b) ==
    /\ b \in Seq(Byte) /\ b # <<>> /\ Save(kind, <<v>>) = b
    /\ Len(b) <= IntMax => Get(kind, b) = Uploaded(v, Len(b))

(* Saves, by its parts.                                                    *)
LEMMA SaveOf ==
    ASSUME NEW kind, NEW v, NEW b, Save(kind, <<v>>) = b, b \in Seq(Byte), Len(b) >= 1,
           Len(b) <= IntMax => Get(kind, b) = Uploaded(v, Len(b))
    PROVE  Saves(kind, v, b)
<1>1. b # <<>>
  OBVIOUS
<1>2. QED
  BY <1>1, Zenon DEF Saves

(* A buffer is between nothing and nothing.                                *)
LEMMA Alone ==
    ASSUME NEW b \in Seq(Byte)
    PROVE  Holds(b, <<>>, b, <<>>) /\ Len(<<>>) = 0
<1>1. (<<>> \o b) \o <<>> = b /\ <<>> \in Seq(Byte) /\ Len(<<>>) = 0
  OBVIOUS
<1>2. QED
  BY <1>1, Zenon DEF Holds

(* The same for positions.                                                 *)
LEMMA Unpadded == \A n \in Nat : 0 + n = n /\ Len(<<>>) = 0
OBVIOUS

(* Flags and answers are read as they were saved.                          *)
LEMMA SaveByte ==
    ASSUME NEW v \in Byte
    PROVE  \E b : Saves("byte", v, b)
<1>1. Save("byte", <<v>>) = <<v>>
  BY DEF Save
<1>2. <<v>> \in Seq(Byte) /\ Len(<<v>>) = 1 /\ <<v>>[1] = v /\ <<v>> # <<>>
  OBVIOUS
<1>3. Get("byte", <<v>>) = Uploaded(v, 1)
  BY <1>2 DEF Get
<1>4. PICK b \in Seq(Byte) : b = <<v>> /\ Len(b) = 1
  BY <1>2, Zenon
<1>5. Save("byte", <<v>>) = b /\ Len(b) >= 1 /\ Get("byte", b) = Uploaded(v, Len(b))
  BY <1>1, <1>3, <1>4
<1>6. QED
  BY <1>5, SaveOf

(* So are integers.                                                        *)
LEMMA SaveInt ==
    ASSUME NEW v \in Integer
    PROVE  \E b : Saves("int", v, b)
<1>1. Save("int", <<v>>) = Encode(v)
  BY DEF Save
<1>2. v \in Int /\ Width \in Nat /\ Width >= 1
  BY BoundIs, WidthAssumption DEF Integer
<1>3. PICK b \in Seq(Byte) : b = Encode(v) /\ Len(b) = Width
  BY <1>2, EncodeOf, Zenon
<1>4. b # <<>> /\ Len(b) >= 1
  BY <1>2, <1>3
<1>5. UploadInt(b, 0) = Uploaded(v, Len(b))
  <2>1. Holds(b, <<>>, Encode(v), <<>>)
    BY <1>3, Alone, Zenon
  <2>2. UploadInt(b, Len(<<>>)) = Uploaded(v, Len(<<>>) + Width)
    BY <2>1, UploadIntIs
  <2>3. QED
    BY <1>2, <1>3, <2>2, Unpadded, Zenon
<1>6. Get("int", b) = UploadInt(b, 0)
  BY <1>4 DEF Get
<1>7. QED
  BY <1>1, <1>3, <1>4, <1>5, <1>6, SaveOf

(* So are texts.                                                           *)
LEMMA SaveStringOf ==
    ASSUME NEW v \in Seq(Byte)
    PROVE  \E b : Saves("string", v, b)
<1>1. Save("string", <<v>>) = SaveString(v)
  BY DEF Save
<1>2. PICK b \in Seq(Byte) : b = SaveString(v) /\ Len(b) = Width + Len(v)
  <2>1. SaveString(v) = Sized(v)
    BY Zenon DEF SaveString, Sized
  <2>2. Sized(v) \in Seq(Byte) /\ Len(Sized(v)) = Width + Len(v)
    BY SizedType
  <2>3. QED
    BY <2>1, <2>2, Zenon
<1>3. Len(b) >= 1 /\ b # <<>>
  <2>1. Len(v) \in Nat /\ Width \in Nat /\ Width > 0
    BY WidthAssumption
  <2>2. QED
    BY <1>2, <2>1
<1>4. ASSUME Len(b) <= IntMax
      PROVE  UploadString(b, 0) = Uploaded(v, Len(b))
  <2>1. Holds(b, <<>>, SaveString(v), <<>>)
    BY <1>2, Alone, Zenon
  <2>2. UploadString(b, Len(<<>>)) = Uploaded(v, Len(<<>>) + Len(SaveString(v)))
    BY <1>4, <2>1, UploadStringIs
  <2>3. Len(b) \in Nat
    OBVIOUS
  <2>4. QED
    BY <1>2, <2>2, <2>3, Unpadded, Zenon
<1>5. Get("string", b) = UploadString(b, 0)
  BY <1>3 DEF Get
<1>6. QED
  BY <1>1, <1>2, <1>3, <1>4, <1>5, SaveOf

(* So are addresses.                                                       *)
LEMMA SaveAddressOf ==
    ASSUME NEW v \in Address
    PROVE  \E b : Saves("address", v, b)
<1>1. Save("address", <<v>>) = SaveAddress(v)
  BY DEF Save
<1>2. PICK b \in Seq(Byte) : b = SaveAddress(v)
  BY SaveAddressIs, Zenon
<1>3. Len(b) >= 1 /\ b # <<>>
  <2>1. Len(b) >= 1
    <3>1. Len(AddressOf[v]) >= 1
      BY AddressOfIs DEF Fills
    <3>2. QED
      BY <1>2, <3>1, AddressOfIs
  <2>2. QED
    BY <2>1
<1>4. ASSUME Len(b) <= IntMax
      PROVE  UploadAddress(b, 0) = Uploaded(v, Len(b))
  <2>1. Holds(b, <<>>, SaveAddress(v), <<>>)
    BY <1>2, Alone, Zenon
  <2>2. UploadAddress(b, Len(<<>>)) = Uploaded(v, Len(<<>>) + Len(SaveAddress(v)))
    BY <1>4, <2>1, UploadAddressIs
  <2>3. Len(b) \in Nat
    OBVIOUS
  <2>4. QED
    BY <1>2, <2>2, <2>3, Unpadded, Zenon
<1>5. Get("address", b) = UploadAddress(b, 0)
  BY <1>3 DEF Get
<1>6. QED
  BY <1>1, <1>2, <1>3, <1>4, <1>5, SaveOf

(* What an array is saved as.                                              *)
LEMMA SaveAddressesType ==
    ASSUME NEW as \in Seq(Address)
    PROVE  \E b \in Seq(Byte) : b = SaveAddresses(as) /\ Len(b) >= Width
<1>1. Len(as) \in Int
  BY Elements
<1>2. PICK d \in Seq(Byte) : d = Encode(Len(as)) /\ Len(d) = Width
  BY <1>1, EncodeOf, Zenon
<1>3. PICK t \in Seq(Byte) : t = Written(AddressOf, as)
  BY AddressOfIs, WrittenType, Zenon
<1>4. PICK b \in Seq(Byte) : b = d \o t /\ Len(b) = Len(d) + Len(t)
  BY Joined, Zenon
<1>5. b = SaveAddresses(as)
  BY <1>2, <1>3, <1>4, SaveAddressesIs
<1>6. Len(b) >= Width
  BY <1>2, <1>4, WidthAssumption
<1>7. QED
  BY <1>5, <1>6, Zenon

(* And arrays of addresses.                                                *)
LEMMA SaveAddressesOf ==
    ASSUME NEW v \in Seq(Address)
    PROVE  \E b : Saves("addresses", v, b)
<1>1. Save("addresses", <<v>>) = SaveAddresses(v)
  BY DEF Save
<1>2. PICK b \in Seq(Byte) : b = SaveAddresses(v) /\ Len(b) >= Width
  BY SaveAddressesType, Zenon
<1>3. Len(b) >= 1 /\ b # <<>>
  BY <1>2, WidthAssumption
<1>4. ASSUME Len(b) <= IntMax
      PROVE  UploadAddresses(b, 0) = Uploaded(v, Len(b))
  BY <1>2, <1>4, UploadAddressesIs
<1>5. Get("addresses", b) = UploadAddresses(b, 0)
  BY <1>3 DEF Get
<1>6. QED
  BY <1>1, <1>2, <1>3, <1>4, <1>5, SaveOf

(* What a unit of a kind holds becomes bytes, and is read from them with   *)
(* all of them, as what it means.                                          *)
RoundTrips(kind, held) ==
    /\ Save(kind, held) \in Seq(Byte)
    /\ Len(Save(kind, held)) <= IntMax =>
          /\ Get(kind, Save(kind, held)).known
          /\ Get(kind, Save(kind, held)).value = Meaning(kind, held)
          /\ Get(kind, Save(kind, held)).p = Len(Save(kind, held))

(* A value of any kind that is assigned to a unit is read as it was, up to *)
(* the last byte of its buffer; a unit without a value is read as the      *)
(* value of none.                                                          *)
THEOREM ValuesReadBack ==
    ASSUME NEW kind \in Kind, NEW held \in Filled(kind)
    PROVE  RoundTrips(kind, held)
<1>1. CASE held = <<>>
  <2>1. Save(kind, held) = <<>> /\ Meaning(kind, held) = Default(kind)
    BY <1>1, Zenon DEF Save, Meaning
  <2>2. Get(kind, <<>>) = Uploaded(Default(kind), 0)
    BY DEF Get
  <2>3. Get(kind, <<>>).known = TRUE /\ Get(kind, <<>>).value = Default(kind) /\ Get(kind, <<>>).p = 0
    BY <2>2 DEF Uploaded
  <2>4. <<>> \in Seq(Byte) /\ Len(<<>>) = 0
    OBVIOUS
  <2>5. QED
    BY <2>1, <2>3, <2>4, Zenon DEF RoundTrips
<1>2. CASE held # <<>>
  <2>1. PICK v \in Assigned(kind) : held = <<v>> /\ Meaning(kind, held) = v
    BY <1>2, FilledIs, Zenon
  <2>2. PICK b : Saves(kind, v, b)
    <3>1. CASE kind = "byte"
      <4>1. v \in Byte
        BY <2>1, <3>1 DEF Assigned
      <4>2. QED
        BY <3>1, <4>1, SaveByte, Zenon
    <3>2. CASE kind = "int"
      <4>1. v \in Integer
        BY <2>1, <3>2 DEF Assigned
      <4>2. QED
        BY <3>2, <4>1, SaveInt, Zenon
    <3>3. CASE kind = "string"
      <4>1. v \in Seq(Byte)
        BY <2>1, <3>3 DEF Assigned
      <4>2. QED
        BY <3>3, <4>1, SaveStringOf, Zenon
    <3>4. CASE kind = "address"
      <4>1. v \in Address
        BY <2>1, <3>4 DEF Assigned
      <4>2. QED
        BY <3>4, <4>1, SaveAddressOf, Zenon
    <3>5. CASE kind = "addresses"
      <4>1. v \in Seq(Address)
        BY <2>1, <3>5 DEF Assigned
      <4>2. QED
        BY <3>5, <4>1, SaveAddressesOf, Zenon
    <3>6. QED
      BY <3>1, <3>2, <3>3, <3>4, <3>5, Zenon DEF Kind
  <2>3. b = Save(kind, held) /\ b \in Seq(Byte) /\ (Len(b) <= IntMax => Get(kind, b) = Uploaded(v, Len(b)))
    BY <2>1, <2>2, Zenon DEF Saves
  <2>4. ASSUME Len(b) <= IntMax
        PROVE  Get(kind, b).known = TRUE /\ Get(kind, b).value = v /\ Get(kind, b).p = Len(b)
    <3>1. Get(kind, b) = Uploaded(v, Len(b))
      BY <2>3, <2>4, Zenon
    <3>2. QED
      BY <3>1 DEF Uploaded
  <2>5. QED
    BY <2>1, <2>3, <2>4, Zenon DEF RoundTrips
<1>3. QED
  BY <1>1, <1>2

(* No item is longer than what the items are written as.                   *)
LEMMA ItemFits ==
    ASSUME NEW items \in Seq(Seq(Byte)), NEW i \in 1..Len(items)
    PROVE  Len(items[i]) <= Len(ParseBuffers(items))
<1>1. PICK n \in Nat : i = n + 1 /\ n + 1 <= Len(items)
  <2>1. i - 1 \in Nat /\ i = (i - 1) + 1 /\ (i - 1) + 1 <= Len(items)
    OBVIOUS
  <2>2. QED
    BY <2>1, Zenon
<1>2. Stepping(<<>>, SizedOf, items, n, Byte)
  <2>1. <<>> \in Seq(Byte)
    OBVIOUS
  <2>2. QED
    BY <1>1, <2>1, SizedOfIs, WrittenStep, Zenon
<1>3. PICK x \in Seq(Byte) : x = items[i]
  <2>1. items[i] \in Seq(Byte)
    BY Elements, Zenon
  <2>2. QED
    BY <2>1, Zenon
<1>4. PICK q \in Seq(Byte), r \in Seq(Byte) : <<>> \o Written(SizedOf, items) = (q \o SizedOf[x]) \o r
  BY <1>1, <1>2, <1>3, Zenon DEF Stepping
<1>5. PICK w \in Seq(Byte) : w = Written(SizedOf, items) /\ w = ParseBuffers(items)
  BY ParseBuffersIs, ParseBuffersType
<1>6. PICK s \in Seq(Byte) : s = SizedOf[x] /\ Len(s) = Width + Len(x)
  <2>1. Sized(x) \in Seq(Byte) /\ Len(Sized(x)) = Width + Len(x) /\ SizedOf[x] = Sized(x)
    BY SizedType, SizedOfIs
  <2>2. QED
    BY <2>1, Zenon
<1>7. PICK u \in Seq(Byte) : u = q \o s /\ Len(u) = Len(q) + Len(s)
  BY Joined, Zenon
<1>8. PICK v \in Seq(Byte) : v = u \o r /\ Len(v) = Len(u) + Len(r)
  BY Joined, Zenon
<1>9. <<>> \o w = w
  OBVIOUS
<1>10. w = v
  BY <1>4, <1>5, <1>6, <1>7, <1>8, <1>9, Zenon
<1>11. Len(q) \in Nat /\ Len(r) \in Nat /\ Len(x) \in Nat /\ Width \in Nat
  BY WidthAssumption
<1>12. Len(w) = Len(q) + (Width + Len(x)) + Len(r)
  BY <1>6, <1>7, <1>8, <1>10, <1>11
<1>13. Len(x) <= Len(w)
  BY <1>11, <1>12
<1>14. QED
  BY <1>3, <1>5, <1>13, Zenon

-----------------------------------------------------------------------------
(* Packets.                                                                *)

(* What the forward unit can make a packet of, and the kinds of its units. *)
Message == UNION {Packet(k) : k \in Transaction}
Kinds(m) == Units[TypeOf[m.transaction]]

(* What is known of a transaction, its type and its units.                 *)
LEMMA TypeIs ==
    ASSUME NEW k \in Transaction
    PROVE  /\ TypeOf[k] \in Type /\ TypeOf[k] \in 0..Bound - 1 /\ k \in 0..Bound - 1
           /\ Units[TypeOf[k]] \in Seq(Kind)
           /\ \A j \in DOMAIN Units[TypeOf[k]] :
                 /\ Units[TypeOf[k]][j] \in DOMAIN Value /\ Units[TypeOf[k]][j] \in Kind
                 /\ Value[Units[TypeOf[k]][j]] \in Assigned(Units[TypeOf[k]][j])
<1>1. TypeOf[k] \in Type /\ TypeOf[k] \in 0..Bound - 1 /\ k \in 0..Bound - 1
  BY TypesAssumption
<1>2. PICK kinds \in Seq(DOMAIN Value) : kinds = Units[TypeOf[k]]
  BY <1>1, TypesAssumption
<1>3. \A j \in DOMAIN kinds : kinds[j] \in DOMAIN Value
  OBVIOUS
<1>4. DOMAIN Value \subseteq Kind /\ \A kind \in DOMAIN Value : Value[kind] \in Assigned(kind)
  BY BoundsAssumption
<1>5. kinds \in Seq(Kind)
  <2>1. DOMAIN kinds = 1..Len(kinds) /\ Len(kinds) \in Nat
    OBVIOUS
  <2>2. kinds = [j \in 1..Len(kinds) |-> kinds[j]]
    BY <2>1
  <2>3. QED
    BY <1>3, <1>4, <2>1, <2>2, SeqDef
<1>6. QED
  BY <1>1, <1>2, <1>3, <1>4, <1>5

(* The units of a packet hold nothing or what is assigned to their kinds.  *)
LEMMA MessageIs ==
    ASSUME NEW m \in Message
    PROVE  /\ m.transaction \in Transaction /\ m \in Packet(m.transaction)
           /\ Kinds(m) \in Seq(Kind) /\ DOMAIN m.units = DOMAIN Kinds(m)
           /\ \A j \in DOMAIN Kinds(m) :
                 Kinds(m)[j] \in Kind /\ m.units[j] \in Filled(Kinds(m)[j])
<1>1. PICK k \in Transaction : m \in Packet(k)
  BY DEF Message
<1>2. m.transaction = k /\ m.units \in Holding(TypeOf[k])
  BY <1>1 DEF Packet
<1>3. Kinds(m) = Units[TypeOf[k]]
  BY <1>2 DEF Kinds
<1>4. /\ Kinds(m) \in Seq(Kind)
      /\ \A j \in DOMAIN Kinds(m) :
            Kinds(m)[j] \in Kind /\ Value[Kinds(m)[j]] \in Assigned(Kinds(m)[j])
  BY <1>3, TypeIs
<1>5. PICK filled \in SUBSET DOMAIN Units[TypeOf[k]] :
          m.units = [i \in DOMAIN Units[TypeOf[k]] |->
                        IF i \in filled THEN <<Value[Units[TypeOf[k]][i]]>> ELSE <<>>]
  <2>1. m.units \in {[i \in DOMAIN Units[TypeOf[k]] |->
                        IF i \in filled THEN <<Value[Units[TypeOf[k]][i]]>> ELSE <<>>]
                       : filled \in SUBSET DOMAIN Units[TypeOf[k]]}
    BY <1>2, Zenon DEF Holding
  <2>2. PICK filled \in SUBSET DOMAIN Units[TypeOf[k]] :
            m.units = [i \in DOMAIN Units[TypeOf[k]] |->
                          IF i \in filled THEN <<Value[Units[TypeOf[k]][i]]>> ELSE <<>>]
    BY <2>1, Zenon
  <2>3. QED
    BY <2>2, Zenon
<1>6. DOMAIN m.units = DOMAIN Kinds(m)
  <2>1. DOMAIN m.units = DOMAIN Units[TypeOf[k]]
    BY <1>5
  <2>2. QED
    BY <1>3, <2>1, Zenon
<1>7. ASSUME NEW j \in DOMAIN Kinds(m) PROVE m.units[j] \in Filled(Kinds(m)[j])
  <2>1. j \in DOMAIN Units[TypeOf[k]]
    BY <1>3, Zenon
  <2>2. m.units[j] = IF j \in filled THEN <<Value[Units[TypeOf[k]][j]]>> ELSE <<>>
    BY <1>5, <2>1
  <2>3. m.units[j] = <<Value[Kinds(m)[j]]>> \/ m.units[j] = <<>>
    BY <1>3, <2>2, Zenon
  <2>4. QED
    BY <1>4, <2>3 DEF Filled
<1>8. QED
  BY <1>1, <1>2, <1>4, <1>6, <1>7

(* Their buffers.                                                          *)
LEMMA ItemsIs ==
    ASSUME NEW m \in Message
    PROVE  /\ Items(m) \in Seq(Seq(Byte)) /\ Len(Items(m)) = Len(Kinds(m))
           /\ DOMAIN Items(m) = DOMAIN Kinds(m) /\ Len(Kinds(m)) \in Nat
           /\ \A j \in DOMAIN Kinds(m) : Items(m)[j] = Save(Kinds(m)[j], m.units[j])
<1>1. Kinds(m) \in Seq(Kind) /\ DOMAIN m.units = DOMAIN Kinds(m)
  BY MessageIs
<1>2. PICK z \in Nat : z = Len(Kinds(m)) /\ DOMAIN Kinds(m) = 1..z
  BY <1>1
<1>3. Items(m) = [j \in 1..z |-> Save(Kinds(m)[j], m.units[j])]
  BY <1>1, <1>2, Zenon DEF Items, Kinds
<1>4. \A j \in 1..z : Save(Kinds(m)[j], m.units[j]) \in Seq(Byte)
  <2> SUFFICES ASSUME NEW j \in 1..z PROVE Save(Kinds(m)[j], m.units[j]) \in Seq(Byte)
    OBVIOUS
  <2>1. Kinds(m)[j] \in Kind /\ m.units[j] \in Filled(Kinds(m)[j])
    BY <1>2, MessageIs
  <2>2. RoundTrips(Kinds(m)[j], m.units[j])
    BY <2>1, ValuesReadBack, Zenon
  <2>3. QED
    BY <2>2, Zenon DEF RoundTrips
<1>5. QED
  BY <1>2, <1>3, <1>4

(* What follows the size in a packet.                                      *)
Body(m) ==
    (Encode(TypeOf[m.transaction]) \o Encode(m.transaction)) \o ParseBuffers(Items(m))

(* A packet is the size of what follows, and what follows.                 *)
PacketParts(m) ==
    /\ Body(m) \in Seq(Byte) /\ MakePacket(m) \in Seq(Byte)
    /\ MakePacket(m) = Encode(Len(Body(m))) \o Body(m)
    /\ Len(Body(m)) \in Nat /\ Len(Body(m)) >= 2 * Width
    /\ Len(Encode(Len(Body(m)))) = Width /\ Encode(Len(Body(m))) \in Seq(Byte)
    /\ Len(MakePacket(m)) = Width + Len(Body(m))
    /\ Signed(Encode(Len(Body(m)))) = Len(Body(m))
    /\ Unsigned(First(Body(m), Width)) = TypeOf[m.transaction]
    /\ Unsigned(SubSeq(Body(m), Width + 1, 2 * Width)) = m.transaction
    /\ Rest(Body(m), 2 * Width) = ParseBuffers(Items(m))
    /\ ParseBuffers(Items(m)) \in Seq(Byte) /\ Len(ParseBuffers(Items(m))) <= IntMax

(* So is every packet, as none is too long.                                *)
LEMMA PacketIs ==
    ASSUME NEW m \in Message
    PROVE  PacketParts(m)
<1>1. /\ m.transaction \in Transaction
      /\ m.transaction \in 0..Bound - 1 /\ TypeOf[m.transaction] \in 0..Bound - 1
  BY MessageIs, TypeIs
<1>2. PICK k \in 0..Bound - 1 : k = m.transaction
  BY <1>1, Zenon
<1>3. PICK t \in 0..Bound - 1 : t = TypeOf[m.transaction]
  BY <1>1, Zenon
<1>4. k \in Int /\ t \in Int /\ Width \in Nat /\ Width > 0 /\ IntMax \in Nat
  BY BoundIs, WidthAssumption
<1>5. PICK ek \in Seq(Byte) : ek = Encode(k) /\ Len(ek) = Width
  BY <1>4, EncodeOf, Zenon
<1>6. PICK et \in Seq(Byte) : et = Encode(t) /\ Len(et) = Width
  BY <1>4, EncodeOf, Zenon
<1>7. PICK p \in Seq(Byte) : p = ParseBuffers(Items(m))
  <2>1. Items(m) \in Seq(Seq(Byte))
    BY ItemsIs, Zenon
  <2>2. ParseBuffers(Items(m)) \in Seq(Byte)
    BY <2>1, ParseBuffersType, Zenon
  <2>3. QED
    BY <2>2, Zenon
<1>8. PICK h \in Seq(Byte) : h = et \o ek /\ Len(h) = Len(et) + Len(ek)
  BY Joined, Zenon
<1>9. PICK b \in Seq(Byte) : b = h \o p /\ Len(b) = Len(h) + Len(p)
  BY Joined, Zenon
<1>10. b = Body(m)
  BY <1>2, <1>3, <1>5, <1>6, <1>7, <1>8, <1>9, Zenon DEF Body
<1>11. Len(p) \in Nat /\ Len(b) \in Nat /\ Len(b) = Len(p) + 2 * Width /\ Len(h) = 2 * Width
  BY <1>4, <1>5, <1>6, <1>8, <1>9
<1>12. PICK s \in Seq(Byte) : s = Encode(Len(b)) /\ Len(s) = Width
  <2>1. Len(b) \in Int
    BY <1>11
  <2>2. QED
    BY <2>1, EncodeOf, Zenon
<1>13. PICK c \in Seq(Byte) : c = s \o b /\ Len(c) = Len(s) + Len(b)
  BY Joined, Zenon
<1>14. c = MakePacket(m)
  <2>1. MakePacket(m) = ((s \o et) \o ek) \o p
    <3>1. MakePacket(m) = ((Encode(Len(p) + 2 * Width) \o Encode(t)) \o Encode(k)) \o p
      BY <1>2, <1>3, <1>7, Zenon DEF MakePacket
    <3>2. QED
      BY <1>5, <1>6, <1>11, <1>12, <3>1, Zenon
  <2>2. Regrouped(s, et, ek, p) /\ Grouped(s, h, p) /\ Grouped(s, et, ek)
    BY Regroup, Group, Zenon
  <2>3. QED
    BY <1>8, <1>9, <1>13, <2>1, <2>2, Zenon DEF Regrouped, Grouped
<1>15. Len(c) <= IntMax
  <2>1. m \in Packet(m.transaction) /\ m.transaction \in Transaction
    BY MessageIs
  <2>2. Len(MakePacket(m)) <= IntMax
    BY <2>1, SizesFit, Zenon
  <2>3. QED
    BY <1>14, <2>2, Zenon
<1>16. Len(b) \in Integer /\ Len(p) <= IntMax /\ Len(b) >= 2 * Width /\ Len(c) = Width + Len(b)
  <2>1. Len(c) = Width + Len(b)
    BY <1>12, <1>13, Zenon
  <2>2. PICK lp \in Nat, lb \in Nat : lp = Len(p) /\ lb = Len(b) /\ lb = lp + 2 * Width /\ Width + lb <= IntMax
    BY <1>11, <1>15, <2>1, Zenon
  <2>3. lb <= IntMax /\ lp <= IntMax /\ lb >= 2 * Width /\ -(IntMax + 1) <= lb
    BY <1>4, <2>2
  <2>4. lb \in Integer
    BY <1>4, <2>3 DEF Integer
  <2>5. QED
    BY <2>1, <2>2, <2>3, <2>4, Zenon
<1>17. Signed(Encode(Len(b))) = Len(b)
  BY <1>16, IntegersReadBack
<1>18. LaidOut((<<>> \o (et \o ek)) \o p, <<>>, et, ek, p)
  <2>1. <<>> \in Seq(Byte)
    OBVIOUS
  <2>2. QED
    BY <2>1, Layout, Zenon
<1>19. <<>> \o h = h
  OBVIOUS
<1>20. LaidOut(b, <<>>, et, ek, p)
  BY <1>8, <1>9, <1>18, <1>19, Zenon
<1>21. 0 + 1 = 1 /\ 0 + Width = Width /\ Width + Width = 2 * Width /\ Len(<<>>) = 0
  BY <1>4
<1>22. SubSeq(b, 1, Width) = et /\ SubSeq(b, Width + 1, 2 * Width) = ek
  BY <1>5, <1>6, <1>20, <1>21, Zenon DEF LaidOut
<1>23. SubSeq(b, 2 * Width + 1, Len(b)) = p
  <2>1. SubSeq(h \o p, Len(h) + 1, Len(h \o p)) = p
    BY Parts
  <2>2. QED
    BY <1>9, <1>11, <2>1, Zenon
<1>24. Unsigned(et) = t /\ Unsigned(ek) = k
  BY <1>5, <1>6, UnsignedOf
<1>25. First(b, Width) = et /\ Rest(b, 2 * Width) = p
  BY <1>22, <1>23, Zenon DEF First, Rest
<1>26. QED
  BY <1>2, <1>3, <1>7, <1>10, <1>11, <1>12, <1>13, <1>14, <1>16, <1>17, <1>22, <1>24, <1>25, Zenon
  DEF PacketParts

(* What is loaded from the product of a packet.                            *)
LEMMA ContentIs ==
    ASSUME NEW m \in Message
    PROVE  \E content :
              /\ content = DeparseBuffer(ParseBuffers(Items(m)), Len(Kinds(m)))
              /\ content.end \in {"loaded", "stale"} /\ content.items = Items(m)
<1>1. Items(m) \in Seq(Seq(Byte)) /\ Len(Items(m)) = Len(Kinds(m))
  BY ItemsIs
<1>2. CASE Items(m) = <<>>
  <2>1. ParseBuffers(Items(m)) = <<>>
    BY <1>2, ParseBuffersEmpty, Zenon
  <2>2. Width \in Nat /\ Width > 0 /\ Len(<<>>) = 0
    BY WidthAssumption
  <2>3. ~(Len(<<>>) >= Width /\ Len(Kinds(m)) > 0)
    BY <2>2
  <2>4. DeparseBuffer(<<>>, Len(Kinds(m))) = Stop("stale")
    BY <2>3, Zenon DEF DeparseBuffer
  <2>5. Stop("stale").end = "stale" /\ Stop("stale").items = <<>>
    BY DEF Stop
  <2>6. QED
    BY <1>2, <2>1, <2>4, <2>5
<1>3. CASE Items(m) # <<>>
  <2>1. Len(ParseBuffers(Items(m))) <= IntMax
    BY PacketIs, Zenon DEF PacketParts
  <2>2. DeparseBuffer(ParseBuffers(Items(m)), Len(Items(m))) = Loaded(Items(m))
    BY <1>1, <1>3, <2>1, ContentsReadBack
  <2>3. Loaded(Items(m)).end = "loaded" /\ Loaded(Items(m)).items = Items(m)
    BY DEF Loaded
  <2>4. QED
    BY <1>1, <2>2, <2>3
<1>4. QED
  BY <1>2, <1>3

(* What the units get of it.                                               *)
LEMMA ValueIs ==
    ASSUME NEW m \in Message, NEW j \in DOMAIN Kinds(m)
    PROVE  /\ Get(Kinds(m)[j], Items(m)[j]).known
           /\ Get(Kinds(m)[j], Items(m)[j]).value = Meaning(Kinds(m)[j], m.units[j])
<1>1. Kinds(m)[j] \in Kind /\ m.units[j] \in Filled(Kinds(m)[j])
  BY MessageIs
<1>2. RoundTrips(Kinds(m)[j], m.units[j])
  BY <1>1, ValuesReadBack, Zenon
<1>3. Items(m)[j] = Save(Kinds(m)[j], m.units[j])
  BY ItemsIs
<1>4. Len(Items(m)[j]) <= IntMax
  <2>1. PICK items \in Seq(Seq(Byte)) : items = Items(m) /\ j \in 1..Len(items)
    <3>1. Items(m) \in Seq(Seq(Byte)) /\ DOMAIN Items(m) = DOMAIN Kinds(m)
      BY ItemsIs
    <3>2. DOMAIN Items(m) = 1..Len(Items(m))
      BY <3>1, Elements, Zenon
    <3>3. QED
      BY <3>1, <3>2, Zenon
  <2>2. Len(items[j]) <= Len(ParseBuffers(items))
    BY <2>1, ItemFits, Zenon
  <2>3. PICK x \in Seq(Byte) : x = items[j]
    <3>1. items[j] \in Seq(Byte)
      BY <2>1, Elements, Zenon
    <3>2. QED
      BY <3>1, Zenon
  <2>4. PICK p \in Seq(Byte) : p = ParseBuffers(items) /\ Len(p) <= IntMax
    BY <2>1, PacketIs, Zenon DEF PacketParts
  <2>5. Len(x) \in Nat /\ Len(p) \in Nat /\ IntMax \in Nat /\ Len(x) <= Len(p)
    BY <2>2, <2>3, <2>4, BoundIs
  <2>6. Len(x) <= IntMax
    BY <2>4, <2>5
  <2>7. QED
    BY <2>1, <2>3, <2>6, Zenon
<1>5. QED
  BY <1>2, <1>3, <1>4, Zenon DEF RoundTrips

(* No unit is read behind its end.                                         *)
LEMMA NothingBeyond ==
    ASSUME NEW m \in Message
    PROVE  ~ReadsBeyond(TypeOf[m.transaction], Items(m))
<1>1. DOMAIN Items(m) = DOMAIN Kinds(m)
  BY ItemsIs
<1>2. \A j \in DOMAIN Items(m) : Get(Kinds(m)[j], Items(m)[j]).known
  BY <1>1, ValueIs, Zenon
<1>3. \A j \in DOMAIN Items(m) :
         Values(TypeOf[m.transaction], Items(m))[j] = Get(Kinds(m)[j], Items(m)[j])
  BY DEF Values, Kinds
<1>4. QED
  BY <1>2, <1>3, Zenon DEF ReadsBeyond

-----------------------------------------------------------------------------
(* What the receiver is given, whatever the network does.                  *)

(* What a processor was given.                                             *)
Record ==
    [transaction : Nat, product : Seq(Byte), end : {"loaded", "stale"}, items : Seq(Seq(Byte))]

(* The states of the channel.                                              *)
Types ==
    /\ iReady \in [Unit -> BOOLEAN]
    /\ sent \in Seq(Message)
    /\ stream \in Seq(Byte)
    /\ iPacketSize \in Int
    /\ given \in Seq(Record)
    /\ up \in BOOLEAN /\ short \in BOOLEAN
    /\ DOMAIN iMap \subseteq Nat /\ \A k \in DOMAIN iMap : iMap[k] \in Type

(* A processor that was given something is known to the receiver, and what *)
(* it was given was loaded for the units of its type.                      *)
Loads(g, map) ==
    /\ g.transaction \in DOMAIN map
    /\ g.end = "loaded" =>
          /\ Len(g.items) = Len(Units[map[g.transaction]])
          /\ ParseBuffers(g.items) = g.product

(* So is everything that was given, whatever the network did.              *)
Unbroken == \A i \in DOMAIN given : Loads(given[i], iMap)

(* What a step can do to the receiver's processors.                        *)
Gives ==
    /\ DOMAIN iMap' \subseteq Nat /\ \A k \in DOMAIN iMap' : iMap'[k] \in Type
    /\ DOMAIN iMap \subseteq DOMAIN iMap' /\ \A k \in DOMAIN iMap : iMap'[k] = iMap[k]
    /\ \/ given' = given
       \/ \E g \in Record : given' = Append(given, g) /\ Loads(g, iMap')
    /\ up' \in BOOLEAN

(* A type has so many units.                                               *)
LEMMA UnitsType ==
    ASSUME NEW t \in Type
    PROVE  Len(Units[t]) \in Nat /\ t \in Nat
<1>1. Units[t] \in Seq(DOMAIN Value)
  BY TypesAssumption
<1>2. Len(Units[t]) \in Nat
  BY <1>1
<1>3. t \in 0..Bound - 1
  BY TypesAssumption
<1>4. QED
  BY <1>2, <1>3

(* action() gives a processor a content that was loaded for its type, or   *)
(* nothing.                                                                *)
LEMMA ActGives ==
    ASSUME Types, NEW k \in Nat, NEW t \in Type, NEW b \in Seq(Byte), Act(k, t, b),
           k \in DOMAIN iMap => t = iMap[k]
    PROVE  Gives
<1> DEFINE content == DeparseBuffer(b, Len(Units[t]))
<1>1. content.items \in Seq(Seq(Byte)) /\ Len(Units[t]) \in Nat
  <2>1. content \in [end : End \cup {"stale"}, items : Seq(Seq(Byte))]
    BY UnitsType, DeparseType
  <2>2. QED
    BY <2>1, UnitsType
<1>2. content.end = "loaded" =>
         Len(content.items) = Len(Units[t]) /\ ParseBuffers(content.items) = b
  BY <1>1, ContentsWhole
<1> HIDE DEF content
<1>3. iMap' = [j \in DOMAIN iMap \cup {k} |-> IF j = k THEN t ELSE iMap[j]]
  BY Zenon DEF Act, content
<1>4. DOMAIN iMap' = DOMAIN iMap \cup {k} /\ iMap'[k] = t /\ \A j \in DOMAIN iMap : iMap'[j] = iMap[j]
  BY <1>3
<1>5. /\ DOMAIN iMap' \subseteq Nat /\ \A j \in DOMAIN iMap' : iMap'[j] \in Type
      /\ DOMAIN iMap \subseteq DOMAIN iMap'
  BY <1>4 DEF Types
<1>6. \/ content.end \in {"loaded", "stale"} /\ Give(k, b, content.end, content.items)
      \/ UNCHANGED given /\ (UNCHANGED up \/ up' = FALSE)
  BY Zenon DEF Act, content
<1>7. CASE content.end \in {"loaded", "stale"} /\ Give(k, b, content.end, content.items)
  <2> DEFINE g == [transaction |-> k, product |-> b, end |-> content.end, items |-> content.items]
  <2>1. g \in Record
    BY <1>1, <1>7 DEF Record
  <2>2. given' = Append(given, g) /\ up' \in BOOLEAN
    BY <1>7 DEF Give, Types
  <2>3. g.transaction = k /\ g.end = content.end /\ g.items = content.items /\ g.product = b
    OBVIOUS
  <2> HIDE DEF g
  <2>4. Loads(g, iMap')
    BY <1>2, <1>4, <2>3 DEF Loads
  <2>5. QED
    BY <1>4, <1>5, <2>1, <2>2, <2>4, Zenon DEF Gives
<1>8. CASE UNCHANGED given /\ (UNCHANGED up \/ up' = FALSE)
  <2>1. up' \in BOOLEAN
    BY <1>8 DEF Types
  <2>2. QED
    BY <1>4, <1>5, <1>8, <2>1, Zenon DEF Gives
<1>9. QED
  BY <1>6, <1>7, <1>8

(* So does a step that gives nothing.                                      *)
LEMMA StillGives ==
    ASSUME Types, Down \/ Ignore
    PROVE  Gives
BY Zenon DEF Down, Ignore, Gives, Types

(* process() finds the type or fails.                                      *)
LEMMA ProcessGives ==
    ASSUME Types, NEW b \in Seq(Byte), Process(b)
    PROVE  Gives
<1> DEFINE type == Unsigned(First(b, Width))
           transaction == Unsigned(SubSeq(b, Width + 1, 2 * Width))
           product == Rest(b, 2 * Width)
<1>1. CASE Len(b) < 2 * Width
  <2>1. Down
    BY <1>1, Zenon DEF Process
  <2>2. QED
    BY <2>1, StillGives
<1>2. CASE ~(Len(b) < 2 * Width)
  <2>1. Width \in Nat /\ Len(b) \in Nat
    BY WidthAssumption
  <2>2. PICK w \in Nat : w = 2 * Width /\ Width <= w /\ w <= Len(b)
    BY <1>2, <2>1
  <2>3. SubSeq(b, Width + 1, w) \in Seq(Byte) /\ Len(SubSeq(b, Width + 1, w)) = Width
    <3>1. SubSeq(b, Width + 1, w) \in Seq(Byte) /\ Len(SubSeq(b, Width + 1, w)) = w - Width
      BY <2>1, <2>2, Slice
    <3>2. w - Width = Width
      BY <2>1, <2>2
    <3>3. QED
      BY <3>1, <3>2, Zenon
  <2>4. SubSeq(b, w + 1, Len(b)) \in Seq(Byte)
    BY <2>1, <2>2, Slice
  <2>5. transaction \in Nat /\ product \in Seq(Byte)
    <3>1. PICK s \in Seq(Byte) : s = SubSeq(b, Width + 1, 2 * Width) /\ Len(s) = Width
      BY <2>2, <2>3, Zenon
    <3>2. Unsigned(s) \in 0..Bound - 1
      BY <3>1, EncodeOfUnsigned
    <3>3. Unsigned(s) \in Nat
      BY <3>2
    <3>4. QED
      BY <2>2, <2>4, <3>1, <3>3, Zenon DEF Rest
  <2>6. \/ transaction \in DOMAIN iMap /\ Act(transaction, iMap[transaction], product)
        \/ transaction \notin DOMAIN iMap /\ type \in Type /\ Act(transaction, type, product)
        \/ Down
    BY <1>2, Zenon DEF Process
  <2> HIDE DEF type, transaction, product
  <2>7. CASE transaction \in DOMAIN iMap /\ Act(transaction, iMap[transaction], product)
    <3>1. iMap[transaction] \in Type
      BY <2>7 DEF Types
    <3>2. QED
      BY <2>5, <2>7, <3>1, ActGives, Zenon
  <2>8. CASE transaction \notin DOMAIN iMap /\ type \in Type /\ Act(transaction, type, product)
    BY <2>5, <2>8, ActGives, Zenon
  <2>9. QED
    BY <2>6, <2>7, <2>8, StillGives, Zenon
<1>3. QED
  BY <1>1, <1>2

(* The head and the rest of a sequence.                                    *)
LEMMA Behind ==
    ASSUME NEW T, NEW s \in Seq(T), NEW n \in Nat, n <= Len(s)
    PROVE  /\ First(s, n) \in Seq(T) /\ Len(First(s, n)) = n
           /\ Rest(s, n) \in Seq(T) /\ Len(Rest(s, n)) = Len(s) - n
<1>1. Len(s) \in Nat /\ n + 1 \in Nat
  BY Elements
<1>2. First(s, n) \in Seq(T) /\ Len(First(s, n)) = n
  BY Beginning DEF First
<1>3. Rest(s, n) \in Seq(T) /\ Len(Rest(s, n)) = Len(s) - n
  BY <1>1, Slice DEF Rest
<1>4. QED
  BY <1>2, <1>3

(* Initially nothing was given.                                            *)
LEMMA TypesInit == Init => Types /\ Unbroken
<1> SUFFICES ASSUME Init PROVE Types /\ Unbroken
  OBVIOUS
<1>1. DOMAIN <<>> = {} /\ <<>> \in Seq(Message) /\ <<>> \in Seq(Byte) /\ <<>> \in Seq(Record)
  OBVIOUS
<1>2. iReady \in [Unit -> BOOLEAN]
  BY DEF Init
<1>3. Types
  <2>1. DOMAIN iMap \subseteq Nat /\ \A k \in DOMAIN iMap : iMap[k] \in Type
    <3>1. iMap = <<>> /\ DOMAIN <<>> = {}
      BY <1>1 DEF Init
    <3>2. DOMAIN iMap = {}
      BY <3>1, Zenon
    <3>3. QED
      BY <3>2, Zenon
  <2>2. sent \in Seq(Message) /\ stream \in Seq(Byte) /\ given \in Seq(Record)
    BY <1>1, Zenon DEF Init
  <2>3. iPacketSize \in Int /\ up \in BOOLEAN /\ short \in BOOLEAN
    <3>1. iPacketSize = 0 /\ up = TRUE /\ short = FALSE
      BY Zenon DEF Init
    <3>2. 0 \in Int
      OBVIOUS
    <3>3. QED
      BY <3>1, <3>2, Zenon
  <2>4. QED
    BY <1>2, <2>1, <2>2, <2>3, Zenon DEF Types
<1>4. Unbroken
  <2>1. given = <<>> /\ DOMAIN <<>> = {}
    BY <1>1 DEF Init
  <2>2. DOMAIN given = {}
    BY <2>1, Zenon
  <2>3. QED
    BY <2>2, Zenon DEF Unbroken
<1>5. QED
  BY <1>3, <1>4

(* A step that gives as above keeps what was given.                        *)
LEMMA UnbrokenKept ==
    ASSUME Types, Unbroken, Gives
    PROVE  Unbroken' /\ given' \in Seq(Record)
<1>1. \A g : Loads(g, iMap) => Loads(g, iMap')
  <2> SUFFICES ASSUME NEW g, Loads(g, iMap) PROVE Loads(g, iMap')
    OBVIOUS
  <2>1. iMap'[g.transaction] = iMap[g.transaction] /\ g.transaction \in DOMAIN iMap'
    BY DEF Loads, Gives
  <2>2. QED
    BY <2>1 DEF Loads
<1>2. CASE given' = given
  <2>1. \A i \in DOMAIN given' : Loads(given'[i], iMap')
    BY <1>1, <1>2, Zenon DEF Unbroken
  <2>2. QED
    BY <1>2, <2>1, Zenon DEF Unbroken, Types
<1>3. ASSUME NEW g \in Record, given' = Append(given, g), Loads(g, iMap')
      PROVE  Unbroken' /\ given' \in Seq(Record)
  <2>1. given \in Seq(Record)
    BY DEF Types
  <2>2. given' \in Seq(Record)
    BY <1>3, <2>1
  <2>3. \A i \in DOMAIN given' : given'[i] = g \/ (i \in DOMAIN given /\ given'[i] = given[i])
    BY <1>3, <2>1
  <2>4. \A i \in DOMAIN given' : Loads(given'[i], iMap')
    BY <1>1, <1>3, <2>3, Zenon DEF Unbroken
  <2>5. QED
    BY <2>2, <2>4, Zenon DEF Unbroken
<1>4. QED
  BY <1>2, <1>3, Zenon DEF Gives

(* A packet that can be made.                                              *)
LEMMA MadePacket ==
    ASSUME NEW k \in Transaction, NEW m \in Packet(k)
    PROVE  m \in Message /\ m.transaction = k /\ MakePacket(m) \in Seq(Byte)
<1>1. m \in Message
  BY DEF Message
<1>2. MakePacket(m) \in Seq(Byte)
  BY <1>1, PacketIs, Zenon DEF PacketParts
<1>3. QED
  BY <1>1, <1>2 DEF Packet

(* What a receive changes.                                                 *)
LEMMA ReceivesType ==
    ASSUME Types, NEW size, NEW n \in 1..Len(stream), size \in Int, Receives(size, n)
    PROVE  /\ iReady' = iReady /\ sent' = sent /\ stream' \in Seq(Byte) /\ short' \in BOOLEAN
           /\ First(stream, n) \in Seq(Byte) /\ Len(First(stream, n)) = n
<1>1. stream \in Seq(Byte) /\ n \in Nat /\ n <= Len(stream)
  BY DEF Types
<1>2. First(stream, n) \in Seq(Byte) /\ Len(First(stream, n)) = n /\ Rest(stream, n) \in Seq(Byte)
  BY <1>1, Behind
<1>3. QED
  BY <1>2 DEF Receives, Types

(* Every step keeps the states and what was given.                         *)
LEMMA TypesStep ==
    ASSUME Types, Unbroken, [Next]_vars
    PROVE  Types' /\ Unbroken'
<1>1. CASE \E u \in Unit : Diagnose(u)
  <2>1. iReady' \in [Unit -> BOOLEAN]
    BY <1>1 DEF Diagnose, Types
  <2>2. UNCHANGED <<sent, stream, iPacketSize, iMap, given, up, short>>
    BY <1>1 DEF Diagnose
  <2>3. QED
    BY <2>1, <2>2 DEF Types, Unbroken, Loads
<1>2. ASSUME NEW k \in Transaction, NEW m \in Packet(k), NEW n \in 1..Len(MakePacket(m)), Send(m, n)
      PROVE  Types' /\ Unbroken'
  <2>1. m \in Message /\ MakePacket(m) \in Seq(Byte)
    BY MadePacket
  <2>2. sent' \in Seq(Message)
    BY <1>2, <2>1 DEF Send, Types
  <2>3. First(MakePacket(m), n) \in Seq(Byte)
    BY <2>1, Behind
  <2>4. stream' \in Seq(Byte) /\ short' \in BOOLEAN
    BY <1>2, <2>3 DEF Send, Types
  <2>5. UNCHANGED <<iReady, iPacketSize, iMap, given, up>>
    BY <1>2 DEF Send
  <2>6. QED
    BY <2>2, <2>4, <2>5 DEF Types, Unbroken, Loads
<1>3. ASSUME NEW n \in 1..Len(stream), ReceiveSize(n)
      PROVE  Types' /\ Unbroken'
  <2>1. Width \in Nat /\ Receives(Width, n)
    BY <1>3, WidthAssumption DEF ReceiveSize
  <2>2. /\ iReady' = iReady /\ sent' = sent /\ stream' \in Seq(Byte) /\ short' \in BOOLEAN
    BY <2>1, ReceivesType
  <2>3. Gives
    BY <1>3, StillGives DEF ReceiveSize
  <2>4. iPacketSize' \in Int
    <3>1. CASE n < Width
      BY <1>3, <3>1 DEF ReceiveSize, Types
    <3>2. CASE ~(n < Width)
      <4>1. stream \in Seq(Byte) /\ Width <= Len(stream)
        BY <2>1, <3>2 DEF Types
      <4>2. First(stream, Width) \in Seq(Byte) /\ Len(First(stream, Width)) = Width
        BY <2>1, <4>1, Behind
      <4>3. Signed(First(stream, Width)) \in Int
        BY <4>2, EncodeOfSigned
      <4>4. QED
        BY <1>3, <3>2, <4>3 DEF ReceiveSize
    <3>3. QED
      BY <3>1, <3>2
  <2>5. Unbroken' /\ given' \in Seq(Record)
    BY <2>3, UnbrokenKept
  <2>6. QED
    BY <2>2, <2>3, <2>4, <2>5 DEF Types, Gives
<1>4. ASSUME NEW n \in 1..Len(stream), ReceiveBody(n)
      PROVE  Types' /\ Unbroken'
  <2>1. iPacketSize \in Int /\ Receives(iPacketSize, n)
    BY <1>4 DEF ReceiveBody, Types
  <2>2. /\ iReady' = iReady /\ sent' = sent /\ stream' \in Seq(Byte) /\ short' \in BOOLEAN
        /\ First(stream, n) \in Seq(Byte)
    BY <2>1, ReceivesType
  <2>3. Gives
    BY <1>4, <2>2, ProcessGives DEF ReceiveBody
  <2>4. iPacketSize' \in Int
    BY <1>4 DEF ReceiveBody, SizeAfter, Types
  <2>5. Unbroken' /\ given' \in Seq(Record)
    BY <2>3, UnbrokenKept
  <2>6. QED
    BY <2>2, <2>3, <2>4, <2>5 DEF Types, Gives
<1>5. CASE ReceiveFails
  <2>1. Gives
    BY <1>5, StillGives DEF ReceiveFails
  <2>2. Unbroken' /\ given' \in Seq(Record)
    BY <2>1, UnbrokenKept
  <2>3. UNCHANGED <<iReady, sent, stream, iPacketSize, short>>
    BY <1>5 DEF ReceiveFails
  <2>4. QED
    BY <2>1, <2>2, <2>3 DEF Types, Gives
<1>6. CASE UNCHANGED vars
  BY <1>6 DEF vars, Types, Unbroken, Loads
<1>7. QED
  BY <1>1, <1>2, <1>3, <1>4, <1>5, <1>6, Zenon DEF Next, Receive

(* A processor that was given anything has all of its items, and they are  *)
(* all of the bytes they came from: whatever comes short, deparseBuffer    *)
(* never takes a packet that was cut, or read from the wrong place, for    *)
(* one with fewer items or other sizes.                                    *)
THEOREM WholePackets == Spec => []WholeOrRefused
<1>1. Types /\ Unbroken => WholeOrRefused
  BY DEF Unbroken, Loads, WholeOrRefused
<1>2. QED
  BY <1>1, TypesInit, TypesStep, PTL DEF Spec

(* What is ahead begins with the next element.                             *)
LEMMA AheadNext ==
    ASSUME NEW X, NEW s \in Seq(X), NEW n \in Nat, n < Len(s)
    PROVE  /\ Rest(s, n) \in Seq(X) /\ Rest(s, n) # <<>> /\ Rest(s, n)[1] = s[n + 1]
           /\ Tail(Rest(s, n)) = Rest(s, n + 1) /\ s[n + 1] \in X /\ Rest(s, n + 1) \in Seq(X)
<1>1. Len(s) \in Nat /\ n <= Len(s) /\ n + 1 \in Nat /\ n + 1 <= Len(s)
  BY Elements
<1>2. s[n + 1] \in X
  BY <1>1, Elements
<1>3. /\ Rest(s, n) \in Seq(X) /\ Len(Rest(s, n)) = Len(s) - n
      /\ \A i \in 1..Len(s) - n : Rest(s, n)[i] = s[n + i]
  BY <1>1, Slice DEF Rest
<1>4. /\ Rest(s, n + 1) \in Seq(X) /\ Len(Rest(s, n + 1)) = Len(s) - (n + 1)
      /\ \A i \in 1..Len(s) - (n + 1) : Rest(s, n + 1)[i] = s[n + 1 + i]
  BY <1>1, Slice DEF Rest
<1> DEFINE a == Rest(s, n)
           b == Rest(s, n + 1)
<1> HIDE DEF a, b
<1>5. /\ a \in Seq(X) /\ Len(a) = Len(s) - n /\ \A i \in 1..Len(s) - n : a[i] = s[n + i]
  BY <1>3 DEF a
<1>6. /\ b \in Seq(X) /\ Len(b) = Len(s) - (n + 1) /\ \A i \in 1..Len(s) - (n + 1) : b[i] = s[n + 1 + i]
  BY <1>4 DEF b
<1>7. a # <<>> /\ a[1] = s[n + 1]
  BY <1>1, <1>5
<1>8. Tail(a) = b
  <2>1. Tail(a) \in Seq(X) /\ Len(Tail(a)) = Len(a) - 1 /\ \A i \in 1..Len(a) - 1 : Tail(a)[i] = a[i + 1]
    BY <1>5, <1>7
  <2>2. Len(Tail(a)) = Len(b)
    BY <1>1, <1>5, <1>6, <2>1
  <2>3. \A i \in 1..Len(b) : Tail(a)[i] = b[i]
    <3> SUFFICES ASSUME NEW i \in 1..Len(b) PROVE Tail(a)[i] = b[i]
      OBVIOUS
    <3>1. i \in 1..Len(a) - 1 /\ i + 1 \in 1..Len(s) - n /\ i \in 1..Len(s) - (n + 1)
          /\ n + (i + 1) = n + 1 + i
      BY <1>1, <1>5, <1>6
    <3>2. Tail(a)[i] = a[i + 1] /\ a[i + 1] = s[n + (i + 1)] /\ b[i] = s[n + 1 + i]
      BY <1>5, <1>6, <2>1, <3>1, Zenon
    <3>3. QED
      BY <3>1, <3>2, Zenon
  <2>4. QED
    BY <1>6, <2>1, <2>2, <2>3, SeqEqual
<1>9. QED
  BY <1>2, <1>5, <1>6, <1>7, <1>8, Zenon DEF a, b

(* Nothing is ahead of the end.                                            *)
LEMMA AheadEmpty ==
    ASSUME NEW X, NEW s \in Seq(X), NEW n \in Nat, n = Len(s)
    PROVE  Rest(s, n) = <<>>
BY DEF Rest

(* What is appended comes last ahead.                                      *)
LEMMA AheadAppend ==
    ASSUME NEW X, NEW s \in Seq(X), NEW n \in Nat, n <= Len(s), NEW x \in X
    PROVE  /\ Rest(s, n) \in Seq(X)
           /\ Rest(Append(s, x), n) = Append(Rest(s, n), x)
<1>1. Append(s, x) \in Seq(X) /\ Len(Append(s, x)) = Len(s) + 1 /\ Len(s) \in Nat
  OBVIOUS
<1>2. /\ Rest(s, n) \in Seq(X) /\ Len(Rest(s, n)) = Len(s) - n
      /\ \A i \in 1..Len(s) - n : Rest(s, n)[i] = s[n + i]
  BY <1>1, Slice DEF Rest
<1>3. PICK t \in Seq(X) : t = Append(s, x)
  BY <1>1, Zenon
<1>4. Len(t) = Len(s) + 1 /\ n <= Len(t) /\ Len(t) \in Nat /\ t[Len(s) + 1] = x
       /\ \A i \in 1..Len(s) : t[i] = s[i]
  BY <1>1, <1>3
<1>5. /\ Rest(t, n) \in Seq(X) /\ Len(Rest(t, n)) = Len(t) - n
       /\ \A i \in 1..Len(t) - n : Rest(t, n)[i] = t[n + i]
  BY <1>4, Slice DEF Rest
<1> DEFINE a == Rest(s, n)
           b == Rest(t, n)
<1> HIDE DEF a, b
<1>6. a \in Seq(X) /\ Len(a) = Len(s) - n /\ \A i \in 1..Len(s) - n : a[i] = s[n + i]
  BY <1>2 DEF a
<1>7. b \in Seq(X) /\ Len(b) = Len(t) - n /\ \A i \in 1..Len(t) - n : b[i] = t[n + i]
  BY <1>5 DEF b
<1>8. \A i \in 1..Len(s) - n : b[i] = a[i]
  <2> SUFFICES ASSUME NEW i \in 1..Len(s) - n PROVE b[i] = a[i]
    OBVIOUS
  <2>1. i \in 1..Len(t) - n /\ n + i \in 1..Len(s)
    BY <1>1, <1>4
  <2>2. QED
    BY <1>6, <1>7, <1>4, <2>1, Zenon
<1>9. b[Len(s) + 1 - n] = x
  <2>1. Len(s) + 1 - n \in 1..Len(t) - n /\ n + (Len(s) + 1 - n) = Len(s) + 1
    BY <1>1, <1>4
  <2>2. b[Len(s) + 1 - n] = t[n + (Len(s) + 1 - n)]
    BY <1>7, <2>1, Zenon
  <2>3. QED
    BY <1>4, <2>1, <2>2, Zenon
<1>10. b = Append(a, x)
  <2>1. Append(a, x) \in Seq(X) /\ Len(Append(a, x)) = Len(a) + 1 /\ Append(a, x)[Len(a) + 1] = x
        /\ \A i \in 1..Len(a) : Append(a, x)[i] = a[i]
    BY <1>6
  <2>2. Len(b) = Len(a) + 1 /\ Len(a) + 1 = Len(s) + 1 - n
    BY <1>1, <1>6, <1>7, <1>4
  <2>3. \A i \in 1..Len(b) : b[i] = Append(a, x)[i]
    <3> SUFFICES ASSUME NEW i \in 1..Len(b) PROVE b[i] = Append(a, x)[i]
      OBVIOUS
    <3>1. i \in 1..Len(a) \/ i = Len(a) + 1
      <4>1. Len(a) \in Nat
        BY <1>6, Elements
      <4>2. QED
        BY <2>2, <4>1
    <3>2. QED
      BY <1>6, <1>8, <1>9, <2>1, <2>2, <3>1, Zenon
  <2>4. QED
    BY <1>7, <2>1, <2>2, <2>3, SeqEqual
<1>11. QED
  BY <1>3, <1>6, <1>10, Zenon DEF a, b

-----------------------------------------------------------------------------
(* Where the receiver is in the stream.                                    *)

(* MakePacket as a function.                                               *)
PacketOf == [m \in Message |-> MakePacket(m)]

(* It writes bytes of what packets are made of.                            *)
LEMMA PacketOfIs ==
    Writes(PacketOf, Message, Byte) /\ \A m \in Message : PacketOf[m] = MakePacket(m)
<1>1. \A m \in Message : MakePacket(m) \in Seq(Byte)
  BY PacketIs DEF PacketParts
<1>2. QED
  BY <1>1 DEF PacketOf, Writes

(* As long as nothing came short: what was given is what was sent, and     *)
(* what is in the stream is what was sent and not given, whole or without  *)
(* the size of its first packet.                                           *)
Given ==
    /\ Len(given) <= Len(sent)
    /\ \A i \in 1..Len(given) :
          given[i].transaction = sent[i].transaction /\ given[i].items = Items(sent[i])
(* What the receiver has of transactions is what the sender has.           *)
Known == \A k \in DOMAIN iMap : k \in Transaction /\ iMap[k] = TypeOf[k]

(* Between two packets: what is not given is in the stream.                *)
Between == iPacketSize = 0 /\ stream = Written(PacketOf, Rest(sent, Len(given)))
(* Inside a packet: its size was read and is kept.                         *)
Inside ==
    /\ Len(given) < Len(sent)
    /\ iPacketSize = Len(Body(sent[Len(given) + 1]))
    /\ stream = Body(sent[Len(given) + 1]) \o Written(PacketOf, Rest(sent, Len(given) + 1))

(* The same as long as nothing came short.                                 *)
Aligned == ~short => Given /\ Known /\ (Between \/ Inside)

(* Initially nothing was sent.                                             *)
LEMMA AlignedInit == Init => Aligned
<1> SUFFICES ASSUME Init PROVE Aligned
  OBVIOUS
<1>1. sent = <<>> /\ given = <<>> /\ iMap = <<>> /\ stream = <<>> /\ iPacketSize = 0
  BY DEF Init
<1>2. Len(<<>>) = 0 /\ DOMAIN <<>> = {} /\ <<>> \in Seq(Message)
  OBVIOUS
<1>3. Given
  <2>1. Len(given) = 0 /\ Len(sent) = 0
    BY <1>1, <1>2
  <2>2. QED
    BY <2>1 DEF Given
<1>4. Known
  <2>1. DOMAIN iMap = {}
    BY <1>1, <1>2, Zenon
  <2>2. QED
    BY <2>1, Zenon DEF Known
<1>5. Between
  <2>1. Rest(<<>>, 0) = <<>>
    BY DEF Rest
  <2>2. QED
    BY <1>1, <1>2, <2>1, WrittenEmpty, Zenon DEF Between
<1>6. QED
  BY <1>3, <1>4, <1>5 DEF Aligned

(* A packet that is sent comes last in the stream.                         *)
LEMMA SendAligned ==
    ASSUME Types, Aligned, NEW k \in Transaction, NEW m \in Packet(k),
           NEW n \in 1..Len(MakePacket(m)), Send(m, n)
    PROVE  Aligned'
<1> SUFFICES ASSUME ~short' PROVE (Given /\ Known /\ (Between \/ Inside))'
  BY Zenon DEF Aligned
<1>1. PICK b \in Seq(Byte) : b = MakePacket(m)
  BY MadePacket, Zenon
<1>2. m \in Message /\ sent \in Seq(Message) /\ given \in Seq(Record) /\ stream \in Seq(Byte)
  BY MadePacket DEF Types
<1>3. ~short /\ ~(n < Len(b)) /\ sent' = Append(sent, m) /\ stream' = stream \o First(b, n)
      /\ iPacketSize' = iPacketSize /\ iMap' = iMap /\ given' = given
  BY <1>1 DEF Send
<1>4. n = Len(b) /\ Len(b) \in Nat
  BY <1>1, <1>3
<1>5. First(b, n) = b
  BY <1>4, Elements DEF First
<1>6. Given /\ Known /\ (Between \/ Inside)
  BY <1>3, Zenon DEF Aligned
<1>7. PICK g \in Nat : g = Len(given) /\ g <= Len(sent)
  BY <1>2, <1>6 DEF Given
<1>8. /\ Len(sent') = Len(sent) + 1 /\ Len(sent) \in Nat
      /\ \A i \in 1..Len(sent) : sent'[i] = sent[i]
  BY <1>2, <1>3
<1>9. Given' /\ Known'
  <2>1. Given'
    BY <1>3, <1>6, <1>7, <1>8 DEF Given
  <2>2. QED
    BY <1>3, <1>6, <2>1, Zenon DEF Known
<1>10. \A s \in Seq(Message) : Written(PacketOf, Append(s, m)) = Written(PacketOf, s) \o b
  <2> SUFFICES ASSUME NEW s \in Seq(Message)
               PROVE  Written(PacketOf, Append(s, m)) = Written(PacketOf, s) \o b
    OBVIOUS
  <2>1. Written(PacketOf, Append(s, m)) = Written(PacketOf, s) \o PacketOf[m]
    BY <1>2, PacketOfIs, WrittenAppend
  <2>2. QED
    BY <1>1, <1>2, <2>1, PacketOfIs, Zenon
<1>11. CASE Between
  <2>1. Rest(sent, g) \in Seq(Message) /\ Rest(sent', g) = Append(Rest(sent, g), m)
    BY <1>2, <1>3, <1>7, AheadAppend
  <2>2. stream' = Written(PacketOf, Rest(sent', g))
    BY <1>3, <1>5, <1>7, <1>10, <1>11, <2>1, Zenon DEF Between
  <2>3. Between'
    BY <1>3, <1>7, <1>11, <2>2, Zenon DEF Between
  <2>4. QED
    BY <1>9, <2>3
<1>12. CASE Inside
  <2>1. g < Len(sent) /\ g + 1 \in Nat /\ g + 1 <= Len(sent) /\ g + 1 \in 1..Len(sent) /\ g < Len(sent')
    BY <1>7, <1>8, <1>12 DEF Inside
  <2>2. Rest(sent, g + 1) \in Seq(Message) /\ Rest(sent', g + 1) = Append(Rest(sent, g + 1), m)
    <3>1. PICK h \in Nat : h = g + 1 /\ h <= Len(sent)
      BY <2>1, Zenon
    <3>2. Rest(sent, h) \in Seq(Message) /\ Rest(Append(sent, m), h) = Append(Rest(sent, h), m)
      BY <1>2, <3>1, AheadAppend
    <3>3. QED
      BY <1>3, <3>1, <3>2, Zenon
  <2>3. sent'[g + 1] = sent[g + 1] /\ sent[g + 1] \in Message
    BY <1>2, <1>8, <2>1, Elements
  <2>4. PICK body \in Seq(Byte) : body = Body(sent[g + 1])
    BY <2>3, PacketIs, Zenon DEF PacketParts
  <2>5. PICK w \in Seq(Byte) : w = Written(PacketOf, Rest(sent, g + 1))
    BY <2>2, PacketOfIs, WrittenType, Zenon
  <2>6. Written(PacketOf, Rest(sent', g + 1)) = w \o b
    BY <1>10, <2>2, <2>5, Zenon
  <2>7. Grouped(body, w, b)
    BY Group, Zenon
  <2>8. stream = body \o w
    BY <1>7, <1>12, <2>4, <2>5, Zenon DEF Inside
  <2>9. stream' = body \o Written(PacketOf, Rest(sent', g + 1))
    BY <1>3, <1>5, <2>6, <2>7, <2>8, Zenon DEF Grouped
  <2>10. Inside'
    BY <1>3, <1>7, <1>12, <2>1, <2>3, <2>4, <2>9, Zenon DEF Inside
  <2>11. QED
    BY <1>9, <2>10
<1>13. QED
  BY <1>6, <1>11, <1>12

(* The next packet is what the stream begins with.                         *)
LEMMA MessageAt ==
    ASSUME Types, NEW g \in Nat, g < Len(sent)
    PROVE  /\ sent[g + 1] \in Message
           /\ \E w \in Seq(Byte) :
                 /\ w = Written(PacketOf, Rest(sent, g + 1))
                 /\ Written(PacketOf, Rest(sent, g)) = MakePacket(sent[g + 1]) \o w
<1>1. sent \in Seq(Message)
  BY DEF Types
<1>2. /\ Rest(sent, g) \in Seq(Message) /\ Rest(sent, g) # <<>> /\ Rest(sent, g)[1] = sent[g + 1]
      /\ Tail(Rest(sent, g)) = Rest(sent, g + 1) /\ sent[g + 1] \in Message
      /\ Rest(sent, g + 1) \in Seq(Message)
  BY <1>1, AheadNext
<1>3. PICK a \in Seq(Message) : a = Rest(sent, g) /\ a # <<>>
  BY <1>2, Zenon
<1>4. Written(PacketOf, a) = PacketOf[a[1]] \o Written(PacketOf, Tail(a))
  <2>1. a # <<>> /\ Writes(PacketOf, Message, Byte)
    BY <1>3, PacketOfIs, Zenon
  <2>2. QED
    BY <2>1, WrittenCons
<1>5. Written(PacketOf, Rest(sent, g + 1)) \in Seq(Byte)
  BY <1>2, PacketOfIs, WrittenType, Zenon
<1>6. PacketOf[sent[g + 1]] = MakePacket(sent[g + 1])
  BY <1>2, PacketOfIs
<1>7. QED
  BY <1>2, <1>3, <1>4, <1>5, <1>6, Zenon

(* The head and the rest of a concatenation.                               *)
Heads(s, t) == First(s \o t, Len(s)) = s /\ Rest(s \o t, Len(s)) = t

(* They are where they should be.                                          *)
LEMMA HeadOf ==
    ASSUME NEW T, NEW s \in Seq(T), NEW t \in Seq(T)
    PROVE  Heads(s, t)
<1>1. /\ SubSeq(s \o t, 1, Len(s)) = s
      /\ SubSeq(s \o t, Len(s) + 1, Len(s \o t)) = t
  BY Parts
<1>2. QED
  BY <1>1, Zenon DEF Heads, First, Rest

(* The size of the next packet is read, and is the size of what follows.   *)
LEMMA ReceiveSizeAligned ==
    ASSUME Types, Aligned, NEW n \in 1..Len(stream), ReceiveSize(n)
    PROVE  Aligned'
<1> SUFFICES ASSUME ~short' PROVE (Given /\ Known /\ (Between \/ Inside))'
  BY Zenon DEF Aligned
<1>1. sent \in Seq(Message) /\ given \in Seq(Record) /\ stream \in Seq(Byte)
  BY DEF Types
<1>2. iPacketSize = 0 /\ Receives(Width, n)
  BY DEF ReceiveSize
<1>3. ~short /\ ~(n < Width) /\ n \in 1..Width /\ stream' = Rest(stream, n) /\ sent' = sent
  BY <1>2 DEF Receives
<1>4. n = Width /\ Width \in Nat /\ Width > 0
  BY <1>3, WidthAssumption
<1>5. Given /\ Known /\ (Between \/ Inside)
  BY <1>3, Zenon DEF Aligned
<1>6. PICK g \in Nat : g = Len(given) /\ g <= Len(sent)
  BY <1>1, <1>5 DEF Given
<1>7. Between
  <2>1. CASE Inside
    <3>1. g < Len(sent) /\ iPacketSize = Len(Body(sent[g + 1]))
      BY <1>6, <2>1, Zenon DEF Inside
    <3>2. sent[g + 1] \in Message
      BY <3>1, MessageAt
    <3>3. PICK z : z = Len(Body(sent[g + 1])) /\ z \in Nat /\ z >= 2 * Width
      BY <3>2, PacketIs, Zenon DEF PacketParts
    <3>4. z # 0
      BY <1>4, <3>3
    <3>5. QED
      BY <1>2, <3>1, <3>3, <3>4, Zenon
  <2>2. QED
    BY <1>5, <2>1
<1>8. stream = Written(PacketOf, Rest(sent, g))
  BY <1>6, <1>7, Zenon DEF Between
<1>9. g < Len(sent)
  <2>1. SUFFICES ASSUME g = Len(sent) PROVE FALSE
    BY <1>1, <1>6
  <2>2. Rest(sent, g) = <<>>
    BY <1>1, <2>1, AheadEmpty
  <2>3. stream = <<>> /\ Len(<<>>) = 0
    BY <1>8, <2>2, WrittenEmpty
  <2>4. n \in 1..0
    BY <2>3, Zenon
  <2>5. QED
    BY <2>4
<1>10. PICK m \in Message : m = sent[g + 1]
  BY <1>9, MessageAt, Zenon
<1>11. PICK w \in Seq(Byte) :
          w = Written(PacketOf, Rest(sent, g + 1)) /\ stream = MakePacket(m) \o w
  BY <1>8, <1>9, <1>10, MessageAt, Zenon
<1>12. PICK body \in Seq(Byte) : body = Body(m)
  BY PacketIs, Zenon DEF PacketParts
<1>13. PICK s \in Seq(Byte) : /\ s = Encode(Len(body)) /\ Len(s) = Width
                              /\ MakePacket(m) = s \o body /\ Signed(s) = Len(body)
  BY <1>12, PacketIs, Zenon DEF PacketParts
<1>14. PICK x \in Seq(Byte) : x = body \o w
  BY Joined, Zenon
<1>15. stream = s \o x
  <2>1. Grouped(s, body, w)
    BY Group, Zenon
  <2>2. QED
    BY <1>11, <1>13, <1>14, <2>1, Zenon DEF Grouped
<1>16. First(stream, Width) = s /\ Rest(stream, Width) = x
  <2>1. Heads(s, x)
    BY HeadOf, Zenon
  <2>2. QED
    BY <1>13, <1>15, <2>1, Zenon DEF Heads
<1>17. iPacketSize' = Len(body)
  <2>1. iPacketSize' = Signed(First(stream, Width))
    BY <1>3 DEF ReceiveSize
  <2>2. QED
    BY <1>13, <1>16, <2>1, Zenon
<1>18. iMap' = iMap /\ given' = given
  BY DEF ReceiveSize, Down, Ignore
<1>19. stream' = body \o w
  BY <1>3, <1>4, <1>14, <1>16, Zenon
<1>20. Inside'
  BY <1>3, <1>6, <1>9, <1>10, <1>11, <1>12, <1>17, <1>18, <1>19, Zenon DEF Inside
<1>21. Given' /\ Known'
  BY <1>3, <1>5, <1>18 DEF Given, Known
<1>22. QED
  BY <1>20, <1>21

(* A processor is given what the packet says.                              *)
Delivers(m) ==
    /\ \E g : given' = Append(given, g) /\ g \in Record
              /\ g.transaction = m.transaction /\ g.items = Items(m)
    /\ iMap' = [k \in DOMAIN iMap \cup {m.transaction} |->
                   IF k = m.transaction THEN TypeOf[m.transaction] ELSE iMap[k]]

(* action() loads the product of a packet that was made.                   *)
LEMMA ActDelivers ==
    ASSUME Types, NEW m \in Message,
           Act(m.transaction, TypeOf[m.transaction], ParseBuffers(Items(m)))
    PROVE  Delivers(m)
<1> DEFINE k == m.transaction
           t == TypeOf[k]
           p == ParseBuffers(Items(m))
           content == DeparseBuffer(p, Len(Units[t]))
<1>1. content.end \in {"loaded", "stale"} /\ content.items = Items(m)
  BY ContentIs, Zenon DEF Kinds
<1>2. ~ReadsBeyond(t, content.items)
  BY <1>1, NothingBeyond, Zenon
<1>3. content.end \notin {"refused", "unknown"} /\ content.end \notin {"overrun", "unknown"}
  BY <1>1
<1> HIDE DEF content
<1>4. /\ Give(k, p, content.end, content.items)
      /\ iMap' = [j \in DOMAIN iMap \cup {k} |-> IF j = k THEN t ELSE iMap[j]]
  BY <1>2, <1>3, Zenon DEF Act, content
<1>5. k \in Nat /\ p \in Seq(Byte) /\ Items(m) \in Seq(Seq(Byte))
  <2>1. k \in 0..Bound - 1
    BY MessageIs, TypeIs
  <2>2. QED
    BY <2>1, ItemsIs, PacketIs DEF PacketParts
<1> DEFINE g == [transaction |-> k, product |-> p, end |-> content.end, items |-> content.items]
<1>6. g \in Record /\ g.transaction = k /\ g.items = Items(m)
  BY <1>1, <1>5 DEF Record
<1>7. given' = Append(given, g)
  BY <1>4 DEF Give
<1> HIDE DEF g
<1>8. QED
  BY <1>4, <1>6, <1>7, Zenon DEF Delivers

(* process() finds the transaction and the product.                        *)
LEMMA ProcessDelivers ==
    ASSUME Types, Known, NEW m \in Message, Process(Body(m))
    PROVE  Delivers(m)
<1> DEFINE b == Body(m)
           k == m.transaction
           t == TypeOf[k]
<1>1. /\ ~(Len(b) < 2 * Width)
      /\ Unsigned(First(b, Width)) = t /\ Unsigned(SubSeq(b, Width + 1, 2 * Width)) = k
      /\ Rest(b, 2 * Width) = ParseBuffers(Items(m))
  <2>1. PICK z \in Nat : z = Len(b) /\ z >= 2 * Width
    BY PacketIs, Zenon DEF PacketParts
  <2>2. ~(z < 2 * Width)
    BY <2>1, WidthAssumption
  <2>3. QED
    BY <2>1, <2>2, PacketIs, Zenon DEF PacketParts
<1>2. t \in Type
  BY MessageIs, TypeIs
<1> HIDE DEF b
<1>3. \/ k \in DOMAIN iMap /\ Act(k, iMap[k], ParseBuffers(Items(m)))
      \/ k \notin DOMAIN iMap /\ Act(k, t, ParseBuffers(Items(m)))
  BY <1>1, <1>2, Zenon DEF Process, b
<1>4. Act(k, t, ParseBuffers(Items(m)))
  BY <1>3, Zenon DEF Known
<1>5. QED
  BY <1>4, ActDelivers, Zenon

(* The body of a packet is given, and the next is ahead.                   *)
LEMMA ReceiveBodyAligned ==
    ASSUME Types, Aligned, NEW n \in 1..Len(stream), ReceiveBody(n)
    PROVE  Aligned'
<1> SUFFICES ASSUME ~short' PROVE (Given /\ Known /\ (Between \/ Inside))'
  BY Zenon DEF Aligned
<1>1. sent \in Seq(Message) /\ given \in Seq(Record) /\ stream \in Seq(Byte)
  BY DEF Types
<1>2. iPacketSize > 0 /\ Receives(iPacketSize, n) /\ iPacketSize \in Int
  BY DEF ReceiveBody, Types
<1>3. ~short /\ ~(n < iPacketSize) /\ n \in 1..iPacketSize /\ stream' = Rest(stream, n) /\ sent' = sent
  BY <1>2 DEF Receives
<1>4. n = iPacketSize
  BY <1>2, <1>3
<1>5. Given /\ Known /\ (Between \/ Inside)
  BY <1>3, Zenon DEF Aligned
<1>6. PICK g \in Nat : g = Len(given) /\ g <= Len(sent)
  BY <1>1, <1>5 DEF Given
<1>7. Inside
  BY <1>2, <1>5 DEF Between
<1>8. /\ g < Len(sent) /\ iPacketSize = Len(Body(sent[g + 1]))
      /\ stream = Body(sent[g + 1]) \o Written(PacketOf, Rest(sent, g + 1))
  BY <1>6, <1>7, Zenon DEF Inside
<1>9. PICK m \in Message : m = sent[g + 1]
  BY <1>8, MessageAt, Zenon
<1>10. PICK w \in Seq(Byte) : w = Written(PacketOf, Rest(sent, g + 1))
  BY <1>8, MessageAt, Zenon
<1>11. PICK body \in Seq(Byte) : body = Body(m)
  BY PacketIs, Zenon DEF PacketParts
<1>12. First(stream, n) = body /\ stream' = w
  <2>1. Heads(body, w)
    BY HeadOf, Zenon
  <2>2. QED
    BY <1>3, <1>4, <1>8, <1>9, <1>10, <1>11, <2>1, Zenon DEF Heads
<1>13. iPacketSize' = 0
  BY <1>4 DEF ReceiveBody, SizeAfter
<1>14. Delivers(m)
  <2>1. Process(body)
    BY <1>12, Zenon DEF ReceiveBody
  <2>2. QED
    BY <1>5, <1>11, <2>1, ProcessDelivers, Zenon
<1>15. PICK r \in Record : given' = Append(given, r) /\ r.transaction = m.transaction /\ r.items = Items(m)
  BY <1>14, Zenon DEF Delivers
<1>16. /\ Len(given') = g + 1 /\ given'[g + 1] = r /\ g + 1 <= Len(sent)
       /\ \A i \in 1..g : given'[i] = given[i]
  BY <1>1, <1>6, <1>8, <1>15
<1>17. Given'
  <2>1. \A i \in 1..g + 1 :
           given'[i].transaction = sent[i].transaction /\ given'[i].items = Items(sent[i])
    <3> SUFFICES ASSUME NEW i \in 1..g + 1
                 PROVE  given'[i].transaction = sent[i].transaction /\ given'[i].items = Items(sent[i])
      OBVIOUS
    <3>1. i \in 1..g \/ i = g + 1
      OBVIOUS
    <3>2. CASE i \in 1..g
      BY <1>5, <1>6, <1>16, <3>2, Zenon DEF Given
    <3>3. CASE i = g + 1
      BY <1>9, <1>15, <1>16, <3>3, Zenon
    <3>4. QED
      BY <3>1, <3>2, <3>3
  <2>2. QED
    BY <1>3, <1>16, <2>1, Zenon DEF Given, Items
<1>18. Known'
  <2>1. iMap' = [k \in DOMAIN iMap \cup {m.transaction} |->
                    IF k = m.transaction THEN TypeOf[m.transaction] ELSE iMap[k]]
    BY <1>14, Zenon DEF Delivers
  <2>2. DOMAIN iMap' = DOMAIN iMap \cup {m.transaction} /\ iMap'[m.transaction] = TypeOf[m.transaction]
        /\ \A k \in DOMAIN iMap : k # m.transaction => iMap'[k] = iMap[k]
    BY <2>1
  <2>3. m.transaction \in Transaction
    BY MessageIs
  <2>4. QED
    BY <1>5, <2>2, <2>3, Zenon DEF Known
<1>19. Between'
  BY <1>3, <1>10, <1>12, <1>13, <1>16, Zenon DEF Between
<1>20. QED
  BY <1>17, <1>18, <1>19

(* Every step keeps the stream aligned.                                    *)
LEMMA AlignedStep ==
    ASSUME Types, Aligned, [Next]_vars
    PROVE  Aligned'
<1>1. CASE \E u \in Unit : Diagnose(u)
  <2>1. UNCHANGED <<sent, stream, iPacketSize, iMap, given, short>>
    BY <1>1 DEF Diagnose
  <2>2. QED
    BY <2>1, Zenon DEF Aligned, Given, Known, Between, Inside
<1>2. CASE ReceiveFails
  <2>1. UNCHANGED <<sent, stream, iPacketSize, iMap, given, short>>
    BY <1>2 DEF ReceiveFails, Down
  <2>2. QED
    BY <2>1, Zenon DEF Aligned, Given, Known, Between, Inside
<1>3. CASE UNCHANGED vars
  <2>1. UNCHANGED <<sent, stream, iPacketSize, iMap, given, short>>
    BY <1>3 DEF vars
  <2>2. QED
    BY <2>1, Zenon DEF Aligned, Given, Known, Between, Inside
<1>4. ASSUME NEW k \in Transaction, NEW m \in Packet(k), NEW n \in 1..Len(MakePacket(m)), Send(m, n)
      PROVE  Aligned'
  BY <1>4, SendAligned, Zenon
<1>5. ASSUME NEW n \in 1..Len(stream), ReceiveSize(n)
      PROVE  Aligned'
  BY <1>5, ReceiveSizeAligned, Zenon
<1>6. ASSUME NEW n \in 1..Len(stream), ReceiveBody(n)
      PROVE  Aligned'
  BY <1>6, ReceiveBodyAligned, Zenon
<1>7. QED
  BY <1>1, <1>2, <1>3, <1>4, <1>5, <1>6, Zenon DEF Next, Receive

-----------------------------------------------------------------------------
(* What the receiver was given is a beginning of what was sent.            *)

(* r lists n elements.                                                     *)
Lists(r, n) == r = [i \in 1..n |-> r[i]]

(* A shorter list with the same elements is a prefix.                      *)
LEMMA PrefixIs ==
    ASSUME NEW m \in Nat, NEW n \in Nat, m <= n, NEW r, NEW s, Lists(r, m), Lists(s, n),
           \A i \in 1..m : r[i] = s[i]
    PROVE  IsPrefix(r, s)
<1>1. r = [i \in 1..m |-> r[i]] /\ s = [i \in 1..n |-> s[i]]
  BY Zenon DEF Lists
<1> DEFINE T == {s[i] : i \in 1..n}
<1>2. \A i \in 1..n : s[i] \in T
  OBVIOUS
<1>3. \A i \in 1..m : r[i] \in T
  <2>1. \A i \in 1..m : i \in 1..n
    OBVIOUS
  <2> HIDE DEF T
  <2>2. QED
    BY <1>2, <2>1, Zenon
<1> HIDE DEF T
<1>4. PICK a \in Seq(T) : a = r
  <2>1. [i \in 1..m |-> r[i]] \in Seq(T)
    BY <1>3
  <2>2. QED
    BY <1>1, <2>1, Zenon
<1>5. PICK b \in Seq(T) : b = s
  <2>1. [i \in 1..n |-> s[i]] \in Seq(T)
    BY <1>2
  <2>2. QED
    BY <1>1, <2>1, Zenon
<1>6. Len(a) = m /\ Len(b) = n
  <2>1. DOMAIN a = 1..m /\ DOMAIN b = 1..n
    BY <1>1, <1>4, <1>5
  <2>2. QED
    BY <2>1
<1>7. SubSeq(a, 1, m) \in Seq(T) /\ Len(SubSeq(a, 1, m)) = m
      /\ \A i \in 1..m : SubSeq(a, 1, m)[i] = a[i]
  BY <1>6
<1>8. SubSeq(b, 1, m) \in Seq(T) /\ Len(SubSeq(b, 1, m)) = m
      /\ \A i \in 1..m : SubSeq(b, 1, m)[i] = b[i]
  BY <1>6
<1>9. \A i \in 1..m : a[i] = b[i]
  BY <1>4, <1>5, Zenon
<1>10. SubSeq(a, 1, m) = SubSeq(b, 1, m)
  <2>1. \A i \in 1..m : SubSeq(a, 1, m)[i] = SubSeq(b, 1, m)[i]
    BY <1>7, <1>8, <1>9, Zenon
  <2> DEFINE x == SubSeq(a, 1, m)
             y == SubSeq(b, 1, m)
  <2>2. x \in Seq(T) /\ y \in Seq(T) /\ Len(x) = m /\ Len(y) = m /\ \A i \in 1..m : x[i] = y[i]
    BY <1>7, <1>8, <2>1
  <2> HIDE DEF x, y
  <2>3. x = y
    BY <2>2, SeqEqual
  <2>4. QED
    BY <2>3 DEF x, y
<1>11. QED
  BY <1>4, <1>5, <1>6, <1>10 DEF IsPrefix

(* What was given has the values that were assigned.                       *)
LEMMA SameValues ==
    ASSUME Types, Given, Known, Unbroken, NEW i \in 1..Len(given)
    PROVE  Received[i] = Sent[i]
<1>1. sent \in Seq(Message) /\ given \in Seq(Record) /\ Len(given) <= Len(sent)
  BY DEF Types, Given
<1>2. i \in DOMAIN given /\ i \in DOMAIN sent
  BY <1>1
<1>3. PICK m \in Message : m = sent[i]
  BY <1>1, <1>2
<1>4. given[i].transaction = m.transaction /\ given[i].items = Items(m)
  BY <1>3, Zenon DEF Given
<1>5. iMap[m.transaction] = TypeOf[m.transaction]
  <2>1. given[i].transaction \in DOMAIN iMap
    BY <1>2, Zenon DEF Unbroken, Loads
  <2>2. QED
    BY <1>4, <2>1, Zenon DEF Known
<1> DEFINE values == Values(TypeOf[m.transaction], Items(m))
<1>6. Received[i] = [transaction |-> m.transaction,
                     values |-> [j \in DOMAIN values |-> values[j].value]]
  BY <1>2, <1>4, <1>5, Zenon DEF Received
<1>7. Sent[i] = [transaction |-> m.transaction,
                 values |-> [j \in DOMAIN Kinds(m) |-> Meaning(Kinds(m)[j], m.units[j])]]
  BY <1>2, <1>3, Zenon DEF Sent, Kinds
<1>8. DOMAIN values = DOMAIN Kinds(m)
      /\ \A j \in DOMAIN Kinds(m) : values[j] = Get(Kinds(m)[j], Items(m)[j])
  <2>1. values = [j \in DOMAIN Items(m) |-> Get(Kinds(m)[j], Items(m)[j])]
    BY Zenon DEF Values, Kinds
  <2>2. DOMAIN Items(m) = DOMAIN Kinds(m)
    BY ItemsIs
  <2> HIDE DEF values
  <2>3. QED
    BY <2>1, <2>2
<1> HIDE DEF values
<1>9. \A j \in DOMAIN Kinds(m) : values[j].value = Meaning(Kinds(m)[j], m.units[j])
  BY <1>8, ValueIs, Zenon
<1>10. [j \in DOMAIN values |-> values[j].value]
          = [j \in DOMAIN Kinds(m) |-> Meaning(Kinds(m)[j], m.units[j])]
  BY <1>8, <1>9, Zenon
<1>11. QED
  BY <1>6, <1>7, <1>10, Zenon

(* What was given is a beginning of what was sent, value by value.         *)
LEMMA GivenInOrder ==
    ASSUME Types, Given, Known, Unbroken
    PROVE  InOrder
<1>1. sent \in Seq(Message) /\ given \in Seq(Record) /\ Len(given) <= Len(sent)
  BY DEF Types, Given
<1>2. PICK m \in Nat : m = Len(given) /\ DOMAIN given = 1..m
  BY <1>1, Elements, Zenon
<1>3. PICK n \in Nat : n = Len(sent) /\ DOMAIN sent = 1..n
  BY <1>1, Elements, Zenon
<1>4. Lists(Received, m)
  BY <1>2 DEF Received, Lists
<1>5. Lists(Sent, n)
  BY <1>3 DEF Sent, Lists
<1>6. \A i \in 1..m : Received[i] = Sent[i]
  BY <1>2, SameValues, Zenon
<1>7. m <= n
  BY <1>1, <1>2, <1>3, Zenon
<1>8. IsPrefix(Received, Sent)
  BY <1>4, <1>5, <1>6, <1>7, PrefixIs, Zenon
<1>9. QED
  BY <1>8, Zenon DEF InOrder

(* What is ahead, as AlignedUnlessShort writes it.                         *)
LEMMA AheadIs ==
    ASSUME NEW s \in Seq(Message)
    PROVE  FlattenSeq([i \in DOMAIN s |-> MakePacket(s[i])]) = Written(PacketOf, s)
<1>1. \A i \in DOMAIN s : s[i] \in Message
  BY Elements
<1>2. \A i \in DOMAIN s : PacketOf[s[i]] = MakePacket(s[i])
  BY <1>1, PacketOfIs
<1>3. Each(PacketOf, s) = [i \in DOMAIN s |-> MakePacket(s[i])]
  BY <1>2, Zenon DEF Each
<1>4. QED
  BY <1>3, Zenon DEF Written

(* So the stream is what AlignedUnlessShort says.                          *)
LEMMA AlignedIs ==
    ASSUME Types, Unbroken, Aligned
    PROVE  AlignedUnlessShort
<1> SUFFICES ASSUME ~short
             PROVE  /\ InOrder
                    /\ LET ahead == Rest(sent, Len(given))
                           rest == FlattenSeq([i \in DOMAIN ahead |-> MakePacket(ahead[i])])
                       IN  stream = IF iPacketSize = 0 THEN rest ELSE Rest(rest, Width)
  BY Zenon DEF AlignedUnlessShort
<1> DEFINE ahead == Rest(sent, Len(given))
           rest == FlattenSeq([i \in DOMAIN ahead |-> MakePacket(ahead[i])])
<1>1. Given /\ Known /\ (Between \/ Inside)
  BY Zenon DEF Aligned
<1>2. sent \in Seq(Message) /\ given \in Seq(Record)
  BY DEF Types
<1>3. PICK g \in Nat : g = Len(given) /\ g <= Len(sent)
  BY <1>1, <1>2 DEF Given
<1>4. rest = Written(PacketOf, Rest(sent, g))
  <2>1. Rest(sent, g) \in Seq(Message)
    BY <1>2, <1>3, Behind
  <2>2. PICK a \in Seq(Message) : a = ahead
    BY <1>3, <2>1, Zenon
  <2> HIDE DEF ahead
  <2>3. FlattenSeq([i \in DOMAIN a |-> MakePacket(a[i])]) = Written(PacketOf, a)
    BY AheadIs
  <2>4. QED
    BY <1>3, <2>2, <2>3, Zenon DEF ahead
<1> HIDE DEF rest
<1>5. stream = IF iPacketSize = 0 THEN rest ELSE Rest(rest, Width)
  <2>1. CASE Between
    BY <1>3, <1>4, <2>1, Zenon DEF Between
  <2>2. CASE Inside
    <3>1. /\ g < Len(sent) /\ iPacketSize = Len(Body(sent[g + 1]))
          /\ stream = Body(sent[g + 1]) \o Written(PacketOf, Rest(sent, g + 1))
      BY <1>3, <2>2, Zenon DEF Inside
    <3>2. PICK m \in Message : m = sent[g + 1]
      BY <3>1, MessageAt, Zenon
    <3>3. PICK w \in Seq(Byte) :
              w = Written(PacketOf, Rest(sent, g + 1)) /\ rest = MakePacket(m) \o w
      BY <1>4, <3>1, <3>2, MessageAt, Zenon
    <3>4. PICK body \in Seq(Byte) : body = Body(m) /\ Len(body) >= 2 * Width
      BY PacketIs, Zenon DEF PacketParts
    <3>5. PICK s \in Seq(Byte) : Len(s) = Width /\ MakePacket(m) = s \o body
      BY <3>4, PacketIs, Zenon DEF PacketParts
    <3>6. PICK x \in Seq(Byte) : x = body \o w
      BY Joined, Zenon
    <3>7. rest = s \o x
      <4>1. Grouped(s, body, w)
        BY Group, Zenon
      <4>2. QED
        BY <3>3, <3>5, <3>6, <4>1, Zenon DEF Grouped
    <3>8. Rest(rest, Width) = x
      <4>1. Heads(s, x)
        BY HeadOf, Zenon
      <4>2. QED
        BY <3>5, <3>7, <4>1, Zenon DEF Heads
    <3>9. iPacketSize # 0
      <4>1. Len(body) \in Nat /\ Width \in Nat /\ Width > 0
        BY WidthAssumption
      <4>2. Len(body) # 0
        BY <3>4, <4>1
      <4>3. QED
        BY <3>1, <3>2, <3>4, <4>2, Zenon
    <3>10. stream = x
      BY <3>1, <3>2, <3>3, <3>4, <3>6, Zenon
    <3>11. QED
      BY <3>8, <3>9, <3>10, Zenon
  <2>3. QED
    BY <1>1, <2>1, <2>2
<1>6. InOrder
  BY <1>1, GivenInOrder
<1>7. QED
  BY <1>5, <1>6, Zenon DEF rest

(* As long as no send and no receive came short, the processors were given *)
(* the packets of x_receivePacket in order, each once, complete and with   *)
(* the values that were assigned, and the stream is the rest of what was   *)
(* made.                                                                   *)
THEOREM AlignedPackets == Spec => []AlignedUnlessShort
<1>1. Init => Types /\ Unbroken /\ Aligned
  BY TypesInit, AlignedInit
<1>2. Types /\ Unbroken /\ Aligned /\ [Next]_vars => (Types /\ Unbroken /\ Aligned)'
  BY TypesStep, AlignedStep
<1>3. Types /\ Unbroken /\ Aligned => AlignedUnlessShort
  BY AlignedIs
<1>4. QED
  BY <1>1, <1>2, <1>3, PTL DEF Spec

-----------------------------------------------------------------------------
(* Interfaces: the invariant.                                              *)

(* The counters of data with o descriptors and r references.               *)
Right(o, r) == [refs |-> o, totalRefs |-> o + r,
                data |-> IF o = 0 THEN "deleted" ELSE "alive",
                base |-> IF o + r = 0 THEN "released" ELSE "made"]

Descriptors(d) == Cardinality(Owners(d))
Lent(d) == Cardinality(References(d))
Accounts == \A d \in Data : watcher[d] = Right(Descriptors(d), Lent(d))

(* While a center is shared it keeps a reference for every interface that  *)
(* is held of its data: no reference is made twice.                        *)
Kept ==
    \A s \in Slot, h \in Holder :
        center[s] # None /\ interface[h] # None =>
            (interface[h][1] = center[s] => interface[h][2] \in lendable[center[s]])

IInv == TypeOK /\ Accounts /\ Kept
-----------------------------------------------------------------------------
(* Counters.                                                               *)

(* A new base counts one descriptor.                                       *)
LEMMA NewRight == NewBase = Right(1, 0)
  BY DEF Right, NewBase

(* Counters are equal when their fields are.                               *)
LEMMA SameFields ==
  ASSUME NEW x \in BaseWatcher, NEW y \in BaseWatcher,
         x.refs = y.refs, x.totalRefs = y.totalRefs,
         x.data = y.data, x.base = y.base
  PROVE  x = y
  BY DEF BaseWatcher

(* What specificAdd changes.                                               *)
LEMMA AddFields ==
  ASSUME NEW x \in BaseWatcher, NEW b \in Behaivor
  PROVE  /\ SpecificAdd(x, b) \in BaseWatcher
         /\ SpecificAdd(x, b).refs = IF b = "DESCRIPTOR" THEN x.refs + 1 ELSE x.refs
         /\ SpecificAdd(x, b).totalRefs = x.totalRefs + 1
         /\ SpecificAdd(x, b).data = x.data
         /\ SpecificAdd(x, b).base = x.base
<1>1. x.refs \in Nat /\ x.totalRefs \in Nat
  BY DEF BaseWatcher
<1>2. PICK t \in Nat : t = x.totalRefs + 1
  BY <1>1
<1>3. PICK o \in Nat : o = IF b = "DESCRIPTOR" THEN x.refs + 1 ELSE x.refs
  BY <1>1
<1> DEFINE y == SpecificAdd(x, b)
<1>4. y = [x EXCEPT !.totalRefs = t, !.refs = o]
  BY <1>1, <1>2, <1>3 DEF SpecificAdd
<1>5. /\ y \in BaseWatcher /\ y.refs = o /\ y.totalRefs = t
      /\ y.data = x.data /\ y.base = x.base
  <2> HIDE DEF y
  <2> QED
    BY <1>4 DEF BaseWatcher
<1> QED
  BY <1>2, <1>3, <1>5

(* What specificLeave changes when there is somebody to leave.             *)
LEMMA LeaveFields ==
  ASSUME NEW x \in BaseWatcher, NEW b \in Behaivor, x.totalRefs > 0,
         b = "DESCRIPTOR" => x.refs > 0
  PROVE  /\ SpecificLeave(x, b) \in BaseWatcher
         /\ SpecificLeave(x, b).refs = IF b = "DESCRIPTOR" THEN x.refs - 1 ELSE x.refs
         /\ SpecificLeave(x, b).totalRefs = x.totalRefs - 1
         /\ SpecificLeave(x, b).data = x.data
         /\ SpecificLeave(x, b).base = x.base
<1>1. x.refs \in Nat /\ x.totalRefs \in Nat
  BY DEF BaseWatcher
<1>2. PICK t \in Nat : t = x.totalRefs - 1
  BY <1>1
<1>3. PICK o \in Nat : o = IF b = "DESCRIPTOR" THEN x.refs - 1 ELSE x.refs
  BY <1>1
<1> DEFINE y == SpecificLeave(x, b)
<1>4. y = [x EXCEPT !.totalRefs = t, !.refs = o]
  BY <1>1, <1>2, <1>3 DEF SpecificLeave
<1>5. /\ y \in BaseWatcher /\ y.refs = o /\ y.totalRefs = t
      /\ y.data = x.data /\ y.base = x.base
  <2> HIDE DEF y
  <2> QED
    BY <1>4 DEF BaseWatcher
<1> QED
  BY <1>2, <1>3, <1>5

(* What is deleted and released after somebody has left.                   *)
LEMMA LeftFields ==
  ASSUME NEW x \in BaseWatcher
  PROVE  /\ Left(x) \in BaseWatcher
         /\ Left(x).refs = x.refs
         /\ Left(x).totalRefs = x.totalRefs
         /\ Left(x).data = IF x.refs = 0 THEN "deleted" ELSE x.data
         /\ Left(x).base = IF x.totalRefs = 0 THEN "released" ELSE x.base
  BY DEF Left, BaseWatcher

(* A descriptor is copied from one that is there.                          *)
LEMMA AddDescriptor ==
  ASSUME NEW o \in Nat, NEW r \in Nat, o > 0
  PROVE  SpecificAdd(Right(o, r), "DESCRIPTOR") = Right(o + 1, r)
<1> DEFINE x == Right(o, r)
           y == SpecificAdd(x, "DESCRIPTOR")
           z == Right(o + 1, r)
<1>1. "DESCRIPTOR" \in Behaivor /\ o + 1 \in Nat /\ r \in Nat
  BY DEF Behaivor
<1>2. /\ x \in BaseWatcher /\ x.refs = o /\ x.totalRefs = o + r
      /\ x.data = IF o = 0 THEN "deleted" ELSE "alive"
      /\ x.base = IF o + r = 0 THEN "released" ELSE "made"
  BY DEF Right, BaseWatcher
<1>3. /\ z \in BaseWatcher /\ z.refs = o + 1 /\ z.totalRefs = o + 1 + r
      /\ z.data = IF o + 1 = 0 THEN "deleted" ELSE "alive"
      /\ z.base = IF o + 1 + r = 0 THEN "released" ELSE "made"
  BY <1>1 DEF Right, BaseWatcher
<1> HIDE DEF x, z
<1>4. /\ y \in BaseWatcher /\ y.refs = o + 1 /\ y.totalRefs = o + r + 1
      /\ y.data = x.data /\ y.base = x.base
  BY <1>1, <1>2, AddFields
<1> HIDE DEF y
<1>5. y = z
  BY <1>2, <1>3, <1>4, SameFields
<1> QED
  BY <1>5 DEF x, y, z

(* A reference is made while there is a descriptor.                        *)
LEMMA AddReference ==
  ASSUME NEW o \in Nat, NEW r \in Nat, o > 0
  PROVE  SpecificAdd(Right(o, r), "INTERFACE") = Right(o, r + 1)
<1> DEFINE x == Right(o, r)
           y == SpecificAdd(x, "INTERFACE")
           z == Right(o, r + 1)
<1>1. "INTERFACE" \in Behaivor /\ o \in Nat /\ r + 1 \in Nat
  BY DEF Behaivor
<1>2. /\ x \in BaseWatcher /\ x.refs = o /\ x.totalRefs = o + r
      /\ x.data = IF o = 0 THEN "deleted" ELSE "alive"
      /\ x.base = IF o + r = 0 THEN "released" ELSE "made"
  BY DEF Right, BaseWatcher
<1>3. /\ z \in BaseWatcher /\ z.refs = o /\ z.totalRefs = o + (r + 1)
      /\ z.data = IF o = 0 THEN "deleted" ELSE "alive"
      /\ z.base = IF o + (r + 1) = 0 THEN "released" ELSE "made"
  BY <1>1 DEF Right, BaseWatcher
<1> HIDE DEF x, z
<1>4. /\ y \in BaseWatcher /\ y.refs = o /\ y.totalRefs = o + r + 1
      /\ y.data = x.data /\ y.base = x.base
  BY <1>1, <1>2, AddFields
<1> HIDE DEF y
<1>5. y = z
  BY <1>2, <1>3, <1>4, SameFields
<1> QED
  BY <1>5 DEF x, y, z

(* A descriptor ends.                                                      *)
LEMMA KickDescriptor ==
  ASSUME NEW o \in Nat, NEW r \in Nat, o > 0
  PROVE  Kick(Right(o, r), "DESCRIPTOR") = Right(o - 1, r)
<1> DEFINE x == Right(o, r)
           y == Kick(x, "DESCRIPTOR")
           z == Right(o - 1, r)
<1>1. "DESCRIPTOR" \in Behaivor /\ o - 1 \in Nat /\ r \in Nat
  BY DEF Behaivor
<1>2. /\ x \in BaseWatcher /\ x.refs = o /\ x.totalRefs = o + r
      /\ x.data = IF o = 0 THEN "deleted" ELSE "alive"
      /\ x.base = IF o + r = 0 THEN "released" ELSE "made"
  BY DEF Right, BaseWatcher
<1>3. /\ z \in BaseWatcher /\ z.refs = o - 1 /\ z.totalRefs = o - 1 + r
      /\ z.data = IF o - 1 = 0 THEN "deleted" ELSE "alive"
      /\ z.base = IF o - 1 + r = 0 THEN "released" ELSE "made"
  BY <1>1 DEF Right, BaseWatcher
<1> HIDE DEF x, z
<1> DEFINE l == SpecificLeave(x, "DESCRIPTOR")
<1>4. /\ l \in BaseWatcher /\ l.refs = o - 1 /\ l.totalRefs = o + r - 1
      /\ l.data = x.data /\ l.base = x.base
  BY <1>1, <1>2, LeaveFields
<1>5. y = Left(l)
  BY DEF Kick
<1> HIDE DEF l, y
<1>6. /\ y \in BaseWatcher /\ y.refs = l.refs /\ y.totalRefs = l.totalRefs
      /\ y.data = IF l.refs = 0 THEN "deleted" ELSE l.data
      /\ y.base = IF l.totalRefs = 0 THEN "released" ELSE l.base
  BY <1>4, <1>5, LeftFields
<1>7. y = z
  BY <1>2, <1>3, <1>4, <1>6, SameFields
<1> QED
  BY <1>7 DEF x, y, z

(* A reference ends.                                                       *)
LEMMA KickReference ==
  ASSUME NEW o \in Nat, NEW r \in Nat, r > 0
  PROVE  Kick(Right(o, r), "INTERFACE") = Right(o, r - 1)
<1> DEFINE x == Right(o, r)
           y == Kick(x, "INTERFACE")
           z == Right(o, r - 1)
<1>1. "INTERFACE" \in Behaivor /\ o \in Nat /\ r - 1 \in Nat
  BY DEF Behaivor
<1>2. /\ x \in BaseWatcher /\ x.refs = o /\ x.totalRefs = o + r
      /\ x.data = IF o = 0 THEN "deleted" ELSE "alive"
      /\ x.base = IF o + r = 0 THEN "released" ELSE "made"
  BY DEF Right, BaseWatcher
<1>3. /\ z \in BaseWatcher /\ z.refs = o /\ z.totalRefs = o + (r - 1)
      /\ z.data = IF o = 0 THEN "deleted" ELSE "alive"
      /\ z.base = IF o + (r - 1) = 0 THEN "released" ELSE "made"
  BY <1>1 DEF Right, BaseWatcher
<1> HIDE DEF x, z
<1> DEFINE l == SpecificLeave(x, "INTERFACE")
<1>4. /\ l \in BaseWatcher /\ l.refs = o /\ l.totalRefs = o + r - 1
      /\ l.data = x.data /\ l.base = x.base
  BY <1>1, <1>2, LeaveFields
<1>5. y = Left(l)
  BY DEF Kick
<1> HIDE DEF l, y
<1>6. /\ y \in BaseWatcher /\ y.refs = l.refs /\ y.totalRefs = l.totalRefs
      /\ y.data = IF l.refs = 0 THEN "deleted" ELSE l.data
      /\ y.base = IF l.totalRefs = 0 THEN "released" ELSE l.base
  BY <1>4, <1>5, LeftFields
<1>7. y = z
  BY <1>2, <1>3, <1>4, <1>6, SameFields
<1> QED
  BY <1>7 DEF x, y, z

(* A reference is set to the data it is of.                                *)
LEMMA Reset ==
  ASSUME NEW o \in Nat, NEW r \in Nat, o > 0, r > 0
  PROVE  SpecificAdd(Kick(Right(o, r), "INTERFACE"), "INTERFACE") = Right(o, r)
<1>1. Kick(Right(o, r), "INTERFACE") = Right(o, r - 1)
  BY KickReference
<1>2. r - 1 \in Nat /\ (r - 1) + 1 = r
  OBVIOUS
<1> QED
  BY <1>1, <1>2, AddReference
-----------------------------------------------------------------------------
(* The sets that are counted.                                              *)

(* The descriptors and the references of one data are finitely many.       *)
LEMMA Finite ==
  ASSUME NEW d
  PROVE  /\ IsFiniteSet(Owners(d)) /\ Descriptors(d) \in Nat
         /\ Descriptors(d) > 0 <=> Owners(d) # {}
         /\ IsFiniteSet(References(d)) /\ Lent(d) \in Nat
         /\ Lent(d) > 0 <=> References(d) # {}
<1>1. IsFiniteSet(Owners(d)) /\ IsFiniteSet(References(d))
  BY SizesAssumption, FS_Subset DEF Owners, References
<1> QED
  BY <1>1, FS_CardinalityType, FS_EmptySet DEF Descriptors, Lent

(* Right counters of every data are Counted and Lifetimes.                 *)
LEMMA AccountsAre ==
  ASSUME TypeOK
  PROVE  Accounts <=> Counted /\ Lifetimes
<1> SUFFICES ASSUME NEW d \in Data
             PROVE  watcher[d] = Right(Descriptors(d), Lent(d)) <=>
                      /\ watcher[d].refs = Descriptors(d)
                      /\ watcher[d].totalRefs = Descriptors(d) + Lent(d)
                      /\ watcher[d].data = "alive" <=> Owners(d) # {}
                      /\ watcher[d].base = "made" <=>
                           Owners(d) # {} \/ References(d) # {}
  BY DEF Accounts, Counted, Lifetimes, Descriptors, Lent
<1>1. watcher[d] \in BaseWatcher
  BY DEF TypeOK
<1>2. Descriptors(d) + Lent(d) > 0 <=> Owners(d) # {} \/ References(d) # {}
  BY Finite
<1> QED
  BY <1>1, <1>2, Finite DEF Right, BaseWatcher

(* A step that is about one data e only, and leaves its counters right.    *)
LEMMA OneData ==
  ASSUME IInv, NEW e \in Data, NEW x,
         made' = made, watcher' = [watcher EXCEPT ![e] = x],
         \A d \in Data \ {e} : Owners(d)' = Owners(d) /\ References(d)' = References(d),
         x = Right(Descriptors(e)', Lent(e)'),
         Descriptors(e)' \in Nat, Lent(e)' \in Nat
  PROVE  watcher' \in [Data -> BaseWatcher] /\ Accounts'
<1>1. x \in BaseWatcher
  BY DEF Right, BaseWatcher
<1>2. watcher' \in [Data -> BaseWatcher]
  BY <1>1 DEF IInv, TypeOK
<1>3. ASSUME NEW d \in Data'
      PROVE  watcher'[d] = Right(Descriptors(d)', Lent(d)')
  <2>1. d \in Data
    BY DEF Data
  <2>2. CASE d = e
    BY <2>2 DEF IInv, TypeOK
  <2>3. CASE d # e
    <3>1. Owners(d)' = Owners(d) /\ References(d)' = References(d)
      BY <2>1, <2>3
    <3>2. Descriptors(d)' = Descriptors(d) /\ Lent(d)' = Lent(d)
      BY <3>1 DEF Descriptors, Lent
    <3>3. watcher'[d] = watcher[d]
      BY <2>1, <2>3 DEF IInv, TypeOK
    <3> QED
      BY <2>1, <3>2, <3>3 DEF IInv, Accounts
  <2> QED
    BY <2>2, <2>3
<1> QED
  BY <1>2, <1>3 DEF Accounts

(* A step that changes no counters and neither of the sets.                *)
LEMMA NoData ==
  ASSUME IInv, made' = made, watcher' = watcher,
         \A d \in Data : Owners(d)' = Owners(d) /\ References(d)' = References(d)
  PROVE  Accounts'
  BY DEF IInv, Accounts, Descriptors, Lent, Data
-----------------------------------------------------------------------------
(* The sets after a step.                                                  *)

(* References depend on what centers keep and holders share.               *)
LEMMA SameReferences ==
  ASSUME NEW d, lendable'[d] = lendable[d],
         \A k \in Key : Users(d, k)' = {} <=> Users(d, k) = {}
  PROVE  References(d)' = References(d)
  BY DEF References

(* A descriptor more is counted.                                           *)
LEMMA OneMore ==
  ASSUME NEW d, NEW s, Owners(d)' = Owners(d) \cup {s}, s \notin Owners(d)
  PROVE  Descriptors(d)' = Descriptors(d) + 1
  BY Finite, FS_AddElement DEF Descriptors

(* A descriptor less is no longer counted.                                 *)
LEMMA OneLess ==
  ASSUME NEW d, NEW s, Owners(d)' = Owners(d) \ {s}, s \in Owners(d)
  PROVE  Descriptors(d)' = Descriptors(d) - 1 /\ Descriptors(d) > 0
  BY Finite, FS_RemoveElement DEF Descriptors

(* A reference more is counted.                                            *)
LEMMA OneReferenceMore ==
  ASSUME NEW d, NEW k, References(d)' = References(d) \cup {k}, k \notin References(d)
  PROVE  Lent(d)' = Lent(d) + 1
  BY Finite, FS_AddElement DEF Lent

(* A reference less is no longer counted.                                  *)
LEMMA OneReferenceLess ==
  ASSUME NEW d, NEW k, References(d)' = References(d) \ {k}, k \in References(d)
  PROVE  Lent(d)' = Lent(d) - 1 /\ Lent(d) > 0
  BY Finite, FS_RemoveElement DEF Lent
-----------------------------------------------------------------------------
(* Initially there is no data.                                             *)
LEMMA InitIInv == InterfacesInit => IInv
<1> SUFFICES ASSUME InterfacesInit PROVE IInv
  OBVIOUS
<1>1. Data = {}
  BY DEF InterfacesInit, Data
<1>2. TypeOK
  BY <1>1, SizesAssumption DEF InterfacesInit, TypeOK, Whole
<1>3. Kept
  BY DEF InterfacesInit, Kept
<1> QED
  BY <1>1, <1>2, <1>3 DEF IInv, Accounts

(* New data has one descriptor and nothing lent.                           *)
LEMMA CreateStep ==
  ASSUME IInv, NEW s \in Slot, Create(s)
  PROVE  IInv'
<1>1. PICK n : n = made + 1
  OBVIOUS
<1>2. made \in Nat /\ made' = n /\ n \in Nat /\ n <= MaxData /\ n \notin Data
      /\ Data' = Data \cup {n}
  BY <1>1, SizesAssumption DEF Create, IInv, TypeOK, Data
<1>3. /\ watcher'[n] = NewBase /\ \A d \in Data : watcher'[d] = watcher[d]
      /\ lendable'[n] = {} /\ \A d \in Data : lendable'[d] = lendable[d]
  BY <1>1, <1>2 DEF Create, Data
<1>4. \A d \in Data : Descriptors(d)' = Descriptors(d) /\ Lent(d)' = Lent(d)
  <2> TAKE d \in Data
  <2>1. Owners(d)' = Owners(d)
    BY <1>1, <1>2, NoneAssumption DEF Create, Vacant, Owners, IInv, TypeOK, Data
  <2>2. References(d)' = References(d)
    BY <1>3, SameReferences DEF Create, Users
  <2> QED
    BY <2>1, <2>2 DEF Descriptors, Lent
<1>5. Owners(n)' = {s} /\ References(n)' = {}
  <2>1. Owners(n)' = {s}
    BY <1>1, <1>2, NoneAssumption DEF Create, Owners, IInv, TypeOK
  <2>2. \A h \in Holder, k \in Key : interface[h] # <<n, k>>
    <3> SUFFICES ASSUME NEW h \in Holder, NEW k \in Key, interface[h] = <<n, k>>
                 PROVE  FALSE
      OBVIOUS
    <3>1. interface[h] \in Data \X Key
      BY <1>2, NoneAssumption DEF IInv, TypeOK
    <3> QED
      BY <1>2, <3>1
  <2> QED
    BY <1>3, <2>1, <2>2 DEF Create, References, Users
<1>6. Descriptors(n)' = 1 /\ Lent(n)' = 0
  BY <1>5, FS_EmptySet, FS_Singleton DEF Descriptors, Lent
<1>7. Accounts'
  BY <1>2, <1>3, <1>4, <1>6, NewRight DEF Accounts, IInv, TypeOK
<1>8. watcher' \in [Data' -> BaseWatcher]
  BY <1>1, <1>2 DEF Create, NewBase, BaseWatcher, Data, IInv, TypeOK
<1>9. TypeOK'
  <2>1. made' \in 0..MaxData
    BY <1>2, SizesAssumption
  <2>2. lendable' \in [Data' -> SUBSET Key]
    BY <1>1, <1>2 DEF Create, Data, IInv, TypeOK
  <2>3. /\ descriptor' \in [Slot -> Data' \cup {None}]
        /\ center' \in [Slot -> Data' \cup {None}]
        /\ interface' \in [Holder -> (Data' \X Key) \cup {None}]
    BY <1>1, <1>2 DEF Create, IInv, TypeOK
  <2>4. (\A t \in Slot : Whole(t) => center[t] = descriptor[t])'
    BY DEF Create, IInv, TypeOK, Whole
  <2> QED
    BY <1>8, <2>1, <2>2, <2>3, <2>4 DEF TypeOK
<1>10. Kept'
  <2> SUFFICES ASSUME NEW t \in Slot, NEW h \in Holder,
                      center'[t] # None, interface[h] # None,
                      interface[h][1] = center'[t]
               PROVE  interface[h][2] \in lendable'[center'[t]]
    BY DEF Kept, Create
  <2>1. interface[h] \in Data \X Key
    BY DEF IInv, TypeOK
  <2>2. t # s /\ center'[t] = center[t] /\ center[t] \in Data
    BY <1>1, <1>2, <2>1 DEF Create, IInv, TypeOK
  <2> QED
    BY <1>3, <2>2 DEF IInv, Kept
<1> QED
  BY <1>7, <1>9, <1>10 DEF IInv

(* A copied descriptor counts.                                             *)
LEMMA CopyStep ==
  ASSUME IInv, NEW s \in Slot, NEW t \in Slot, Copy(s, t)
  PROVE  IInv'
<1>1. PICK e \in Data : e = descriptor[t] /\ e = center[t]
  BY DEF Copy, Whole, IInv, TypeOK
<1>2. /\ descriptor[s] = None /\ center[s] = None /\ e # None
      /\ descriptor' = [descriptor EXCEPT ![s] = e]
      /\ center' = [center EXCEPT ![s] = e]
      /\ watcher' = [watcher EXCEPT ![e] = SpecificAdd(watcher[e], "DESCRIPTOR")]
      /\ UNCHANGED <<made, lendable, interface>>
  BY <1>1 DEF Copy, Vacant, Whole
<1>3. \A d \in Data \ {e} : Owners(d)' = Owners(d)
  BY <1>2, NoneAssumption DEF Owners, IInv, TypeOK, Data
<1>4. Owners(e)' = Owners(e) \cup {s} /\ s \notin Owners(e)
  BY <1>2 DEF Owners, IInv, TypeOK
<1>5. \A d \in Data : References(d)' = References(d)
  BY <1>2 DEF References, Users
<1>6. Descriptors(e)' = Descriptors(e) + 1 /\ Lent(e)' = Lent(e)
  BY <1>4, <1>5, OneMore DEF Lent
<1>7. Descriptors(e) > 0
  <2>1. t \in Owners(e)
    BY <1>1 DEF Owners
  <2> QED
    BY <2>1, Finite
<1>8. SpecificAdd(watcher[e], "DESCRIPTOR") = Right(Descriptors(e)', Lent(e)')
  <2>1. watcher[e] = Right(Descriptors(e), Lent(e))
    BY DEF IInv, Accounts
  <2>2. Descriptors(e) \in Nat /\ Lent(e) \in Nat
    BY Finite
  <2> QED
    BY <1>6, <1>7, <2>1, <2>2, AddDescriptor
<1>9. Descriptors(e)' \in Nat /\ Lent(e)' \in Nat
  BY <1>6, Finite
<1>10. watcher' \in [Data -> BaseWatcher] /\ Accounts'
  BY <1>2, <1>3, <1>5, <1>8, <1>9, OneData
<1>11. TypeOK'
  BY <1>1, <1>2, <1>10 DEF IInv, TypeOK, Whole, Data
<1>12. Kept'
  BY <1>1, <1>2 DEF IInv, TypeOK, Kept
<1> QED
  BY <1>10, <1>11, <1>12 DEF IInv

(* A descriptor that ends is no longer counted.                            *)
LEMMA EndWatchStep ==
  ASSUME IInv, NEW s \in Slot, EndWatch(s)
  PROVE  IInv'
<1>1. PICK e \in Data : e = descriptor[s]
  BY DEF EndWatch, IInv, TypeOK
<1>2. /\ descriptor' = [descriptor EXCEPT ![s] = None]
      /\ watcher' = [watcher EXCEPT ![e] = Kick(watcher[e], "DESCRIPTOR")]
      /\ UNCHANGED <<made, center, lendable, interface>>
  BY <1>1 DEF EndWatch
<1>3. \A d \in Data \ {e} : Owners(d)' = Owners(d)
  BY <1>1, <1>2, NoneAssumption DEF Owners, IInv, TypeOK, Data
<1>4. Owners(e)' = Owners(e) \ {s} /\ s \in Owners(e)
  BY <1>1, <1>2, NoneAssumption DEF Owners, IInv, TypeOK, Data
<1>5. \A d \in Data : References(d)' = References(d)
  BY <1>2 DEF References, Users
<1>6. Descriptors(e)' = Descriptors(e) - 1 /\ Lent(e)' = Lent(e) /\ Descriptors(e) > 0
  BY <1>4, <1>5, OneLess DEF Lent
<1>7. Descriptors(e) \in Nat /\ Lent(e) \in Nat
  BY Finite
<1>8. Kick(watcher[e], "DESCRIPTOR") = Right(Descriptors(e)', Lent(e)')
  <2>1. watcher[e] = Right(Descriptors(e), Lent(e))
    BY DEF IInv, Accounts
  <2> QED
    BY <1>6, <1>7, <2>1, KickDescriptor
<1>9. Descriptors(e)' \in Nat /\ Lent(e)' \in Nat
  BY <1>6, <1>7
<1>10. watcher' \in [Data -> BaseWatcher] /\ Accounts'
  BY <1>2, <1>3, <1>5, <1>8, <1>9, OneData
<1>11. TypeOK'
  BY <1>2, <1>10 DEF IInv, TypeOK, Whole, Data
<1>12. Kept'
  BY <1>2 DEF IInv, Kept
<1> QED
  BY <1>10, <1>11, <1>12 DEF IInv

(* The end of a share of a center changes neither set.                     *)
LEMMA EndCenterStep ==
  ASSUME IInv, NEW s \in Slot, EndCenter(s)
  PROVE  IInv'
<1>1. Accounts'
  BY NoData DEF EndCenter, Owners, References, Users
<1>2. TypeOK'
  BY DEF EndCenter, IInv, TypeOK, Whole, Data
<1>3. Kept'
  BY DEF EndCenter, IInv, TypeOK, Kept
<1> QED
  BY <1>1, <1>2, <1>3 DEF IInv

(* A reference a center gives up ends unless a holder shares it.           *)
LEMMA EndReferenceStep ==
  ASSUME IInv, NEW e \in Data, NEW k \in Key, EndReference(e, k)
  PROVE  IInv'
<1>1. /\ k \in lendable[e]
      /\ lendable' = [lendable EXCEPT ![e] = lendable[e] \ {k}]
      /\ UNCHANGED <<made, descriptor, center, interface>>
  BY DEF EndReference
<1>2. \A d \in Data : Owners(d)' = Owners(d)
  BY <1>1 DEF Owners
<1>3. \A d \in Data \ {e} : References(d)' = References(d)
  BY <1>1 DEF References, Users, IInv, TypeOK
<1>4. watcher' \in [Data -> BaseWatcher] /\ Accounts'
  <2>1. CASE Users(e, k) = {}
    <3>1. watcher' = [watcher EXCEPT ![e] = Kick(watcher[e], "INTERFACE")]
      BY <2>1 DEF EndReference
    <3>2. References(e)' = References(e) \ {k} /\ k \in References(e)
      BY <1>1, <2>1 DEF References, Users, IInv, TypeOK
    <3>3. Lent(e)' = Lent(e) - 1 /\ Lent(e) > 0 /\ Descriptors(e)' = Descriptors(e)
      BY <1>2, <3>2, OneReferenceLess DEF Descriptors
    <3>4. Descriptors(e) \in Nat /\ Lent(e) \in Nat
      BY Finite
    <3>5. Kick(watcher[e], "INTERFACE") = Right(Descriptors(e)', Lent(e)')
      <4>1. watcher[e] = Right(Descriptors(e), Lent(e))
        BY DEF IInv, Accounts
      <4> QED
        BY <3>3, <3>4, <4>1, KickReference
    <3>6. Descriptors(e)' \in Nat /\ Lent(e)' \in Nat
      BY <3>3, <3>4
    <3> QED
      BY <1>1, <1>2, <1>3, <3>1, <3>5, <3>6, OneData
  <2>2. CASE Users(e, k) # {}
    <3>1. watcher' = watcher
      BY <2>2 DEF EndReference
    <3>2. References(e)' = References(e)
      BY <1>1, <2>2 DEF References, Users, IInv, TypeOK
    <3>3. Accounts'
      BY <1>1, <1>2, <1>3, <3>1, <3>2, NoData
    <3> QED
      BY <3>1, <3>3 DEF IInv, TypeOK
  <2> QED
    BY <2>1, <2>2
<1>5. TypeOK'
  BY <1>1, <1>4 DEF IInv, TypeOK, Whole, Data
<1>6. Kept'
  BY DEF EndReference, IInv, TypeOK, Kept
<1> QED
  BY <1>4, <1>5, <1>6 DEF IInv

(* An interface that is taken is a reference made, or the one kept.        *)
LEMMA TakeStep ==
  ASSUME IInv, NEW s \in Slot, NEW h \in Holder, NEW k \in Key, Take(s, h, k)
  PROVE  IInv'
<1>1. PICK e \in Data : e = center[s] /\ e = descriptor[s]
  BY DEF Take, Whole, IInv, TypeOK
<1>2. /\ lendable' = [lendable EXCEPT ![e] = lendable[e] \cup {k}]
      /\ interface[h] = None
      /\ interface' = [interface EXCEPT ![h] = <<e, k>>]
      /\ UNCHANGED <<made, descriptor, center>>
  BY <1>1 DEF Take
<1>3. \A d \in Data : Owners(d)' = Owners(d)
  BY <1>2 DEF Owners
<1>4. \A d \in Data, l \in Key : <<d, l>> # <<e, k>> => Users(d, l)' = Users(d, l)
  <2> TAKE d \in Data, l \in Key
  <2>1. interface[h] # <<d, l>>
    BY <1>2, NoneAssumption DEF Data
  <2> QED
    BY <1>2, <2>1 DEF Users, IInv, TypeOK
<1>5. \A d \in Data \ {e} : References(d)' = References(d)
  BY <1>2, <1>4 DEF References, IInv, TypeOK
<1>6. References(e)' = References(e) \cup {k}
  BY <1>2, <1>4 DEF References, IInv, TypeOK
<1>7. Descriptors(e) \in Nat /\ Lent(e) \in Nat /\ Descriptors(e) > 0
      /\ Descriptors(e)' = Descriptors(e)
  <2>1. s \in Owners(e)
    BY <1>1 DEF Owners
  <2> QED
    BY <1>3, <2>1, Finite DEF Descriptors
<1>8. watcher[e] = Right(Descriptors(e), Lent(e))
  BY DEF IInv, Accounts
<1>9. watcher' \in [Data -> BaseWatcher] /\ Accounts'
  <2>1. CASE k \notin lendable[e]
    <3>1. watcher' = [watcher EXCEPT ![e] = SpecificAdd(watcher[e], "INTERFACE")]
      BY <1>1, <2>1 DEF Take
    <3>2. k \notin References(e)
      <4>1. ASSUME NEW g \in Holder, interface[g] = <<e, k>>
            PROVE  k \in lendable[e]
        <5>1. center[s] # None /\ interface[g] # None
          BY <1>1, <4>1, NoneAssumption DEF Data
        <5>2. interface[g][1] = e /\ interface[g][2] = k
          BY <4>1
        <5> QED
          BY <1>1, <5>1, <5>2 DEF IInv, Kept
      <4> QED
        BY <2>1, <4>1 DEF References, Users
    <3>3. Lent(e)' = Lent(e) + 1
      BY <1>6, <3>2, OneReferenceMore
    <3>4. SpecificAdd(watcher[e], "INTERFACE") = Right(Descriptors(e)', Lent(e)')
      BY <1>7, <1>8, <3>3, AddReference
    <3>5. Descriptors(e)' \in Nat /\ Lent(e)' \in Nat
      BY <1>7, <3>3
    <3> QED
      BY <1>2, <1>3, <1>5, <3>1, <3>4, <3>5, OneData
  <2>2. CASE k \in lendable[e]
    <3>1. k \in References(e)
      BY <2>2 DEF References
    <3>2. References(e)' = References(e)
      BY <1>6, <3>1
    <3>3. Lent(e)' = Lent(e) /\ Lent(e) > 0
      BY <3>1, <3>2, Finite DEF Lent
    <3>4. CASE k \in Mapped
      <4>1. watcher' = watcher
        BY <1>1, <2>2, <3>4 DEF Take
      <4> QED
        BY <1>2, <1>3, <1>5, <3>2, <4>1, NoData DEF IInv, TypeOK
    <3>5. CASE k \notin Mapped
      <4>1. watcher' = [watcher EXCEPT ![e] =
                            SpecificAdd(Kick(watcher[e], "INTERFACE"), "INTERFACE")]
        BY <1>1, <2>2, <3>5 DEF Take
      <4>2. SpecificAdd(Kick(watcher[e], "INTERFACE"), "INTERFACE")
              = Right(Descriptors(e)', Lent(e)')
        BY <1>7, <1>8, <3>3, Reset
      <4> QED
        BY <1>2, <1>3, <1>5, <1>7, <3>3, <4>1, <4>2, OneData
    <3> QED
      BY <3>4, <3>5
  <2> QED
    BY <2>1, <2>2
<1>10. TypeOK'
  BY <1>2, <1>9 DEF IInv, TypeOK, Whole, Data
<1>11. Kept'
  BY <1>1, <1>2 DEF IInv, TypeOK, Kept
<1> QED
  BY <1>9, <1>10, <1>11 DEF IInv

(* Two holders of one reference count as one.                              *)
LEMMA CopyInterfaceStep ==
  ASSUME IInv, NEW h \in Holder, NEW g \in Holder, CopyInterface(h, g)
  PROVE  IInv'
<1>1. interface[h] = None /\ interface[g] # None
      /\ interface' = [interface EXCEPT ![h] = interface[g]]
      /\ UNCHANGED <<made, watcher, descriptor, center, lendable>>
  BY DEF CopyInterface
<1>2. \A d \in Data, k \in Key : Users(d, k)' = {} <=> Users(d, k) = {}
  <2> TAKE d \in Data, k \in Key
  <2>1. interface[h] # <<d, k>>
    BY <1>1, NoneAssumption DEF Data
  <2> QED
    BY <1>1, <2>1 DEF Users, IInv, TypeOK
<1>3. \A d \in Data : Owners(d)' = Owners(d) /\ References(d)' = References(d)
  BY <1>1, <1>2, SameReferences DEF Owners
<1>4. Accounts'
  BY <1>1, <1>3, NoData
<1>5. TypeOK'
  BY <1>1 DEF IInv, TypeOK, Whole, Data
<1>6. Kept'
  BY <1>1 DEF IInv, TypeOK, Kept
<1> QED
  BY <1>4, <1>5, <1>6 DEF IInv

(* The last holder of a reference no center keeps ends it.                 *)
LEMMA EndInterfaceStep ==
  ASSUME IInv, NEW h \in Holder, EndInterface(h)
  PROVE  IInv'
<1>1. PICK e \in Data, k \in Key : interface[h] = <<e, k>>
  BY DEF EndInterface, IInv, TypeOK
<1>2. /\ interface' = [interface EXCEPT ![h] = None]
      /\ watcher' = IF k \notin lendable[e] /\ Users(e, k) = {h}
                    THEN [watcher EXCEPT ![e] = Kick(watcher[e], "INTERFACE")]
                    ELSE watcher
      /\ UNCHANGED <<made, descriptor, center, lendable>>
  BY <1>1 DEF EndInterface
<1>3. \A d \in Data : Owners(d)' = Owners(d)
  BY <1>2 DEF Owners
<1>4. \A d \in Data, l \in Key : <<d, l>> # <<e, k>> => Users(d, l)' = Users(d, l)
  <2> TAKE d \in Data, l \in Key
  <2>1. None # <<d, l>>
    BY NoneAssumption DEF Data
  <2> QED
    BY <1>1, <1>2, <2>1 DEF Users, IInv, TypeOK
<1>5. Users(e, k)' = Users(e, k) \ {h} /\ h \in Users(e, k)
  <2>1. None # <<e, k>>
    BY NoneAssumption DEF Data
  <2> QED
    BY <1>1, <1>2, <2>1 DEF Users, IInv, TypeOK
<1>6. \A d \in Data \ {e} : References(d)' = References(d)
  BY <1>2, <1>4 DEF References
<1>7. watcher' \in [Data -> BaseWatcher] /\ Accounts'
  <2>1. CASE k \notin lendable[e] /\ Users(e, k) = {h}
    <3>1. References(e)' = References(e) \ {k} /\ k \in References(e)
      BY <1>2, <1>4, <1>5, <2>1 DEF References
    <3>2. Lent(e)' = Lent(e) - 1 /\ Lent(e) > 0 /\ Descriptors(e)' = Descriptors(e)
      BY <1>3, <3>1, OneReferenceLess DEF Descriptors
    <3>3. Descriptors(e) \in Nat /\ Lent(e) \in Nat
      BY Finite
    <3>4. Kick(watcher[e], "INTERFACE") = Right(Descriptors(e)', Lent(e)')
      <4>1. watcher[e] = Right(Descriptors(e), Lent(e))
        BY DEF IInv, Accounts
      <4> QED
        BY <3>2, <3>3, <4>1, KickReference
    <3>5. Descriptors(e)' \in Nat /\ Lent(e)' \in Nat
      BY <3>2, <3>3
    <3>6. watcher' = [watcher EXCEPT ![e] = Kick(watcher[e], "INTERFACE")]
      BY <1>2, <2>1
    <3> QED
      BY <1>2, <1>3, <1>6, <3>4, <3>5, <3>6, OneData
  <2>2. CASE ~(k \notin lendable[e] /\ Users(e, k) = {h})
    <3>1. References(e)' = References(e)
      BY <1>2, <1>4, <1>5, <2>2 DEF References
    <3>2. watcher' = watcher
      BY <1>2, <2>2
    <3> QED
      BY <1>2, <1>3, <1>6, <3>1, <3>2, NoData DEF IInv, TypeOK
  <2> QED
    BY <2>1, <2>2
<1>8. TypeOK'
  BY <1>2, <1>7 DEF IInv, TypeOK, Whole, Data
<1>9. Kept'
  BY <1>2 DEF IInv, TypeOK, Kept
<1> QED
  BY <1>7, <1>8, <1>9 DEF IInv
-----------------------------------------------------------------------------
(* Every step preserves the invariant.                                     *)
LEMMA NextIInv == IInv /\ [InterfacesNext]_interfacesVars => IInv'
<1> SUFFICES ASSUME IInv, [InterfacesNext]_interfacesVars PROVE IInv'
  OBVIOUS
<1>1. CASE UNCHANGED interfacesVars
  <2>1. Accounts'
    BY <1>1, NoData DEF interfacesVars, Owners, References, Users
  <2>2. TypeOK'
    BY <1>1 DEF interfacesVars, IInv, TypeOK, Whole, Data
  <2>3. Kept'
    BY <1>1 DEF interfacesVars, IInv, Kept
  <2> QED
    BY <2>1, <2>2, <2>3 DEF IInv
<1>2. ASSUME NEW s \in Slot, Create(s) \/ EndWatch(s) \/ EndCenter(s) PROVE IInv'
  BY <1>2, CreateStep, EndWatchStep, EndCenterStep
<1>3. ASSUME NEW s \in Slot, NEW t \in Slot, Copy(s, t) PROVE IInv'
  BY <1>3, CopyStep
<1>4. ASSUME NEW d \in Data, NEW k \in Key, EndReference(d, k) PROVE IInv'
  BY <1>4, EndReferenceStep
<1>5. ASSUME NEW s \in Slot, NEW h \in Holder, NEW k \in Key, Take(s, h, k) PROVE IInv'
  BY <1>5, TakeStep
<1>6. ASSUME NEW h \in Holder, NEW g \in Holder, CopyInterface(h, g) PROVE IInv'
  BY <1>6, CopyInterfaceStep
<1>7. ASSUME NEW h \in Holder, EndInterface(h) PROVE IInv'
  BY <1>7, EndInterfaceStep
<1> QED
  BY <1>1, <1>2, <1>3, <1>4, <1>5, <1>6, <1>7 DEF InterfacesNext

(* The invariant holds throughout.                                         *)
THEOREM Invariant == InterfacesSpec => []IInv
<1>1. InterfacesInit => IInv
  BY InitIInv
<1>2. IInv /\ [InterfacesNext]_interfacesVars => IInv'
  BY NextIInv
<1> QED
  BY <1>1, <1>2, PTL DEF InterfacesSpec

(* Descriptors, centers and interfaces name data that was made, and a      *)
(* descriptor that is whole shares the center of its own data.             *)
THEOREM TypeCorrect == InterfacesSpec => []TypeOK
<1>1. IInv => TypeOK
  BY DEF IInv
<1> QED
  BY <1>1, Invariant, PTL

(* iTotalRefs and the references of the base count who is there, in        *)
(* whatever order descriptors, centers and holders end.                    *)
THEOREM CountersRight == InterfacesSpec => []Counted
<1>1. IInv => Counted
  BY AccountsAre DEF IInv
<1> QED
  BY <1>1, Invariant, PTL

(* Data is deleted with its last descriptor, the base released when nobody *)
(* is left, and neither before.                                            *)
THEOREM LifetimesRight == InterfacesSpec => []Lifetimes
<1>1. IInv => Lifetimes
  BY AccountsAre DEF IInv
<1> QED
  BY <1>1, Invariant, PTL
=============================================================================
