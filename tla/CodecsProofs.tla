---------------------------- MODULE CodecsProofs ----------------------------
(***************************************************************************)
(* Proofs about the integers of serialize.h and the transactions of        *)
(* transaction.h.                                                          *)
(*                                                                         *)
(* CompactSize and VarInt are one-to-one, for every base of the digits,    *)
(* every limit, every integer of eight bytes and every string of bytes.    *)
(* What is recursive is proved by induction on a set of natural numbers    *)
(* (Induct), from the least number that is not in it.                      *)
(*                                                                         *)
(* What is written of a transaction comes back, and the txid says          *)
(* everything about it but its witnesses.  Every reader is shown to take a *)
(* stream that starts with what the writer wrote to the stream behind it,  *)
(* with the value on top.  The lemmas compose as the readers do; those     *)
(* about vectors and chunks go by induction along the steps of the reader. *)
(***************************************************************************)
EXTENDS Codecs, SequenceTheorems, WellFoundedInduction, TLAPS

-----------------------------------------------------------------------------
(* Induction and recursion over the natural numbers *)

\* A set of natural numbers has a least one.
LEMMA LeastNumber ==
    ASSUME NEW T, T \subseteq Nat, T # {}
    PROVE  \E x \in T : \A y \in T : ~(y < x)
<1> DEFINE R == OpToRel(<, Nat)
<1>1. IsWellFoundedOn(R, Nat)
  BY NatLessThanWellFounded
<1> HIDE DEF R
<1>2. \E x \in T : \A y \in T : ~(<<y, x>> \in R)
  BY <1>1, WFMin
<1> QED
  BY <1>2 DEF R, OpToRel

\* Induction, on a set.
LEMMA Induct ==
    ASSUME NEW T, \A n \in Nat : (\A m \in 0..(n - 1) : m \in T) => n \in T
    PROVE  \A n \in Nat : n \in T
<1> SUFFICES ASSUME Nat \ T # {} PROVE FALSE
  OBVIOUS
<1>1. PICK x \in Nat \ T : \A y \in Nat \ T : ~(y < x)
  BY LeastNumber
<1>2. \A m \in 0..(x - 1) : m \in T
  BY <1>1
<1> QED
  BY <1>1, <1>2

\* A function that looks, at n outside Z, at its value at p[n] < n.
Descends(p, Z) == \A n \in Nat \ Z : p[n] < n
Recurs(f, Z, a, p, b) == \A n \in Nat : f[n] = IF n \in Z THEN a[n] ELSE b[n][f[p[n]]]

\* A function is defined by its values on Z and a rule that goes down elsewhere.
LEMMA Recursion ==
    ASSUME NEW S, NEW Z, NEW a \in [Nat -> S], NEW p \in [Nat -> Nat], NEW b \in [Nat -> [S -> S]],
           Descends(p, Z)
    PROVE  \E f \in [Nat -> S] : Recurs(f, Z, a, p, b)
<1> USE DEF Descends
<1> DEFINE Rule(f, n) == f[n] = IF n \in Z THEN a[n] ELSE b[n][f[p[n]]]
           UpTo(N) == {f \in [Nat -> S] : \A n \in 0..N : Rule(f, n)}
           T == {N \in Nat : UpTo(N) # {}}
<1>1. ASSUME NEW N \in Nat, \A m \in 0..(N - 1) : m \in T PROVE N \in T
  <2>1. PICK g \in [Nat -> S] : \A n \in 0..(N - 1) : Rule(g, n)
    <3>1. CASE N = 0
      BY <3>1
    <3>2. CASE N # 0
      <4>1. N - 1 \in 0..(N - 1)
        BY <3>2
      <4> QED
        BY <1>1, <4>1, ZenonT(60)
    <3> QED
      BY <3>1, <3>2
  <2> DEFINE v == IF N \in Z THEN a[N] ELSE b[N][g[p[N]]]
             f == [g EXCEPT ![N] = v]
  <2>2. v \in S
    <3>1. g[p[N]] \in S /\ a[N] \in S
      OBVIOUS
    <3>2. b[N] \in [S -> S]
      OBVIOUS
    <3> QED
      BY <3>1, <3>2
  <2>3. f \in [Nat -> S] /\ f[N] = v /\ \A n \in Nat : n # N => f[n] = g[n]
    BY <2>2
  <2> HIDE DEF f
  <2>4. \A n \in 0..N : Rule(f, n)
    <3> TAKE n \in 0..N
    <3>1. n \in Nat /\ n <= N
      OBVIOUS
    <3>2. n \notin Z => p[n] \in Nat /\ p[n] < n
      BY <3>1
    <3>3. n \notin Z => f[p[n]] = g[p[n]]
      BY <2>3, <3>1, <3>2
    <3>4. CASE n = N
      BY <2>3, <3>3, <3>4
    <3>5. CASE n # N
      BY <2>1, <2>3, <3>1, <3>3, <3>5
    <3> QED
      BY <3>4, <3>5
  <2>5. f \in UpTo(N)
    BY <2>3, <2>4
  <2> QED
    BY <2>5
<1>2. \A N \in Nat : N \in T
  <2> HIDE DEF T
  <2> QED
    BY <1>1, Induct
<1> DEFINE g == [N \in Nat |-> CHOOSE f \in UpTo(N) : TRUE]
<1>3. \A N \in Nat : g[N] \in UpTo(N)
  BY <1>2
<1> HIDE DEF g, T
<1>4. ASSUME NEW N \in Nat PROVE \A n \in Nat : n <= N => g[N][n] = g[n][n]
  <2> DEFINE E == {n \in Nat : n <= N => g[N][n] = g[n][n]}
  <2>0. ASSUME NEW i \in Nat, NEW j \in Nat
        PROVE  \A n \in Nat : n <= i /\ n <= j => g[i][n] = g[j][n]
    <3> DEFINE D == {n \in Nat : n <= i /\ n <= j => g[i][n] = g[j][n]}
    <3>1. ASSUME NEW n \in Nat, \A m \in 0..(n - 1) : m \in D PROVE n \in D
      <4> SUFFICES ASSUME n <= i, n <= j PROVE g[i][n] = g[j][n]
        OBVIOUS
      <4>1. n \in 0..i /\ n \in 0..j
        OBVIOUS
      <4>2. Rule(g[i], n) /\ Rule(g[j], n)
        BY <1>3, <4>1
      <4>3. n \notin Z => p[n] \in 0..(n - 1)
        OBVIOUS
      <4>4. n \notin Z => g[i][p[n]] = g[j][p[n]]
        BY <3>1, <4>1, <4>3
      <4> QED
        BY <4>2, <4>4
    <3> HIDE DEF D
    <3>2. \A n \in Nat : n \in D
      BY <3>1, Induct
    <3> QED
      BY <3>2 DEF D
  <2> QED
    BY <2>0
<1> DEFINE h == [n \in Nat |-> g[n][n]]
<1>5. h \in [Nat -> S]
  BY <1>3
<1>6. ASSUME NEW n \in Nat PROVE Rule(h, n)
  <2>1. n \in 0..n
    OBVIOUS
  <2>2. Rule(g[n], n)
    BY <1>3, <2>1
  <2>3. n \notin Z => p[n] \in Nat /\ p[n] <= n
    OBVIOUS
  <2>4. n \notin Z => h[p[n]] = g[n][p[n]]
    BY <1>4, <2>3
  <2> QED
    BY <2>2, <2>4
<1> QED
  BY <1>5, <1>6 DEF Recurs

\* Functions that agree at n as soon as they agree before n are one.
LEMMA Agree ==
    ASSUME NEW N \in Nat, NEW f, NEW g,
           \A n \in 0..N : (\A m \in 0..(n - 1) : f[m] = g[m]) => f[n] = g[n]
    PROVE  \A n \in 0..N : f[n] = g[n]
<1> DEFINE T == {n \in Nat : n <= N => f[n] = g[n]}
<1>1. ASSUME NEW n \in Nat, \A m \in 0..(n - 1) : m \in T PROVE n \in T
  <2> SUFFICES ASSUME n <= N PROVE f[n] = g[n]
    OBVIOUS
  <2>1. n \in 0..N /\ \A m \in 0..(n - 1) : f[m] = g[m]
    BY <1>1
  <2> QED
    BY <2>1
<1>2. \A n \in Nat : n \in T
  <2> HIDE DEF T
  <2> QED
    BY <1>1, Induct
<1> QED
  BY <1>2

\* A function given by its first value and by each from the one before.
Chain(f, N, v, b) == f[0] = v /\ \A n \in 1..N : f[n] = b[n][f[n - 1]]

\* A function along 0..N is defined by where it starts and one step of it.
LEMMA Chains ==
    ASSUME NEW S, NEW N \in Nat, NEW v \in S, NEW b \in [Nat -> [S -> S]]
    PROVE  \E f \in [0..N -> S] : Chain(f, N, v, b)
<1> DEFINE a == [n \in Nat |-> v]
           p == [n \in Nat |-> IF n = 0 THEN 0 ELSE n - 1]
           Z == {0}
<1>1. \E f \in [Nat -> S] : Recurs(f, Z, a, p, b)
  <2>1. a \in [Nat -> S] /\ p \in [Nat -> Nat]
    OBVIOUS
  <2>2. Descends(p, Z)
    BY DEF Descends
  <2> HIDE DEF a, p, Z
  <2> QED
    BY <2>1, <2>2, Recursion
<1>2. PICK g \in [Nat -> S] : Recurs(g, Z, a, p, b)
  BY <1>1
<1> DEFINE f == [n \in 0..N |-> g[n]]
<1>3. f \in [0..N -> S]
  OBVIOUS
<1>4. f[0] = v
  BY <1>2 DEF Recurs
<1>5. ASSUME NEW n \in 1..N PROVE f[n] = b[n][f[n - 1]]
  <2>1. n \in Nat /\ n # 0 /\ n \in 0..N /\ n - 1 \in 0..N /\ p[n] = n - 1
    OBVIOUS
  <2>2. g[n] = b[n][g[p[n]]]
    BY <1>2, <2>1 DEF Recurs
  <2> QED
    BY <2>1, <2>2
<1> QED
  BY <1>3, <1>4, <1>5 DEF Chain

-----------------------------------------------------------------------------
(* Digits *)

\* The constants, and the seven bits of a byte.
LEMMA Bases ==
    /\ Base \in Nat /\ Base >= 8 /\ Half \in Nat /\ Half >= 4 /\ Base = 2 * Half
    /\ MAX_SIZE \in Nat /\ VarIntMax \in Nat /\ (VarIntMax + 1) % Half = 0
    /\ Chunk \in Nat /\ Chunk > 0
<1>1. /\ Base \in Nat /\ Base >= 8 /\ Base % 2 = 0
      /\ MAX_SIZE \in Nat /\ VarIntMax \in Nat /\ (VarIntMax + 1) % Half = 0
      /\ Chunk \in Nat /\ Chunk > 0
  BY SerializeAssumption DEF SerializeAssumption, Half
<1>2. Half \in Nat /\ Half >= 4 /\ Base = 2 * Half
  BY <1>1 DEF Half
<1> QED
  BY <1>1, <1>2

\* The powers of Base.
LEMMA Powers ==
    /\ Power[0] = 1
    /\ \A k \in Nat : Power[k + 1] = Base * Power[k]
    /\ \A k \in Nat : Power[k] \in Nat /\ Power[k] > 0
<1> DEFINE Rule(f, n) == IF n = 0 THEN 1 ELSE Base * f[n - 1]
           a == [n \in Nat |-> 1]
           p == [n \in Nat |-> IF n = 0 THEN 0 ELSE n - 1]
           b == [n \in Nat |-> [x \in Nat |-> Base * x]]
           Z == {0}
<1>1. \E f \in [Nat -> Nat] : Recurs(f, Z, a, p, b)
  <2>1. a \in [Nat -> Nat] /\ p \in [Nat -> Nat]
    OBVIOUS
  <2>2. b \in [Nat -> [Nat -> Nat]]
    BY Bases
  <2>3. Descends(p, Z)
    BY DEF Descends
  <2> HIDE DEF a, p, b, Z
  <2> QED
    BY <2>1, <2>2, <2>3, Recursion
<1>g. PICK g \in [Nat -> Nat] : Recurs(g, Z, a, p, b)
  BY <1>1
<1>2. ASSUME NEW n \in Nat PROVE g[n] = Rule(g, n)
  <2>1. g[n] = IF n = 0 THEN 1 ELSE b[n][g[p[n]]]
    BY <1>g DEF Recurs
  <2>2. n # 0 => p[n] = n - 1 /\ n - 1 \in Nat /\ g[n - 1] \in Nat
    OBVIOUS
  <2>3. n # 0 => b[n][g[n - 1]] = Base * g[n - 1]
    BY <2>2
  <2> QED
    BY <2>1, <2>2, <2>3
<1>3. g = [n \in Nat |-> Rule(g, n)]
  BY <1>2
<1>4. Power = [n \in Nat |-> Rule(Power, n)]
  <2>1. \E f : f = [n \in Nat |-> Rule(f, n)]
    BY <1>3
  <2> QED
    BY <2>1 DEF Power
<1>5. Power[0] = 1 /\ \A k \in Nat : Power[k + 1] = Base * Power[k]
  <2>1. \A n \in Nat : Power[n] = Rule(Power, n)
    BY <1>4
  <2> QED
    BY <2>1
<1> DEFINE T == {k \in Nat : Power[k] \in Nat /\ Power[k] > 0}
<1>6. ASSUME NEW n \in Nat, \A m \in 0..(n - 1) : m \in T PROVE n \in T
  <2>1. CASE n = 0
    BY <1>5, <2>1
  <2>2. CASE n # 0
    <3>1. n - 1 \in 0..(n - 1) /\ (n - 1) + 1 = n /\ n - 1 \in Nat
      BY <2>2
    <3>2. Power[n] = Base * Power[n - 1] /\ Power[n - 1] \in Nat /\ Power[n - 1] > 0
      BY <1>5, <1>6, <3>1
    <3>3. Power[n] \in Nat /\ Power[n] > 0
      BY <3>2, Bases
    <3> QED
      BY <3>3
  <2> QED
    BY <2>1, <2>2
<1>7. \A n \in Nat : n \in T
  <2> HIDE DEF T
  <2> QED
    BY <1>6, Induct
<1> QED
  BY <1>5, <1>7

\* The powers that the sizes of integers are made of.
LEMMA SomePowers ==
    /\ Power[0] = 1 /\ Power[1] = Base /\ Power[2] = Base * Base
    /\ Power[4] = Power[2] * Power[2] /\ Power[8] = Power[4] * Power[4]
    /\ Power[2] \in Nat /\ Power[4] \in Nat /\ Power[8] \in Nat
    /\ Base - 3 < Base /\ Base < Power[2] /\ Power[2] < Power[4] /\ Power[4] < Power[8]
<1> DEFINE B == Base
<1>0. B \in Nat /\ B >= 8
  BY Bases
<1>1. /\ Power[0] = 1 /\ Power[0 + 1] = B * Power[0] /\ Power[1 + 1] = B * Power[1]
      /\ Power[2 + 1] = B * Power[2] /\ Power[3 + 1] = B * Power[3]
      /\ Power[4 + 1] = B * Power[4] /\ Power[5 + 1] = B * Power[5]
      /\ Power[6 + 1] = B * Power[6] /\ Power[7 + 1] = B * Power[7]
  <2>1. \A k \in Nat : Power[k + 1] = B * Power[k]
    BY Powers
  <2> QED
    BY <2>1, Powers
<1>2. Power[1] = B /\ Power[2] = B * B /\ Power[3] = B * (B * B) /\ Power[4] = B * (B * (B * B))
  BY <1>0, <1>1
<1> DEFINE P == Power[4]
<1>3. P \in Nat /\ P > 0
  BY Powers
<1>4. Power[5] = B * P /\ Power[6] = B * (B * P) /\ Power[7] = B * (B * (B * P))
      /\ Power[8] = B * (B * (B * (B * P)))
  BY <1>1
<1>5. P = (B * B) * (B * B)
  BY <1>0, <1>2
<1>6. Power[8] = P * P
  <2> DEFINE Q == B * B
  <2>1. Q \in Nat
    BY <1>0
  <2>2. B * (B * (B * (B * P))) = Q * (Q * P)
    <3>1. B * (B * P) = Q * P
      BY <1>0, <1>3
    <3> DEFINE W == Q * P
    <3>2. W \in Nat
      BY <2>1, <1>3
    <3>3. B * (B * W) = Q * W
      <4> HIDE DEF W
      <4> QED
        BY <1>0, <3>2
    <3> QED
      BY <3>1, <3>3
  <2>3. Q * (Q * P) = (Q * Q) * P
    <3> HIDE DEF Q, P
    <3> QED
      BY <2>1, <1>3
  <2> QED
    BY <1>4, <1>5, <2>2, <2>3
<1>7. B < B * B
  BY <1>0
<1>8. \A x \in Nat : x > 1 => x < x * x /\ x * x > 1 /\ x * x \in Nat
  OBVIOUS
<1>9. Power[2] \in Nat /\ Power[2] > 1 /\ B < Power[2]
  BY <1>0, <1>2, <1>8
<1>10. P = Power[2] * Power[2] /\ Power[2] < P /\ P > 1
  BY <1>2, <1>5, <1>8, <1>9
<1>11. P < Power[8] /\ Power[8] \in Nat
  BY <1>3, <1>6, <1>8, <1>10
<1> QED
  BY <1>0, <1>1, <1>2, <1>3, <1>6, <1>9, <1>10, <1>11

-----------------------------------------------------------------------------
(* Fixed widths *)

\* The values of the first i bytes.
SumRule(bs, f, i) == IF i = 0 THEN 0 ELSE f[i - 1] + bs[i] * Power[i - 1]
Sums(bs) == CHOOSE f : f = [i \in 0..Len(bs) |-> SumRule(bs, f, i)]

\* Value is the last of the sums.
LEMMA ValueIsSum == \A bs : Value(bs) = Sums(bs)[Len(bs)]
  BY Zenon DEF Value, Sums, SumRule

\* The sums of a sequence of digits, one step at a time.
LEMMA SumsOf ==
    ASSUME NEW bs \in Seq(Digit)
    PROVE  /\ Sums(bs)[0] = 0
           /\ \A i \in 1..Len(bs) : Sums(bs)[i] = Sums(bs)[i - 1] + bs[i] * Power[i - 1]
           /\ \A i \in 0..Len(bs) : Sums(bs)[i] \in Nat /\ Sums(bs)[i] < Power[i]
<1> DEFINE N == Len(bs)
           d == [n \in Nat |-> IF n \in 1..N THEN bs[n] * Power[n - 1] ELSE 0]
           b == [n \in Nat |-> [x \in Nat |-> x + d[n]]]
           F == Sums(bs)
<1>0. N \in Nat
  OBVIOUS
<1>1. \A n \in 1..N : bs[n] \in Nat /\ bs[n] < Base /\ n \in Nat /\ n - 1 \in Nat
  BY Bases, ElementOfSeq DEF Digit
<1>2. \A n \in 1..N : Power[n - 1] \in Nat /\ Power[n - 1] > 0
  BY <1>1, Powers
<1>3. \A n \in Nat : d[n] \in Nat
  <2> TAKE n \in Nat
  <2>1. n \in 1..N => bs[n] * Power[n - 1] \in Nat
    BY <1>1, <1>2
  <2> QED
    BY <2>1
<1>4. b \in [Nat -> [Nat -> Nat]]
  BY <1>3
<1>5. \E f \in [0..N -> Nat] : Chain(f, N, 0, b)
  <2> HIDE DEF b, N
  <2> QED
    BY <1>0, <1>4, Chains
<1>6. PICK g \in [0..N -> Nat] : Chain(g, N, 0, b)
  BY <1>5
<1>7. ASSUME NEW n \in 0..N PROVE g[n] = SumRule(bs, g, n)
  <2>1. n = 0 => g[n] = 0
    BY <1>6 DEF Chain
  <2>2. n # 0 => n \in 1..N /\ n \in Nat /\ g[n - 1] \in Nat
    BY <1>0
  <2>3. n # 0 => g[n] = b[n][g[n - 1]]
    BY <1>6, <2>2 DEF Chain
  <2>4. n # 0 => b[n][g[n - 1]] = g[n - 1] + d[n] /\ d[n] = bs[n] * Power[n - 1]
    BY <2>2
  <2> QED
    BY <2>1, <2>3, <2>4 DEF SumRule
<1>8. F = [i \in 0..N |-> SumRule(bs, F, i)]
  <2>1. g = [i \in 0..N |-> SumRule(bs, g, i)]
    BY <1>7
  <2>2. \E f : f = [i \in 0..Len(bs) |-> SumRule(bs, f, i)]
    BY <2>1
  <2> QED
    BY <2>2 DEF Sums
<1>9. \A i \in 0..N : F[i] = SumRule(bs, F, i)
  BY <1>8
<1>10. F[0] = 0 /\ \A i \in 1..N : F[i] = F[i - 1] + bs[i] * Power[i - 1]
  BY <1>0, <1>9 DEF SumRule
<1> HIDE DEF F, N
<1> DEFINE T == {i \in Nat : i <= N => F[i] \in Nat /\ F[i] < Power[i]}
<1>11. ASSUME NEW n \in Nat, \A m \in 0..(n - 1) : m \in T PROVE n \in T
  <2> SUFFICES ASSUME n <= N PROVE F[n] \in Nat /\ F[n] < Power[n]
    OBVIOUS
  <2>1. CASE n = 0
    BY <1>10, <2>1, Powers
  <2>2. CASE n # 0
    <3>1. n - 1 \in 0..(n - 1) /\ n - 1 \in Nat /\ n \in 1..N /\ n - 1 <= N /\ (n - 1) + 1 = n
      BY <1>0, <2>2
    <3>2. F[n - 1] \in Nat /\ F[n - 1] < Power[n - 1]
      BY <1>11, <3>1
    <3> DEFINE P == Power[n - 1]
               x == F[n - 1]
               y == bs[n]
    <3>3. F[n] = x + y * P /\ Power[n] = Base * P /\ P \in Nat /\ x \in Nat /\ x < P
          /\ y \in Nat /\ y + 1 <= Base
      <4>1. Power[(n - 1) + 1] = Base * P
        BY <3>1, Powers
      <4> QED
        BY <1>1, <1>2, <1>10, <3>1, <3>2, <4>1, Bases
    <3> HIDE DEF P, x, y
    <3>4. x + y * P \in Nat /\ x + y * P < (y + 1) * P
      BY <3>3
    <3>5. (y + 1) * P <= Base * P
      BY <3>3, Bases
    <3> QED
      BY <3>3, <3>4, <3>5, Bases
  <2> QED
    BY <2>1, <2>2
<1>12. \A n \in Nat : n \in T
  <2> HIDE DEF T
  <2> QED
    BY <1>11, Induct
<1>13. \A i \in 0..N : F[i] \in Nat /\ F[i] < Power[i]
  BY <1>0, <1>12
<1> QED
  BY <1>10, <1>13 DEF F, N

\* Quotient and remainder.
LEMMA Quotients ==
    /\ \A n \in Nat, a \in Nat : a > 0 =>
         /\ n \div a \in Nat /\ n % a \in Nat /\ n % a < a
         /\ n = a * (n \div a) + (n % a)
    /\ \A a \in Nat, q \in Nat, k \in Nat : k < a => (a * q + k) \div a = q /\ (a * q + k) % a = k
<1>1. ASSUME NEW n \in Nat, NEW a \in Nat, a > 0
      PROVE  /\ n \div a \in Nat /\ n % a \in Nat /\ n % a < a
             /\ n = a * (n \div a) + (n % a)
  BY <1>1
<1>2. ASSUME NEW a \in Nat, NEW q \in Nat, NEW k \in Nat, k < a
      PROVE  (a * q + k) \div a = q /\ (a * q + k) % a = k
  BY <1>2
<1> QED
  BY <1>1, <1>2

\* One more digit.
LEMMA NextDigit ==
    ASSUME NEW n \in Nat, NEW P \in Nat, P > 0, NEW B \in Nat, B > 0
    PROVE  n % (B * P) = (n % P) + ((n \div P) % B) * P
<1> DEFINE q == n \div P
           r == n % P
           c == q \div B
           d == q % B
           k == r + d * P
<1>1. q \in Nat /\ r \in Nat /\ r < P /\ n = P * q + r
  BY Quotients
<1>2. c \in Nat /\ d \in Nat /\ d < B /\ q = B * c + d
  BY <1>1, Quotients
<1> HIDE DEF q, r, c, d
<1>3. n = (B * P) * c + k
  <2>1. P * q = P * (B * c) + P * d
    BY <1>2
  <2>2. P * (B * c) = (B * P) * c /\ P * d = d * P
    BY <1>2
  <2>3. P * q \in Nat /\ (B * P) * c \in Nat /\ d * P \in Nat
    BY <1>1, <1>2
  <2> QED
    BY <1>1, <2>1, <2>2, <2>3
<1>4. k \in Nat /\ k < B * P
  <2>1. d + 1 <= B /\ d * P \in Nat /\ (d + 1) * P = d * P + P
    BY <1>2
  <2>2. (d + 1) * P <= B * P
    BY <1>2, <2>1
  <2> QED
    BY <1>1, <1>2, <2>1, <2>2
<1>5. B * P \in Nat
  OBVIOUS
<1> HIDE DEF k
<1>6. n % (B * P) = k
  BY <1>2, <1>3, <1>4, <1>5, Quotients
<1> QED
  BY <1>6 DEF k, q, r, d

\* What was written.
LEMMA Written ==
    ASSUME NEW n \in Nat, NEW w \in Nat
    PROVE  /\ ser_writedata(n, w) \in Seq(Digit) /\ Len(ser_writedata(n, w)) = w
           /\ \A i \in 1..w : ser_writedata(n, w)[i] = (n \div Power[i - 1]) % Base
<1> DEFINE s == ser_writedata(n, w)
<1>1. s = [i \in 1..w |-> (n \div Power[i - 1]) % Base]
  BY DEF ser_writedata
<1>2. \A i \in 1..w : (n \div Power[i - 1]) % Base \in Digit
  <2> TAKE i \in 1..w
  <2>1. i - 1 \in Nat
    OBVIOUS
  <2>2. Power[i - 1] \in Nat /\ Power[i - 1] > 0
    BY <2>1, Powers
  <2>3. n \div Power[i - 1] \in Nat
    BY <2>2, Quotients
  <2> DEFINE q == n \div Power[i - 1]
  <2> HIDE DEF q
  <2>4. q \in Nat => q % Base \in Nat /\ q % Base < Base
    BY Bases, Quotients
  <2>5. q \in Nat
    BY <2>3 DEF q
  <2>6. q % Base \in Digit
    BY <2>4, <2>5, Bases DEF Digit
  <2> QED
    BY <2>6 DEF q
<1>3. s \in [1..w -> Digit]
  BY <1>1, <1>2
<1>4. s \in Seq(Digit) /\ Len(s) = w
  BY <1>3
<1>5. \A i \in 1..w : s[i] = (n \div Power[i - 1]) % Base
  BY <1>1
<1> QED
  BY <1>4, <1>5

\* The value of what was written is what was written.
LEMMA ValueOfWritten ==
    ASSUME NEW w \in Nat, NEW n \in Nat, n < Power[w]
    PROVE  Value(ser_writedata(n, w)) = n
<1> DEFINE s == ser_writedata(n, w)
           F == Sums(s)
<1>1. s \in Seq(Digit) /\ Len(s) = w /\ \A i \in 1..w : s[i] = (n \div Power[i - 1]) % Base
  BY Written
<1> HIDE DEF s
<1>2. F[0] = 0 /\ \A i \in 1..w : F[i] = F[i - 1] + s[i] * Power[i - 1]
  BY <1>1, SumsOf
<1> HIDE DEF F
<1> DEFINE T == {i \in Nat : i <= w => F[i] = n % Power[i]}
<1>3. ASSUME NEW i \in Nat, \A m \in 0..(i - 1) : m \in T PROVE i \in T
  <2> SUFFICES ASSUME i <= w PROVE F[i] = n % Power[i]
    OBVIOUS
  <2>1. CASE i = 0
    <3>1. n % 1 = 0
      OBVIOUS
    <3> QED
      BY <1>2, <2>1, <3>1, Powers
  <2>2. CASE i # 0
    <3>1. i - 1 \in 0..(i - 1) /\ i - 1 \in Nat /\ i \in 1..w /\ i - 1 <= w /\ (i - 1) + 1 = i
      BY <2>2
    <3> DEFINE P == Power[i - 1]
    <3>2. P \in Nat /\ P > 0 /\ Power[i] = Base * P
      <4>1. Power[(i - 1) + 1] = Base * Power[i - 1]
        BY <3>1, Powers
      <4> QED
        BY <3>1, <4>1, Powers
    <3>3. F[i] = (n % P) + ((n \div P) % Base) * P
      BY <1>1, <1>2, <1>3, <3>1
    <3> HIDE DEF P
    <3>4. n % (Base * P) = (n % P) + ((n \div P) % Base) * P
      <4>1. Base \in Nat /\ Base > 0
        BY Bases
      <4> QED
        BY <3>2, <4>1, NextDigit
    <3> QED
      BY <3>2, <3>3, <3>4
  <2> QED
    BY <2>1, <2>2
<1>4. \A i \in Nat : i \in T
  <2> HIDE DEF T
  <2> QED
    BY <1>3, Induct
<1>5. F[w] = n % Power[w]
  BY <1>4
<1> DEFINE P == Power[w]
<1>6. P \in Nat /\ n < P
  BY Powers
<1>7. n % P = n
  <2> HIDE DEF P
  <2> QED
    BY <1>6
<1> QED
  BY <1>1, <1>5, <1>7, ValueIsSum DEF F, s

\* Smaller powers divide larger ones.
LEMMA PowersDivide ==
    ASSUME NEW i \in Nat
    PROVE  \A j \in Nat : i <= j => \E c \in Nat : Power[j] = Power[i] * c
<1> DEFINE T == {j \in Nat : i <= j => \E c \in Nat : Power[j] = Power[i] * c}
<1>0. Power[i] \in Nat
  BY Powers
<1>1. ASSUME NEW j \in Nat, \A m \in 0..(j - 1) : m \in T PROVE j \in T
  <2> SUFFICES ASSUME i <= j PROVE \E c \in Nat : Power[j] = Power[i] * c
    OBVIOUS
  <2>1. CASE j = i
    <3>1. Power[j] = Power[i] * 1
      BY <1>0, <2>1
    <3> QED
      BY <3>1
  <2>2. CASE j # i
    <3>1. j - 1 \in 0..(j - 1) /\ i <= j - 1 /\ j - 1 \in Nat /\ (j - 1) + 1 = j
      BY <2>2
    <3>2. PICK c \in Nat : Power[j - 1] = Power[i] * c
      BY <1>1, <3>1
    <3>3. Power[(j - 1) + 1] = Base * Power[j - 1]
      BY <3>1, Powers
    <3> DEFINE P == Power[i]
    <3>4. P \in Nat /\ Power[j] = Base * (P * c)
      BY <1>0, <3>1, <3>2, <3>3
    <3> HIDE DEF P
    <3>5. Base * (P * c) = P * (Base * c) /\ Base * c \in Nat
      BY <3>4, Bases
    <3> QED
      BY <3>4, <3>5 DEF P
  <2> QED
    BY <2>1, <2>2
<1>2. \A j \in Nat : j \in T
  <2> HIDE DEF T
  <2> QED
    BY <1>1, Induct
<1> QED
  BY <1>2

\* Bytes are what is written of their value.
LEMMA WrittenOfValue ==
    ASSUME NEW bs \in Seq(Digit)
    PROVE  /\ Value(bs) \in Nat /\ Value(bs) < Power[Len(bs)]
           /\ ser_writedata(Value(bs), Len(bs)) = bs
<1> DEFINE w == Len(bs)
           F == Sums(bs)
           v == Value(bs)
           s == ser_writedata(v, w)
<1>0. w \in Nat /\ \A i \in 1..w : bs[i] \in Nat /\ bs[i] < Base
  BY Bases, ElementOfSeq DEF Digit
<1>1. /\ F[0] = 0 /\ \A i \in 1..w : F[i] = F[i - 1] + bs[i] * Power[i - 1]
      /\ \A i \in 0..w : F[i] \in Nat /\ F[i] < Power[i]
  BY SumsOf
<1>2. v = F[w]
  BY ValueIsSum
<1> HIDE DEF F, w, v
<1>3. v \in Nat /\ v < Power[w]
  BY <1>0, <1>1, <1>2
<1>4. s \in Seq(Digit) /\ Len(s) = w /\ \A i \in 1..w : s[i] = (v \div Power[i - 1]) % Base
  BY <1>0, <1>3, Written
<1>5. ASSUME NEW i \in 1..w PROVE s[i] = bs[i]
  <2> DEFINE P == Power[i - 1]
             y == bs[i]
             T == {j \in Nat : i <= j /\ j <= w => (F[j] \div P) % Base = y}
  <2>1. i \in Nat /\ i - 1 \in Nat /\ (i - 1) + 1 = i /\ i - 1 \in 0..w /\ y \in Nat /\ y < Base
    BY <1>0
  <2>2. P \in Nat /\ P > 0 /\ Power[i] = Base * P
    <3>1. Power[(i - 1) + 1] = Base * Power[i - 1]
      BY <2>1, Powers
    <3> QED
      BY <2>1, <3>1, Powers
  <2>3. ASSUME NEW j \in Nat, \A m \in 0..(j - 1) : m \in T PROVE j \in T
    <3> SUFFICES ASSUME i <= j, j <= w PROVE (F[j] \div P) % Base = y
      OBVIOUS
    <3>1. CASE j = i
      <4> DEFINE x == F[i - 1]
      <4>1. F[i] = P * y + x /\ x \in Nat /\ x < P
        <5>1. F[i] = x + y * P /\ x \in Nat /\ x < P
          BY <1>1, <2>1
        <5>2. y * P = P * y /\ P * y \in Nat
          <6> HIDE DEF y, P
          <6> QED
            BY <2>1, <2>2
        <5> HIDE DEF x, y, P
        <5> QED
          BY <5>1, <5>2
      <4> HIDE DEF x, y, P
      <4>2. (P * y + x) \div P = y
        BY <2>1, <2>2, <4>1, Quotients
      <4>3. y % Base = y
        BY <2>1, Bases
      <4> QED
        BY <3>1, <4>1, <4>2, <4>3
    <3>2. CASE j # i
      <4>1. j - 1 \in 0..(j - 1) /\ j - 1 \in Nat /\ i <= j - 1 /\ j - 1 <= w /\ j \in 1..w
            /\ j - 1 \in 0..w
        BY <1>0, <2>1, <3>2
      <4>2. PICK c \in Nat : Power[j - 1] = Power[i] * c
        BY <2>1, <4>1, PowersDivide
      <4> DEFINE x == F[j - 1]
                 z == bs[j]
                 q == x \div P
                 r == x % P
                 t == c * z
      <4>3. x \in Nat /\ z \in Nat /\ F[j] = x + z * ((Base * P) * c) /\ q % Base = y
        <5>1. F[j] = x + z * Power[j - 1] /\ x \in Nat /\ z \in Nat
          BY <1>0, <1>1, <4>1
        <5>2. q % Base = y
          BY <2>3, <4>1
        <5> QED
          BY <2>2, <4>2, <5>1, <5>2
      <4>4. q \in Nat /\ r \in Nat /\ r < P /\ x = P * q + r
        <5> HIDE DEF x, P
        <5> QED
          BY <2>2, <4>3, Quotients
      <4>5. t \in Nat
        BY <4>3
      <4>6. z * ((Base * P) * c) = P * (Base * t)
        <5> HIDE DEF z, P
        <5> QED
          BY <2>2, <4>3, Bases
      <4> HIDE DEF x, z, q, r, t, P, y
      <4>7. P * q + P * (Base * t) = P * (q + Base * t) /\ q + Base * t \in Nat
        BY <2>2, <4>4, <4>5, Bases
      <4>8. F[j] = P * (q + Base * t) + r
        <5>1. P * q \in Nat /\ P * (Base * t) \in Nat
          BY <2>2, <4>4, <4>5, Bases
        <5> QED
          BY <4>3, <4>4, <4>6, <4>7, <5>1, SMTT(60)
      <4>9. F[j] \div P = q + Base * t
        BY <2>2, <4>4, <4>7, <4>8, Quotients, ZenonT(60)
      <4>10. (q + Base * t) % Base = q % Base
        <5> DEFINE e == q \div Base
                   k == q % Base
        <5>1. e \in Nat /\ k \in Nat /\ k < Base /\ q = Base * e + k
          <6>1. Base \in Nat /\ Base > 0
            BY Bases
          <6> QED
            BY <4>4, <6>1, Quotients
        <5> HIDE DEF e, k
        <5>2. q + Base * t = Base * (e + t) + k /\ e + t \in Nat
          <6>1. Base \in Nat
            BY Bases
          <6>2. Base * (e + t) = Base * e + Base * t /\ Base * e \in Nat /\ Base * t \in Nat
            BY <4>5, <5>1, <6>1
          <6> QED
            BY <4>5, <5>1, <6>2
        <5>3. (Base * (e + t) + k) % Base = k
          BY <5>1, <5>2, Bases, Quotients
        <5> QED
          BY <5>2, <5>3 DEF k
      <4> QED
        BY <4>3, <4>9, <4>10
    <3> QED
      BY <3>1, <3>2
  <2>4. \A j \in Nat : j \in T
    <3> HIDE DEF T
    <3> QED
      BY <2>3, Induct
  <2>5. (F[w] \div P) % Base = y
    BY <1>0, <2>4
  <2> QED
    BY <1>2, <1>4, <2>5
<1>6. s = bs
  <2>1. Len(bs) = w /\ bs \in Seq(Digit)
    BY DEF w
  <2> HIDE DEF s
  <2> QED
    BY <1>0, <1>4, <1>5, <2>1, SeqEqual
<1> QED
  BY <1>3, <1>6 DEF v, w

-----------------------------------------------------------------------------
(* Reading *)

\* A stream that has not thrown: the values read, and the bytes left.
Stand(g, s) == [ok |-> TRUE, got |-> g, rest |-> s]

\* The parts of a stream.
LEMMA Stands ==
    /\ \A g, s : Stand(g, s).ok /\ Stand(g, s).got = g /\ Stand(g, s).rest = s
    /\ \A s : Start(s) = Stand(<<>>, s)
    /\ ~Thrown.ok /\ Top(Thrown) = 0
<1>1. \A g, s : Stand(g, s).ok /\ Stand(g, s).got = g /\ Stand(g, s).rest = s
  BY DEF Stand
<1>2. \A s : Start(s) = Stand(<<>>, s)
  BY DEF Start, Stand
<1>3. ~Thrown.ok
  BY DEF Thrown
<1>4. Top(Thrown) = 0
  BY <1>3 DEF Top
<1> QED
  BY <1>1, <1>2, <1>3, <1>4

\* Other values in the place of those read.
LEMMA StandsWith == \A g, s, x : [Stand(g, s) EXCEPT !.got = x] = Stand(x, s)
<1>1. ASSUME NEW y, NEW g, NEW s, NEW x
      PROVE  [[ok |-> y, got |-> g, rest |-> s] EXCEPT !.got = x]
             = [ok |-> y, got |-> x, rest |-> s]
  OBVIOUS
<1> QED
  BY <1>1, Zenon DEF Stand

\* The last values of those read.
LEMMA LastRead ==
    ASSUME NEW S, NEW g \in Seq(S), NEW a \in S, NEW b \in S
    PROVE  /\ LET h == Append(g, a) IN
              /\ h \in Seq(S) /\ Len(h) = Len(g) + 1 /\ h[Len(h)] = a
              /\ SubSeq(h, 1, Len(h) - 1) = g
              /\ SubSeq(h, Len(h) - 1 + 1, Len(h)) = <<a>>
           /\ LET h == Append(Append(g, a), b) IN
              /\ h \in Seq(S) /\ SubSeq(h, 1, Len(h) - 2) = g
              /\ SubSeq(h, Len(h) - 2 + 1, Len(h)) = <<a, b>>
<1> DEFINE h == Append(g, a)
           k == Append(h, b)
           n == Len(g)
<1>0. n \in Nat
  OBVIOUS
<1>1. h \in Seq(S) /\ Len(h) = n + 1 /\ h[n + 1] = a /\ \A i \in 1..n : h[i] = g[i]
  BY AppendProperties
<1> HIDE DEF h
<1>2. k \in Seq(S) /\ Len(k) = n + 2 /\ k[n + 2] = b /\ \A i \in 1..(n + 1) : k[i] = h[i]
  BY <1>0, <1>1, AppendProperties
<1> HIDE DEF k
<1>3. SubSeq(h, 1, n) = g
  <2>1. \A i \in 1..n : h[i] \in S
    BY <1>0, <1>1, ElementOfSeq
  <2>2. SubSeq(h, 1, n) \in Seq(S) /\ Len(SubSeq(h, 1, n)) = n
    BY <1>0, <1>1, <2>1, SubSeqProperties
  <2>3. \A i \in 1..n : SubSeq(h, 1, n)[i] = g[i]
    BY <1>0, <1>1
  <2> QED
    BY <1>0, <2>2, <2>3, SeqEqual
<1>4. SubSeq(k, 1, n) = g
  <2>1. \A i \in 1..n : k[i] \in S
    BY <1>0, <1>2, ElementOfSeq
  <2>2. SubSeq(k, 1, n) \in Seq(S) /\ Len(SubSeq(k, 1, n)) = n
    BY <1>0, <1>2, <2>1, SubSeqProperties
  <2>3. \A i \in 1..n : SubSeq(k, 1, n)[i] = g[i]
    BY <1>0, <1>1, <1>2
  <2> QED
    BY <1>0, <2>2, <2>3, SeqEqual
<1>5. SubSeq(h, n + 1, n + 1) = <<a>>
  <2> DEFINE t == SubSeq(h, n + 1, n + 1)
  <2>1. \A i \in (n + 1)..(n + 1) : h[i] \in S
    BY <1>0, <1>1
  <2>2. t \in Seq(S) /\ Len(t) = 1
    BY <1>0, <1>1, <2>1, SubSeqProperties
  <2>3. t[1] = a
    BY <1>0, <1>1
  <2> HIDE DEF t
  <2>4. <<a>> \in Seq(S) /\ Len(<<a>>) = 1 /\ \A i \in 1..1 : t[i] = <<a>>[i]
    BY <2>3
  <2> QED
    BY <2>2, <2>4, SeqEqual DEF t
<1>6. SubSeq(k, n + 1, n + 2) = <<a, b>>
  <2> DEFINE t == SubSeq(k, n + 1, n + 2)
  <2>1. k[n + 1] = a /\ \A i \in (n + 1)..(n + 2) : k[i] \in S
    BY <1>0, <1>1, <1>2
  <2>2. t \in Seq(S) /\ Len(t) = 2
    BY <1>0, <1>2, <2>1, SubSeqProperties
  <2>3. t[1] = a /\ t[2] = b
    BY <1>0, <1>2, <2>1
  <2> HIDE DEF t
  <2>4. <<a, b>> \in Seq(S) /\ Len(<<a, b>>) = 2 /\ \A i \in 1..2 : t[i] = <<a, b>>[i]
    BY <2>3
  <2> QED
    BY <2>2, <2>4, SeqEqual DEF t
<1>7. (n + 1) - 1 = n /\ (n + 2) - 2 = n
  BY <1>0
<1> QED
  BY <1>0, <1>1, <1>2, <1>3, <1>4, <1>5, <1>6, <1>7 DEF h, k

\* A part of a sequence of bytes.
LEMMA PartOf ==
    ASSUME NEW D, NEW s \in Seq(D), NEW w \in Nat, w <= Len(s)
    PROVE  /\ SubSeq(s, 1, w) \in Seq(D) /\ Len(SubSeq(s, 1, w)) = w
           /\ SubSeq(s, w + 1, Len(s)) \in Seq(D) /\ Len(SubSeq(s, w + 1, Len(s))) = Len(s) - w
           /\ SubSeq(s, 1, w) \o SubSeq(s, w + 1, Len(s)) = s
           /\ \A i \in 1..w : SubSeq(s, 1, w)[i] = s[i]
<1> DEFINE a == SubSeq(s, 1, w)
           b == SubSeq(s, w + 1, Len(s))
<1>0. Len(s) \in Nat /\ \A i \in 1..Len(s) : s[i] \in D
  BY ElementOfSeq
<1>1. a \in Seq(D) /\ Len(a) = w /\ \A i \in 1..w : a[i] = s[i]
  <2>1. \A i \in 1..w : s[i] \in D
    BY <1>0
  <2>2. a \in Seq(D)
    BY <2>1, SubSeqProperties
  <2> QED
    BY <1>0, <2>2
<1>2. b \in Seq(D) /\ Len(b) = Len(s) - w /\ \A i \in 1..(Len(s) - w) : b[i] = s[w + i]
  <2>1. \A i \in (w + 1)..Len(s) : s[i] \in D
    BY <1>0
  <2>2. b \in Seq(D)
    BY <2>1, SubSeqProperties
  <2> QED
    BY <1>0, <2>2
<1> HIDE DEF a, b
<1>3. a \o b \in Seq(D) /\ Len(a \o b) = Len(s)
  BY <1>0, <1>1, <1>2, ConcatProperties
<1>4. ASSUME NEW i \in 1..Len(s) PROVE (a \o b)[i] = s[i]
  <2>1. CASE i <= w
    BY <1>1, <1>2, <2>1, ConcatProperties
  <2>2. CASE ~(i <= w)
    <3>1. i - w \in 1..Len(b) /\ i = w + (i - w) /\ i \in (Len(a) + 1)..(Len(a) + Len(b))
      BY <1>0, <1>1, <1>2, <2>2
    <3>2. (a \o b)[i] = b[i - w]
      BY <1>1, <1>2, <3>1, ConcatProperties
    <3> QED
      BY <1>2, <3>1, <3>2
  <2> QED
    BY <2>1, <2>2
<1>5. a \o b = s
  BY <1>3, <1>4, SeqEqual
<1> QED
  BY <1>1, <1>2, <1>5 DEF a, b

\* What stands in front of other bytes is read, and they are left.
LEMMA InFront ==
    ASSUME NEW D, NEW a \in Seq(D), NEW b \in Seq(D)
    PROVE  /\ a \o b \in Seq(D) /\ Len(a \o b) = Len(a) + Len(b) /\ Len(a) <= Len(a \o b)
           /\ SubSeq(a \o b, 1, Len(a)) = a
           /\ SubSeq(a \o b, Len(a) + 1, Len(a \o b)) = b
<1> DEFINE s == a \o b
           w == Len(a)
           n == Len(b)
           p == SubSeq(s, 1, w)
           q == SubSeq(s, w + 1, Len(s))
<1>1. /\ w \in Nat /\ n \in Nat /\ s \in Seq(D) /\ Len(s) = w + n
      /\ \A i \in 1..w : s[i] = a[i]
      /\ \A i \in 1..n : s[w + i] = b[i]
  BY ConcatProperties
<1> HIDE DEF s
<1>2. p \in Seq(D) /\ Len(p) = w /\ q \in Seq(D) /\ Len(q) = n
      /\ \A i \in 1..w : p[i] = s[i]
  BY <1>1, PartOf
<1>3. \A i \in 1..n : q[i] = s[w + i]
  BY <1>1
<1> HIDE DEF p, q
<1>4. p = a
  BY <1>1, <1>2, SeqEqual
<1>5. q = b
  BY <1>1, <1>2, <1>3, SeqEqual
<1> QED
  BY <1>1, <1>4, <1>5 DEF p, q, s

\* Values that a stream of bytes can hand out.
Holds(S) == Nat \subseteq S /\ Seq(Digit) \subseteq S

\* The value read last.
LEMMA TopIs ==
    ASSUME NEW S, NEW g \in Seq(S), NEW a \in S, NEW s
    PROVE  Top(Stand(Append(g, a), s)) = a
<1>1. Append(g, a)[Len(Append(g, a))] = a
  BY LastRead
<1> QED
  BY <1>1, Stands, Zenon DEF Top

\* ReadBytes takes as many bytes as it is asked for, if there are as many.
LEMMA ReadsBytes ==
    ASSUME NEW g, NEW s \in Seq(Digit), NEW w \in Nat
    PROVE  /\ w <= Len(s) => ReadBytes(Stand(g, s), w) =
                Stand(Append(g, SubSeq(s, 1, w)), SubSeq(s, w + 1, Len(s)))
           /\ ~(w <= Len(s)) => ReadBytes(Stand(g, s), w) = Thrown
<1>1. ReadBytes(Stand(g, s), w) = IF w <= Len(s) THEN Behind(Stand(g, s), w, SubSeq(s, 1, w))
                                  ELSE Thrown
  BY Stands, Zenon DEF ReadBytes
<1>2. Behind(Stand(g, s), w, SubSeq(s, 1, w))
        = Stand(Append(g, SubSeq(s, 1, w)), SubSeq(s, w + 1, Len(s)))
  BY Stands, Zenon DEF Behind, Stand
<1> QED
  BY <1>1, <1>2

\* ser_readdata takes as many and hands out their value.
LEMMA ReadsData ==
    ASSUME NEW S, Holds(S), NEW g \in Seq(S), NEW s \in Seq(Digit), NEW w \in Nat
    PROVE  /\ w <= Len(s) => ser_readdata(Stand(g, s), w) =
                Stand(Append(g, Value(SubSeq(s, 1, w))), SubSeq(s, w + 1, Len(s)))
           /\ ~(w <= Len(s)) => ser_readdata(Stand(g, s), w) = Thrown
<1>1. ASSUME w <= Len(s)
      PROVE  ser_readdata(Stand(g, s), w) =
                Stand(Append(g, Value(SubSeq(s, 1, w))), SubSeq(s, w + 1, Len(s)))
  <2> DEFINE a == SubSeq(s, 1, w)
             h == Append(g, a)
             t == SubSeq(s, w + 1, Len(s))
             r == Stand(h, t)
  <2>1. a \in S
    BY <1>1, PartOf DEF Holds
  <2>2. SubSeq(h, 1, Len(h) - 1) = g /\ SubSeq(h, Len(h) - 1 + 1, Len(h)) = <<a>>
    <3> HIDE DEF a
    <3> QED
      BY <2>1, LastRead
  <2>3. ReadBytes(Stand(g, s), w) = r
    BY <1>1, ReadsBytes
  <2>4. r.ok /\ r.got = h /\ \A x : [r EXCEPT !.got = x] = Stand(x, t)
    <3> HIDE DEF a, h, t
    <3> QED
      BY Stands, StandsWith, Zenon
  <2> HIDE DEF a, h, t, r
  <2>5. ser_readdata(Stand(g, s), w) =
          IF r.ok THEN [r EXCEPT !.got = Append(SubSeq(r.got, 1, Len(r.got) - 1),
                                  Value(SubSeq(r.got, Len(r.got) - 1 + 1, Len(r.got))[1]))]
          ELSE r
    BY <2>3, Zenon DEF ser_readdata, Made
  <2>6. <<a>>[1] = a
    OBVIOUS
  <2>7. ser_readdata(Stand(g, s), w) = Stand(Append(g, Value(a)), t)
    BY <2>2, <2>4, <2>5, <2>6, Zenon
  <2> QED
    BY <2>7 DEF a, t
<1>2. ASSUME ~(w <= Len(s)) PROVE ser_readdata(Stand(g, s), w) = Thrown
  <2>1. ReadBytes(Stand(g, s), w) = Thrown
    BY <1>2, ReadsBytes
  <2>2. ~Thrown.ok
    BY Stands
  <2> QED
    BY <2>1, <2>2, Zenon DEF ser_readdata, Made
<1> QED
  BY <1>1, <1>2

\* The second of two values in their place.
LEMMA KeepsSecond ==
    ASSUME NEW S, NEW g \in Seq(S), NEW a \in S, NEW b \in S, NEW t
    PROVE  Made(Stand(Append(Append(g, a), b), t), 2, LAMBDA f : f[2]) = Stand(Append(g, b), t)
<1> DEFINE h == Append(Append(g, a), b)
           r == Stand(h, t)
<1>1. SubSeq(h, 1, Len(h) - 2) = g /\ SubSeq(h, Len(h) - 2 + 1, Len(h)) = <<a, b>>
  BY LastRead
<1>2. r.ok /\ r.got = h /\ \A x : [r EXCEPT !.got = x] = Stand(x, t)
  BY Stands, StandsWith, Zenon
<1> HIDE DEF h, r
<1>3. Made(r, 2, LAMBDA f : f[2]) =
        IF r.ok THEN [r EXCEPT !.got = Append(SubSeq(r.got, 1, Len(r.got) - 2),
                                SubSeq(r.got, Len(r.got) - 2 + 1, Len(r.got))[2])]
        ELSE r
  BY Zenon DEF Made
<1>4. <<a, b>>[2] = b
  OBVIOUS
<1>5. Made(r, 2, LAMBDA f : f[2]) = Stand(Append(g, b), t)
  BY <1>1, <1>2, <1>3, <1>4, Zenon
<1> QED
  BY <1>5 DEF h, r

-----------------------------------------------------------------------------
(* CompactSize *)

Marker(n) == IF n < Power[2] THEN Base - 3 ELSE IF n < Power[4] THEN Base - 2 ELSE Base - 1
Width(n)  == IF n < Power[2] THEN 2 ELSE IF n < Power[4] THEN 4 ELSE 8

\* One byte.
LEMMA OneByte == \A n \in Digit : ser_writedata(n, 1) = <<n>> /\ Value(<<n>>) = n
<1> TAKE n \in Digit
<1>1. n \in Nat /\ n < Base /\ Power[0] = 1 /\ Power[1] = Base
  BY Bases, SomePowers DEF Digit
<1>2. n \div 1 = n /\ n % Base = n
  BY <1>1, Bases
<1>3. ser_writedata(n, 1) = <<n>>
  <2> DEFINE x == ser_writedata(n, 1)
  <2>1. x \in Seq(Digit) /\ Len(x) = 1 /\ \A i \in 1..1 : x[i] = (n \div Power[i - 1]) % Base
    BY <1>1, Written
  <2> HIDE DEF x
  <2>2. x[1] = n
    <3>1. 1 \in 1..1 /\ 1 - 1 = 0
      OBVIOUS
    <3>2. x[1] = (n \div Power[1 - 1]) % Base
      BY <2>1, <3>1
    <3> QED
      BY <1>1, <1>2, <3>1, <3>2
  <2>3. <<n>> \in Seq(Digit) /\ Len(<<n>>) = 1 /\ \A i \in 1..1 : x[i] = <<n>>[i]
    BY <2>2
  <2> QED
    BY <2>1, <2>3, SeqEqual DEF x
<1>4. Value(ser_writedata(n, 1)) = n
  BY <1>1, ValueOfWritten
<1> QED
  BY <1>3, <1>4

\* A marker and its width.
LEMMA Markers ==
    /\ Base - 3 \in Digit /\ Base - 2 \in Digit /\ Base - 1 \in Digit
    /\ Wide(Base - 3) = [width |-> 2, least |-> Base - 3]
    /\ Wide(Base - 2) = [width |-> 4, least |-> Power[2]]
    /\ Wide(Base - 1) = [width |-> 8, least |-> Power[4]]
<1>1. Base - 3 # Base - 2 /\ Base - 3 # Base - 1 /\ Base - 2 # Base - 1
  BY Bases
<1>2. Base - 3 \in Digit /\ Base - 2 \in Digit /\ Base - 1 \in Digit
  BY Bases DEF Digit
<1>3. Wide(Base - 3) = [width |-> 2, least |-> Base - 3]
  BY <1>1 DEF Wide
<1>4. Wide(Base - 2) = [width |-> 4, least |-> Power[2]]
  BY <1>1 DEF Wide
<1>5. Wide(Base - 1) = [width |-> 8, least |-> Power[4]]
  BY <1>1 DEF Wide
<1> QED
  BY <1>2, <1>3, <1>4, <1>5

\* The forms of a size.
LEMMA CompactForm ==
    ASSUME NEW n \in Nat
    PROVE  /\ n < Base - 3 => /\ WriteCompactSize(n) = <<n>> /\ GetSizeOfCompactSize(n) = 1
                              /\ n \in Digit
           /\ ~(n < Base - 3) =>
                /\ WriteCompactSize(n) = <<Marker(n)>> \o ser_writedata(n, Width(n))
                /\ GetSizeOfCompactSize(n) = 1 + Width(n) /\ Width(n) \in Nat
                /\ Marker(n) \in Digit /\ ~(Marker(n) < Base - 3)
                /\ Wide(Marker(n)).width = Width(n) /\ Wide(Marker(n)).least \in Nat
                /\ Wide(Marker(n)).least <= n /\ (n < Power[8] => n < Power[Width(n)])
<1>0. /\ Base \in Nat /\ Base >= 8 /\ Power[2] \in Nat /\ Power[4] \in Nat /\ Power[8] \in Nat
      /\ Base < Power[2] /\ Power[2] < Power[4] /\ Power[4] < Power[8]
  BY Bases, SomePowers
<1>1. CASE n < Base - 3
  <2>1. n \in Digit
    BY <1>0, <1>1 DEF Digit
  <2>2. /\ ~(n >= Base - 3 /\ n < Power[2]) /\ ~(n >= Power[2] /\ n < Power[4]) /\ ~(n >= Power[4])
    BY <1>0, <1>1
  <2>3. WriteCompactSize(n) = ser_writedata(n, 1)
    BY <1>1, <2>2 DEF WriteCompactSize
  <2>4. GetSizeOfCompactSize(n) = 1
    BY <1>1, <2>2 DEF GetSizeOfCompactSize
  <2> QED
    BY <1>1, <2>1, <2>3, <2>4, OneByte
<1>2. CASE ~(n < Base - 3) /\ n < Power[2]
  <2>1. n >= Base - 3 /\ ~(n >= Power[2] /\ n < Power[4]) /\ ~(n >= Power[4])
    BY <1>0, <1>2
  <2>2. Marker(n) = Base - 3 /\ Width(n) = 2
    BY <1>2 DEF Marker, Width
  <2>3. WriteCompactSize(n) = <<Base - 3>> \o ser_writedata(n, 2)
    BY <1>2, <2>1 DEF WriteCompactSize
  <2>4. GetSizeOfCompactSize(n) = 3
    BY <1>2, <2>1 DEF GetSizeOfCompactSize
  <2> QED
    BY <1>0, <1>2, <2>1, <2>2, <2>3, <2>4, Markers, SMTT(60)
<1>3. CASE ~(n < Power[2]) /\ n < Power[4]
  <2>1. ~(n < Base - 3) /\ n >= Power[2] /\ ~(n >= Base - 3 /\ n < Power[2]) /\ ~(n >= Power[4])
    BY <1>0, <1>3
  <2>2. Marker(n) = Base - 2 /\ Width(n) = 4
    BY <1>3 DEF Marker, Width
  <2>3. WriteCompactSize(n) = <<Base - 2>> \o ser_writedata(n, 4)
    BY <1>3, <2>1 DEF WriteCompactSize
  <2>4. GetSizeOfCompactSize(n) = 5
    BY <1>3, <2>1 DEF GetSizeOfCompactSize
  <2> QED
    BY <1>0, <1>3, <2>1, <2>2, <2>3, <2>4, Markers
<1>4. CASE ~(n < Power[4])
  <2>1. /\ ~(n < Base - 3) /\ n >= Power[4] /\ ~(n < Power[2])
        /\ ~(n >= Base - 3 /\ n < Power[2]) /\ ~(n >= Power[2] /\ n < Power[4])
    BY <1>0, <1>4
  <2>2. Marker(n) = Base - 1 /\ Width(n) = 8
    BY <1>4, <2>1 DEF Marker, Width
  <2>3. WriteCompactSize(n) = <<Base - 1>> \o ser_writedata(n, 8)
    BY <1>4, <2>1 DEF WriteCompactSize
  <2>4. GetSizeOfCompactSize(n) = 9
    BY <1>4, <2>1 DEF GetSizeOfCompactSize
  <2> QED
    BY <1>0, <1>4, <2>1, <2>2, <2>3, <2>4, Markers
<1> QED
  BY <1>0, <1>1, <1>2, <1>3, <1>4

\* The bytes of a size.
LEMMA CompactBytes ==
    ASSUME NEW n \in Nat
    PROVE  WriteCompactSize(n) \in Seq(Digit) /\ Len(WriteCompactSize(n)) = GetSizeOfCompactSize(n)
<1>1. CASE n < Base - 3
  <2>0. n \in Digit
    BY <1>1, CompactForm
  <2>1. <<n>> \in Seq(Digit) /\ Len(<<n>>) = 1
    BY <2>0
  <2> QED
    BY <1>1, <2>1, CompactForm
<1>2. CASE ~(n < Base - 3)
  <2> DEFINE m == Marker(n)
             w == Width(n)
             x == ser_writedata(n, w)
  <2>1. /\ WriteCompactSize(n) = <<m>> \o x /\ GetSizeOfCompactSize(n) = 1 + w
        /\ m \in Digit /\ w \in Nat
    BY <1>2, CompactForm
  <2>2. x \in Seq(Digit) /\ Len(x) = w
    <3> HIDE DEF w
    <3> QED
      BY <2>1, Written
  <2> HIDE DEF m, w, x
  <2>3. <<m>> \in Seq(Digit) /\ Len(<<m>>) = 1
    BY <2>1
  <2>4. <<m>> \o x \in Seq(Digit) /\ Len(<<m>> \o x) = Len(<<m>>) + Len(x)
    BY <2>2, <2>3, InFront
  <2> QED
    BY <2>1, <2>2, <2>3, <2>4
<1> QED
  BY <1>1, <1>2

\* What has been read of a size that was written.
LEMMA CompactLong ==
    ASSUME NEW S, Holds(S), NEW g \in Seq(S), NEW n \in Nat, n < Power[8],
           NEW t \in Seq(Digit)
    PROVE  LongForm(ser_readdata(Stand(g, WriteCompactSize(n) \o t), 1)) = Stand(Append(g, n), t)
<1>0. n \in S
  BY DEF Holds
<1>1. CASE n < Base - 3
  <2> DEFINE a == <<n>>
             s == a \o t
             c == Stand(Append(g, n), t)
  <2>0. n \in Digit
    BY <1>1, CompactForm
  <2>1. a \in Seq(Digit) /\ Len(a) = 1 /\ WriteCompactSize(n) = a /\ Value(a) = n
    <3>1. <<n>> \in Seq(Digit) /\ Len(<<n>>) = 1
      BY <2>0
    <3>2. WriteCompactSize(n) = <<n>> /\ Value(<<n>>) = n
      BY <1>1, <2>0, CompactForm, OneByte
    <3> QED
      BY <3>1, <3>2
  <2> HIDE DEF a
  <2>2. s \in Seq(Digit) /\ Len(s) = 1 + Len(t) /\ SubSeq(s, 1, 1) = a
        /\ SubSeq(s, 1 + 1, Len(s)) = t
    <3>0. a \in Seq(Digit)
      BY <2>1
    <3>1. /\ s \in Seq(Digit) /\ Len(s) = Len(a) + Len(t) /\ SubSeq(s, 1, Len(a)) = a
          /\ SubSeq(s, Len(a) + 1, Len(s)) = t
      BY <3>0, InFront
    <3> HIDE DEF s
    <3> QED
      BY <2>1, <3>1
  <2> HIDE DEF s
  <2>3. 1 <= Len(s) /\ 1 \in Nat
    BY <2>2
  <2>4. ser_readdata(Stand(g, s), 1) = c
    BY <2>1, <2>2, <2>3, ReadsData, ZenonT(60)
  <2>5. Top(c) = n
    BY <1>0, TopIs
  <2> HIDE DEF c
  <2>6. LongForm(c) = c
    BY <1>1, <2>5 DEF LongForm
  <2> QED
    BY <2>1, <2>4, <2>6 DEF s, c
<1>2. CASE ~(n < Base - 3)
  <2> DEFINE m == Marker(n)
             w == Width(n)
             x == ser_writedata(n, w)
             a == <<m>>
             u == x \o t
             s == a \o u
             h == Append(g, m)
             c == Stand(h, u)
             e == Stand(Append(h, n), t)
  <2>1. /\ WriteCompactSize(n) = a \o x /\ m \in Digit /\ w \in Nat /\ ~(m < Base - 3)
        /\ Wide(m).width = w /\ Wide(m).least \in Nat /\ Wide(m).least <= n /\ n < Power[w]
    BY <1>2, CompactForm
  <2> HIDE DEF m, w
  <2>2. x \in Seq(Digit) /\ Len(x) = w /\ Value(x) = n
    BY <2>1, Written, ValueOfWritten
  <2>3. a \in Seq(Digit) /\ Len(a) = 1 /\ Value(a) = m
    BY <2>1, OneByte
  <2> HIDE DEF x, a
  <2>4. u \in Seq(Digit) /\ Len(u) = w + Len(t) /\ SubSeq(u, 1, w) = x /\ SubSeq(u, w + 1, Len(u)) = t
    <3>0. x \in Seq(Digit)
      BY <2>2
    <3>1. /\ u \in Seq(Digit) /\ Len(u) = Len(x) + Len(t) /\ SubSeq(u, 1, Len(x)) = x
          /\ SubSeq(u, Len(x) + 1, Len(u)) = t
      BY <3>0, InFront
    <3> HIDE DEF u
    <3> QED
      BY <2>2, <3>1
  <2>5. (a \o x) \o t = s
    BY <2>2, <2>3, ConcatAssociative, SMTT(60)
  <2> HIDE DEF u
  <2>6. s \in Seq(Digit) /\ Len(s) = 1 + Len(u) /\ SubSeq(s, 1, 1) = a
        /\ SubSeq(s, 1 + 1, Len(s)) = u
    <3>0. a \in Seq(Digit) /\ u \in Seq(Digit)
      BY <2>3, <2>4
    <3>1. /\ s \in Seq(Digit) /\ Len(s) = Len(a) + Len(u) /\ SubSeq(s, 1, Len(a)) = a
          /\ SubSeq(s, Len(a) + 1, Len(s)) = u
      BY <3>0, InFront
    <3> HIDE DEF s
    <3> QED
      BY <2>3, <3>1
  <2> HIDE DEF s
  <2>7. m \in S /\ m \in Nat
    BY <2>1, Bases DEF Holds, Digit
  <2>8. h \in Seq(S)
    BY <2>7
  <2>9. ser_readdata(Stand(g, s), 1) = c
    <3>1. 1 <= Len(s) /\ 1 \in Nat
      BY <2>4, <2>6
    <3> QED
      BY <2>3, <2>6, <3>1, ReadsData
  <2>10. Top(c) = m
    BY <2>7, TopIs
  <2>11. ser_readdata(c, w) = e
    <3>1. w <= Len(u)
      BY <2>1, <2>4
    <3> HIDE DEF h
    <3> QED
      BY <2>1, <2>2, <2>4, <2>8, <3>1, ReadsData
  <2>12. Top(e) = n
    <3> HIDE DEF h
    <3> QED
      BY <1>0, <2>8, TopIs
  <2>13. Made(e, 2, LAMBDA f : f[2]) = Stand(Append(g, n), t)
    BY <1>0, <2>7, KeepsSecond
  <2> HIDE DEF c, e
  <2>14. LongForm(c) = Shortest(e, Wide(m).least)
    BY <2>1, <2>10, <2>11 DEF LongForm
  <2>15. ~(n < Wide(m).least)
    BY <2>1
  <2>16. Shortest(e, Wide(m).least) = Stand(Append(g, n), t)
    BY <2>12, <2>13, <2>15, Zenon DEF Shortest
  <2> QED
    BY <2>1, <2>5, <2>9, <2>14, <2>16
<1> QED
  BY <1>1, <1>2

\* A size is read back, unless it is past the limit.
LEMMA CompactReads ==
    ASSUME NEW S, Holds(S), NEW g \in Seq(S), NEW n \in Nat, n < Power[8],
           NEW t \in Seq(Digit)
    PROVE  /\ n <= MAX_SIZE =>
                ReadCompactSize(Stand(g, WriteCompactSize(n) \o t)) = Stand(Append(g, n), t)
           /\ ~(n <= MAX_SIZE) => ReadCompactSize(Stand(g, WriteCompactSize(n) \o t)) = Thrown
<1> DEFINE c == Stand(Append(g, n), t)
           r == ReadCompactSize(Stand(g, WriteCompactSize(n) \o t))
<1>1. Top(c) = n
  BY TopIs DEF Holds
<1>2. r = Limited(c, MAX_SIZE)
  BY CompactLong, Zenon DEF ReadCompactSize
<1> HIDE DEF c, r
<1>3. n > MAX_SIZE <=> ~(n <= MAX_SIZE)
  BY Bases
<1>4. r = IF n > MAX_SIZE THEN Thrown ELSE c
  BY <1>1, <1>2 DEF Limited
<1> QED
  BY <1>3, <1>4 DEF c, r

\* What is accepted as a size was written as that size.
LEMMA CompactAccepts ==
    ASSUME NEW S, Holds(S), NEW g \in Seq(S), NEW s \in Seq(Digit),
           ReadCompactSize(Stand(g, s)).ok
    PROVE  \E n \in Nat, t \in Seq(Digit) :
             /\ ReadCompactSize(Stand(g, s)) = Stand(Append(g, n), t)
             /\ n < Power[8] /\ n <= MAX_SIZE /\ WriteCompactSize(n) \o t = s
<1> DEFINE c == ser_readdata(Stand(g, s), 1)
           l == LongForm(c)
           r == ReadCompactSize(Stand(g, s))
           Found(n, t) == l = Stand(Append(g, n), t) /\ n < Power[8] /\ WriteCompactSize(n) \o t = s
<1>0. Len(s) \in Nat /\ 1 \in Nat
  OBVIOUS
<1>1. r = IF Top(l) > MAX_SIZE THEN Thrown ELSE l
  BY Zenon DEF ReadCompactSize, Limited
<1>2. ~(Top(l) > MAX_SIZE) /\ r = l /\ l.ok
  <2> HIDE DEF l
  <2> QED
    BY <1>1, Stands, Zenon
<1>3. 1 <= Len(s)
  <2> SUFFICES ASSUME ~(1 <= Len(s)) PROVE FALSE
    OBVIOUS
  <2>1. c = Thrown
    BY <1>0, ReadsData
  <2>2. Top(c) = 0
    BY <2>1, Stands
  <2>3. Top(c) < Base - 3
    BY <2>2, Bases
  <2>4. l = Thrown
    <3> HIDE DEF c
    <3> QED
      BY <2>1, <2>3 DEF LongForm
  <2> QED
    BY <1>2, <2>4, Stands
<1> DEFINE a == SubSeq(s, 1, 1)
           u == SubSeq(s, 1 + 1, Len(s))
           m == Value(a)
           h == Append(g, m)
<1>4. c = Stand(h, u)
  BY <1>0, <1>3, ReadsData
<1>5. a \in Seq(Digit) /\ Len(a) = 1 /\ u \in Seq(Digit) /\ a \o u = s
  BY <1>0, <1>3, PartOf
<1> HIDE DEF a, u
<1>6. m \in Digit /\ a = <<m>>
  <2>1. m \in Nat /\ m < Power[1] /\ ser_writedata(m, 1) = a
    BY <1>5, WrittenOfValue
  <2>2. m \in Digit
    BY <2>1, Bases, SomePowers DEF Digit
  <2> QED
    BY <2>1, <2>2, OneByte
<1> HIDE DEF m
<1>7. m \in Nat /\ m \in S /\ m < Base /\ m < Power[8]
  <2>1. m \in Nat /\ m < Base
    BY <1>6, Bases DEF Digit
  <2>2. Base \in Nat /\ Base < Power[2] /\ Power[2] < Power[4] /\ Power[4] < Power[8]
        /\ Power[2] \in Nat /\ Power[4] \in Nat /\ Power[8] \in Nat
    BY Bases, SomePowers
  <2>3. m \in S
    BY <2>1 DEF Holds
  <2> QED
    BY <2>1, <2>2, <2>3
<1>8. h \in Seq(S) /\ Top(c) = m
  <2>1. h \in Seq(S)
    BY <1>7
  <2>2. Top(Stand(Append(g, m), u)) = m
    BY <1>7, TopIs
  <2> QED
    BY <1>4, <2>1, <2>2
<1> HIDE DEF c
<1>9. CASE m < Base - 3
  <2>1. l = c
    BY <1>8, <1>9 DEF LongForm
  <2>2. WriteCompactSize(m) = a
    BY <1>6, <1>7, <1>9, CompactForm
  <2>3. Top(l) = m
    BY <1>8, <2>1
  <2>4. m <= MAX_SIZE
    BY <1>2, <1>7, <2>3, Bases
  <2>5. r = Stand(Append(g, m), u) /\ WriteCompactSize(m) \o u = s
    BY <1>2, <1>4, <1>5, <2>1, <2>2
  <2> QED
    BY <1>5, <1>7, <2>4, <2>5
<1>10. CASE ~(m < Base - 3)
  <2> DEFINE w == Wide(m).width
             k == Wide(m).least
             e == ser_readdata(c, w)
  <2>1. /\ m \in {Base - 3, Base - 2, Base - 1} /\ w \in Nat /\ k \in Nat /\ k > 0
        /\ \A n \in Nat : k <= n /\ n < Power[w] =>
             /\ n < Power[8] /\ ~(n < Base - 3) /\ Marker(n) = m /\ Width(n) = w
    <3>0. /\ Base \in Nat /\ Base >= 8 /\ Power[2] \in Nat /\ Power[4] \in Nat /\ Power[8] \in Nat
          /\ Base < Power[2] /\ Power[2] < Power[4] /\ Power[4] < Power[8]
      BY Bases, SomePowers
    <3>1. m \in {Base - 3, Base - 2, Base - 1}
      BY <1>7, <1>10, <3>0
    <3>2. CASE m = Base - 3
      <4>1. w = 2 /\ k = Base - 3
        BY <3>2, Markers
      <4> HIDE DEF w, k
      <4> QED
        BY <3>0, <3>1, <3>2, <4>1 DEF Marker, Width
    <3>3. CASE m = Base - 2
      <4>1. w = 4 /\ k = Power[2]
        BY <3>3, Markers
      <4> HIDE DEF w, k
      <4> QED
        BY <3>0, <3>1, <3>3, <4>1 DEF Marker, Width
    <3>4. CASE m = Base - 1
      <4>1. w = 8 /\ k = Power[4]
        BY <3>4, Markers
      <4> HIDE DEF w, k
      <4> QED
        BY <3>0, <3>1, <3>4, <4>1 DEF Marker, Width
    <3> HIDE DEF w, k
    <3> QED
      BY <3>1, <3>2, <3>3, <3>4
  <2>2. l = Shortest(e, k)
    BY <1>8, <1>10 DEF LongForm
  <2> HIDE DEF w, k
  <2>3. l = IF Top(e) < k THEN Thrown ELSE Made(e, 2, LAMBDA f : f[2])
    BY <2>2, Zenon DEF Shortest
  <2>4. ~(Top(e) < k) /\ l = Made(e, 2, LAMBDA f : f[2])
    <3> DEFINE x == Made(e, 2, LAMBDA f : f[2])
    <3>1. l = IF Top(e) < k THEN Thrown ELSE x
      BY <2>3
    <3> HIDE DEF l, e, x
    <3>2. ~(Top(e) < k) /\ l = x
      BY <1>2, <3>1, Stands, Zenon
    <3> QED
      BY <3>2 DEF x
  <2>5. w <= Len(u)
    <3> SUFFICES ASSUME ~(w <= Len(u)) PROVE FALSE
      OBVIOUS
    <3>1. e = Thrown
      <4>1. ser_readdata(Stand(h, u), w) = Thrown
        <5> HIDE DEF h
        <5> QED
          BY <1>5, <1>8, <2>1, ReadsData
      <4> QED
        BY <1>4, <4>1
    <3>2. Top(e) = 0
      BY <3>1, Stands
    <3> QED
      BY <2>1, <2>4, <3>2
  <2> DEFINE b == SubSeq(u, 1, w)
             t == SubSeq(u, w + 1, Len(u))
             n == Value(b)
  <2>6. e = Stand(Append(h, n), t)
    <3>1. ser_readdata(Stand(h, u), w) = Stand(Append(h, n), t)
      <4> HIDE DEF h
      <4> QED
        BY <1>5, <1>8, <2>1, <2>5, ReadsData
    <3> QED
      BY <1>4, <3>1
  <2>7. b \in Seq(Digit) /\ Len(b) = w /\ t \in Seq(Digit) /\ b \o t = u
    <3>1. u \in Seq(Digit) /\ w \in Nat
      BY <1>5, <2>1
    <3> QED
      BY <2>5, <3>1, PartOf, ZenonT(60)
  <2> HIDE DEF b, t
  <2>8. n \in Nat /\ n < Power[w] /\ ser_writedata(n, w) = b
    BY <2>7, WrittenOfValue
  <2> HIDE DEF n
  <2>9. n \in S
    BY <2>8 DEF Holds
  <2>10. Top(e) = n
    <3>1. Top(Stand(Append(h, n), t)) = n
      <4> HIDE DEF h
      <4> QED
        BY <1>8, <2>9, TopIs
    <3> QED
      BY <2>6, <3>1
  <2>11. k <= n
    BY <2>1, <2>4, <2>8, <2>10
  <2>12. n < Power[8] /\ WriteCompactSize(n) = a \o b
    <3>1. n < Power[8] /\ ~(n < Base - 3) /\ Marker(n) = m /\ Width(n) = w
      BY <2>1, <2>8, <2>11
    <3>2. WriteCompactSize(n) = <<Marker(n)>> \o ser_writedata(n, Width(n))
      BY <2>8, <3>1, CompactForm
    <3> QED
      BY <1>6, <2>8, <3>1, <3>2
  <2>13. (a \o b) \o t = s
    <3>1. a \in Seq(Digit) /\ b \in Seq(Digit) /\ t \in Seq(Digit)
      BY <1>5, <2>7
    <3>2. (a \o b) \o t = a \o (b \o t)
      BY <3>1, ConcatAssociative, SMTT(60)
    <3> QED
      BY <1>5, <2>7, <3>2
  <2>14. l = Stand(Append(g, n), t)
    BY <1>7, <2>4, <2>6, <2>9, KeepsSecond
  <2>15. Top(l) = n
    BY <2>9, <2>14, TopIs
  <2>16. n <= MAX_SIZE
    BY <1>2, <2>8, <2>15, Bases
  <2> QED
    BY <1>2, <2>7, <2>8, <2>12, <2>13, <2>14, <2>16
<1> QED
  BY <1>9, <1>10

-----------------------------------------------------------------------------
(* VarInt *)

\* What is left of n for the digits before its last one.
Upper(n) == (n \div Half) - 1

\* The last digit of n, and what is left for the others, which is less than n.
LEMMA UpperLess ==
    ASSUME NEW n \in Nat
    PROVE  /\ n % Half \in Nat /\ n % Half < Half /\ Half + (n % Half) \in Digit /\ n % Half \in Digit
           /\ ~(n < Half) => Upper(n) \in Nat /\ Upper(n) < n /\ n \div Half = Upper(n) + 1
           /\ n = Half * (n \div Half) + (n % Half) /\ n \div Half \in Nat
<1> DEFINE q == n \div Half
           d == n % Half
<1>0. Half \in Nat /\ Half >= 4 /\ Base = 2 * Half
  BY Bases
<1>1. q \in Nat /\ d \in Nat /\ d < Half /\ n = Half * q + d
  <2>1. Half > 0
    BY <1>0
  <2> QED
    BY <1>0, <2>1, Quotients
<1> HIDE DEF q, d
<1>2. ~(n < Half) => q >= 1
  BY <1>0, <1>1
<1>3. q <= Half * q
  BY <1>0, <1>1
<1>4. ~(n < Half) => q - 1 \in Nat /\ q - 1 < n
  <2>1. Half * q \in Nat
    BY <1>0, <1>1
  <2> QED
    BY <1>1, <1>2, <1>3, <2>1
<1>5. Half + d \in Digit /\ d \in Digit
  BY <1>0, <1>1 DEF Digit
<1> QED
  BY <1>1, <1>4, <1>5 DEF Upper, q, d

\* The functions that are defined by Upper.
ByUpper(f, a, b) ==
    \A n \in Nat : /\ n < Half => f[n] = a[n]
                   /\ ~(n < Half) => f[n] = b[n][f[Upper(n)]]

\* There is a function with the values a and the rule b.
LEMMA UpperRecursion ==
    ASSUME NEW S, NEW a \in [Nat -> S], NEW b \in [Nat -> [S -> S]]
    PROVE  \E f \in [Nat -> S] : ByUpper(f, a, b)
<1> DEFINE Z == 0..(Half - 1)
           p == [n \in Nat |-> IF n < Half THEN 0 ELSE Upper(n)]
<1>1. \E f \in [Nat -> S] : Recurs(f, Z, a, p, b)
  <2>1. p \in [Nat -> Nat]
    BY UpperLess
  <2>2. Descends(p, Z)
    <3> SUFFICES ASSUME NEW n \in Nat, n \notin Z PROVE p[n] < n
      BY DEF Descends
    <3>1. ~(n < Half)
      BY Bases
    <3> QED
      BY <3>1, UpperLess
  <2> HIDE DEF p, Z
  <2> QED
    BY <2>1, <2>2, Recursion
<1>2. PICK f \in [Nat -> S] : Recurs(f, Z, a, p, b)
  BY <1>1
<1>3. ASSUME NEW n \in Nat
      PROVE  /\ n < Half => f[n] = a[n]
             /\ ~(n < Half) => f[n] = b[n][f[Upper(n)]]
  <2>1. n \in Z <=> n < Half
    BY Bases
  <2>2. f[n] = IF n \in Z THEN a[n] ELSE b[n][f[p[n]]]
    BY <1>2 DEF Recurs
  <2>3. ~(n < Half) => p[n] = Upper(n)
    OBVIOUS
  <2> HIDE DEF Z, p
  <2> QED
    BY <2>1, <2>2, <2>3
<1> QED
  BY <1>3 DEF ByUpper

\* Leading is what its definition says, a sequence of digits.
LEMMA LeadingIs ==
    /\ \A n \in Nat : Leading[n] =
         IF n < Half THEN <<Half + n>> ELSE Leading[Upper(n)] \o <<Half + (n % Half)>>
    /\ \A n \in Nat : Leading[n] \in Seq(Digit)
<1> DEFINE S == Seq(Digit)
           Rule(f, n) == IF n < Half THEN <<Half + n>> ELSE f[Upper(n)] \o <<Half + (n % Half)>>
           a == [n \in Nat |-> <<Half + (n % Half)>>]
           b == [n \in Nat |-> [x \in S |-> x \o <<Half + (n % Half)>>]]
<1>1. ASSUME NEW n \in Nat PROVE <<Half + (n % Half)>> \in S
  <2>1. Half + (n % Half) \in Digit
    BY UpperLess
  <2> QED
    BY <2>1
<1>2. a \in [Nat -> S]
  BY <1>1
<1>3. b \in [Nat -> [S -> S]]
  <2>1. ASSUME NEW n \in Nat, NEW x \in S PROVE x \o <<Half + (n % Half)>> \in S
    BY <1>1, ConcatProperties
  <2> QED
    BY <2>1
<1>4. \E f \in [Nat -> S] : ByUpper(f, a, b)
  <2> HIDE DEF S, a, b
  <2> QED
    BY <1>2, <1>3, UpperRecursion
<1>5. PICK g \in [Nat -> S] : \A n \in Nat : /\ n < Half => g[n] = a[n]
                                             /\ ~(n < Half) => g[n] = b[n][g[Upper(n)]]
  BY <1>4 DEF ByUpper
<1>6. ASSUME NEW n \in Nat PROVE g[n] = Rule(g, n)
  <2>1. CASE n < Half
    <3>1. n % Half = n
      BY <2>1, Bases
    <3> QED
      BY <1>5, <2>1, <3>1
  <2>2. CASE ~(n < Half)
    <3>1. Upper(n) \in Nat
      BY <2>2, UpperLess
    <3>2. g[Upper(n)] \in S
      BY <3>1
    <3>3. b[n][g[Upper(n)]] = g[Upper(n)] \o <<Half + (n % Half)>>
      BY <3>2
    <3> QED
      BY <1>5, <2>2, <3>3
  <2> QED
    BY <2>1, <2>2
<1>7. g = [n \in Nat |-> Rule(g, n)]
  BY <1>6
<1>8. Leading = [n \in Nat |-> Rule(Leading, n)]
  <2>1. \E f : f = [n \in Nat |-> Rule(f, n)]
    BY <1>7
  <2> QED
    BY <2>1, Zenon DEF Leading, Upper
<1>9. \A n \in Nat : Leading[n] = Rule(Leading, n)
  BY <1>8
<1> DEFINE T == {n \in Nat : Leading[n] \in S}
<1>10. ASSUME NEW n \in Nat, \A m \in 0..(n - 1) : m \in T PROVE n \in T
  <2>1. CASE n < Half
    <3>1. n % Half = n
      BY <2>1, Bases
    <3>2. Leading[n] = <<Half + (n % Half)>>
      BY <1>9, <2>1, <3>1
    <3> QED
      BY <1>1, <3>2
  <2>2. CASE ~(n < Half)
    <3>1. Upper(n) \in Nat /\ Upper(n) < n
      BY <2>2, UpperLess
    <3>2. Upper(n) \in 0..(n - 1)
      BY <3>1
    <3>3. Leading[Upper(n)] \in S
      BY <1>10, <3>2
    <3>4. Leading[n] = Leading[Upper(n)] \o <<Half + (n % Half)>>
      BY <1>9, <2>2
    <3>5. Leading[n] \in S
      BY <1>1, <3>3, <3>4, ConcatProperties
    <3> QED
      BY <3>5
  <2> QED
    BY <2>1, <2>2
<1>11. \A n \in Nat : n \in T
  <2> HIDE DEF T
  <2> QED
    BY <1>10, Induct
<1> QED
  BY <1>9, <1>11

\* GetSizeOfVarInt is what its definition says: the number of digits.
LEMMA VarIntSizes ==
    /\ \A n \in Nat : GetSizeOfVarInt[n] = IF n < Half THEN 1 ELSE 1 + GetSizeOfVarInt[Upper(n)]
    /\ \A n \in Nat : GetSizeOfVarInt[n] = Len(Leading[n])
<1> DEFINE Rule(f, n) == IF n < Half THEN 1 ELSE 1 + f[Upper(n)]
           a == [n \in Nat |-> 1]
           b == [n \in Nat |-> [x \in Nat |-> 1 + x]]
           G == GetSizeOfVarInt
<1>1. a \in [Nat -> Nat] /\ b \in [Nat -> [Nat -> Nat]]
  OBVIOUS
<1>2. \E f \in [Nat -> Nat] : ByUpper(f, a, b)
  <2> HIDE DEF a, b
  <2> QED
    BY <1>1, UpperRecursion
<1>3. PICK g \in [Nat -> Nat] : \A n \in Nat : /\ n < Half => g[n] = a[n]
                                               /\ ~(n < Half) => g[n] = b[n][g[Upper(n)]]
  BY <1>2 DEF ByUpper
<1>4. ASSUME NEW n \in Nat PROVE g[n] = Rule(g, n)
  <2>1. ~(n < Half) => Upper(n) \in Nat
    BY UpperLess
  <2>2. ~(n < Half) => b[n][g[Upper(n)]] = 1 + g[Upper(n)]
    BY <2>1
  <2>3. a[n] = 1
    OBVIOUS
  <2> QED
    BY <1>3, <2>2, <2>3
<1>5. g = [n \in Nat |-> Rule(g, n)]
  BY <1>4
<1>6. G = [n \in Nat |-> Rule(G, n)]
  <2>1. \E f : f = [n \in Nat |-> Rule(f, n)]
    BY <1>5
  <2> QED
    BY <2>1, Zenon DEF GetSizeOfVarInt, Upper
<1>7. \A n \in Nat : G[n] = Rule(G, n)
  BY <1>6
<1> HIDE DEF G
<1> DEFINE T == {n \in Nat : G[n] = Len(Leading[n])}
<1>8. ASSUME NEW n \in Nat, \A m \in 0..(n - 1) : m \in T PROVE n \in T
  <2>1. CASE n < Half
    <3>1. Leading[n] = <<Half + n>> /\ G[n] = 1
      BY <1>7, <2>1, LeadingIs
    <3>2. Len(<<Half + n>>) = 1
      OBVIOUS
    <3> QED
      BY <3>1, <3>2
  <2>2. CASE ~(n < Half)
    <3> DEFINE x == Leading[Upper(n)]
               d == <<Half + (n % Half)>>
    <3>1. Upper(n) \in Nat /\ Upper(n) < n /\ Half + (n % Half) \in Digit
      BY <2>2, UpperLess
    <3>2. Upper(n) \in 0..(n - 1)
      BY <3>1
    <3>3. G[Upper(n)] = Len(x) /\ x \in Seq(Digit)
      BY <1>8, <3>1, <3>2, LeadingIs
    <3>4. Leading[n] = x \o d /\ G[n] = 1 + G[Upper(n)]
      BY <1>7, <2>2, LeadingIs
    <3>5. d \in Seq(Digit) /\ Len(d) = 1
      BY <3>1
    <3> HIDE DEF x, d
    <3>6. Len(x \o d) = Len(x) + Len(d) /\ Len(x) \in Nat
      <4>1. x \in Seq(Digit) /\ d \in Seq(Digit)
        BY <3>3, <3>5
      <4> QED
        BY <4>1, InFront
    <3>7. G[n] = Len(Leading[n])
      BY <3>3, <3>4, <3>5, <3>6
    <3> QED
      BY <3>7
  <2> QED
    BY <2>1, <2>2
<1>9. \A n \in Nat : n \in T
  <2> HIDE DEF T
  <2> QED
    BY <1>8, Induct
<1> QED
  BY <1>7, <1>9 DEF G

\* What ReadVarInt has made of the first k bytes.
AfterRule(s, f, k) ==
    IF k = 0 THEN [st |-> "more", n |-> 0]
    ELSE IF f[k - 1].st = "more" THEN VarIntStep(f[k - 1].n, s[k])
    ELSE f[k - 1]
After(s) == CHOOSE f : f = [k \in 0..Len(s) |-> AfterRule(s, f, k)]
Ends(s)  == {k \in 1..Len(s) : After(s)[k - 1].st = "more" /\ After(s)[k].st = "done"}

ReadsTo(r, s) ==
    IF Ends(s) = {} THEN Thrown
    ELSE LET k == CHOOSE k \in Ends(s) : TRUE IN Behind(r, k, After(s)[k].n)

\* ReadVarInt reads up to the byte it ends at.
LEMMA ReadVarIntIs == \A r : ReadVarInt(r) = ReadsTo(r, r.rest)
  BY Zenon DEF ReadVarInt, ReadsTo, Ends, After, AfterRule

VarIntState == [st : {"more", "done", "throw"}, n : Nat]

\* One step, by cases.
LEMMA VarIntSteps ==
    ASSUME NEW n \in Nat, NEW ch \in Digit
    PROVE  LET m == n * Half + (ch % Half)
               r == VarIntStep(n, ch)
           IN /\ m \in Nat /\ r \in VarIntState
              /\ n > VarIntMax \div Half => r.st = "throw"
              /\ ~(n > VarIntMax \div Half) /\ ch < Half => r.st = "done" /\ r.n = m
              /\ ~(n > VarIntMax \div Half) /\ ~(ch < Half) =>
                    /\ m = VarIntMax => r.st = "throw"
                    /\ m # VarIntMax => r.st = "more" /\ r.n = m + 1
<1> DEFINE m == n * Half + (ch % Half)
           r == VarIntStep(n, ch)
<1>0. ch \in Nat
  BY Bases DEF Digit
<1>1. ch % Half \in Nat
  BY <1>0, UpperLess
<1>2. n * Half \in Nat
  BY Bases
<1>3. m \in Nat
  BY <1>1, <1>2
<1> HIDE DEF m
<1>4. r = IF n > VarIntMax \div Half THEN [st |-> "throw", n |-> n]
          ELSE IF ch < Half THEN [st |-> "done", n |-> m]
          ELSE IF m = VarIntMax THEN [st |-> "throw", n |-> n]
          ELSE [st |-> "more", n |-> m + 1]
  BY DEF VarIntStep, m
<1> HIDE DEF r
<1>5. r \in VarIntState
  BY <1>3, <1>4 DEF VarIntState
<1>6. /\ n > VarIntMax \div Half => r.st = "throw"
      /\ ~(n > VarIntMax \div Half) /\ ch < Half => r.st = "done" /\ r.n = m
      /\ ~(n > VarIntMax \div Half) /\ ~(ch < Half) =>
            /\ m = VarIntMax => r.st = "throw"
            /\ m # VarIntMax => r.st = "more" /\ r.n = m + 1
  BY <1>4
<1> QED
  BY <1>3, <1>5, <1>6 DEF r, m

\* The state after k bytes is what its definition says.
LEMMA AfterIs ==
    ASSUME NEW s \in Seq(Digit)
    PROVE  /\ After(s)[0].st = "more" /\ After(s)[0].n = 0
           /\ \A k \in 1..Len(s) : After(s)[k] =
                IF After(s)[k - 1].st = "more" THEN VarIntStep(After(s)[k - 1].n, s[k])
                ELSE After(s)[k - 1]
           /\ \A k \in 0..Len(s) : After(s)[k] \in VarIntState
<1> DEFINE N == Len(s)
           S == VarIntState
           v == [st |-> "more", n |-> 0]
           ch == [k \in Nat |-> IF k \in 1..N THEN s[k] ELSE 0]
           b == [k \in Nat |-> [x \in S |-> IF x.st = "more" THEN VarIntStep(x.n, ch[k]) ELSE x]]
           A == After(s)
<1>0. N \in Nat
  OBVIOUS
<1>1. \A k \in Nat : ch[k] \in Digit
  <2>1. 0 \in Digit
    BY Bases DEF Digit
  <2>2. \A k \in 1..N : s[k] \in Digit
    BY ElementOfSeq
  <2> QED
    BY <2>1, <2>2
<1>2. v \in S
  BY DEF VarIntState
<1>3. ASSUME NEW x \in S, NEW c \in Digit
      PROVE  (IF x.st = "more" THEN VarIntStep(x.n, c) ELSE x) \in S
  <2>1. x.n \in Nat
    BY DEF VarIntState
  <2>2. VarIntStep(x.n, c) \in VarIntState
    BY <2>1, VarIntSteps
  <2> QED
    BY <2>2
<1>4. b \in [Nat -> [S -> S]]
  <2> HIDE DEF S, ch
  <2> QED
    BY <1>1, <1>3
<1>5. \E f \in [0..N -> S] : Chain(f, N, v, b)
  <2> HIDE DEF S, v, b, N
  <2> QED
    BY <1>0, <1>2, <1>4, Chains
<1>6. PICK g \in [0..N -> S] : Chain(g, N, v, b)
  BY <1>5
<1>7. ASSUME NEW k \in 0..N PROVE g[k] = AfterRule(s, g, k)
  <2>1. CASE k = 0
    BY <1>6, <2>1 DEF Chain, AfterRule
  <2>2. CASE k # 0
    <3>1. k \in 1..N /\ k \in Nat /\ k - 1 \in 0..N
      BY <1>0, <2>2
    <3>2. g[k] = b[k][g[k - 1]] /\ g[k - 1] \in S /\ ch[k] = s[k]
      BY <1>6, <3>1 DEF Chain
    <3>3. b[k][g[k - 1]] = IF g[k - 1].st = "more" THEN VarIntStep(g[k - 1].n, ch[k])
                           ELSE g[k - 1]
      <4> HIDE DEF S, ch
      <4> QED
        BY <3>1, <3>2
    <3> HIDE DEF b, ch, S
    <3> QED
      BY <2>2, <3>2, <3>3 DEF AfterRule
  <2> QED
    BY <2>1, <2>2
<1>8. A = [k \in 0..N |-> AfterRule(s, A, k)]
  <2>1. g = [k \in 0..N |-> AfterRule(s, g, k)]
    BY <1>7
  <2>2. \E f : f = [k \in 0..Len(s) |-> AfterRule(s, f, k)]
    BY <2>1
  <2> QED
    BY <2>2 DEF After
<1>9. \A k \in 0..N : A[k] = AfterRule(s, A, k)
  BY <1>8
<1> HIDE DEF A
<1>10. A[0] = v
  BY <1>0, <1>9 DEF AfterRule
<1>11. \A k \in 1..N : A[k] = IF A[k - 1].st = "more" THEN VarIntStep(A[k - 1].n, s[k])
                               ELSE A[k - 1]
  <2> TAKE k \in 1..N
  <2>1. k \in 0..N /\ k # 0
    OBVIOUS
  <2> QED
    BY <1>9, <2>1 DEF AfterRule
<1> DEFINE T == {k \in Nat : k <= N => A[k] \in S}
<1>12. ASSUME NEW k \in Nat, \A m \in 0..(k - 1) : m \in T PROVE k \in T
  <2> SUFFICES ASSUME k <= N PROVE A[k] \in S
    OBVIOUS
  <2>1. CASE k = 0
    BY <1>2, <1>10, <2>1
  <2>2. CASE k # 0
    <3>1. k \in 1..N /\ k - 1 \in 0..(k - 1) /\ k - 1 <= N /\ k - 1 \in Nat
      BY <1>0, <2>2
    <3>2. A[k - 1] \in S
      BY <1>12, <3>1
    <3>3. s[k] \in Digit
      BY <3>1, ElementOfSeq
    <3> HIDE DEF S
    <3> QED
      BY <1>3, <1>11, <3>1, <3>2, <3>3
  <2> QED
    BY <2>1, <2>2
<1>13. \A k \in Nat : k \in T
  <2> HIDE DEF T
  <2> QED
    BY <1>12, Induct
<1>14. \A k \in 0..N : A[k] \in S
  BY <1>0, <1>13
<1>15. A[0].st = "more" /\ A[0].n = 0
  BY <1>10
<1> QED
  BY <1>11, <1>14, <1>15 DEF A

\* Once the bytes are enough, or too many, nothing changes any more.
LEMMA Settled ==
    ASSUME NEW s \in Seq(Digit), NEW k \in 0..Len(s), After(s)[k].st # "more"
    PROVE  \A j \in 0..Len(s) : k <= j => After(s)[j] = After(s)[k]
<1> DEFINE A == After(s)
           N == Len(s)
           T == {j \in Nat : k <= j /\ j <= N => A[j] = A[k]}
<1>0. N \in Nat /\ \A j \in 1..N : A[j - 1].st # "more" => A[j] = A[j - 1]
  BY AfterIs
<1>h. A[k].st # "more" /\ k \in Nat
  OBVIOUS
<1> HIDE DEF A, N
<1>1. ASSUME NEW j \in Nat, \A m \in 0..(j - 1) : m \in T PROVE j \in T
  <2> SUFFICES ASSUME k <= j, j <= N PROVE A[j] = A[k]
    OBVIOUS
  <2>1. CASE j = k
    BY <2>1
  <2>2. CASE j # k
    <3>1. j - 1 \in 0..(j - 1) /\ k <= j - 1 /\ j - 1 <= N /\ j \in 1..N /\ j - 1 \in Nat
      BY <1>0, <1>h, <2>2
    <3>2. A[j - 1] = A[k]
      BY <1>1, <3>1
    <3> QED
      BY <1>0, <1>h, <3>1, <3>2
  <2> QED
    BY <2>1, <2>2
<1>2. \A j \in Nat : j \in T
  <2> HIDE DEF T
  <2> QED
    BY <1>1, Induct
<1>3. \A j \in 0..N : k <= j => A[j] = A[k]
  BY <1>0, <1>2
<1> QED
  BY <1>3 DEF A, N

\* Where it ends, and where it throws.
LEMMA OneEnd ==
    ASSUME NEW s \in Seq(Digit), NEW k \in 1..Len(s)
    PROVE  /\ After(s)[k - 1].st = "more" /\ After(s)[k].st = "done" => Ends(s) = {k}
           /\ After(s)[k].st = "throw" => Ends(s) = {}
<1> DEFINE A == After(s)
           N == Len(s)
<1>0. N \in Nat /\ k \in Nat /\ k <= N /\ k >= 1
  OBVIOUS
<1>1. ASSUME NEW i \in 0..N, A[i].st # "more" PROVE \A j \in 0..N : i <= j => A[j] = A[i]
  BY <1>1, Settled
<1>2. Ends(s) = {j \in 1..N : A[j - 1].st = "more" /\ A[j].st = "done"}
  BY DEF Ends
<1> HIDE DEF A, N
<1>3. ASSUME A[k].st # "more", NEW j \in Ends(s)
      PROVE  j \in 1..N /\ j <= k /\ A[k].st = "done" /\ (j < k => A[k - 1].st = "done")
  <2>1. j \in 1..N /\ A[j - 1].st = "more" /\ A[j].st = "done"
    BY <1>2, <1>3
  <2>2. k \in 0..N /\ j \in 0..N /\ j - 1 \in 0..N /\ j \in Nat /\ k - 1 \in 0..N
    BY <1>0, <2>1
  <2>3. "done" # "more"
    OBVIOUS
  <2>4. ~(k <= j - 1)
    <3>1. k <= j - 1 => A[j - 1] = A[k]
      BY <1>1, <1>3, <2>2
    <3> QED
      BY <1>3, <2>1, <3>1
  <2>5. j <= k
    BY <1>0, <2>2, <2>4
  <2>6. A[k] = A[j]
    BY <1>1, <2>1, <2>2, <2>3, <2>5
  <2>7. j < k => j <= k - 1
    BY <1>0, <2>2
  <2>8. j < k => A[k - 1] = A[j]
    BY <1>1, <2>1, <2>2, <2>3, <2>7
  <2> QED
    BY <2>1, <2>5, <2>6, <2>8
<1>4. ASSUME A[k - 1].st = "more", A[k].st = "done" PROVE Ends(s) = {k}
  <2>1. "done" # "more"
    OBVIOUS
  <2>2. ASSUME NEW j \in Ends(s) PROVE j = k
    <3>1. j \in 1..N /\ j <= k /\ ~(j < k)
      BY <1>3, <1>4, <2>1
    <3> QED
      BY <1>0, <3>1
  <2>3. k \in Ends(s)
    BY <1>0, <1>2, <1>4
  <2> QED
    BY <2>2, <2>3
<1>5. ASSUME A[k].st = "throw" PROVE Ends(s) = {}
  <2>1. "throw" # "more" /\ "throw" # "done"
    OBVIOUS
  <2> QED
    BY <1>3, <1>5, <2>1
<1> QED
  BY <1>4, <1>5 DEF A, N

\* What is read then.
LEMMA ReadsVarInt ==
    ASSUME NEW g, NEW s \in Seq(Digit), NEW k \in 1..Len(s)
    PROVE  /\ After(s)[k - 1].st = "more" /\ After(s)[k].st = "done" =>
                ReadVarInt(Stand(g, s)) = Stand(Append(g, After(s)[k].n), SubSeq(s, k + 1, Len(s)))
           /\ After(s)[k].st = "throw" => ReadVarInt(Stand(g, s)) = Thrown
<1> DEFINE r == Stand(g, s)
           E == Ends(s)
           n == After(s)[k].n
<1>1. r.rest = s /\ r.got = g
  BY Stands, Zenon
<1>2. ReadVarInt(r) = IF E = {} THEN Thrown
                      ELSE LET e == CHOOSE e \in E : TRUE IN Behind(r, e, After(s)[e].n)
  <2>1. ReadVarInt(r) = ReadsTo(r, s)
    <3> HIDE DEF r
    <3> QED
      BY <1>1, ReadVarIntIs
  <2> QED
    BY <2>1, Zenon DEF ReadsTo
<1>3. Behind(r, k, n) = Stand(Append(g, n), SubSeq(s, k + 1, Len(s)))
  BY <1>1, Zenon DEF Behind, Stand
<1> HIDE DEF r, E
<1>4. E = {} => ReadVarInt(r) = Thrown
  BY <1>2, Zenon
<1>5. E = {k} => ReadVarInt(r) = Behind(r, k, n)
  <2> SUFFICES ASSUME E = {k} PROVE ReadVarInt(r) = Behind(r, k, n)
    OBVIOUS
  <2>1. (CHOOSE e \in E : TRUE) = k /\ E # {}
    OBVIOUS
  <2> QED
    BY <1>2, <2>1, Zenon
<1> QED
  BY <1>3, <1>4, <1>5, OneEnd DEF E, r

\* The digits of the largest integer are all Half - 1, but for the first ones.
LEMMA VarIntTop ==
    LET Q == VarIntMax \div Half IN
    /\ Q \in Nat /\ VarIntMax >= Half - 1 /\ ~(0 > Q)
    /\ \A n \in Nat, d \in Nat : d < Half => (n > Q <=> n * Half + d > VarIntMax)
<1> DEFINE Q == VarIntMax \div Half
           q == (VarIntMax + 1) \div Half
<1>0. Half \in Nat /\ Half >= 4 /\ VarIntMax \in Nat /\ (VarIntMax + 1) % Half = 0
  BY Bases
<1>1. VarIntMax + 1 \in Nat /\ Half > 0
  BY <1>0
<1>2. q \in Nat /\ VarIntMax + 1 = Half * q + ((VarIntMax + 1) % Half)
  BY <1>0, <1>1, Quotients
<1> HIDE DEF q
<1>3. VarIntMax + 1 = Half * q
  BY <1>0, <1>2
<1>4. q >= 1
  <2>1. q = 0 => Half * q = 0
    BY <1>0
  <2> QED
    BY <1>0, <1>2, <1>3, <2>1
<1>5. PICK p \in Nat : q = p + 1
  <2>1. q - 1 \in Nat /\ q = (q - 1) + 1
    BY <1>2, <1>4
  <2> QED
    BY <2>1
<1>6. Half * (p + 1) = Half * p + Half /\ Half * p \in Nat
  BY <1>0
<1>7. VarIntMax = Half * p + (Half - 1) /\ Half - 1 \in Nat /\ Half - 1 < Half
  BY <1>0, <1>3, <1>5, <1>6
<1>8. Q = p
  <2>1. (Half * p + (Half - 1)) \div Half = p
    BY <1>0, <1>7, Quotients
  <2> QED
    BY <1>7, <2>1
<1>9. VarIntMax >= Half - 1
  BY <1>0, <1>6, <1>7
<1> HIDE DEF Q
<1>10. ASSUME NEW n \in Nat, NEW d \in Nat, d < Half
       PROVE  n > Q <=> n * Half + d > VarIntMax
  <2>1. n * Half \in Nat
    BY <1>0
  <2>2. CASE n > p
    <3>1. PICK e \in Nat : n = (p + 1) + e
      <4>1. n - (p + 1) \in Nat /\ n = (p + 1) + (n - (p + 1))
        BY <2>2
      <4> QED
        BY <4>1
    <3>2. ((p + 1) + e) * Half = Half * p + Half + e * Half /\ e * Half \in Nat
      BY <1>0
    <3>3. n * Half >= Half * p + Half
      BY <1>0, <1>6, <3>1, <3>2
    <3> QED
      BY <1>0, <1>6, <1>7, <1>8, <2>1, <2>2, <3>3
  <2>3. CASE ~(n > p)
    <3>1. PICK e \in Nat : p = n + e
      <4>1. p - n \in Nat /\ p = n + (p - n)
        BY <2>3
      <4> QED
        BY <4>1
    <3>2. Half * (n + e) = n * Half + e * Half /\ e * Half \in Nat
      BY <1>0
    <3>3. n * Half <= Half * p
      BY <2>1, <3>1, <3>2
    <3> QED
      BY <1>0, <1>6, <1>7, <1>8, <1>10, <2>1, <2>3, <3>3
  <2> QED
    BY <2>2, <2>3
<1>11. Q \in Nat /\ ~(0 > Q)
  BY <1>8
<1> QED
  BY <1>9, <1>10, <1>11 DEF Q

\* The same of one byte, in terms of the integer m it would give.
LEMMA StepTo ==
    ASSUME NEW n \in Nat, NEW d \in Nat, d < Half, NEW ch \in Digit, ch % Half = d
    PROVE  LET m == n * Half + d
               r == VarIntStep(n, ch)
           IN /\ m \in Nat
              /\ m > VarIntMax => r.st = "throw"
              /\ ~(m > VarIntMax) /\ ch < Half => r.st = "done" /\ r.n = m
              /\ ~(ch < Half) => /\ m + 1 <= VarIntMax => r.st = "more" /\ r.n = m + 1
                                 /\ ~(m + 1 <= VarIntMax) => r.st = "throw"
<1> DEFINE m == n * Half + (ch % Half)
           r == VarIntStep(n, ch)
           big == n > VarIntMax \div Half
<1>1. /\ m \in Nat
      /\ big => r.st = "throw"
      /\ ~big /\ ch < Half => r.st = "done" /\ r.n = m
      /\ ~big /\ ~(ch < Half) => /\ m = VarIntMax => r.st = "throw"
                                 /\ m # VarIntMax => r.st = "more" /\ r.n = m + 1
  BY VarIntSteps
<1>2. big <=> m > VarIntMax
  BY VarIntTop
<1>3. VarIntMax \in Nat
  BY Bases
<1>4. m = n * Half + d
  OBVIOUS
<1> HIDE DEF m, r, big
<1>5. /\ m \in Nat
      /\ m > VarIntMax => r.st = "throw"
      /\ ~(m > VarIntMax) /\ ch < Half => r.st = "done" /\ r.n = m
      /\ ~(ch < Half) => /\ m + 1 <= VarIntMax => r.st = "more" /\ r.n = m + 1
                         /\ ~(m + 1 <= VarIntMax) => r.st = "throw"
  BY <1>1, <1>2, <1>3
<1> QED
  BY <1>4, <1>5 DEF r

\* A byte is seven bits, with the high bit or without it.
LEMMA HighBit ==
    /\ \A d \in Nat : d < Half =>
         /\ d \in Digit /\ d % Half = d
         /\ Half + d \in Digit /\ (Half + d) % Half = d /\ ~(Half + d < Half)
    /\ \A ch \in Digit : ~(ch < Half) => ch - Half \in Nat /\ ch - Half < Half
<1>0. Half \in Nat /\ Half >= 4 /\ Base = 2 * Half
  BY Bases
<1>1. ASSUME NEW d \in Nat, d < Half
      PROVE  /\ d \in Digit /\ d % Half = d
             /\ Half + d \in Digit /\ (Half + d) % Half = d /\ ~(Half + d < Half)
  <2>1. d \in Digit /\ Half + d \in Digit /\ ~(Half + d < Half)
    BY <1>0, <1>1 DEF Digit
  <2>2. (Half * 0 + d) % Half = d /\ (Half * 1 + d) % Half = d
    <3>1. 0 \in Nat /\ 1 \in Nat
      OBVIOUS
    <3> QED
      BY <1>0, <1>1, <3>1, Quotients
  <2>3. Half * 0 + d = d /\ Half * 1 + d = Half + d
    BY <1>0
  <2> QED
    BY <2>1, <2>2, <2>3
<1>2. \A ch \in Digit : ~(ch < Half) => ch - Half \in Nat /\ ch - Half < Half
  BY <1>0 DEF Digit
<1> QED
  BY <1>1, <1>2

\* The bytes s begin with those of p.
Begins(s, p) == Len(p) <= Len(s) /\ \A i \in 1..Len(p) : s[i] = p[i]

\* One byte more, at the end of what s begins with.
LEMMA BeginsWith ==
    ASSUME NEW s, Len(s) \in Nat, NEW p \in Seq(Digit), NEW d, Begins(s, p \o <<d>>)
    PROVE  Begins(s, p) /\ Len(p \o <<d>>) = Len(p) + 1 /\ Len(p) \in Nat
           /\ s[Len(p) + 1] = d /\ Len(p) + 1 \in 1..Len(s)
<1>1. Len(p \o <<d>>) = Len(p) + 1 /\ Len(p) \in Nat
  OBVIOUS
<1>2. (p \o <<d>>)[Len(p) + 1] = d /\ \A i \in 1..Len(p) : (p \o <<d>>)[i] = p[i]
  OBVIOUS
<1> QED
  BY <1>1, <1>2 DEF Begins

\* What the leading digits of m have told.
Told(s, m) ==
    /\ m + 1 <= VarIntMax => /\ After(s)[Len(Leading[m])].st = "more"
                             /\ After(s)[Len(Leading[m])].n = m + 1
    /\ ~(m + 1 <= VarIntMax) => After(s)[Len(Leading[m])].st = "throw"

\* After the leading digits of m the value is m + 1, or too large.
LEMMA AfterLeading ==
    ASSUME NEW s \in Seq(Digit)
    PROVE  \A m \in Nat : Begins(s, Leading[m]) => Told(s, m)
<1> DEFINE T == {m \in Nat : Begins(s, Leading[m]) => Told(s, m)}
           A == After(s)
<1>0. Half \in Nat /\ Half >= 4 /\ VarIntMax \in Nat /\ Len(s) \in Nat
  BY Bases
<1>1. A[0].st = "more" /\ A[0].n = 0
  BY AfterIs
<1>2. \A k \in 1..Len(s) : A[k] = IF A[k - 1].st = "more" THEN VarIntStep(A[k - 1].n, s[k])
                                   ELSE A[k - 1]
  BY AfterIs
<1> HIDE DEF A
<1>3. ASSUME NEW m \in Nat, \A j \in 0..(m - 1) : j \in T, Begins(s, Leading[m])
      PROVE  Told(s, m)
  <2>1. CASE m < Half
    <3>1. Leading[m] = <<Half + m>>
      BY <2>1, LeadingIs
    <3>2. Len(<<Half + m>>) = 1 /\ <<Half + m>>[1] = Half + m
      OBVIOUS
    <3>3. 1 \in 1..Len(s) /\ s[1] = Half + m
      BY <1>0, <1>3, <3>1, <3>2 DEF Begins
    <3>4. A[1] = VarIntStep(0, Half + m)
      <4>1. A[1] = IF A[1 - 1].st = "more" THEN VarIntStep(A[1 - 1].n, s[1]) ELSE A[1 - 1]
        BY <1>2, <3>3
      <4> QED
        BY <1>1, <3>3, <4>1
    <3> DEFINE r == VarIntStep(0, Half + m)
    <3>5. 0 \in Nat /\ Half + m \in Digit /\ (Half + m) % Half = m /\ ~(Half + m < Half)
      BY <2>1, HighBit
    <3>6. 0 * Half + m = m
      BY <1>0
    <3>7. /\ (0 * Half + m) + 1 <= VarIntMax => r.st = "more" /\ r.n = (0 * Half + m) + 1
          /\ ~((0 * Half + m) + 1 <= VarIntMax) => r.st = "throw"
      BY <2>1, <3>5, StepTo
    <3> HIDE DEF r
    <3>8. /\ m + 1 <= VarIntMax => r.st = "more" /\ r.n = m + 1
          /\ ~(m + 1 <= VarIntMax) => r.st = "throw"
      BY <3>6, <3>7
    <3> QED
      BY <3>1, <3>2, <3>4, <3>8 DEF Told, A, r
  <2>2. CASE ~(m < Half)
    <3> DEFINE u == Upper(m)
               d == m % Half
               p == Leading[u]
               k == Len(p)
               r == VarIntStep(u + 1, Half + d)
    <3>1. /\ u \in Nat /\ u < m /\ d \in Nat /\ d < Half
          /\ m \div Half = u + 1 /\ m = Half * (m \div Half) + d
      BY <2>2, UpperLess
    <3>2. Leading[m] = p \o <<Half + d>> /\ p \in Seq(Digit)
      BY <2>2, <3>1, LeadingIs
    <3> HIDE DEF u, d, p
    <3>3. /\ Begins(s, p) /\ Len(Leading[m]) = k + 1 /\ k \in Nat
          /\ s[k + 1] = Half + d /\ k + 1 \in 1..Len(s)
      BY <1>0, <1>3, <3>2, BeginsWith
    <3>4. Told(s, u)
      <4>1. u \in 0..(m - 1)
        BY <3>1
      <4>2. u \in T
        BY <1>3, <4>1
      <4> QED
        BY <3>3, <4>2 DEF p
    <3>5. /\ u + 1 <= VarIntMax => A[k].st = "more" /\ A[k].n = u + 1
          /\ ~(u + 1 <= VarIntMax) => A[k].st = "throw"
      BY <3>4 DEF Told, A, p
    <3>6. A[k + 1] = IF A[k].st = "more" THEN VarIntStep(A[k].n, Half + d) ELSE A[k]
      <4>1. A[k + 1] = IF A[(k + 1) - 1].st = "more" THEN VarIntStep(A[(k + 1) - 1].n, s[k + 1])
                       ELSE A[(k + 1) - 1]
        BY <1>2, <3>3
      <4>2. (k + 1) - 1 = k
        BY <3>3
      <4> QED
        BY <3>3, <4>1, <4>2
    <3>7. m = (u + 1) * Half + d /\ u + 1 \in Nat
      BY <1>0, <3>1
    <3>8. /\ m + 1 <= VarIntMax => r.st = "more" /\ r.n = m + 1
          /\ ~(m + 1 <= VarIntMax) => r.st = "throw"
      <4>1. Half + d \in Digit /\ (Half + d) % Half = d /\ ~(Half + d < Half)
        BY <3>1, HighBit
      <4> HIDE DEF r
      <4>2. /\ ((u + 1) * Half + d) + 1 <= VarIntMax => r.st = "more" /\ r.n = ((u + 1) * Half + d) + 1
            /\ ~(((u + 1) * Half + d) + 1 <= VarIntMax) => r.st = "throw"
        BY <3>1, <3>7, <4>1, StepTo, SMTT(60) DEF r
      <4> QED
        BY <3>7, <4>2
    <3>9. CASE u + 1 <= VarIntMax
      <4>1. A[k + 1] = r
        BY <3>5, <3>6, <3>9
      <4> HIDE DEF r, k
      <4> QED
        BY <3>3, <3>8, <4>1 DEF Told, A
    <3>10. CASE ~(u + 1 <= VarIntMax)
      <4>1. A[k + 1].st = "throw"
        BY <3>5, <3>6, <3>10
      <4>2. ~(m + 1 <= VarIntMax)
        BY <1>0, <3>1, <3>10
      <4> HIDE DEF r, k
      <4> QED
        BY <3>3, <4>1, <4>2 DEF Told, A
    <3> QED
      BY <3>9, <3>10
  <2> QED
    BY <2>1, <2>2
<1>4. \A m \in Nat : m \in T
  <2>1. \A m \in Nat : (\A j \in 0..(m - 1) : j \in T) => m \in T
    BY <1>3
  <2> HIDE DEF T
  <2> QED
    BY <2>1, Induct
<1> QED
  BY <1>4

\* Bytes in front of others begin them.
LEMMA FrontBegins ==
    ASSUME NEW p \in Seq(Digit), NEW t \in Seq(Digit)
    PROVE  p \o t \in Seq(Digit) /\ Begins(p \o t, p)
<1>1. p \o t \in Seq(Digit) /\ Len(p) <= Len(p \o t)
  BY InFront
<1>2. \A i \in 1..Len(p) : (p \o t)[i] = p[i]
  OBVIOUS
<1> QED
  BY <1>1, <1>2 DEF Begins

\* What WriteVarInt writes.
LEMMA WriteVarIntIs ==
    ASSUME NEW n \in Nat
    PROVE  /\ n < Half => WriteVarInt(n) = <<n>>
           /\ ~(n < Half) => WriteVarInt(n) = Leading[Upper(n)] \o <<n % Half>>
           /\ WriteVarInt(n) \in Seq(Digit)
           /\ Len(WriteVarInt(n)) = GetSizeOfVarInt[n]
<1>1. CASE n < Half
  <2>1. WriteVarInt(n) = <<n>> /\ Len(<<n>>) = 1
    BY <1>1 DEF WriteVarInt
  <2>2. n \in Digit
    BY <1>1, HighBit
  <2>3. <<n>> \in Seq(Digit)
    BY <2>2
  <2>4. GetSizeOfVarInt[n] = 1
    BY <1>1, VarIntSizes
  <2> QED
    BY <1>1, <2>1, <2>3, <2>4
<1>2. CASE ~(n < Half)
  <2> DEFINE p == Leading[Upper(n)]
             d == <<n % Half>>
  <2>1. WriteVarInt(n) = p \o d
    BY <1>2 DEF WriteVarInt, Upper
  <2>2. Upper(n) \in Nat /\ n % Half \in Digit
    BY <1>2, UpperLess
  <2>3. p \in Seq(Digit) /\ d \in Seq(Digit) /\ Len(d) = 1
    BY <2>2, LeadingIs
  <2>4. GetSizeOfVarInt[n] = 1 + Len(p)
    BY <1>2, <2>2, VarIntSizes
  <2> HIDE DEF p, d
  <2>5. p \o d \in Seq(Digit) /\ Len(p \o d) = Len(p) + Len(d) /\ Len(p) \in Nat
    <3>1. p \in Seq(Digit) /\ d \in Seq(Digit)
      BY <2>3
    <3> QED
      BY <3>1, InFront
  <2>6. Len(p \o d) = 1 + Len(p)
    BY <2>3, <2>5
  <2> QED
    BY <1>2, <2>1, <2>4, <2>5, <2>6 DEF p, d
<1> QED
  BY <1>1, <1>2

\* An integer is read back, unless it is past the limit.
LEMMA VarIntReads ==
    ASSUME NEW g, NEW n \in Nat, NEW t \in Seq(Digit)
    PROVE  /\ n <= VarIntMax => ReadVarInt(Stand(g, WriteVarInt(n) \o t)) = Stand(Append(g, n), t)
           /\ ~(n <= VarIntMax) => ReadVarInt(Stand(g, WriteVarInt(n) \o t)) = Thrown
<1> DEFINE w == WriteVarInt(n)
           s == w \o t
           A == After(s)
<1>0. Half \in Nat /\ Half >= 4 /\ VarIntMax \in Nat /\ VarIntMax >= Half - 1
  BY Bases, VarIntTop
<1>1. w \in Seq(Digit)
  BY WriteVarIntIs
<1>w. /\ n < Half => w = <<n>>
      /\ ~(n < Half) => w = Leading[Upper(n)] \o <<n % Half>>
  BY WriteVarIntIs
<1> HIDE DEF w
<1>2. /\ s \in Seq(Digit) /\ Len(w) <= Len(s) /\ Begins(s, w)
      /\ SubSeq(s, Len(w) + 1, Len(s)) = t /\ Len(s) \in Nat
  BY <1>1, InFront, FrontBegins
<1> HIDE DEF s
<1>3. A[0].st = "more" /\ A[0].n = 0
  BY <1>2, AfterIs
<1>4. \A k \in 1..Len(s) : A[k] = IF A[k - 1].st = "more" THEN VarIntStep(A[k - 1].n, s[k])
                                   ELSE A[k - 1]
  BY <1>2, AfterIs
<1>5. ASSUME NEW k \in 1..Len(s), A[k - 1].st = "more", A[k].st = "done"
      PROVE  ReadVarInt(Stand(g, s)) = Stand(Append(g, A[k].n), SubSeq(s, k + 1, Len(s)))
  BY <1>2, <1>5, ReadsVarInt
<1>6. ASSUME NEW k \in 1..Len(s), A[k].st = "throw"
      PROVE  ReadVarInt(Stand(g, s)) = Thrown
  BY <1>2, <1>6, ReadsVarInt
<1> HIDE DEF A
<1>7. CASE n < Half
  <2>1. w = <<n>>
    BY <1>7, <1>w
  <2>2. Len(<<n>>) = 1 /\ <<n>>[1] = n
    OBVIOUS
  <2>3. 1 \in 1..Len(s) /\ s[1] = n
    BY <1>2, <2>1, <2>2 DEF Begins
  <2>4. A[1] = VarIntStep(0, n)
    <3>1. A[1] = IF A[1 - 1].st = "more" THEN VarIntStep(A[1 - 1].n, s[1]) ELSE A[1 - 1]
      BY <1>4, <2>3
    <3> QED
      BY <1>3, <2>3, <3>1
  <2>5. 0 \in Nat /\ n \in Digit /\ n % Half = n /\ n <= VarIntMax /\ 0 * Half + n = n
    BY <1>0, <1>7, HighBit
  <2>6. A[1].st = "done" /\ A[1].n = n
    <3> DEFINE r == VarIntStep(0, n)
    <3>1. ~(0 * Half + n > VarIntMax) /\ n < Half => r.st = "done" /\ r.n = 0 * Half + n
      BY <1>7, <2>5, StepTo
    <3> HIDE DEF r
    <3>2. r.st = "done" /\ r.n = n
      BY <1>0, <1>7, <2>5, <3>1
    <3> QED
      BY <2>4, <3>2 DEF r
  <2>7. A[1 - 1].st = "more"
    BY <1>3
  <2>8. ReadVarInt(Stand(g, s)) = Stand(Append(g, n), t)
    <3>1. ReadVarInt(Stand(g, s)) = Stand(Append(g, A[1].n), SubSeq(s, 1 + 1, Len(s)))
      BY <1>5, <2>3, <2>6, <2>7
    <3> QED
      BY <1>2, <2>1, <2>2, <2>6, <3>1
  <2> QED
    BY <2>5, <2>8 DEF s, w
<1>8. CASE ~(n < Half)
  <2> DEFINE u == Upper(n)
             d == n % Half
             p == Leading[u]
             k == Len(p)
             r == VarIntStep(u + 1, d)
  <2>1. /\ u \in Nat /\ u < n /\ d \in Nat /\ d < Half
        /\ n \div Half = u + 1 /\ n = Half * (n \div Half) + d
    BY <1>8, UpperLess
  <2>2. w = p \o <<d>> /\ p \in Seq(Digit)
    BY <1>8, <1>w, <2>1, LeadingIs
  <2> HIDE DEF u, d, p
  <2>3. /\ Begins(s, p) /\ Len(w) = k + 1 /\ k \in Nat
        /\ s[k + 1] = d /\ k + 1 \in 1..Len(s)
    BY <1>2, <2>2, BeginsWith
  <2>4. Told(s, u)
    BY <1>2, <2>1, <2>3, AfterLeading DEF p
  <2>5. /\ u + 1 <= VarIntMax => A[k].st = "more" /\ A[k].n = u + 1
        /\ ~(u + 1 <= VarIntMax) => A[k].st = "throw"
    BY <2>4 DEF Told, A, p
  <2>6. A[k + 1] = IF A[k].st = "more" THEN VarIntStep(A[k].n, d) ELSE A[k]
    <3>1. A[k + 1] = IF A[(k + 1) - 1].st = "more" THEN VarIntStep(A[(k + 1) - 1].n, s[k + 1])
                     ELSE A[(k + 1) - 1]
      BY <1>4, <2>3
    <3>2. (k + 1) - 1 = k
      BY <2>3
    <3> QED
      BY <2>3, <3>1, <3>2
  <2>7. n = (u + 1) * Half + d /\ u + 1 \in Nat
    BY <1>0, <2>1
  <2>8. (n > VarIntMax => r.st = "throw") /\ (~(n > VarIntMax) => r.st = "done" /\ r.n = n)
    <3>1. d \in Digit /\ d % Half = d
      BY <2>1, HighBit
    <3> HIDE DEF r
    <3> DEFINE m == (u + 1) * Half + d
    <3>2. (m > VarIntMax => r.st = "throw") /\ (~(m > VarIntMax) /\ d < Half => r.st = "done" /\ r.n = m)
      BY <2>1, <2>7, <3>1, StepTo, SMTT(60) DEF r
    <3>3. m = n
      BY <2>7
    <3> HIDE DEF m
    <3> QED
      BY <2>1, <3>2, <3>3
  <2> HIDE DEF r, k
  <2>9. CASE n <= VarIntMax
    <3>1. u + 1 <= VarIntMax /\ ~(n > VarIntMax)
      BY <1>0, <2>1, <2>9
    <3>2. A[k].st = "more" /\ A[k + 1] = r
      BY <2>5, <2>6, <3>1 DEF r
    <3>3. A[k + 1].st = "done" /\ A[k + 1].n = n /\ (k + 1) - 1 = k
      BY <2>3, <2>8, <3>1, <3>2
    <3>4. ReadVarInt(Stand(g, s)) = Stand(Append(g, A[k + 1].n), SubSeq(s, (k + 1) + 1, Len(s)))
      BY <1>5, <2>3, <3>2, <3>3
    <3>5. ReadVarInt(Stand(g, s)) = Stand(Append(g, n), t)
      BY <1>2, <2>3, <3>3, <3>4
    <3> QED
      BY <2>9, <3>5 DEF s, w
  <2>10. CASE ~(n <= VarIntMax)
    <3>1. n > VarIntMax
      BY <1>0, <2>10
    <3>2. A[k + 1].st = "throw"
      BY <2>5, <2>6, <2>8, <3>1 DEF r
    <3>3. ReadVarInt(Stand(g, s)) = Thrown
      BY <1>6, <2>3, <3>2
    <3> QED
      BY <2>10, <3>3 DEF s, w
  <2> QED
    BY <2>9, <2>10
<1> QED
  BY <1>7, <1>8

\* One byte more.
LEMMA OneMore ==
    ASSUME NEW s \in Seq(Digit), NEW j \in 1..Len(s)
    PROVE  /\ SubSeq(s, 1, j) = SubSeq(s, 1, j - 1) \o <<s[j]>>
           /\ j = 1 => SubSeq(s, 1, j) = <<s[j]>>
<1> DEFINE a == SubSeq(s, 1, j)
           b == SubSeq(s, 1, j - 1)
           c == b \o <<s[j]>>
<1>0. Len(s) \in Nat /\ j \in Nat /\ j - 1 \in Nat /\ j <= Len(s) /\ j - 1 <= Len(s) /\ s[j] \in Digit
  BY ElementOfSeq
<1>1. a \in Seq(Digit) /\ Len(a) = j /\ \A i \in 1..j : a[i] = s[i]
  BY <1>0, PartOf
<1>2. b \in Seq(Digit) /\ Len(b) = j - 1 /\ \A i \in 1..(j - 1) : b[i] = s[i]
  BY <1>0, PartOf
<1> HIDE DEF a, b
<1>3. c \in Seq(Digit) /\ Len(c) = j /\ c[j] = s[j] /\ \A i \in 1..(j - 1) : c[i] = b[i]
  BY <1>0, <1>2
<1> HIDE DEF c
<1>4. a = c
  <2>1. \A i \in 1..Len(a) : a[i] = c[i]
    <3> TAKE i \in 1..Len(a)
    <3>1. i \in 1..j
      BY <1>1
    <3>2. CASE i = j
      BY <1>1, <1>3, <3>1, <3>2
    <3>3. CASE i # j
      <4>1. i \in 1..(j - 1)
        BY <1>0, <3>1, <3>3
      <4> QED
        BY <1>1, <1>2, <1>3, <3>1, <4>1
    <3> QED
      BY <3>2, <3>3
  <2> QED
    BY <1>1, <1>3, <2>1, SeqEqual
<1>5. ASSUME j = 1 PROVE a = <<s[j]>>
  <2> DEFINE e == <<s[j]>>
  <2>1. e \in Seq(Digit) /\ Len(e) = 1 /\ e[1] = s[j]
    BY <1>0
  <2> HIDE DEF e
  <2>2. \A i \in 1..Len(a) : a[i] = e[i]
    BY <1>1, <1>5, <2>1
  <2>3. a = e
    BY <1>1, <1>5, <2>1, <2>2, SeqEqual
  <2> QED
    BY <2>3 DEF e
<1> QED
  BY <1>4, <1>5 DEF a, c, b

\* An integer that one more digit makes.
LEMMA NextUpper ==
    ASSUME NEW x \in Nat, NEW d \in Nat, d < Half
    PROVE  LET m == x * Half + d IN
           /\ m \in Nat /\ m % Half = d
           /\ x = 0 => m = d /\ m < Half
           /\ x >= 1 => ~(m < Half) /\ Upper(m) = x - 1 /\ x - 1 \in Nat
<1> DEFINE m == x * Half + d
<1>0. Half \in Nat /\ Half >= 4
  BY Bases
<1>1. (Half * x + d) \div Half = x /\ (Half * x + d) % Half = d
  BY <1>0, Quotients
<1>2. m = Half * x + d /\ m \in Nat
  BY <1>0
<1> HIDE DEF m
<1>3. m \div Half = x /\ m % Half = d
  BY <1>1, <1>2
<1>4. x = 0 => m = d /\ m < Half
  BY <1>0, <1>2
<1>5. ASSUME x >= 1 PROVE ~(m < Half) /\ Upper(m) = x - 1 /\ x - 1 \in Nat
  <2>1. PICK e \in Nat : x = e + 1
    <3>1. x - 1 \in Nat /\ x = (x - 1) + 1
      BY <1>5
    <3> QED
      BY <3>1
  <2>2. Half * (e + 1) = Half * e + Half /\ Half * e \in Nat
    BY <1>0
  <2>3. ~(m < Half)
    BY <1>0, <1>2, <2>1, <2>2
  <2> QED
    BY <1>3, <1>5, <2>3 DEF Upper
<1> QED
  BY <1>2, <1>3, <1>4, <1>5 DEF m

\* Bytes that ask for more are the leading digits of some integer.
LeadsTo(s, j) ==
    \/ j = 0 /\ After(s)[j].n = 0
    \/ j >= 1 /\ After(s)[j].n >= 1 /\ Leading[After(s)[j].n - 1] = SubSeq(s, 1, j)

\* After every byte that asks for another one.
LEMMA MoreIsLeading ==
    ASSUME NEW s \in Seq(Digit)
    PROVE  \A j \in 0..Len(s) : After(s)[j].st = "more" => LeadsTo(s, j)
<1> DEFINE A == After(s)
           N == Len(s)
           T == {j \in Nat : j <= N /\ A[j].st = "more" => LeadsTo(s, j)}
<1>0. Half \in Nat /\ Half >= 4 /\ VarIntMax \in Nat /\ N \in Nat
  BY Bases
<1>1. A[0].st = "more" /\ A[0].n = 0
  BY AfterIs
<1>2. \A k \in 1..N : A[k] = IF A[k - 1].st = "more" THEN VarIntStep(A[k - 1].n, s[k])
                                   ELSE A[k - 1]
  BY AfterIs
<1>3. \A k \in 0..N : A[k].n \in Nat
  <2>1. \A k \in 0..N : A[k] \in VarIntState
    BY AfterIs
  <2> HIDE DEF A, N
  <2> QED
    BY <2>1 DEF VarIntState
<1>4. \A k : LeadsTo(s, k) <=> \/ k = 0 /\ A[k].n = 0
                               \/ k >= 1 /\ A[k].n >= 1 /\ Leading[A[k].n - 1] = SubSeq(s, 1, k)
  BY DEF LeadsTo
<1> HIDE DEF A, N
<1>5. ASSUME NEW j \in Nat, \A m \in 0..(j - 1) : m \in T, j <= N, A[j].st = "more"
      PROVE  LeadsTo(s, j)
  <2>1. CASE j = 0
    BY <1>1, <1>4, <2>1
  <2>2. CASE j # 0
    <3> DEFINE x == A[j - 1].n
               ch == s[j]
               d == ch - Half
               m == x * Half + d
    <3>1. j \in 1..N /\ j - 1 \in 0..(j - 1) /\ j - 1 <= N /\ j - 1 \in 0..N /\ j - 1 \in Nat
      BY <1>0, <1>5, <2>2
    <3>2. A[j - 1].st = "more" /\ A[j] = VarIntStep(x, ch)
      BY <1>2, <1>5, <3>1
    <3>3. LeadsTo(s, j - 1)
      BY <1>5, <3>1, <3>2
    <3>4. x \in Nat /\ ch \in Digit
      BY <1>3, <3>1, ElementOfSeq DEF N
    <3> HIDE DEF x, ch
    <3>5. ~(ch < Half)
      <4> DEFINE r == VarIntStep(x, ch)
      <4>1. /\ x > VarIntMax \div Half => r.st = "throw"
            /\ ~(x > VarIntMax \div Half) /\ ch < Half => r.st = "done"
        BY <3>4, VarIntSteps
      <4>2. r.st = "more"
        BY <1>5, <3>2
      <4> HIDE DEF r
      <4> QED
        BY <4>1, <4>2
    <3>6. d \in Nat /\ d < Half
      BY <3>4, <3>5, HighBit
    <3>7. ch = Half + d
      BY <1>0, <3>4 DEF Digit
    <3> HIDE DEF d
    <3>8. ch % Half = d
      BY <3>6, <3>7, HighBit
    <3>9. A[j].n = m + 1
      <4> DEFINE r == VarIntStep(x, ch)
      <4>1. ~(ch < Half) => /\ m + 1 <= VarIntMax => r.st = "more" /\ r.n = m + 1
                            /\ ~(m + 1 <= VarIntMax) => r.st = "throw"
        BY <3>4, <3>6, <3>8, StepTo
      <4>2. r.st = "more"
        BY <1>5, <3>2
      <4> HIDE DEF r, m
      <4>3. r.n = m + 1
        BY <3>5, <4>1, <4>2
      <4> QED
        BY <3>2, <4>3 DEF r
    <3>10. /\ m \in Nat /\ m % Half = d
           /\ x = 0 => m = d /\ m < Half
           /\ x >= 1 => ~(m < Half) /\ Upper(m) = x - 1 /\ x - 1 \in Nat
      BY <3>4, <3>6, NextUpper
    <3> HIDE DEF m
    <3>11. SubSeq(s, 1, j) = SubSeq(s, 1, j - 1) \o <<ch>> /\ (j = 1 => SubSeq(s, 1, j) = <<ch>>)
      BY <3>1, OneMore DEF ch, N
    <3>12. Leading[m] = SubSeq(s, 1, j)
      <4>1. CASE j - 1 = 0 /\ x = 0
        <5>1. j = 1 /\ m = d /\ m < Half
          BY <3>1, <3>10, <4>1
        <5>2. Leading[m] = <<Half + m>>
          BY <3>10, <5>1, LeadingIs
        <5> QED
          BY <3>7, <3>11, <5>1, <5>2
      <4>2. CASE x >= 1 /\ Leading[x - 1] = SubSeq(s, 1, j - 1)
        <5>1. Leading[m] = Leading[Upper(m)] \o <<Half + (m % Half)>>
          BY <3>10, <4>2, LeadingIs
        <5> QED
          BY <3>7, <3>10, <3>11, <4>2, <5>1
      <4> QED
        BY <1>4, <3>3, <4>1, <4>2 DEF x
    <3>13. (m + 1) - 1 = m /\ m + 1 >= 1 /\ j >= 1
      BY <3>10, <3>1
    <3> QED
      BY <1>4, <3>9, <3>12, <3>13
  <2> QED
    BY <2>1, <2>2
<1>6. \A j \in Nat : j \in T
  <2>1. \A j \in Nat : (\A m \in 0..(j - 1) : m \in T) => j \in T
    BY <1>5
  <2> HIDE DEF T
  <2> QED
    BY <2>1, Induct
<1>7. \A j \in 0..N : A[j].st = "more" => LeadsTo(s, j)
  BY <1>0, <1>6
<1> QED
  BY <1>7 DEF A, N

\* No other bytes are accepted than those that are written.
LEMMA VarIntAccepts ==
    ASSUME NEW g, NEW s \in Seq(Digit), ReadVarInt(Stand(g, s)).ok
    PROVE  \E n \in Nat, t \in Seq(Digit) :
             /\ ReadVarInt(Stand(g, s)) = Stand(Append(g, n), t)
             /\ n <= VarIntMax /\ WriteVarInt(n) \o t = s
<1> DEFINE A == After(s)
           N == Len(s)
<1>0. Half \in Nat /\ Half >= 4 /\ VarIntMax \in Nat /\ N \in Nat
  BY Bases
<1>1. Ends(s) # {}
  <2>1. Stand(g, s).rest = s
    BY Stands
  <2>2. ReadVarInt(Stand(g, s)) = ReadsTo(Stand(g, s), s)
    BY <2>1, ReadVarIntIs
  <2>3. Ends(s) = {} => ReadsTo(Stand(g, s), s) = Thrown
    BY Zenon DEF ReadsTo
  <2> QED
    BY <2>2, <2>3, Stands
<1>2. PICK k \in Ends(s) : TRUE
  BY <1>1
<1>3. k \in 1..N /\ A[k - 1].st = "more" /\ A[k].st = "done"
  BY DEF Ends
<1>4. ReadVarInt(Stand(g, s)) = Stand(Append(g, A[k].n), SubSeq(s, k + 1, N))
  BY <1>3, ReadsVarInt
<1>5. LeadsTo(s, k - 1) /\ A[k - 1] \in VarIntState /\ k - 1 \in 0..N
  <2>1. k - 1 \in 0..N
    BY <1>0, <1>3
  <2> QED
    BY <1>3, <2>1, MoreIsLeading, AfterIs
<1> DEFINE x == A[k - 1].n
           d == s[k]
           m == x * Half + d
<1>6. x \in Nat /\ d \in Digit
  BY <1>3, <1>5, ElementOfSeq DEF VarIntState
<1>7. A[k] = VarIntStep(x, d)
  BY <1>3, AfterIs
<1>8. \/ k - 1 = 0 /\ x = 0
      \/ x >= 1 /\ Leading[x - 1] = SubSeq(s, 1, k - 1)
  BY <1>5 DEF LeadsTo
<1> HIDE DEF A, x, d
<1>9. d < Half /\ d \in Nat
  <2> DEFINE r == VarIntStep(x, d)
  <2>1. /\ x > VarIntMax \div Half => r.st = "throw"
        /\ ~(x > VarIntMax \div Half) /\ ~(d < Half) => r.st = "throw" \/ r.st = "more"
    BY <1>6, VarIntSteps
  <2>2. r.st = "done"
    BY <1>3, <1>7
  <2> HIDE DEF r
  <2>3. d < Half
    BY <2>1, <2>2
  <2> QED
    BY <1>6, <2>3, Bases DEF Digit
<1>10. d % Half = d
  BY <1>9, HighBit
<1>11. A[k].n = m /\ m <= VarIntMax
  <2> DEFINE r == VarIntStep(x, d)
  <2>1. /\ m \in Nat
        /\ m > VarIntMax => r.st = "throw"
        /\ ~(m > VarIntMax) /\ d < Half => r.st = "done" /\ r.n = m
    BY <1>6, <1>9, <1>10, StepTo
  <2>2. r.st = "done"
    BY <1>3, <1>7
  <2> HIDE DEF r, m
  <2>3. ~(m > VarIntMax) /\ r.n = m
    BY <1>9, <2>1, <2>2
  <2>4. m <= VarIntMax
    BY <1>0, <2>1, <2>3
  <2> QED
    BY <1>7, <2>3, <2>4 DEF r
<1>12. /\ m \in Nat /\ m % Half = d
       /\ x = 0 => m = d /\ m < Half
       /\ x >= 1 => ~(m < Half) /\ Upper(m) = x - 1 /\ x - 1 \in Nat
  BY <1>6, <1>9, NextUpper
<1> HIDE DEF m
<1>13. SubSeq(s, 1, k) = SubSeq(s, 1, k - 1) \o <<d>> /\ (k = 1 => SubSeq(s, 1, k) = <<d>>)
  BY <1>3, OneMore DEF d
<1>14. WriteVarInt(m) = SubSeq(s, 1, k)
  <2>1. CASE k - 1 = 0 /\ x = 0
    <3>1. k = 1 /\ m = d /\ m < Half
      BY <1>0, <1>3, <1>12, <2>1
    <3>2. WriteVarInt(m) = <<m>>
      BY <1>12, <3>1, WriteVarIntIs
    <3> QED
      BY <1>13, <3>1, <3>2
  <2>2. CASE x >= 1 /\ Leading[x - 1] = SubSeq(s, 1, k - 1)
    <3>1. WriteVarInt(m) = Leading[Upper(m)] \o <<m % Half>>
      BY <1>12, <2>2, WriteVarIntIs
    <3> QED
      BY <1>12, <1>13, <2>2, <3>1
  <2> QED
    BY <1>8, <2>1, <2>2
<1>15. SubSeq(s, k + 1, N) \in Seq(Digit) /\ SubSeq(s, 1, k) \o SubSeq(s, k + 1, N) = s
  <2>1. k \in Nat /\ k <= Len(s)
    BY <1>0, <1>3
  <2> QED
    BY <2>1, PartOf
<1> QED
  BY <1>4, <1>11, <1>12, <1>14, <1>15

-----------------------------------------------------------------------------
(* The theorem *)

\* What IntegersOneToOne says of an integer and the bytes written for it.
IntComesBack(n, compact, var) ==
    LET rest == <<Base - 1, 0>> IN
    /\ Len(compact) = GetSizeOfCompactSize(n) /\ Len(var) = GetSizeOfVarInt[n]
    /\ IF n <= MAX_SIZE THEN Reads(ReadCompactSize(Start(compact \o rest)), n, rest)
       ELSE ~ReadCompactSize(Start(compact \o rest)).ok
    /\ IF n <= VarIntMax THEN Reads(ReadVarInt(Start(var \o rest)), n, rest)
       ELSE ~ReadVarInt(Start(var \o rest)).ok

\* What it says of bytes and what was read from them.
BytesAreWritten(s, compact, var) ==
    /\ compact.ok => WriteCompactSize(Top(compact)) \o compact.rest = s
    /\ var.ok => WriteVarInt(Top(var)) \o var.rest = s

\* IntegersOneToOne says these two things.
LEMMA IntegerForm ==
    IntegersOneToOne <=>
        /\ out.op = "int" => IntComesBack(out.in, out.compact, out.var)
        /\ out.op = "bytes" => BytesAreWritten(out.in, out.compact, out.var)
  BY Zenon DEF IntegersOneToOne, IntComesBack, BytesAreWritten

\* Numbers and bytes: all that is read here.
Readable == Nat \cup Seq(Digit)

\* A stream can hand them out, and has handed out none at the start.
LEMMA ReadableHolds ==
    Holds(Readable) /\ <<>> \in Seq(Readable) /\ \A n : Append(<<>>, n) = <<n>>
<1>1. Holds(Readable)
  BY DEF Holds, Readable
<1>2. <<>> \in Seq(Readable)
  OBVIOUS
<1>3. \A n : Append(<<>>, n) = <<n>>
  OBVIOUS
<1> QED
  BY <1>1, <1>2, <1>3

\* An integer of 64 bits comes back.
LEMMA IntsComeBack ==
    ASSUME NEW n \in Nat, n < Power[8]
    PROVE  IntComesBack(n, WriteCompactSize(n), WriteVarInt(n))
<1> DEFINE rest == <<Base - 1, 0>>
           c == WriteCompactSize(n)
           v == WriteVarInt(n)
           rc == ReadCompactSize(Start(c \o rest))
           rv == ReadVarInt(Start(v \o rest))
<1>1. rest \in Seq(Digit)
  <2>1. Base - 1 \in Digit /\ 0 \in Digit
    BY Bases DEF Digit
  <2> QED
    BY <2>1
<1>2. Len(c) = GetSizeOfCompactSize(n) /\ Len(v) = GetSizeOfVarInt[n]
  BY CompactBytes, WriteVarIntIs
<1> HIDE DEF rest
<1>3. Start(c \o rest) = Stand(<<>>, c \o rest) /\ Start(v \o rest) = Stand(<<>>, v \o rest)
  BY Stands
<1>4. /\ n <= MAX_SIZE => rc = Stand(<<n>>, rest)
      /\ ~(n <= MAX_SIZE) => rc = Thrown
  <2>1. /\ n <= MAX_SIZE => ReadCompactSize(Stand(<<>>, c \o rest)) = Stand(Append(<<>>, n), rest)
        /\ ~(n <= MAX_SIZE) => ReadCompactSize(Stand(<<>>, c \o rest)) = Thrown
    BY <1>1, ReadableHolds, CompactReads
  <2> QED
    BY <1>3, <2>1, ReadableHolds
<1>5. /\ n <= VarIntMax => rv = Stand(<<n>>, rest)
      /\ ~(n <= VarIntMax) => rv = Thrown
  <2>1. /\ n <= VarIntMax => ReadVarInt(Stand(<<>>, v \o rest)) = Stand(Append(<<>>, n), rest)
        /\ ~(n <= VarIntMax) => ReadVarInt(Stand(<<>>, v \o rest)) = Thrown
    BY <1>1, VarIntReads
  <2> QED
    BY <1>3, <2>1, ReadableHolds
<1>6. Reads(Stand(<<n>>, rest), n, rest) /\ ~Thrown.ok
  BY Stands, Zenon DEF Reads
<1> HIDE DEF c, v, rc, rv
<1>7. IF n <= MAX_SIZE THEN Reads(rc, n, rest) ELSE ~rc.ok
  BY <1>4, <1>6
<1>8. IF n <= VarIntMax THEN Reads(rv, n, rest) ELSE ~rv.ok
  BY <1>5, <1>6
<1> QED
  BY <1>2, <1>7, <1>8, Zenon DEF IntComesBack, c, v, rc, rv, rest

\* Bytes that are accepted are the ones written.
LEMMA AcceptedBytes ==
    ASSUME NEW s \in Seq(Digit)
    PROVE  BytesAreWritten(s, ReadCompactSize(Start(s)), ReadVarInt(Start(s)))
<1> DEFINE c == ReadCompactSize(Stand(<<>>, s))
           v == ReadVarInt(Stand(<<>>, s))
<1>1. Start(s) = Stand(<<>>, s)
  BY Stands
<1>2. ASSUME c.ok PROVE WriteCompactSize(Top(c)) \o c.rest = s
  <2>1. PICK n \in Nat, t \in Seq(Digit) :
             /\ c = Stand(Append(<<>>, n), t) /\ n < Power[8] /\ n <= MAX_SIZE
             /\ WriteCompactSize(n) \o t = s
    BY <1>2, ReadableHolds, CompactAccepts, ZenonT(60)
  <2>2. Top(c) = n
    <3>1. n \in Readable
      BY DEF Readable
    <3> HIDE DEF c
    <3> QED
      BY <2>1, <3>1, ReadableHolds, TopIs, ZenonT(60)
  <2>3. c.rest = t
    <3> HIDE DEF c
    <3> QED
      BY <2>1, Stands
  <2> QED
    BY <2>1, <2>2, <2>3
<1>3. ASSUME v.ok PROVE WriteVarInt(Top(v)) \o v.rest = s
  <2>1. PICK n \in Nat, t \in Seq(Digit) :
             /\ v = Stand(Append(<<>>, n), t) /\ n <= VarIntMax
             /\ WriteVarInt(n) \o t = s
    BY <1>3, VarIntAccepts
  <2>2. Top(v) = n
    <3>1. n \in Readable
      BY DEF Readable
    <3> HIDE DEF v
    <3> QED
      BY <2>1, <3>1, ReadableHolds, TopIs, ZenonT(60)
  <2>3. v.rest = t
    <3> HIDE DEF v
    <3> QED
      BY <2>1, Stands
  <2> QED
    BY <2>1, <2>2, <2>3
<1> HIDE DEF c, v
<1>4. BytesAreWritten(s, c, v)
  BY <1>2, <1>3, Zenon DEF BytesAreWritten
<1> QED
  BY <1>1, <1>4 DEF c, v

\* CompactSize and VarInt are one-to-one for every integer of 64 bits and every
\* string of bytes (WriteCompactSize, ReadCompactSize, WriteVarInt and ReadVarInt of
\* serialize.h): what is written comes back in the length announced, and what
\* is accepted is what is written.
THEOREM IntegersOneToOneHolds == CodecSpec => []IntegersOneToOne
<1>1. CodecInit => IntegersOneToOne
  <2> SUFFICES ASSUME CodecInit PROVE IntegersOneToOne
    OBVIOUS
  <2>1. out.op = "none"
    BY DEF CodecInit, Idle
  <2> QED
    BY <2>1, IntegerForm
<1>2. IntegersOneToOne /\ [CodecNext]_out => IntegersOneToOne'
  <2> SUFFICES ASSUME IntegersOneToOne, [CodecNext]_out PROVE IntegersOneToOne'
    OBVIOUS
  <2>0. IntegersOneToOne' <=>
            /\ out'.op = "int" => IntComesBack(out'.in, out'.compact, out'.var)
            /\ out'.op = "bytes" => BytesAreWritten(out'.in, out'.compact, out'.var)
    BY Zenon DEF IntegersOneToOne, IntComesBack, BytesAreWritten
  <2>1. CASE EncodeInt
    <3>1. PICK n \in Ints : out' = [op |-> "int", in |-> n, compact |-> WriteCompactSize(n),
                                    var |-> WriteVarInt(n)]
      BY <2>1 DEF EncodeInt, Run
    <3>2. n \in Nat /\ n < Power[8]
      <4>1. n \in 0..(Power[8] - 1) /\ 8 \in Nat
        BY InputsAssumption
      <4>2. Power[8] \in Nat
        BY <4>1, Powers
      <4> HIDE DEF Power
      <4> QED
        BY <4>1, <4>2
    <3>3. IntComesBack(n, WriteCompactSize(n), WriteVarInt(n))
      BY <3>2, IntsComeBack
    <3>4. /\ out'.op = "int" /\ out'.in = n /\ out'.compact = WriteCompactSize(n)
          /\ out'.var = WriteVarInt(n)
      BY <3>1
    <3> QED
      BY <2>0, <3>3, <3>4
  <2>2. CASE DecodeInt
    <3>1. PICK s \in ByteStrings : out' = [op |-> "bytes", in |-> s,
                 compact |-> ReadCompactSize(Start(s)), var |-> ReadVarInt(Start(s))]
      BY <2>2 DEF DecodeInt, Run
    <3>2. s \in Seq(Digit)
      BY InputsAssumption DEF Digit
    <3>3. BytesAreWritten(s, ReadCompactSize(Start(s)), ReadVarInt(Start(s)))
      BY <3>2, AcceptedBytes
    <3>4. /\ out'.op = "bytes" /\ out'.in = s /\ out'.compact = ReadCompactSize(Start(s))
          /\ out'.var = ReadVarInt(Start(s))
      BY <3>1
    <3> QED
      BY <2>0, <3>3, <3>4
  <2>3. CASE EncodeContainers
    <3>1. out'.op = "containers"
      BY <2>3 DEF EncodeContainers, Run
    <3> QED
      BY <2>0, <3>1
  <2>4. CASE EncodeTx
    <3>1. out'.op = "tx"
      BY <2>4 DEF EncodeTx, Run
    <3> QED
      BY <2>0, <3>1
  <2>5. CASE DecodeTx
    <3>1. out'.op = "txbytes"
      BY <2>5 DEF DecodeTx, Run
    <3> QED
      BY <2>0, <3>1
  <2>6. CASE EncodeBlock
    <3>1. out'.op = "block"
      BY <2>6 DEF EncodeBlock, Run
    <3> QED
      BY <2>0, <3>1
  <2>7. CASE SolveScript
    <3>1. out'.op = "script"
      BY <2>7 DEF SolveScript, Run
    <3> QED
      BY <2>0, <3>1
  <2>8. CASE EncodeText
    <3>1. out'.op = "binary"
      BY <2>8 DEF EncodeText, Run
    <3> QED
      BY <2>0, <3>1
  <2>9. CASE DecodeText
    <3>1. out'.op = "text"
      BY <2>9 DEF DecodeText, Run
    <3> QED
      BY <2>0, <3>1
  <2>10. CASE ParseNumber
    <3>1. out'.op = "number"
      BY <2>10 DEF ParseNumber, Run
    <3> QED
      BY <2>0, <3>1
  <2>11. CASE UNCHANGED out
    BY <2>11, Zenon DEF IntegersOneToOne
  <2> QED
    BY <2>1, <2>2, <2>3, <2>4, <2>5, <2>6, <2>7, <2>8, <2>9, <2>10, <2>11 DEF CodecNext
<1> QED
  BY <1>1, <1>2, PTL DEF CodecSpec

-----------------------------------------------------------------------------
(* Values of any kind *)

\* Values read so far.
Kept(g) == \E S : g \in Seq(S)

\* The last values of h are w, and those before them g.
Lasts(h, k, g, w) ==
    SubSeq(h, 1, Len(h) - k) = g /\ SubSeq(h, Len(h) - k + 1, Len(h)) = w

\* A sequence as the last values.
LEMMA LastOf ==
    ASSUME NEW S, NEW g \in Seq(S), NEW w \in Seq(S)
    PROVE  Lasts(g \o w, Len(w), g, w)
<1> DEFINE h == g \o w
<1>1. /\ Len(h) = Len(g) + Len(w) /\ SubSeq(h, 1, Len(g)) = g
      /\ SubSeq(h, Len(g) + 1, Len(h)) = w
  BY InFront
<1>2. Len(g) \in Nat /\ Len(w) \in Nat
  OBVIOUS
<1> HIDE DEF h
<1>3. Len(h) - Len(w) = Len(g)
  BY <1>1, <1>2
<1> QED
  BY <1>1, <1>3 DEF Lasts, h

\* What is kept, with one value more.
LEMMA KeptMore ==
    ASSUME NEW g, Kept(g), NEW a
    PROVE  /\ Kept(Append(g, a)) /\ Append(g, a)[Len(Append(g, a))] = a
           /\ Lasts(Append(g, a), 1, g, <<a>>)
<1>1. PICK S : g \in Seq(S)
  BY DEF Kept
<1> DEFINE T == S \cup {a}
<1>2. g \in Seq(T) /\ <<a>> \in Seq(T) /\ a \in T /\ Len(<<a>>) = 1
  BY <1>1
<1>3. Append(g, a) = g \o <<a>> /\ Append(g, a) \in Seq(T)
  BY <1>2, AppendIsConcat
<1>4. Append(g, a)[Len(Append(g, a))] = a
  BY <1>2
<1> HIDE DEF T
<1>5. Lasts(g \o <<a>>, Len(<<a>>), g, <<a>>)
  BY <1>2, LastOf
<1>6. Kept(Append(g, a))
  BY <1>3 DEF Kept
<1> QED
  BY <1>2, <1>3, <1>4, <1>5, <1>6

\* With two, three and four.
LEMMA KeptTwo ==
    ASSUME NEW g, Kept(g), NEW a, NEW b
    PROVE  Lasts(Append(Append(g, a), b), 2, g, <<a, b>>)
<1>1. PICK S : g \in Seq(S)
  BY DEF Kept
<1> DEFINE T == S \cup {a, b}
           h == Append(Append(g, a), b)
<1>2. g \in Seq(T) /\ <<a, b>> \in Seq(T) /\ a \in T /\ b \in T /\ Len(<<a, b>>) = 2
  BY <1>1
<1> HIDE DEF T
<1>3. h = g \o <<a, b>>
  BY <1>2
<1>5. Lasts(g \o <<a, b>>, Len(<<a, b>>), g, <<a, b>>)
  BY <1>2, LastOf
<1> QED
  BY <1>2, <1>3, <1>5

\* Three more.
LEMMA KeptThree ==
    ASSUME NEW g, Kept(g), NEW a, NEW b, NEW c
    PROVE  Lasts(Append(Append(Append(g, a), b), c), 3, g, <<a, b, c>>)
<1>1. PICK S : g \in Seq(S)
  BY DEF Kept
<1> DEFINE T == S \cup {a, b, c}
           h == Append(Append(Append(g, a), b), c)
<1>2. g \in Seq(T) /\ <<a, b, c>> \in Seq(T) /\ a \in T /\ b \in T /\ c \in T /\ Len(<<a, b, c>>) = 3
  BY <1>1
<1> HIDE DEF T
<1>3. h = g \o <<a, b, c>>
  BY <1>2
<1>5. Lasts(g \o <<a, b, c>>, Len(<<a, b, c>>), g, <<a, b, c>>)
  BY <1>2, LastOf
<1> QED
  BY <1>2, <1>3, <1>5

\* Four more.
LEMMA KeptFour ==
    ASSUME NEW g, Kept(g), NEW a, NEW b, NEW c, NEW d
    PROVE  Lasts(Append(Append(Append(Append(g, a), b), c), d), 4, g, <<a, b, c, d>>)
<1>1. PICK S : g \in Seq(S)
  BY DEF Kept
<1> DEFINE T == S \cup {a, b, c, d}
           h == Append(Append(Append(Append(g, a), b), c), d)
<1>2. /\ g \in Seq(T) /\ <<a, b, c, d>> \in Seq(T) /\ a \in T /\ b \in T /\ c \in T /\ d \in T
      /\ Len(<<a, b, c, d>>) = 4
  BY <1>1
<1> HIDE DEF T
<1>3. h = g \o <<a, b, c, d>>
  BY <1>2
<1>5. Lasts(g \o <<a, b, c, d>>, Len(<<a, b, c, d>>), g, <<a, b, c, d>>)
  BY <1>2, LastOf
<1> QED
  BY <1>2, <1>3, <1>5

\* The last value read is on top.
LEMMA TopOf ==
    ASSUME NEW g, Kept(g), NEW a, NEW s
    PROVE  Top(Stand(Append(g, a), s)) = a
<1>1. Append(g, a)[Len(Append(g, a))] = a
  BY KeptMore
<1> QED
  BY <1>1, Stands, Zenon DEF Top

\* A size within the limit, and a byte, come back.
LEMMA SizeReads ==
    ASSUME NEW g, Kept(g), NEW n \in Nat, n <= MAX_SIZE, NEW t \in Seq(Digit)
    PROVE  ReadCompactSize(Stand(g, WriteCompactSize(n) \o t)) = Stand(Append(g, n), t)
<1>1. PICK S : g \in Seq(S)
  BY DEF Kept
<1> DEFINE T == S \cup (Nat \cup Seq(Digit))
<1>2. g \in Seq(T)
  BY <1>1
<1>3. Holds(T)
  BY DEF Holds
<1>4. n < Power[8]
  <2>1. MAX_SIZE < Power[8] /\ Power[8] \in Nat /\ MAX_SIZE \in Nat
    BY SizeAssumption, Powers, Bases
  <2> QED
    BY <2>1
<1> HIDE DEF T
<1> QED
  BY <1>2, <1>3, <1>4, CompactReads

\* A byte comes back.
LEMMA UReads ==
    ASSUME NEW g, Kept(g), NEW d \in Digit, NEW t \in Seq(Digit)
    PROVE  /\ ReadU(Stand(g, U(d) \o t)) = Stand(Append(g, d), t)
           /\ U(d) \in Seq(Digit)
<1>1. PICK S : g \in Seq(S)
  BY DEF Kept
<1> DEFINE T == S \cup (Nat \cup Seq(Digit))
           u == <<d>>
           s == u \o t
<1>2. g \in Seq(T)
  BY <1>1
<1>3. Holds(T)
  BY DEF Holds
<1>4. u \in Seq(Digit) /\ Len(u) = 1 /\ Value(u) = d
  BY OneByte
<1> HIDE DEF T, u
<1>5. /\ s \in Seq(Digit) /\ Len(u) <= Len(s) /\ SubSeq(s, 1, Len(u)) = u
      /\ SubSeq(s, Len(u) + 1, Len(s)) = t
  BY <1>4, InFront, SMTT(60)
<1> HIDE DEF s
<1>6. ser_readdata(Stand(g, s), 1) = Stand(Append(g, Value(SubSeq(s, 1, 1))), SubSeq(s, 1 + 1, Len(s)))
  <2>1. 1 \in Nat /\ 1 <= Len(s)
    BY <1>4, <1>5
  <2> QED
    BY <1>2, <1>3, <1>5, <2>1, ReadsData
<1>7. ser_readdata(Stand(g, s), 1) = Stand(Append(g, d), t)
  BY <1>4, <1>5, <1>6
<1> QED
  BY <1>4, <1>7 DEF ReadU, U, u, s

\* One value made of the last ones: nothing, two joined, the last put behind the other.
Emptied(r)  == Made(r, 1, LAMBDA f : <<>>)
Joined(r)   == Made(r, 2, LAMBDA f : f[1] \o f[2])
Appended(r) == Made(r, 2, LAMBDA f : Append(f[1], f[2]))

\* What they give.
LEMMA MadeNothing ==
    ASSUME NEW g, Kept(g), NEW a, NEW t
    PROVE  Emptied(Stand(Append(g, a), t)) = Stand(Append(g, <<>>), t)
<1> DEFINE h == Append(g, a)
           r == Stand(h, t)
<1>1. SubSeq(h, 1, Len(h) - 1) = g /\ SubSeq(h, Len(h) - 1 + 1, Len(h)) = <<a>>
  BY KeptMore DEF Lasts
<1>2. r.ok /\ r.got = h /\ \A x : [r EXCEPT !.got = x] = Stand(x, t)
  BY Stands, StandsWith, Zenon
<1> HIDE DEF h, r
<1> DEFINE w == SubSeq(r.got, Len(r.got) - 1 + 1, Len(r.got))
<1>3. Emptied(r) = IF r.ok THEN [r EXCEPT !.got = Append(SubSeq(r.got, 1, Len(r.got) - 1), <<>>)]
                 ELSE r
  BY Zenon DEF Made, Emptied
<1>5. Emptied(r) = Stand(Append(g, <<>>), t)
  BY <1>1, <1>2, <1>3, Zenon
<1> QED
  BY <1>5 DEF h, r

\* Two are joined.
LEMMA MadeJoin ==
    ASSUME NEW g, Kept(g), NEW a, NEW b, NEW t
    PROVE  Joined(Stand(Append(Append(g, a), b), t)) = Stand(Append(g, a \o b), t)
<1> DEFINE h == Append(Append(g, a), b)
           r == Stand(h, t)
<1>1. SubSeq(h, 1, Len(h) - 2) = g /\ SubSeq(h, Len(h) - 2 + 1, Len(h)) = <<a, b>>
  BY KeptTwo DEF Lasts
<1>2. r.ok /\ r.got = h /\ \A x : [r EXCEPT !.got = x] = Stand(x, t)
  BY Stands, StandsWith, Zenon
<1> HIDE DEF h, r
<1> DEFINE w == SubSeq(r.got, Len(r.got) - 2 + 1, Len(r.got))
<1>3. Joined(r) = IF r.ok THEN [r EXCEPT !.got = Append(SubSeq(r.got, 1, Len(r.got) - 2), w[1] \o w[2])]
                 ELSE r
  BY Zenon DEF Made, Joined
<1>4. <<a, b>>[1] = a /\ <<a, b>>[2] = b
  OBVIOUS
<1>5. Joined(r) = Stand(Append(g, a \o b), t)
  BY <1>1, <1>2, <1>3, <1>4, ZenonT(60)
<1> QED
  BY <1>5 DEF h, r

\* The last is put behind the other.
LEMMA MadeAppend ==
    ASSUME NEW g, Kept(g), NEW a, NEW b, NEW t
    PROVE  Appended(Stand(Append(Append(g, a), b), t)) = Stand(Append(g, Append(a, b)), t)
<1> DEFINE h == Append(Append(g, a), b)
           r == Stand(h, t)
<1>1. SubSeq(h, 1, Len(h) - 2) = g /\ SubSeq(h, Len(h) - 2 + 1, Len(h)) = <<a, b>>
  BY KeptTwo DEF Lasts
<1>2. r.ok /\ r.got = h /\ \A x : [r EXCEPT !.got = x] = Stand(x, t)
  BY Stands, StandsWith, Zenon
<1> HIDE DEF h, r
<1> DEFINE w == SubSeq(r.got, Len(r.got) - 2 + 1, Len(r.got))
<1>3. Appended(r) = IF r.ok THEN [r EXCEPT !.got = Append(SubSeq(r.got, 1, Len(r.got) - 2), Append(w[1], w[2]))]
                 ELSE r
  BY Zenon DEF Made, Appended
<1>4. <<a, b>>[1] = a /\ <<a, b>>[2] = b
  OBVIOUS
<1>5. Appended(r) = Stand(Append(g, Append(a, b)), t)
  BY <1>1, <1>2, <1>3, <1>4, ZenonT(60)
<1> QED
  BY <1>5 DEF h, r

\* Two functions that go on alike are alike.
LEMMA Along ==
    ASSUME NEW N \in Nat, NEW f, NEW h, f[0] = h[0],
           \A k \in 1..N : f[k - 1] = h[k - 1] => f[k] = h[k]
    PROVE  \A k \in 0..N : f[k] = h[k]
<1> DEFINE T == {k \in Nat : k <= N => f[k] = h[k]}
<1>1. ASSUME NEW k \in Nat, \A m \in 0..(k - 1) : m \in T PROVE k \in T
  <2> SUFFICES ASSUME k <= N PROVE f[k] = h[k]
    OBVIOUS
  <2>1. CASE k = 0
    BY <2>1
  <2>2. CASE k # 0
    <3>1. k \in 1..N /\ k - 1 \in 0..(k - 1) /\ k - 1 <= N
      BY <2>2
    <3> QED
      BY <1>1, <3>1
  <2> QED
    BY <2>1, <2>2
<1>2. \A k \in Nat : k \in T
  <2> HIDE DEF T
  <2> QED
    BY <1>1, Induct
<1> QED
  BY <1>2

\* So in a formula.
GoOnAlike(N, f, h) == f[0] = h[0] /\ \A k \in 1..N : f[k - 1] = h[k - 1] => f[k] = h[k]

\* Along, in a formula that can be cited for any two functions.
LEMMA AllAlong ==
    \A N \in Nat : \A f, h : GoOnAlike(N, f, h) => \A k \in 0..N : f[k] = h[k]
<1> SUFFICES ASSUME NEW N \in Nat, NEW f, NEW h, GoOnAlike(N, f, h)
             PROVE  \A k \in 0..N : f[k] = h[k]
  OBVIOUS
<1>1. f[0] = h[0] /\ \A k \in 1..N : f[k - 1] = h[k - 1] => f[k] = h[k]
  BY DEF GoOnAlike
<1> QED
  BY <1>1, Along, ZenonT(60)

-----------------------------------------------------------------------------
(* Vectors of bytes *)

\* The bytes read in the first k chunks of n, and the stream then.
Least(a, b) == IF a <= b THEN a ELSE b
UpToChunk(n, k) == Least(k * Chunk, n)

\* The number of chunks, and the bytes in one.
ChunkCount(n) == (n + Chunk - 1) \div Chunk
Blk(n, k) == IF k * Chunk <= n THEN Chunk ELSE n - (k - 1) * Chunk

\* One step of reading in chunks, and all of them.
ChunkRule(c, n, f, k) ==
    IF k = 0 THEN Emptied(c) ELSE Joined(ReadBytes(f[k - 1], Blk(n, k)))
ChunkSteps(c, n) == CHOOSE f : f = [k \in 0..ChunkCount(n) |-> ChunkRule(c, n, f, k)]

\* Chunks is the last of the steps.
LEMMA ChunksIs == \A c : Chunks(c) = ChunkSteps(c, Top(c))[ChunkCount(Top(c))]
  BY Zenon DEF Chunks, ChunkSteps, ChunkRule, ChunkCount, Blk, Emptied, Joined

\* Chunks go on by at most Chunk bytes, and there are enough of them.
LEMMA ChunkSizes ==
    ASSUME NEW n \in Nat
    PROVE  /\ ChunkCount(n) \in Nat /\ UpToChunk(n, 0) = 0 /\ UpToChunk(n, ChunkCount(n)) = n
           /\ \A k \in 1..ChunkCount(n) :
                /\ UpToChunk(n, k - 1) \in Nat /\ Blk(n, k) \in Nat
                /\ UpToChunk(n, k) = UpToChunk(n, k - 1) + Blk(n, k) /\ UpToChunk(n, k) <= n
<1> DEFINE m == ChunkCount(n)
           x == n + Chunk - 1
           d == x % Chunk
<1>0. Chunk \in Nat /\ Chunk > 0
  BY Bases
<1>1. x \in Nat
  BY <1>0
<1>2. m \in Nat /\ d \in Nat /\ d < Chunk /\ x = Chunk * m + d
  <2>1. x \div Chunk \in Nat /\ x % Chunk \in Nat /\ x % Chunk < Chunk /\ x = Chunk * (x \div Chunk) + (x % Chunk)
    <3> HIDE DEF x
    <3> QED
      BY <1>0, <1>1, Quotients
  <2> QED
    BY <2>1 DEF ChunkCount
<1> HIDE DEF m, d
<1>3. Chunk * m = m * Chunk /\ m * Chunk \in Nat
  BY <1>0, <1>2
<1>4. m * Chunk >= n
  BY <1>0, <1>2, <1>3
<1>4a. m * Chunk <= n + Chunk - 1
  BY <1>0, <1>2, <1>3
<1>5. UpToChunk(n, m) = n
  BY <1>3, <1>4 DEF UpToChunk, Least
<1>6. UpToChunk(n, 0) = 0
  BY <1>0 DEF UpToChunk, Least
<1>7. ASSUME NEW k \in 1..m
      PROVE  /\ UpToChunk(n, k - 1) \in Nat /\ Blk(n, k) \in Nat
             /\ UpToChunk(n, k) = UpToChunk(n, k - 1) + Blk(n, k) /\ UpToChunk(n, k) <= n
  <2> DEFINE y == (k - 1) * Chunk
             z == k * Chunk
  <2>1. k \in Nat /\ k - 1 \in Nat /\ k <= m
    BY <1>2
  <2>2. y \in Nat /\ z \in Nat /\ z = y + Chunk
    BY <1>0, <2>1
  <2>3. z <= m * Chunk
    <3>1. PICK e \in Nat : m = k + e
      <4>1. m - k \in Nat /\ m = k + (m - k)
        BY <1>2, <2>1
      <4> QED
        BY <4>1
    <3>2. (k + e) * Chunk = k * Chunk + e * Chunk /\ e * Chunk \in Nat
      BY <1>0, <2>1
    <3> QED
      BY <2>2, <3>1, <3>2
  <2>4. y <= n
    BY <1>0, <1>3, <1>4a, <2>2, <2>3
  <2>5. /\ UpToChunk(n, k - 1) = Least(y, n) /\ UpToChunk(n, k) = Least(z, n)
        /\ Blk(n, k) = IF z <= n THEN Chunk ELSE n - y
    BY DEF UpToChunk, Blk
  <2> HIDE DEF y, z
  <2> QED
    BY <1>0, <2>2, <2>4, <2>5 DEF Least
<1> QED
  BY <1>2, <1>5, <1>6, <1>7 DEF m

\* Sequences are joined in any order.
LEMMA JoinsAssociate ==
    ASSUME NEW D, NEW a \in Seq(D), NEW b \in Seq(D), NEW c \in Seq(D)
    PROVE  (a \o b) \o c = a \o (b \o c)
  OBVIOUS

\* So are bytes.
LEMMA BytesAssociate ==
    \A a, b, c \in Seq(Digit) : (a \o b) \o c = a \o (b \o c) /\ a \o b \in Seq(Digit)
<1> SUFFICES ASSUME NEW a \in Seq(Digit), NEW b \in Seq(Digit), NEW c \in Seq(Digit)
             PROVE  (a \o b) \o c = a \o (b \o c) /\ a \o b \in Seq(Digit)
  OBVIOUS
<1>1. (a \o b) \o c = a \o (b \o c)
  BY JoinsAssociate
<1>2. a \o b \in Seq(Digit)
  BY InFront
<1> QED
  BY <1>1, <1>2

\* Joining associates.
Shifts(a, b, c) == (a \o b) \o c = a \o (b \o c)

\* Joining bytes associates.
LEMMA AllShift == \A a, b, c : a \in Seq(Digit) /\ b \in Seq(Digit) /\ c \in Seq(Digit) => Shifts(a, b, c)
  BY BytesAssociate DEF Shifts

\* Of s, v and what follows it, p is in front of r and of v, q in front of r and behind
\* p, and z behind both.
AtSeams(D, p, q, v, s, r, z) ==
    /\ r \in Seq(D) /\ Len(p \o q) = Len(p) + Len(q)
    /\ SubSeq(s, Len(p) + 1, Len(s)) = r /\ SubSeq(s, Len(p \o q) + 1, Len(s)) = z
    /\ Len(q) <= Len(r) /\ SubSeq(r, 1, Len(q)) = q /\ SubSeq(r, Len(q) + 1, Len(r)) = z
    /\ SubSeq(v, 1, Len(p \o q)) = p \o q

\* Four pieces, and what is found at the seams.
LEMMA Seams ==
    ASSUME NEW D, NEW p \in Seq(D), NEW q \in Seq(D), NEW x \in Seq(D), NEW t \in Seq(D)
    PROVE  AtSeams(D, p, q, p \o (q \o x), (p \o (q \o x)) \o t, q \o (x \o t), x \o t)
<1> DEFINE z == x \o t
           y == q \o x
           c == p \o q
           r == q \o z
<1>1. z \in Seq(D) /\ y \in Seq(D) /\ c \in Seq(D)
  BY InFront
<1>1a. Len(c) = Len(p) + Len(q)
  BY InFront
<1>2. r \in Seq(D)
  <2> HIDE DEF z
  <2> QED
    BY <1>1, InFront
<1>3. y \o t = r
  BY JoinsAssociate, SMTT(60)
<1>3a. c \o x = p \o y
  BY JoinsAssociate, SMTT(60)
<1>4. c \o z = p \o r
  <2>1. z \in Seq(D)
    BY <1>1
  <2> HIDE DEF z
  <2> QED
    BY <2>1, JoinsAssociate, SMTT(60)
<1>5. (p \o y) \o t = p \o (y \o t)
  <2> HIDE DEF y
  <2> QED
    BY <1>1, JoinsAssociate, SMTT(60)
<1>6. SubSeq(p \o r, Len(p) + 1, Len(p \o r)) = r
  <2> HIDE DEF r
  <2> QED
    BY <1>2, InFront
<1>7. SubSeq(c \o z, Len(c) + 1, Len(c \o z)) = z
  <2> HIDE DEF c, z
  <2> QED
    BY <1>1, InFront
<1>8. Len(q) <= Len(r) /\ SubSeq(r, 1, Len(q)) = q /\ SubSeq(r, Len(q) + 1, Len(r)) = z
  <2> HIDE DEF z
  <2> QED
    BY <1>1, InFront
<1>9. SubSeq(c \o x, 1, Len(c)) = c
  <2> HIDE DEF c
  <2> QED
    BY <1>1, InFront
<1> HIDE DEF z, y, c, r
<1>10. AtSeams(D, p, q, p \o y, (p \o y) \o t, r, z)
  BY <1>1, <1>1a, <1>2, <1>3, <1>3a, <1>4, <1>5, <1>6, <1>7, <1>8, <1>9, Zenon DEF AtSeams, c
<1> QED
  BY <1>10, Zenon DEF z, y, r

\* The piece of b bytes behind the first u of v.
HasPiece(D, v, t, u, b) ==
    \E r \in Seq(D) :
       /\ SubSeq(v \o t, u + 1, Len(v \o t)) = r /\ b <= Len(r)
       /\ SubSeq(v, 1, u) \o SubSeq(r, 1, b) = SubSeq(v, 1, u + b)
       /\ SubSeq(r, b + 1, Len(r)) = SubSeq(v \o t, (u + b) + 1, Len(v \o t))

\* There is one while there are as many bytes.
LEMMA Pieces ==
    ASSUME NEW D, NEW v \in Seq(D), NEW t \in Seq(D), NEW u \in Nat, NEW b \in Nat, u + b <= Len(v)
    PROVE  HasPiece(D, v, t, u, b)
<1> DEFINE p == SubSeq(v, 1, u)
           y == SubSeq(v, u + 1, Len(v))
           q == SubSeq(y, 1, b)
           x == SubSeq(y, b + 1, Len(y))
<1>0. Len(v) \in Nat /\ u <= Len(v)
  OBVIOUS
<1>1. p \in Seq(D) /\ Len(p) = u /\ y \in Seq(D) /\ Len(y) = Len(v) - u /\ p \o y = v
  BY <1>0, PartOf
<1> HIDE DEF p, y
<1>2. b <= Len(y)
  BY <1>0, <1>1
<1>3. q \in Seq(D) /\ Len(q) = b /\ x \in Seq(D) /\ q \o x = y
  BY <1>1, <1>2, PartOf
<1> HIDE DEF q, x
<1> DEFINE r == q \o (x \o t)
<1>4. p \in Seq(D) /\ q \in Seq(D) /\ x \in Seq(D)
  BY <1>1, <1>3
<1>5. AtSeams(D, p, q, p \o (q \o x), (p \o (q \o x)) \o t, r, x \o t)
  BY <1>4, Seams
<1>6. p \o (q \o x) = v
  BY <1>1, <1>3, Zenon
<1> HIDE DEF r
<1>7. /\ r \in Seq(D) /\ SubSeq(v \o t, u + 1, Len(v \o t)) = r /\ b <= Len(r)
      /\ p \o SubSeq(r, 1, b) = SubSeq(v, 1, u + b)
      /\ SubSeq(r, b + 1, Len(r)) = SubSeq(v \o t, (u + b) + 1, Len(v \o t))
  BY <1>1, <1>3, <1>5, <1>6, Zenon DEF AtSeams
<1> QED
  BY <1>7, Zenon DEF p, HasPiece

\* A vector of bytes comes back, whatever follows it.
LEMMA BytesRead ==
    ASSUME NEW g, Kept(g), NEW v \in CScripts, NEW t \in Seq(Digit)
    PROVE  /\ SerializeBytes(v) \in Seq(Digit)
           /\ UnserializeBytes(Stand(g, SerializeBytes(v) \o t)) = Stand(Append(g, v), t)
<1> DEFINE n == Len(v)
           w == WriteCompactSize(n)
           s == v \o t
           c == Stand(Append(g, n), s)
           m == ChunkCount(n)
           u(k) == UpToChunk(n, k)
           st(k) == Stand(Append(g, SubSeq(v, 1, u(k))), SubSeq(s, u(k) + 1, Len(s)))
           h == [k \in 0..m |-> st(k)]
           f == ChunkSteps(c, n)
<1>1. v \in Seq(Digit) /\ n \in Nat /\ n <= MAX_SIZE
  BY DEF CScripts, UpToMax
<1>2. w \in Seq(Digit)
  BY <1>1, CompactBytes
<1>3. SerializeBytes(v) = w \o v
  BY DEF SerializeBytes
<1> HIDE DEF n, w
<1>4. w \o v \in Seq(Digit) /\ (w \o v) \o t = w \o s /\ s \in Seq(Digit)
  BY <1>1, <1>2
<1>5. ReadCompactSize(Stand(g, w \o s)) = c
  BY <1>1, <1>4, SizeReads DEF w
<1>6. Top(c) = n
  BY TopOf
<1>7. Chunks(c) = f[m]
  BY <1>6, ChunksIs
<1>8. /\ m \in Nat /\ u(0) = 0 /\ u(m) = n
      /\ \A k \in 1..m :
           u(k - 1) \in Nat /\ Blk(n, k) \in Nat /\ u(k) = u(k - 1) + Blk(n, k) /\ u(k) <= n
  BY <1>1, ChunkSizes
<1>9. st(0) = Emptied(c)
  <2>1. SubSeq(v, 1, 0) = <<>> /\ SubSeq(s, 0 + 1, Len(s)) = s
    <3>1. SubSeq(v, 1, 0) \in Seq(Digit) /\ Len(SubSeq(v, 1, 0)) = 0
      BY <1>1, PartOf DEF n
    <3>2. SubSeq(s, 1, Len(s)) = s
      BY <1>4, SubSeqFull
    <3> QED
      BY <3>1, <3>2, EmptySeq
  <2>2. Emptied(c) = Stand(Append(g, <<>>), s)
    BY MadeNothing
  <2> QED
    BY <1>8, <2>1, <2>2
<1>10. ASSUME NEW k \in 1..m
       PROVE  st(k) = Joined(ReadBytes(st(k - 1), Blk(n, k)))
  <2> DEFINE a == u(k - 1)
             b == Blk(n, k)
             p == SubSeq(v, 1, a)
  <2>1. a \in Nat /\ b \in Nat /\ u(k) = a + b /\ a + b <= Len(v)
    BY <1>8 DEF n
  <2> HIDE DEF a, b, u
  <2>2. PICK r \in Seq(Digit) :
           /\ SubSeq(s, a + 1, Len(s)) = r /\ b <= Len(r)
           /\ p \o SubSeq(r, 1, b) = SubSeq(v, 1, a + b)
           /\ SubSeq(r, b + 1, Len(r)) = SubSeq(s, (a + b) + 1, Len(s))
    <3>1. v \in Seq(Digit) /\ a \in Nat /\ b \in Nat /\ a + b <= Len(v)
      BY <1>1, <2>1
    <3>2. HasPiece(Digit, v, t, a, b)
      BY <3>1, Pieces
    <3> QED
      BY <3>2, Zenon DEF HasPiece
  <2> DEFINE q == SubSeq(r, 1, b)
  <2>3. st(k - 1) = Stand(Append(g, p), r)
    BY <2>2 DEF a
  <2> HIDE DEF p, q
  <2>4. ReadBytes(Stand(Append(g, p), r), b) = Stand(Append(Append(g, p), q), SubSeq(r, b + 1, Len(r)))
    BY <2>1, <2>2, ReadsBytes DEF q
  <2>5. Joined(Stand(Append(Append(g, p), q), SubSeq(r, b + 1, Len(r))))
        = Stand(Append(g, p \o q), SubSeq(r, b + 1, Len(r)))
    BY MadeJoin
  <2>6. st(k) = Stand(Append(g, p \o q), SubSeq(r, b + 1, Len(r)))
    BY <2>1, <2>2 DEF p, q
  <2>7. ReadBytes(st(k - 1), Blk(n, k)) = Stand(Append(Append(g, p), q), SubSeq(r, b + 1, Len(r)))
    BY <2>3, <2>4 DEF b
  <2> HIDE DEF st
  <2> QED
    BY <2>5, <2>6, <2>7
<1> HIDE DEF st, c, m
<1>11. h = [k \in 0..m |-> ChunkRule(c, n, h, k)]
  <2>1. ASSUME NEW k \in 0..m PROVE h[k] = ChunkRule(c, n, h, k)
    <3>1. CASE k = 0
      BY <1>9, <3>1, Zenon DEF ChunkRule
    <3>2. CASE k # 0
      <4>1. k \in 1..m /\ k - 1 \in 0..m
        BY <1>8, <3>2
      <4>2. h[k] = st(k) /\ h[k - 1] = st(k - 1)
        BY <4>1
      <4> HIDE DEF h
      <4>3. st(k) = Joined(ReadBytes(st(k - 1), Blk(n, k)))
        BY <1>10, <4>1
      <4>4. ChunkRule(c, n, h, k) = Joined(ReadBytes(h[k - 1], Blk(n, k)))
        BY <3>2, Zenon DEF ChunkRule
      <4> QED
        BY <4>2, <4>3, <4>4
    <3> QED
      BY <3>1, <3>2
  <2> QED
    BY <2>1
<1>12. f = [k \in 0..m |-> ChunkRule(c, n, f, k)]
  <2>1. \E x : x = [k \in 0..ChunkCount(n) |-> ChunkRule(c, n, x, k)]
    BY <1>11 DEF m
  <2> QED
    BY <2>1 DEF ChunkSteps, m
<1>13. f[m] = h[m]
  <2>1. \A k \in 0..m : f[k] = ChunkRule(c, n, f, k)
    BY <1>12
  <2>2. \A k \in 0..m : h[k] = ChunkRule(c, n, h, k)
    BY <1>11
  <2> HIDE DEF f, h
  <2>3. f[0] = h[0]
    <3>1. ChunkRule(c, n, f, 0) = ChunkRule(c, n, h, 0) /\ 0 \in 0..m
      BY <1>8 DEF ChunkRule
    <3> QED
      BY <2>1, <2>2, <3>1
  <2>4. \A k \in 1..m : f[k - 1] = h[k - 1] => f[k] = h[k]
    <3> SUFFICES ASSUME NEW k \in 1..m, f[k - 1] = h[k - 1] PROVE f[k] = h[k]
      OBVIOUS
    <3>1. k \in 0..m /\ k # 0
      BY <1>8
    <3>2. ChunkRule(c, n, f, k) = ChunkRule(c, n, h, k)
      BY <3>1 DEF ChunkRule
    <3> QED
      BY <2>1, <2>2, <3>1, <3>2
  <2>5. \A k \in 0..m : f[k] = h[k]
    <3> HIDE <1>8
    <3>1. m \in Nat
      BY <1>8
    <3> HIDE DEF m
    <3> QED
      BY <2>3, <2>4, <3>1, Along, ZenonT(60)
  <2> QED
    BY <1>8, <2>5
<1>14. st(m) = Stand(Append(g, v), t)
  <2>1. SubSeq(v, 1, n) = v /\ SubSeq(s, n + 1, Len(s)) = t
    <3>1. SubSeq(v, 1, Len(v)) = v
      BY <1>1, SubSeqFull
    <3>2. SubSeq(s, Len(v) + 1, Len(s)) = t
      BY <1>1, InFront
    <3> QED
      BY <3>1, <3>2 DEF n
  <2> QED
    BY <1>8, <2>1 DEF st
<1>15. h[m] = st(m)
  BY <1>8
<1>16. UnserializeBytes(Stand(g, (w \o v) \o t)) = Chunks(c)
  BY <1>4, <1>5 DEF UnserializeBytes
<1> QED
  BY <1>3, <1>4, <1>7, <1>13, <1>14, <1>15, <1>16

-----------------------------------------------------------------------------
(* Sequences written one after the other *)

\* What is written of ps behind its i-th part.
Behinds(ps, B) ==
    LET N == Len(ps) IN
    /\ B \in [0..N -> Seq(Digit)] /\ B[N] = <<>> /\ B[0] = FlattenSeq(ps)
    /\ \A i \in 1..N : B[i - 1] = ps[i] \o B[i]

\* One step of FlattenSeq, and all of them.
FlatRule(ps, f, i) == IF i = 1 THEN ps[i] ELSE f[i - 1] \o ps[i]
FlatSteps(ps) == CHOOSE f : f = [i \in 1..Len(ps) |-> FlatRule(ps, f, i)]

\* FlattenSeq by its steps.
LEMMA FlattenIs ==
    \A ps : FlattenSeq(ps) = IF Len(ps) = 0 THEN ps ELSE FlatSteps(ps)[Len(ps)]
  BY Zenon DEF FlattenSeq, FlatSteps, FlatRule

\* The steps are those of the parts put together from the first on.
LEMMA FlatStepsAre ==
    ASSUME NEW ps \in Seq(Seq(Digit)), Len(ps) # 0, NEW F \in [0..Len(ps) -> Seq(Digit)],
           F[0] = <<>>, \A i \in 1..Len(ps) : F[i] = F[i - 1] \o ps[i]
    PROVE  FlattenSeq(ps) = F[Len(ps)]
<1> DEFINE N == Len(ps)
           h == [i \in 1..N |-> F[i]]
           f == FlatSteps(ps)
<1>1. N \in Nat /\ N # 0 /\ \A i \in 1..N : ps[i] \in Seq(Digit)
  OBVIOUS
<1>2. \A i \in 1..N : h[i] = FlatRule(ps, h, i)
  <2> SUFFICES ASSUME NEW i \in 1..N PROVE h[i] = FlatRule(ps, h, i)
    OBVIOUS
  <2>1. h[i] = F[i] /\ F[i] = F[i - 1] \o ps[i]
    OBVIOUS
  <2>2. CASE i = 1
    <3>1. F[0] \o ps[i] = ps[i] /\ i - 1 = 0
      BY <1>1, <2>2
    <3> QED
      BY <2>1, <2>2, <3>1 DEF FlatRule
  <2>3. CASE i # 1
    <3>1. i - 1 \in 1..N
      BY <2>3
    <3>2. h[i - 1] = F[i - 1]
      BY <3>1
    <3> QED
      BY <2>1, <2>3, <3>2 DEF FlatRule
  <2> QED
    BY <2>2, <2>3
<1>3. h = [i \in 1..N |-> FlatRule(ps, h, i)]
  BY <1>2
<1>4. f = [i \in 1..N |-> FlatRule(ps, f, i)]
  <2>1. \E x : x = [i \in 1..Len(ps) |-> FlatRule(ps, x, i)]
    BY <1>3
  <2> HIDE DEF N
  <2> QED
    BY <2>1 DEF FlatSteps, N
<1>5. \A i \in 1..N : f[i] = FlatRule(ps, f, i)
  BY <1>4
<1> HIDE DEF h, f
<1> DEFINE T == {k \in Nat : k + 1 <= N => f[k + 1] = h[k + 1]}
<1>6. ASSUME NEW k \in Nat, \A m \in 0..(k - 1) : m \in T PROVE k \in T
  <2> SUFFICES ASSUME k + 1 <= N PROVE f[k + 1] = h[k + 1]
    OBVIOUS
  <2>1. k + 1 \in 1..N
    BY <1>1
  <2>2. f[k + 1] = FlatRule(ps, f, k + 1) /\ h[k + 1] = FlatRule(ps, h, k + 1)
    BY <1>2, <1>5, <2>1
  <2>3. CASE k = 0
    BY <2>2, <2>3 DEF FlatRule
  <2>4. CASE k # 0
    <3>1. k - 1 \in 0..(k - 1) /\ (k - 1) + 1 = k /\ (k - 1) + 1 <= N /\ (k + 1) - 1 = k /\ k + 1 # 1
      BY <1>1, <2>4
    <3>2. f[k] = h[k]
      BY <1>6, <3>1
    <3> QED
      BY <2>2, <3>1, <3>2 DEF FlatRule
  <2> QED
    BY <2>3, <2>4
<1>7. \A k \in Nat : k \in T
  <2> HIDE DEF T
  <2> QED
    BY <1>6, Induct
<1>8. f[N] = h[N]
  <2>1. N - 1 \in Nat /\ (N - 1) + 1 = N
    BY <1>1
  <2>2. N - 1 \in T
    BY <1>7, <2>1
  <2>3. (N - 1) + 1 <= N => f[(N - 1) + 1] = h[(N - 1) + 1]
    BY <2>2
  <2> HIDE DEF N
  <2> QED
    BY <1>1, <2>1, <2>3
<1>9. h[N] = F[N]
  BY <1>1 DEF h
<1> QED
  BY <1>1, <1>8, <1>9, FlattenIs DEF f

\* There are such, for any parts.
LEMMA Flattened ==
    ASSUME NEW ps \in Seq(Seq(Digit))
    PROVE  \E B : Behinds(ps, B)
<1> DEFINE N == Len(ps)
           S == Seq(Digit)
           q(k) == IF k \in 1..N THEN ps[k] ELSE <<>>
           back == [k \in Nat |-> [x \in S |-> q((N + 1) - k) \o x]]
           fwd == [k \in Nat |-> [x \in S |-> x \o q(k)]]
<1>0. N \in Nat /\ <<>> \in S /\ \A k \in 1..N : ps[k] \in S
  OBVIOUS
<1>1. \A k : q(k) \in S
  BY <1>0
<1>2. \A k : \A x \in S : q(k) \o x \in S /\ x \o q(k) \in S
  <2> SUFFICES ASSUME NEW k, NEW x \in S PROVE q(k) \o x \in S /\ x \o q(k) \in S
    OBVIOUS
  <2>1. q(k) \in S
    BY <1>1
  <2> HIDE DEF q
  <2> QED
    BY <2>1
<1>3. back \in [Nat -> [S -> S]] /\ fwd \in [Nat -> [S -> S]]
  <2> HIDE DEF q, S
  <2> QED
    BY <1>2
<1>4. PICK C \in [0..N -> S] : Chain(C, N, <<>>, back)
  <2> HIDE DEF S, back, N
  <2> QED
    BY <1>0, <1>3, Chains
<1>5. PICK F \in [0..N -> S] : Chain(F, N, <<>>, fwd)
  <2> HIDE DEF S, fwd, N
  <2> QED
    BY <1>0, <1>3, Chains
<1> DEFINE B == [i \in 0..N |-> C[N - i]]
<1>6. B \in [0..N -> S] /\ B[N] = <<>>
  <2>1. \A i \in 0..N : N - i \in 0..N
    BY <1>0
  <2>2. B[N] = C[0]
    BY <1>0, SMTT(60)
  <2> HIDE DEF S, N
  <2> QED
    BY <1>4, <2>1, <2>2 DEF Chain
<1>7. \A i \in 1..N : B[i - 1] = ps[i] \o B[i]
  <2> SUFFICES ASSUME NEW i \in 1..N PROVE B[i - 1] = ps[i] \o B[i]
    OBVIOUS
  <2> DEFINE k == (N + 1) - i
  <2>1. k \in 1..N /\ k \in Nat /\ i - 1 \in 0..N /\ i \in 0..N /\ (N + 1) - k = i /\ N - (i - 1) = k /\ N - i = k - 1
    BY <1>0
  <2>2. B[i - 1] = C[k] /\ B[i] = C[k - 1]
    BY <2>1
  <2> HIDE DEF B, k, N, S
  <2>3. C[k] = back[k][C[k - 1]] /\ C[k - 1] \in S
    <3>1. k - 1 \in 0..N
      BY <1>0, <2>1
    <3> QED
      BY <1>4, <2>1, <3>1 DEF Chain
  <2>4. back[k][C[k - 1]] = q(i) \o C[k - 1]
    <3> HIDE DEF q
    <3> QED
      BY <2>1, <2>3
  <2>5. q(i) = ps[i]
    OBVIOUS
  <2> QED
    BY <2>2, <2>3, <2>4, <2>5
<1>8. \A i \in 1..N : F[i] = F[i - 1] \o ps[i] /\ F[i - 1] \in S
  <2> SUFFICES ASSUME NEW i \in 1..N PROVE F[i] = F[i - 1] \o ps[i] /\ F[i - 1] \in S
    OBVIOUS
  <2>1. i \in Nat /\ i - 1 \in 0..N
    BY <1>0
  <2> HIDE DEF N, S
  <2>2. F[i] = fwd[i][F[i - 1]] /\ F[i - 1] \in S
    BY <1>5, <2>1 DEF Chain
  <2>3. fwd[i][F[i - 1]] = F[i - 1] \o q(i)
    <3> HIDE DEF q
    <3> QED
      BY <2>1, <2>2
  <2>4. q(i) = ps[i]
    OBVIOUS
  <2> QED
    BY <2>2, <2>3, <2>4
<1> HIDE DEF B
<1> DEFINE G == [k \in 0..N |-> F[k] \o B[k]]
           H == [k \in 0..N |-> B[0]]
<1>9. \A k \in 0..N : G[k] = H[k]
  <2>0. \A k \in 0..N : G[k] = F[k] \o B[k] /\ H[k] = B[0]
    OBVIOUS
  <2> HIDE DEF G, H
  <2>1. G[0] = H[0]
    <3>1. F[0] = <<>> /\ 0 \in 0..N
      BY <1>0, <1>5 DEF Chain
    <3>2. B[0] \in Seq(Digit)
      BY <1>6, <3>1
    <3>3. <<>> \o B[0] = B[0]
      BY <3>2
    <3> QED
      BY <2>0, <3>1, <3>3
  <2>2. \A k \in 1..N : G[k - 1] = H[k - 1] => G[k] = H[k]
    <3> SUFFICES ASSUME NEW k \in 1..N, G[k - 1] = H[k - 1] PROVE G[k] = H[k]
      OBVIOUS
    <3>1. k \in 0..N /\ k - 1 \in 0..N
      BY <1>0
    <3>2. G[k] = F[k] \o B[k] /\ G[k - 1] = F[k - 1] \o B[k - 1] /\ H[k] = H[k - 1]
      BY <2>0, <3>1
    <3>3. F[k - 1] \in Seq(Digit) /\ ps[k] \in Seq(Digit) /\ B[k] \in Seq(Digit)
      BY <1>0, <1>6, <1>8, <3>1
    <3>4. (F[k - 1] \o ps[k]) \o B[k] = F[k - 1] \o (ps[k] \o B[k])
      <4> DEFINE a == F[k - 1]
                 b == ps[k]
                 c == B[k]
      <4>1. a \in Seq(Digit) /\ b \in Seq(Digit) /\ c \in Seq(Digit)
        BY <3>3
      <4> HIDE DEF a, b, c
      <4>2. (a \o b) \o c = a \o (b \o c)
        BY <4>1, BytesAssociate, ZenonT(60)
      <4> QED
        BY <4>2 DEF a, b, c
    <3> QED
      BY <1>7, <1>8, <3>2, <3>4
  <2>3. N \in Nat
    BY <1>0
  <2>4. GoOnAlike(N, G, H)
    BY <2>1, <2>2 DEF GoOnAlike
  <2> HIDE DEF N, S
  <2>5. \A f, h : GoOnAlike(N, f, h) => \A k \in 0..N : f[k] = h[k]
    BY <2>3, AllAlong
  <2> QED
    BY <2>4, <2>5, Zenon
<1>10. F[N] = B[0]
  <2>1. N \in 0..N /\ G[N] = F[N] \o B[N] /\ H[N] = B[0]
    BY <1>0
  <2>2. F[N] \in Seq(Digit)
    BY <2>1
  <2>3. F[N] \o <<>> = F[N]
    BY <2>2
  <2> HIDE DEF G, H, N
  <2> QED
    BY <1>6, <1>9, <2>1, <2>3
<1>11. B[0] = FlattenSeq(ps)
  <2>1. CASE N = 0
    <3>1. ps = <<>>
      BY <2>1, EmptySeq
    <3>2. FlattenSeq(ps) = ps
      BY <2>1, FlattenIs
    <3>3. B[0] = <<>>
      BY <1>6, <2>1
    <3> QED
      BY <3>1, <3>2, <3>3
  <2>2. CASE N # 0
    <3>1. F[0] = <<>>
      BY <1>5 DEF Chain
    <3>2. FlattenSeq(ps) = F[Len(ps)]
      BY <1>8, <2>2, <3>1, FlatStepsAre
    <3> QED
      BY <1>10, <3>2
  <2> QED
    BY <2>1, <2>2
<1>12. Behinds(ps, B)
  BY <1>6, <1>7, <1>11 DEF Behinds
<1> QED
  BY <1>12

-----------------------------------------------------------------------------
(* Inputs and outputs *)

\* What the readers make of the last values.
AsOutPoint(r)  == Made(r, 2, LAMBDA f : [hash |-> f[1], n |-> f[2]])
AsTxIn(r)      == Made(r, 3, LAMBDA f :
    [prevout |-> f[1], scriptSig |-> f[2], nSequence |-> f[3], scriptWitness |-> <<>>])
AsTxOut(r)     == Made(r, 2, LAMBDA f : [nValue |-> f[1], scriptPubKey |-> f[2]])
AsNoBody(r)    == Made(r, 2, LAMBDA g : Body(<<>>, <<>>, 0))
AsBody(r)      == Made(r, 2, LAMBDA f : Body(f[1], f[2], 0))
AsExtended(r)  == Made(r, 4, LAMBDA g : Body(g[3], g[4], g[2]))
AsWitness(r, i) == Made(r, 2, LAMBDA f : [f[1] EXCEPT !.vin[i].scriptWitness = f[2]])
WithWitness(a, i, b) == [a EXCEPT !.vin[i].scriptWitness = b]
AsTx(r)        == Made(r, 3, LAMBDA f :
    [nVersion |-> f[1], vin |-> f[2].vin, vout |-> f[2].vout, nLockTime |-> f[3]])

\* They do so.
LEMMA MadeOutPoint ==
    ASSUME NEW g, Kept(g), NEW a, NEW b, NEW t
    PROVE  AsOutPoint(Stand(Append(Append(g, a), b), t)) = Stand(Append(g, [hash |-> a, n |-> b]), t)
<1> DEFINE h == Append(Append(g, a), b)
           r == Stand(h, t)
<1>1. SubSeq(h, 1, Len(h) - 2) = g /\ SubSeq(h, Len(h) - 2 + 1, Len(h)) = <<a, b>>
  BY KeptTwo DEF Lasts
<1>2. r.ok /\ r.got = h /\ \A x : [r EXCEPT !.got = x] = Stand(x, t)
  BY Stands, StandsWith, Zenon
<1> HIDE DEF h, r
<1> DEFINE w == SubSeq(r.got, Len(r.got) - 2 + 1, Len(r.got))
<1>3. AsOutPoint(r) = IF r.ok THEN [r EXCEPT !.got = Append(SubSeq(r.got, 1, Len(r.got) - 2), [hash |-> w[1], n |-> w[2]])]
                 ELSE r
  BY Zenon DEF Made, AsOutPoint
<1>4. <<a, b>>[1] = a /\ <<a, b>>[2] = b
  OBVIOUS
<1>5. AsOutPoint(r) = Stand(Append(g, [hash |-> a, n |-> b]), t)
  BY <1>1, <1>2, <1>3, <1>4, ZenonT(60)
<1> QED
  BY <1>5 DEF h, r

\* An input is made of its three fields on the wire.
LEMMA MadeTxIn ==
    ASSUME NEW g, Kept(g), NEW a, NEW b, NEW c, NEW t
    PROVE  AsTxIn(Stand(Append(Append(Append(g, a), b), c), t)) = Stand(Append(g, [prevout |-> a, scriptSig |-> b, nSequence |-> c, scriptWitness |-> <<>>]), t)
<1> DEFINE h == Append(Append(Append(g, a), b), c)
           r == Stand(h, t)
<1>1. SubSeq(h, 1, Len(h) - 3) = g /\ SubSeq(h, Len(h) - 3 + 1, Len(h)) = <<a, b, c>>
  BY KeptThree DEF Lasts
<1>2. r.ok /\ r.got = h /\ \A x : [r EXCEPT !.got = x] = Stand(x, t)
  BY Stands, StandsWith, Zenon
<1> HIDE DEF h, r
<1> DEFINE w == SubSeq(r.got, Len(r.got) - 3 + 1, Len(r.got))
<1>3. AsTxIn(r) = IF r.ok THEN [r EXCEPT !.got = Append(SubSeq(r.got, 1, Len(r.got) - 3), [prevout |-> w[1], scriptSig |-> w[2], nSequence |-> w[3], scriptWitness |-> <<>>])]
                 ELSE r
  BY Zenon DEF Made, AsTxIn
<1>4. <<a, b, c>>[1] = a /\ <<a, b, c>>[2] = b /\ <<a, b, c>>[3] = c
  OBVIOUS
<1>5. AsTxIn(r) = Stand(Append(g, [prevout |-> a, scriptSig |-> b, nSequence |-> c, scriptWitness |-> <<>>]), t)
  BY <1>1, <1>2, <1>3, <1>4, ZenonT(60)
<1> QED
  BY <1>5 DEF h, r

\* An output is made of its two fields.
LEMMA MadeTxOut ==
    ASSUME NEW g, Kept(g), NEW a, NEW b, NEW t
    PROVE  AsTxOut(Stand(Append(Append(g, a), b), t)) = Stand(Append(g, [nValue |-> a, scriptPubKey |-> b]), t)
<1> DEFINE h == Append(Append(g, a), b)
           r == Stand(h, t)
<1>1. SubSeq(h, 1, Len(h) - 2) = g /\ SubSeq(h, Len(h) - 2 + 1, Len(h)) = <<a, b>>
  BY KeptTwo DEF Lasts
<1>2. r.ok /\ r.got = h /\ \A x : [r EXCEPT !.got = x] = Stand(x, t)
  BY Stands, StandsWith, Zenon
<1> HIDE DEF h, r
<1> DEFINE w == SubSeq(r.got, Len(r.got) - 2 + 1, Len(r.got))
<1>3. AsTxOut(r) = IF r.ok THEN [r EXCEPT !.got = Append(SubSeq(r.got, 1, Len(r.got) - 2), [nValue |-> w[1], scriptPubKey |-> w[2]])]
                 ELSE r
  BY Zenon DEF Made, AsTxOut
<1>4. <<a, b>>[1] = a /\ <<a, b>>[2] = b
  OBVIOUS
<1>5. AsTxOut(r) = Stand(Append(g, [nValue |-> a, scriptPubKey |-> b]), t)
  BY <1>1, <1>2, <1>3, <1>4, ZenonT(60)
<1> QED
  BY <1>5 DEF h, r

\* The body of the format without witnesses.
LEMMA MadeBody ==
    ASSUME NEW g, Kept(g), NEW a, NEW b, NEW t
    PROVE  AsBody(Stand(Append(Append(g, a), b), t)) = Stand(Append(g, Body(a, b, 0)), t)
<1> DEFINE h == Append(Append(g, a), b)
           r == Stand(h, t)
<1>1. SubSeq(h, 1, Len(h) - 2) = g /\ SubSeq(h, Len(h) - 2 + 1, Len(h)) = <<a, b>>
  BY KeptTwo DEF Lasts
<1>2. r.ok /\ r.got = h /\ \A x : [r EXCEPT !.got = x] = Stand(x, t)
  BY Stands, StandsWith, Zenon
<1> HIDE DEF h, r
<1> DEFINE w == SubSeq(r.got, Len(r.got) - 2 + 1, Len(r.got))
<1>3. AsBody(r) = IF r.ok THEN [r EXCEPT !.got = Append(SubSeq(r.got, 1, Len(r.got) - 2), Body(w[1], w[2], 0))]
                 ELSE r
  BY Zenon DEF Made, AsBody
<1>4. <<a, b>>[1] = a /\ <<a, b>>[2] = b
  OBVIOUS
<1>5. AsBody(r) = Stand(Append(g, Body(a, b, 0)), t)
  BY <1>1, <1>2, <1>3, <1>4, ZenonT(60)
<1> QED
  BY <1>5 DEF h, r

\* The body of the extended format, with its flags.
LEMMA MadeExtended ==
    ASSUME NEW g, Kept(g), NEW a, NEW b, NEW c, NEW d, NEW t
    PROVE  AsExtended(Stand(Append(Append(Append(Append(g, a), b), c), d), t)) = Stand(Append(g, Body(c, d, b)), t)
<1> DEFINE h == Append(Append(Append(Append(g, a), b), c), d)
           r == Stand(h, t)
<1>1. SubSeq(h, 1, Len(h) - 4) = g /\ SubSeq(h, Len(h) - 4 + 1, Len(h)) = <<a, b, c, d>>
  BY KeptFour DEF Lasts
<1>2. r.ok /\ r.got = h /\ \A x : [r EXCEPT !.got = x] = Stand(x, t)
  BY Stands, StandsWith, Zenon
<1> HIDE DEF h, r
<1> DEFINE w == SubSeq(r.got, Len(r.got) - 4 + 1, Len(r.got))
<1>3. AsExtended(r) = IF r.ok THEN [r EXCEPT !.got = Append(SubSeq(r.got, 1, Len(r.got) - 4), Body(w[3], w[4], w[2]))]
                 ELSE r
  BY Zenon DEF Made, AsExtended
<1>4. <<a, b, c, d>>[1] = a /\ <<a, b, c, d>>[2] = b /\ <<a, b, c, d>>[3] = c /\ <<a, b, c, d>>[4] = d
  OBVIOUS
<1>5. AsExtended(r) = Stand(Append(g, Body(c, d, b)), t)
  BY <1>1, <1>2, <1>3, <1>4, ZenonT(60)
<1> QED
  BY <1>5 DEF h, r

\* A witness is put into its input.
LEMMA MadeWitness ==
    ASSUME NEW g, Kept(g), NEW i, NEW a, NEW b, NEW t
    PROVE  AsWitness(Stand(Append(Append(g, a), b), t), i) = Stand(Append(g, WithWitness(a, i, b)), t)
<1> DEFINE h == Append(Append(g, a), b)
           r == Stand(h, t)
<1>1. SubSeq(h, 1, Len(h) - 2) = g /\ SubSeq(h, Len(h) - 2 + 1, Len(h)) = <<a, b>>
  BY KeptTwo DEF Lasts
<1>2. r.ok /\ r.got = h /\ \A x : [r EXCEPT !.got = x] = Stand(x, t)
  BY Stands, StandsWith, Zenon
<1> HIDE DEF h, r
<1> DEFINE w == SubSeq(r.got, Len(r.got) - 2 + 1, Len(r.got))
<1>3. AsWitness(r, i) = IF r.ok THEN [r EXCEPT !.got = Append(SubSeq(r.got, 1, Len(r.got) - 2), WithWitness(w[1], i, w[2]))]
                 ELSE r
  BY Zenon DEF Made, AsWitness, WithWitness
<1>4. <<a, b>>[1] = a /\ <<a, b>>[2] = b
  OBVIOUS
<1>5. AsWitness(r, i) = Stand(Append(g, WithWitness(a, i, b)), t)
  BY <1>1, <1>2, <1>3, <1>4, ZenonT(60)
<1> QED
  BY <1>5 DEF h, r

\* A transaction is made of its version, its body and its lock time.
LEMMA MadeTx ==
    ASSUME NEW g, Kept(g), NEW a, NEW b, NEW c, NEW t
    PROVE  AsTx(Stand(Append(Append(Append(g, a), b), c), t)) = Stand(Append(g, [nVersion |-> a, vin |-> b.vin, vout |-> b.vout, nLockTime |-> c]), t)
<1> DEFINE h == Append(Append(Append(g, a), b), c)
           r == Stand(h, t)
<1>1. SubSeq(h, 1, Len(h) - 3) = g /\ SubSeq(h, Len(h) - 3 + 1, Len(h)) = <<a, b, c>>
  BY KeptThree DEF Lasts
<1>2. r.ok /\ r.got = h /\ \A x : [r EXCEPT !.got = x] = Stand(x, t)
  BY Stands, StandsWith, Zenon
<1> HIDE DEF h, r
<1> DEFINE w == SubSeq(r.got, Len(r.got) - 3 + 1, Len(r.got))
<1>3. AsTx(r) = IF r.ok THEN [r EXCEPT !.got = Append(SubSeq(r.got, 1, Len(r.got) - 3), [nVersion |-> w[1], vin |-> w[2].vin, vout |-> w[2].vout, nLockTime |-> w[3]])]
                 ELSE r
  BY Zenon DEF Made, AsTx
<1>4. <<a, b, c>>[1] = a /\ <<a, b, c>>[2] = b /\ <<a, b, c>>[3] = c
  OBVIOUS
<1> DEFINE tx(x, y, z) == [nVersion |-> x, vin |-> y.vin, vout |-> y.vout, nLockTime |-> z]
<1>5. AsTx(r) = Stand(Append(g, tx(a, b, c)), t)
  <2>1. w[1] = a /\ w[2] = b /\ w[3] = c
    BY <1>1, <1>2, <1>4, Zenon
  <2>2. AsTx(r) = [r EXCEPT !.got = Append(SubSeq(r.got, 1, Len(r.got) - 3), tx(w[1], w[2], w[3]))]
    BY <1>2, <1>3, Zenon
  <2> HIDE DEF w, tx
  <2>3. tx(w[1], w[2], w[3]) = tx(a, b, c)
    BY <2>1, Zenon
  <2> QED
    BY <1>1, <1>2, <2>2, <2>3, Zenon
<1> QED
  BY <1>5 DEF h, r

\* The readers by them.
LEMMA ReadersAre ==
    /\ \A r : UnserializeOutPoint(r) = AsOutPoint(ReadU(ReadU(r)))
    /\ \A r : UnserializeTxIn(r) = AsTxIn(ReadU(UnserializeScript(UnserializeOutPoint(r))))
    /\ \A r : UnserializeTxOut(r) = AsTxOut(UnserializeScript(ReadU(r)))
    /\ \A f : AfterFlags(f) = IF Top(f) = 0 THEN AsNoBody(f)
                             ELSE AsExtended(UnserializeOuts(UnserializeIns(f)))
    /\ \A i, b : AfterIns(i, b) = IF i.ok /\ Top(i) = <<>> /\ b THEN AfterFlags(ReadU(i))
                                 ELSE AsBody(UnserializeOuts(i))
    /\ \A r, b : UnserializeTransaction(r, b)
                 = AsTx(ReadU(AfterBody(AfterIns(UnserializeIns(ReadU(r)), b))))
<1>1. \A r : UnserializeOutPoint(r) = AsOutPoint(ReadU(ReadU(r)))
  BY Zenon DEF UnserializeOutPoint, AsOutPoint
<1>2. \A r : UnserializeTxIn(r) = AsTxIn(ReadU(UnserializeScript(UnserializeOutPoint(r))))
  BY Zenon DEF UnserializeTxIn, AsTxIn
<1>3. \A r : UnserializeTxOut(r) = AsTxOut(UnserializeScript(ReadU(r)))
  BY Zenon DEF UnserializeTxOut, AsTxOut
<1>4. \A f : AfterFlags(f) = IF Top(f) = 0 THEN AsNoBody(f)
                            ELSE AsExtended(UnserializeOuts(UnserializeIns(f)))
  BY Zenon DEF AfterFlags, AsNoBody, AsExtended
<1>5. \A i, b : AfterIns(i, b) = IF i.ok /\ Top(i) = <<>> /\ b THEN AfterFlags(ReadU(i))
                                ELSE AsBody(UnserializeOuts(i))
  BY Zenon DEF AfterIns, AsBody
<1>6. \A r, b : UnserializeTransaction(r, b)
                = AsTx(ReadU(AfterBody(AfterIns(UnserializeIns(ReadU(r)), b))))
  BY Zenon DEF UnserializeTransaction, AsTx
<1> QED
  BY <1>1, <1>2, <1>3, <1>4, <1>5, <1>6, Zenon

\* The place of an output comes back.
LEMMA OutPointReads ==
    ASSUME NEW g, Kept(g), NEW o \in COutPoints, NEW t \in Seq(Digit)
    PROVE  /\ SerializeOutPoint(o) \in Seq(Digit)
           /\ UnserializeOutPoint(Stand(g, SerializeOutPoint(o) \o t)) = Stand(Append(g, o), t)
<1> DEFINE x == o.hash
           y == o.n
           g1 == Append(g, x)
<1>1. x \in Digit /\ y \in Digit /\ o = [hash |-> x, n |-> y]
  BY DEF COutPoints
<1> HIDE DEF x, y
<1>2. U(x) \in Seq(Digit) /\ U(y) \in Seq(Digit)
  BY <1>1, UReads
<1>3. SerializeOutPoint(o) = U(x) \o U(y)
  BY DEF SerializeOutPoint, x, y
<1>4. U(x) \o U(y) \in Seq(Digit) /\ (U(x) \o U(y)) \o t = U(x) \o (U(y) \o t) /\ U(y) \o t \in Seq(Digit)
  BY <1>2, BytesAssociate, SMTT(60)
<1>5. ReadU(Stand(g, U(x) \o (U(y) \o t))) = Stand(g1, U(y) \o t) /\ Kept(g1)
  BY <1>1, <1>4, UReads, KeptMore
<1> HIDE DEF g1
<1>6. ReadU(Stand(g1, U(y) \o t)) = Stand(Append(g1, y), t)
  BY <1>1, <1>5, UReads
<1>7. AsOutPoint(Stand(Append(g1, y), t)) = Stand(Append(g, o), t)
  <2>1. AsOutPoint(Stand(Append(g1, y), t)) = Stand(Append(g, [hash |-> x, n |-> y]), t)
    BY MadeOutPoint DEF g1
  <2> QED
    BY <1>1, <2>1
<1>8. UnserializeOutPoint(Stand(g, SerializeOutPoint(o) \o t)) = Stand(Append(g, o), t)
  BY <1>3, <1>4, <1>5, <1>6, <1>7, ReadersAre, Zenon
<1> QED
  BY <1>3, <1>4, <1>8

\* An input comes back without its witness, which is not written with it.
NoWitness(i) == [i EXCEPT !.scriptWitness = <<>>]

\* An input comes back so.
LEMMA TxInReads ==
    ASSUME NEW g, Kept(g), NEW i \in CTxIns, NEW t \in Seq(Digit)
    PROVE  /\ SerializeTxIn(i) \in Seq(Digit)
           /\ UnserializeTxIn(Stand(g, SerializeTxIn(i) \o t)) = Stand(Append(g, NoWitness(i)), t)
<1> DEFINE o == i.prevout
           v == i.scriptSig
           n == i.nSequence
           a == SerializeOutPoint(o)
           b == SerializeScript(v)
           c == U(n)
           g1 == Append(g, o)
           g2 == Append(g1, v)
<1>1. /\ o \in COutPoints /\ v \in CScripts /\ n \in Digit
      /\ NoWitness(i) = [prevout |-> o, scriptSig |-> v, nSequence |-> n, scriptWitness |-> <<>>]
  BY DEF CTxIns, NoWitness
<1> HIDE DEF o, v, n
<1>2. SerializeTxIn(i) = (a \o b) \o c
  BY Zenon DEF SerializeTxIn, o, v, n
<1>3. Kept(g1) /\ Kept(g2)
  BY KeptMore
<1>4. a \in Seq(Digit) /\ c \in Seq(Digit)
  BY <1>1, OutPointReads, UReads
<1>5. b \in Seq(Digit)
  BY <1>1, BytesRead DEF SerializeScript
<1> HIDE DEF a, b, c
<1>6. /\ (a \o b) \o c \in Seq(Digit) /\ c \o t \in Seq(Digit) /\ b \o (c \o t) \in Seq(Digit)
      /\ ((a \o b) \o c) \o t = a \o (b \o (c \o t))
  <2>1. a \o b \in Seq(Digit) /\ c \o t \in Seq(Digit)
    BY <1>4, <1>5, BytesAssociate, Zenon
  <2>2. (a \o b) \o c \in Seq(Digit) /\ b \o (c \o t) \in Seq(Digit)
    BY <1>4, <1>5, <2>1, BytesAssociate, Zenon
  <2>3. ((a \o b) \o c) \o t = (a \o b) \o (c \o t)
    BY <1>4, <2>1, JoinsAssociate, SMTT(60)
  <2>4. (a \o b) \o (c \o t) = a \o (b \o (c \o t))
    <3> DEFINE d == c \o t
    <3>1. d \in Seq(Digit)
      BY <2>1
    <3> HIDE DEF d
    <3>2. (a \o b) \o d = a \o (b \o d)
      BY <1>4, <1>5, <3>1, JoinsAssociate, SMTT(60)
    <3> QED
      BY <3>2 DEF d
  <2> QED
    BY <2>1, <2>2, <2>3, <2>4
<1>7. UnserializeOutPoint(Stand(g, a \o (b \o (c \o t)))) = Stand(g1, b \o (c \o t))
  BY <1>1, <1>6, OutPointReads DEF a
<1>8. UnserializeScript(Stand(g1, b \o (c \o t))) = Stand(g2, c \o t)
  BY <1>1, <1>3, <1>6, BytesRead DEF b, SerializeScript, UnserializeScript
<1>9. ReadU(Stand(g2, c \o t)) = Stand(Append(g2, n), t)
  BY <1>1, <1>3, UReads DEF c
<1>10. AsTxIn(Stand(Append(g2, n), t)) = Stand(Append(g, NoWitness(i)), t)
  <2>1. AsTxIn(Stand(Append(g2, n), t))
        = Stand(Append(g, [prevout |-> o, scriptSig |-> v, nSequence |-> n, scriptWitness |-> <<>>]), t)
    BY MadeTxIn
  <2> QED
    BY <1>1, <2>1, Zenon
<1> HIDE DEF g1, g2
<1>11. UnserializeTxIn(Stand(g, ((a \o b) \o c) \o t)) = Stand(Append(g, NoWitness(i)), t)
  BY <1>6, <1>7, <1>8, <1>9, <1>10, ReadersAre, Zenon
<1> QED
  BY <1>2, <1>6, <1>11, Zenon

\* An output comes back.
LEMMA TxOutReads ==
    ASSUME NEW g, Kept(g), NEW o \in CTxOuts, NEW t \in Seq(Digit)
    PROVE  /\ SerializeTxOut(o) \in Seq(Digit)
           /\ UnserializeTxOut(Stand(g, SerializeTxOut(o) \o t)) = Stand(Append(g, o), t)
<1> DEFINE n == o.nValue
           v == o.scriptPubKey
           a == U(n)
           b == SerializeScript(v)
           g1 == Append(g, n)
<1>1. n \in Digit /\ v \in CScripts /\ o = [nValue |-> n, scriptPubKey |-> v]
  BY DEF CTxOuts
<1> HIDE DEF v, n
<1>2. SerializeTxOut(o) = a \o b
  BY Zenon DEF SerializeTxOut, v, n
<1>3. Kept(g1)
  BY KeptMore
<1>4. a \in Seq(Digit)
  BY <1>1, UReads
<1>5. b \in Seq(Digit)
  BY <1>1, BytesRead DEF SerializeScript
<1> HIDE DEF a, b
<1>6. a \o b \in Seq(Digit) /\ b \o t \in Seq(Digit) /\ (a \o b) \o t = a \o (b \o t)
  BY <1>4, <1>5, BytesAssociate, ZenonT(60)
<1>7. ReadU(Stand(g, a \o (b \o t))) = Stand(g1, b \o t)
  BY <1>1, <1>6, UReads DEF a
<1>8. UnserializeScript(Stand(g1, b \o t)) = Stand(Append(g1, v), t)
  BY <1>1, <1>3, BytesRead DEF b, SerializeScript, UnserializeScript
<1>9. AsTxOut(Stand(Append(g1, v), t)) = Stand(Append(g, o), t)
  <2>1. AsTxOut(Stand(Append(g1, v), t)) = Stand(Append(g, [nValue |-> n, scriptPubKey |-> v]), t)
    BY MadeTxOut
  <2> QED
    BY <1>1, <2>1
<1> HIDE DEF g1
<1>10. UnserializeTxOut(Stand(g, (a \o b) \o t)) = Stand(Append(g, o), t)
  BY <1>6, <1>7, <1>8, <1>9, ReadersAre, Zenon
<1> QED
  BY <1>2, <1>6, <1>10, Zenon

-----------------------------------------------------------------------------
(* Vectors *)

\* The first elements of a sequence.
LEMMA FirstOnes ==
    ASSUME NEW S, NEW w \in Seq(S)
    PROVE  /\ SubSeq(w, 1, 0) = <<>> /\ SubSeq(w, 1, Len(w)) = w
           /\ \A i \in 1..Len(w) : SubSeq(w, 1, i) = Append(SubSeq(w, 1, i - 1), w[i])
<1>1. SubSeq(w, 1, 0) = <<>>
  <2>1. SubSeq(w, 1, 0) \in Seq(S) /\ Len(SubSeq(w, 1, 0)) = 0
    BY PartOf
  <2> QED
    BY <2>1, EmptySeq
<1>2. SubSeq(w, 1, Len(w)) = w
  BY SubSeqFull
<1>3. ASSUME NEW i \in 1..Len(w) PROVE SubSeq(w, 1, i) = Append(SubSeq(w, 1, i - 1), w[i])
  <2> DEFINE a == SubSeq(w, 1, i)
             b == SubSeq(w, 1, i - 1)
             c == Append(b, w[i])
  <2>1. i \in Nat /\ i <= Len(w) /\ i - 1 \in Nat /\ i - 1 <= Len(w) /\ w[i] \in S
    OBVIOUS
  <2>2. a \in Seq(S) /\ Len(a) = i /\ \A k \in 1..i : a[k] = w[k]
    BY <2>1, PartOf
  <2>3. b \in Seq(S) /\ Len(b) = i - 1 /\ \A k \in 1..(i - 1) : b[k] = w[k]
    BY <2>1, PartOf
  <2> HIDE DEF a, b
  <2>4. c \in Seq(S) /\ Len(c) = i /\ c[i] = w[i] /\ \A k \in 1..(i - 1) : c[k] = b[k]
    BY <2>1, <2>3
  <2> HIDE DEF c
  <2>5. \A k \in 1..i : c[k] = w[k]
    <3> SUFFICES ASSUME NEW k \in 1..i PROVE c[k] = w[k]
      OBVIOUS
    <3>1. k = i \/ k \in 1..(i - 1)
      BY <2>1
    <3> QED
      BY <2>3, <2>4, <3>1
  <2>6. a = c
    <3>1. \A k \in 1..Len(a) : a[k] = c[k]
      BY <2>2, <2>5
    <3> QED
      BY <2>2, <2>4, <3>1, SeqEqual
  <2> QED
    BY <2>6 DEF a, b, c
<1> QED
  BY <1>1, <1>2, <1>3

\* A function on 1..N is a sequence.
LEMMA FunctionIsSeq ==
    ASSUME NEW D, NEW N \in Nat, NEW f \in [1..N -> D]
    PROVE  f \in Seq(D) /\ Len(f) = N
  OBVIOUS

\* The stream when i elements have been read, w being what they are read as.
VecState(g, w, B, t, i) == Stand(Append(g, SubSeq(w, 1, i)), B[i] \o t)

\* How the reader of a vector goes on.
VecGoesOn(g, ps, w, B, t) ==
    \A i \in 1..Len(ps) :
       /\ Kept(Append(g, SubSeq(w, 1, i - 1))) /\ B[i] \o t \in Seq(Digit)
       /\ VecState(g, w, B, t, i - 1)
            = Stand(Append(g, SubSeq(w, 1, i - 1)), ps[i] \o (B[i] \o t))
       /\ Appended(Stand(Append(Append(g, SubSeq(w, 1, i - 1)), w[i]), B[i] \o t))
            = VecState(g, w, B, t, i)

\* It starts behind the number of elements, and leaves what follows the vector.
LEMMA Vectors ==
    ASSUME NEW g, Kept(g), NEW ps \in Seq(Seq(Digit)), Len(ps) <= MAX_SIZE, NEW t \in Seq(Digit),
           NEW w, Kept(w), Len(w) = Len(ps), NEW B, Behinds(ps, B)
    PROVE  /\ SerializeVector(ps) \in Seq(Digit)
           /\ ReadCompactSize(Stand(g, SerializeVector(ps) \o t))
                = Stand(Append(g, Len(ps)), B[0] \o t)
           /\ VecState(g, w, B, t, 0) = Emptied(Stand(Append(g, Len(ps)), B[0] \o t))
           /\ VecState(g, w, B, t, Len(ps)) = Stand(Append(g, w), t)
           /\ VecGoesOn(g, ps, w, B, t)
<1> DEFINE N == Len(ps)
           z == WriteCompactSize(N)
           b0 == B[0]
<1>0. N \in Nat /\ N <= MAX_SIZE /\ \A i \in 1..N : ps[i] \in Seq(Digit)
  OBVIOUS
<1>1. /\ B \in [0..N -> Seq(Digit)] /\ B[N] = <<>> /\ B[0] = FlattenSeq(ps)
      /\ \A i \in 1..N : B[i - 1] = ps[i] \o B[i]
  BY DEF Behinds
<1>2. PICK S : w \in Seq(S)
  BY DEF Kept
<1>3. /\ SubSeq(w, 1, 0) = <<>> /\ SubSeq(w, 1, N) = w
      /\ \A i \in 1..N : SubSeq(w, 1, i) = Append(SubSeq(w, 1, i - 1), w[i])
  BY <1>2, FirstOnes
<1>4. \A i \in 0..N : B[i] \in Seq(Digit)
  BY <1>1
<1>5. z \in Seq(Digit) /\ b0 \in Seq(Digit) /\ SerializeVector(ps) = z \o b0
  <2>1. z \in Seq(Digit)
    BY <1>0, CompactBytes
  <2> QED
    BY <1>0, <1>1, <1>4, <2>1 DEF SerializeVector
<1> HIDE DEF N, z, b0
<1>6. z \o b0 \in Seq(Digit) /\ (z \o b0) \o t = z \o (b0 \o t) /\ b0 \o t \in Seq(Digit)
  BY <1>5, BytesAssociate, SMTT(60)
<1>7. ReadCompactSize(Stand(g, z \o (b0 \o t))) = Stand(Append(g, N), b0 \o t)
  BY <1>0, <1>6, SizeReads DEF z
<1>8. VecState(g, w, B, t, 0) = Emptied(Stand(Append(g, N), b0 \o t))
  <2>1. Emptied(Stand(Append(g, N), b0 \o t)) = Stand(Append(g, <<>>), b0 \o t)
    BY MadeNothing
  <2> QED
    BY <1>3, <2>1 DEF VecState, b0
<1>9. VecState(g, w, B, t, N) = Stand(Append(g, w), t)
  <2>1. <<>> \o t = t
    OBVIOUS
  <2> QED
    BY <1>1, <1>3, <2>1, Zenon DEF VecState
<1>10. VecGoesOn(g, ps, w, B, t)
  <2>1. ASSUME NEW i \in 1..N
        PROVE  /\ Kept(Append(g, SubSeq(w, 1, i - 1))) /\ B[i] \o t \in Seq(Digit)
               /\ VecState(g, w, B, t, i - 1)
                    = Stand(Append(g, SubSeq(w, 1, i - 1)), ps[i] \o (B[i] \o t))
               /\ Appended(Stand(Append(Append(g, SubSeq(w, 1, i - 1)), w[i]), B[i] \o t))
                    = VecState(g, w, B, t, i)
    <3> DEFINE p == ps[i]
               q == B[i]
    <3>1. i \in 0..N
      BY <1>0
    <3>2. p \in Seq(Digit) /\ q \in Seq(Digit) /\ B[i - 1] = p \o q
      BY <1>0, <1>1, <1>4, <3>1
    <3>3. q \o t \in Seq(Digit) /\ (p \o q) \o t = p \o (q \o t)
      <4> HIDE DEF p, q
      <4> QED
        BY <3>2, BytesAssociate, ZenonT(60)
    <3>4. Kept(Append(g, SubSeq(w, 1, i - 1)))
      BY KeptMore
    <3>5. VecState(g, w, B, t, i - 1)
            = Stand(Append(g, SubSeq(w, 1, i - 1)), p \o (q \o t))
      BY <3>2, <3>3, Zenon DEF VecState
    <3>6. Appended(Stand(Append(Append(g, SubSeq(w, 1, i - 1)), w[i]), q \o t))
            = Stand(Append(g, Append(SubSeq(w, 1, i - 1), w[i])), q \o t)
      BY MadeAppend
    <3>7. SubSeq(w, 1, i) = Append(SubSeq(w, 1, i - 1), w[i])
      BY <1>3
    <3>8. VecState(g, w, B, t, i) = Stand(Append(g, Append(SubSeq(w, 1, i - 1), w[i])), q \o t)
      BY <3>7, Zenon DEF VecState
    <3> QED
      BY <3>3, <3>4, <3>5, <3>6, <3>8, Zenon
  <2> QED
    BY <2>1 DEF VecGoesOn, N
<1>11. ReadCompactSize(Stand(g, SerializeVector(ps) \o t)) = Stand(Append(g, N), b0 \o t)
  BY <1>5, <1>6, <1>7, Zenon
<1> QED
  BY <1>5, <1>6, <1>8, <1>9, <1>10, <1>11, Zenon DEF N, b0

\* Inputs without their witnesses.
WithoutWitnesses(v) == [i \in DOMAIN v |-> NoWitness(v[i])]

\* Reading the inputs, step by step.
InsRule(c, f, i) == IF i = 0 THEN Emptied(c) ELSE Appended(UnserializeTxIn(f[i - 1]))
InsSteps(c) == CHOOSE f : f = [i \in 0..Top(c) |-> InsRule(c, f, i)]

\* Reading inputs is the last of the steps.
LEMMA InsStepsAre ==
    \A r : UnserializeIns(r) = InsSteps(ReadCompactSize(r))[Top(ReadCompactSize(r))]
  BY Zenon DEF UnserializeIns, UnserializeVector, Elements, InsSteps, InsRule, Emptied, Appended

\* The inputs come back, without their witnesses.
LEMMA InsRead ==
    ASSUME NEW g, Kept(g), NEW v \in UpToMax(CTxIns), NEW t \in Seq(Digit)
    PROVE  /\ SerializeIns(v) \in Seq(Digit)
           /\ UnserializeIns(Stand(g, SerializeIns(v) \o t)) = Stand(Append(g, WithoutWitnesses(v)), t)
<1> DEFINE N == Len(v)
           ps == [i \in DOMAIN v |-> SerializeTxIn(v[i])]
           w == WithoutWitnesses(v)
<1>1. v \in Seq(CTxIns) /\ N \in Nat /\ N <= MAX_SIZE /\ \A i \in 1..N : v[i] \in CTxIns
  BY DEF UpToMax
<1>2. Kept(<<>>) /\ <<>> \in Seq(Digit)
  BY DEF Kept
<1>3. \A x \in CTxIns : SerializeTxIn(x) \in Seq(Digit)
  BY <1>2, TxInReads
<1>4. ps \in Seq(Seq(Digit)) /\ Len(ps) = N /\ \A i \in 1..N : ps[i] = SerializeTxIn(v[i])
  <2>1. DOMAIN v = 1..N
    BY <1>1
  <2>2. \A i \in 1..N : ps[i] = SerializeTxIn(v[i]) /\ SerializeTxIn(v[i]) \in Seq(Digit)
    BY <1>1, <1>3, <2>1
  <2>3. ps \in [1..N -> Seq(Digit)]
    BY <2>1, <2>2
  <2> HIDE DEF ps
  <2>4. ps \in Seq(Seq(Digit)) /\ Len(ps) = N
    <3> DEFINE D == Seq(Digit)
    <3>1. ps \in [1..N -> D]
      BY <2>3
    <3> HIDE DEF D
    <3>2. ps \in Seq(D) /\ Len(ps) = N
      BY <1>1, <3>1, FunctionIsSeq
    <3> QED
      BY <3>2 DEF D
  <2> QED
    BY <2>2, <2>4
<1>5. Kept(w) /\ Len(w) = N /\ \A i \in 1..N : w[i] = NoWitness(v[i])
  <2>1. \A i \in 1..N : NoWitness(v[i]) \in {NoWitness(v[k]) : k \in 1..N}
    OBVIOUS
  <2>2. DOMAIN v = 1..N
    BY <1>1
  <2>3. w = [i \in 1..N |-> NoWitness(v[i])]
    BY <2>2 DEF WithoutWitnesses
  <2>4. w \in Seq({NoWitness(v[k]) : k \in 1..N}) /\ Len(w) = N
    BY <1>1, <2>1, <2>3
  <2> QED
    BY <2>3, <2>4 DEF Kept
<1>6. SerializeIns(v) = SerializeVector(ps)
  BY DEF SerializeIns
<1> HIDE DEF N, ps, w
<1>7. PICK B : Behinds(ps, B)
  BY <1>4, Flattened
<1> DEFINE c == Stand(Append(g, N), B[0] \o t)
           h == [i \in 0..N |-> VecState(g, w, B, t, i)]
           f == InsSteps(c)
<1>8. /\ SerializeVector(ps) \in Seq(Digit)
      /\ ReadCompactSize(Stand(g, SerializeVector(ps) \o t)) = c
      /\ VecState(g, w, B, t, 0) = Emptied(c)
      /\ VecState(g, w, B, t, N) = Stand(Append(g, w), t)
      /\ VecGoesOn(g, ps, w, B, t)
  BY <1>1, <1>4, <1>5, <1>7, Vectors
<1>9. Top(c) = N
  BY TopOf
<1> HIDE DEF c
<1>10. ASSUME NEW i \in 1..N
       PROVE  VecState(g, w, B, t, i) = Appended(UnserializeTxIn(VecState(g, w, B, t, i - 1)))
  <2> DEFINE g1 == Append(g, SubSeq(w, 1, i - 1))
             t1 == B[i] \o t
  <2>1. /\ Kept(g1) /\ t1 \in Seq(Digit)
        /\ VecState(g, w, B, t, i - 1) = Stand(g1, ps[i] \o t1)
        /\ Appended(Stand(Append(g1, w[i]), t1)) = VecState(g, w, B, t, i)
    BY <1>4, <1>8, Zenon DEF VecGoesOn
  <2> HIDE DEF g1, t1
  <2>2. v[i] \in CTxIns /\ ps[i] = SerializeTxIn(v[i]) /\ w[i] = NoWitness(v[i])
    BY <1>1, <1>4, <1>5
  <2>3. UnserializeTxIn(Stand(g1, SerializeTxIn(v[i]) \o t1)) = Stand(Append(g1, NoWitness(v[i])), t1)
    BY <2>1, <2>2, TxInReads
  <2> QED
    BY <2>1, <2>2, <2>3, Zenon
<1>11. \A i \in 0..N : h[i] = InsRule(c, h, i)
  <2> SUFFICES ASSUME NEW i \in 0..N PROVE h[i] = InsRule(c, h, i)
    OBVIOUS
  <2>1. h[i] = VecState(g, w, B, t, i)
    OBVIOUS
  <2>2. CASE i = 0
    BY <1>8, <2>1, <2>2 DEF InsRule
  <2>3. CASE i # 0
    <3>1. i \in 1..N /\ i - 1 \in 0..N
      BY <1>1, <2>3
    <3>2. h[i - 1] = VecState(g, w, B, t, i - 1)
      BY <3>1
    <3> HIDE DEF h
    <3> QED
      BY <1>10, <2>1, <2>3, <3>1, <3>2 DEF InsRule
  <2> QED
    BY <2>2, <2>3
<1>12. \A i \in 0..N : f[i] = InsRule(c, f, i)
  <2>1. h = [i \in 0..N |-> InsRule(c, h, i)]
    BY <1>11
  <2>2. \E x : x = [i \in 0..Top(c) |-> InsRule(c, x, i)]
    BY <1>9, <2>1
  <2>3. f = [i \in 0..N |-> InsRule(c, f, i)]
    BY <1>9, <2>2 DEF InsSteps
  <2> QED
    BY <2>3
<1>13. h[N] = VecState(g, w, B, t, N) /\ N \in 0..N
  BY <1>1
<1> HIDE DEF f, h
<1>14. f[N] = h[N]
  <2>1. f[0] = h[0]
    <3>1. 0 \in 0..N
      BY <1>1
    <3> QED
      BY <1>11, <1>12, <3>1 DEF InsRule
  <2>2. \A k \in 1..N : f[k - 1] = h[k - 1] => f[k] = h[k]
    <3> SUFFICES ASSUME NEW k \in 1..N, f[k - 1] = h[k - 1] PROVE f[k] = h[k]
      OBVIOUS
    <3>1. k \in 0..N /\ k # 0
      BY <1>1
    <3>2. InsRule(c, f, k) = InsRule(c, h, k)
      BY <3>1 DEF InsRule
    <3> QED
      BY <1>11, <1>12, <3>1, <3>2
  <2>3. GoOnAlike(N, f, h)
    BY <2>1, <2>2 DEF GoOnAlike
  <2>4. \A x, y : GoOnAlike(N, x, y) => \A k \in 0..N : x[k] = y[k]
    BY <1>1, AllAlong
  <2> QED
    BY <1>13, <2>3, <2>4, Zenon
<1>15. UnserializeIns(Stand(g, SerializeVector(ps) \o t)) = f[N]
  BY <1>8, <1>9, InsStepsAre, Zenon DEF f
<1>16. UnserializeIns(Stand(g, SerializeVector(ps) \o t)) = Stand(Append(g, w), t)
  BY <1>8, <1>13, <1>14, <1>15, Zenon
<1> QED
  BY <1>6, <1>8, <1>16 DEF w

\* Reading the outputs.
OutsRule(c, f, i) == IF i = 0 THEN Emptied(c) ELSE Appended(UnserializeTxOut(f[i - 1]))
OutsSteps(c) == CHOOSE f : f = [i \in 0..Top(c) |-> OutsRule(c, f, i)]

\* Reading outputs is the last of the steps.
LEMMA OutsStepsAre ==
    \A r : UnserializeOuts(r) = OutsSteps(ReadCompactSize(r))[Top(ReadCompactSize(r))]
  BY Zenon DEF UnserializeOuts, UnserializeVector, Elements, OutsSteps, OutsRule, Emptied, Appended

\* The outputs come back.
LEMMA OutsRead ==
    ASSUME NEW g, Kept(g), NEW v \in UpToMax(CTxOuts), NEW t \in Seq(Digit)
    PROVE  /\ SerializeOuts(v) \in Seq(Digit)
           /\ UnserializeOuts(Stand(g, SerializeOuts(v) \o t)) = Stand(Append(g, v), t)
<1> DEFINE N == Len(v)
           ps == [i \in DOMAIN v |-> SerializeTxOut(v[i])]
           w == v
<1>1. v \in Seq(CTxOuts) /\ N \in Nat /\ N <= MAX_SIZE /\ \A i \in 1..N : v[i] \in CTxOuts
  BY DEF UpToMax
<1>2. Kept(<<>>) /\ <<>> \in Seq(Digit)
  BY DEF Kept
<1>3. \A x \in CTxOuts : SerializeTxOut(x) \in Seq(Digit)
  BY <1>2, TxOutReads
<1>4. ps \in Seq(Seq(Digit)) /\ Len(ps) = N /\ \A i \in 1..N : ps[i] = SerializeTxOut(v[i])
  <2>1. DOMAIN v = 1..N
    BY <1>1
  <2>2. \A i \in 1..N : ps[i] = SerializeTxOut(v[i]) /\ SerializeTxOut(v[i]) \in Seq(Digit)
    BY <1>1, <1>3, <2>1
  <2>3. ps \in [1..N -> Seq(Digit)]
    BY <2>1, <2>2
  <2> HIDE DEF ps
  <2>4. ps \in Seq(Seq(Digit)) /\ Len(ps) = N
    <3> DEFINE D == Seq(Digit)
    <3>1. ps \in [1..N -> D]
      BY <2>3
    <3> HIDE DEF D
    <3>2. ps \in Seq(D) /\ Len(ps) = N
      BY <1>1, <3>1, FunctionIsSeq
    <3> QED
      BY <3>2 DEF D
  <2> QED
    BY <2>2, <2>4
<1>5. Kept(w) /\ Len(w) = N /\ \A i \in 1..N : w[i] = v[i]
  BY <1>1 DEF Kept
<1>6. SerializeOuts(v) = SerializeVector(ps)
  BY DEF SerializeOuts
<1> HIDE DEF N, ps, w
<1>7. PICK B : Behinds(ps, B)
  BY <1>4, Flattened
<1> DEFINE c == Stand(Append(g, N), B[0] \o t)
           h == [i \in 0..N |-> VecState(g, w, B, t, i)]
           f == OutsSteps(c)
<1>8. /\ SerializeVector(ps) \in Seq(Digit)
      /\ ReadCompactSize(Stand(g, SerializeVector(ps) \o t)) = c
      /\ VecState(g, w, B, t, 0) = Emptied(c)
      /\ VecState(g, w, B, t, N) = Stand(Append(g, w), t)
      /\ VecGoesOn(g, ps, w, B, t)
  BY <1>1, <1>4, <1>5, <1>7, Vectors
<1>9. Top(c) = N
  BY TopOf
<1> HIDE DEF c
<1>10. ASSUME NEW i \in 1..N
       PROVE  VecState(g, w, B, t, i) = Appended(UnserializeTxOut(VecState(g, w, B, t, i - 1)))
  <2> DEFINE g1 == Append(g, SubSeq(w, 1, i - 1))
             t1 == B[i] \o t
  <2>1. /\ Kept(g1) /\ t1 \in Seq(Digit)
        /\ VecState(g, w, B, t, i - 1) = Stand(g1, ps[i] \o t1)
        /\ Appended(Stand(Append(g1, w[i]), t1)) = VecState(g, w, B, t, i)
    BY <1>4, <1>8, Zenon DEF VecGoesOn
  <2> HIDE DEF g1, t1
  <2>2. v[i] \in CTxOuts /\ ps[i] = SerializeTxOut(v[i]) /\ w[i] = v[i]
    BY <1>1, <1>4, <1>5
  <2>3. UnserializeTxOut(Stand(g1, SerializeTxOut(v[i]) \o t1)) = Stand(Append(g1, v[i]), t1)
    BY <2>1, <2>2, TxOutReads
  <2> QED
    BY <2>1, <2>2, <2>3, Zenon
<1>11. \A i \in 0..N : h[i] = OutsRule(c, h, i)
  <2> SUFFICES ASSUME NEW i \in 0..N PROVE h[i] = OutsRule(c, h, i)
    OBVIOUS
  <2>1. h[i] = VecState(g, w, B, t, i)
    OBVIOUS
  <2>2. CASE i = 0
    BY <1>8, <2>1, <2>2 DEF OutsRule
  <2>3. CASE i # 0
    <3>1. i \in 1..N /\ i - 1 \in 0..N
      BY <1>1, <2>3
    <3>2. h[i - 1] = VecState(g, w, B, t, i - 1)
      BY <3>1
    <3> HIDE DEF h
    <3> QED
      BY <1>10, <2>1, <2>3, <3>1, <3>2 DEF OutsRule
  <2> QED
    BY <2>2, <2>3
<1>12. \A i \in 0..N : f[i] = OutsRule(c, f, i)
  <2>1. h = [i \in 0..N |-> OutsRule(c, h, i)]
    BY <1>11
  <2>2. \E x : x = [i \in 0..Top(c) |-> OutsRule(c, x, i)]
    BY <1>9, <2>1
  <2>3. f = [i \in 0..N |-> OutsRule(c, f, i)]
    BY <1>9, <2>2 DEF OutsSteps
  <2> QED
    BY <2>3
<1>13. h[N] = VecState(g, w, B, t, N) /\ N \in 0..N
  BY <1>1
<1> HIDE DEF f, h
<1>14. f[N] = h[N]
  <2>1. f[0] = h[0]
    <3>1. 0 \in 0..N
      BY <1>1
    <3> QED
      BY <1>11, <1>12, <3>1 DEF OutsRule
  <2>2. \A k \in 1..N : f[k - 1] = h[k - 1] => f[k] = h[k]
    <3> SUFFICES ASSUME NEW k \in 1..N, f[k - 1] = h[k - 1] PROVE f[k] = h[k]
      OBVIOUS
    <3>1. k \in 0..N /\ k # 0
      BY <1>1
    <3>2. OutsRule(c, f, k) = OutsRule(c, h, k)
      BY <3>1 DEF OutsRule
    <3> QED
      BY <1>11, <1>12, <3>1, <3>2
  <2>3. GoOnAlike(N, f, h)
    BY <2>1, <2>2 DEF GoOnAlike
  <2>4. \A x, y : GoOnAlike(N, x, y) => \A k \in 0..N : x[k] = y[k]
    BY <1>1, AllAlong
  <2> QED
    BY <1>13, <2>3, <2>4, Zenon
<1>15. UnserializeOuts(Stand(g, SerializeVector(ps) \o t)) = f[N]
  BY <1>8, <1>9, OutsStepsAre, Zenon DEF f
<1>16. UnserializeOuts(Stand(g, SerializeVector(ps) \o t)) = Stand(Append(g, w), t)
  BY <1>8, <1>13, <1>14, <1>15, Zenon
<1> QED
  BY <1>6, <1>8, <1>16 DEF w

\* Reading the stack of a witness.
StackRule(c, f, i) == IF i = 0 THEN Emptied(c) ELSE Appended(UnserializeBytes(f[i - 1]))
StackSteps(c) == CHOOSE f : f = [i \in 0..Top(c) |-> StackRule(c, f, i)]

\* Reading the items of a witness is the last of the steps.
LEMMA StackStepsAre ==
    \A r : UnserializeStack(r) = StackSteps(ReadCompactSize(r))[Top(ReadCompactSize(r))]
  BY Zenon DEF UnserializeStack, UnserializeVector, Elements, StackSteps, StackRule, Emptied, Appended

\* It comes back.
LEMMA StackRead ==
    ASSUME NEW g, Kept(g), NEW v \in UpToMax(CScripts), NEW t \in Seq(Digit)
    PROVE  /\ SerializeStack(v) \in Seq(Digit)
           /\ UnserializeStack(Stand(g, SerializeStack(v) \o t)) = Stand(Append(g, v), t)
<1> DEFINE N == Len(v)
           ps == [i \in DOMAIN v |-> SerializeBytes(v[i])]
           w == v
<1>1. v \in Seq(CScripts) /\ N \in Nat /\ N <= MAX_SIZE /\ \A i \in 1..N : v[i] \in CScripts
  BY DEF UpToMax
<1>2. Kept(<<>>) /\ <<>> \in Seq(Digit)
  BY DEF Kept
<1>3. \A x \in CScripts : SerializeBytes(x) \in Seq(Digit)
  BY <1>2, BytesRead
<1>4. ps \in Seq(Seq(Digit)) /\ Len(ps) = N /\ \A i \in 1..N : ps[i] = SerializeBytes(v[i])
  <2>1. DOMAIN v = 1..N
    BY <1>1
  <2>2. \A i \in 1..N : ps[i] = SerializeBytes(v[i]) /\ SerializeBytes(v[i]) \in Seq(Digit)
    BY <1>1, <1>3, <2>1
  <2>3. ps \in [1..N -> Seq(Digit)]
    BY <2>1, <2>2
  <2> HIDE DEF ps
  <2>4. ps \in Seq(Seq(Digit)) /\ Len(ps) = N
    <3> DEFINE D == Seq(Digit)
    <3>1. ps \in [1..N -> D]
      BY <2>3
    <3> HIDE DEF D
    <3>2. ps \in Seq(D) /\ Len(ps) = N
      BY <1>1, <3>1, FunctionIsSeq
    <3> QED
      BY <3>2 DEF D
  <2> QED
    BY <2>2, <2>4
<1>5. Kept(w) /\ Len(w) = N /\ \A i \in 1..N : w[i] = v[i]
  BY <1>1 DEF Kept
<1>6. SerializeStack(v) = SerializeVector(ps)
  BY DEF SerializeStack
<1> HIDE DEF N, ps, w
<1>7. PICK B : Behinds(ps, B)
  BY <1>4, Flattened
<1> DEFINE c == Stand(Append(g, N), B[0] \o t)
           h == [i \in 0..N |-> VecState(g, w, B, t, i)]
           f == StackSteps(c)
<1>8. /\ SerializeVector(ps) \in Seq(Digit)
      /\ ReadCompactSize(Stand(g, SerializeVector(ps) \o t)) = c
      /\ VecState(g, w, B, t, 0) = Emptied(c)
      /\ VecState(g, w, B, t, N) = Stand(Append(g, w), t)
      /\ VecGoesOn(g, ps, w, B, t)
  BY <1>1, <1>4, <1>5, <1>7, Vectors
<1>9. Top(c) = N
  BY TopOf
<1> HIDE DEF c
<1>10. ASSUME NEW i \in 1..N
       PROVE  VecState(g, w, B, t, i) = Appended(UnserializeBytes(VecState(g, w, B, t, i - 1)))
  <2> DEFINE g1 == Append(g, SubSeq(w, 1, i - 1))
             t1 == B[i] \o t
  <2>1. /\ Kept(g1) /\ t1 \in Seq(Digit)
        /\ VecState(g, w, B, t, i - 1) = Stand(g1, ps[i] \o t1)
        /\ Appended(Stand(Append(g1, w[i]), t1)) = VecState(g, w, B, t, i)
    BY <1>4, <1>8, Zenon DEF VecGoesOn
  <2> HIDE DEF g1, t1
  <2>2. v[i] \in CScripts /\ ps[i] = SerializeBytes(v[i]) /\ w[i] = v[i]
    BY <1>1, <1>4, <1>5
  <2>3. UnserializeBytes(Stand(g1, SerializeBytes(v[i]) \o t1)) = Stand(Append(g1, v[i]), t1)
    BY <2>1, <2>2, BytesRead
  <2> QED
    BY <2>1, <2>2, <2>3, Zenon
<1>11. \A i \in 0..N : h[i] = StackRule(c, h, i)
  <2> SUFFICES ASSUME NEW i \in 0..N PROVE h[i] = StackRule(c, h, i)
    OBVIOUS
  <2>1. h[i] = VecState(g, w, B, t, i)
    OBVIOUS
  <2>2. CASE i = 0
    BY <1>8, <2>1, <2>2 DEF StackRule
  <2>3. CASE i # 0
    <3>1. i \in 1..N /\ i - 1 \in 0..N
      BY <1>1, <2>3
    <3>2. h[i - 1] = VecState(g, w, B, t, i - 1)
      BY <3>1
    <3> HIDE DEF h
    <3> QED
      BY <1>10, <2>1, <2>3, <3>1, <3>2 DEF StackRule
  <2> QED
    BY <2>2, <2>3
<1>12. \A i \in 0..N : f[i] = StackRule(c, f, i)
  <2>1. h = [i \in 0..N |-> StackRule(c, h, i)]
    BY <1>11
  <2>2. \E x : x = [i \in 0..Top(c) |-> StackRule(c, x, i)]
    BY <1>9, <2>1
  <2>3. f = [i \in 0..N |-> StackRule(c, f, i)]
    BY <1>9, <2>2 DEF StackSteps
  <2> QED
    BY <2>3
<1>13. h[N] = VecState(g, w, B, t, N) /\ N \in 0..N
  BY <1>1
<1> HIDE DEF f, h
<1>14. f[N] = h[N]
  <2>1. f[0] = h[0]
    <3>1. 0 \in 0..N
      BY <1>1
    <3> QED
      BY <1>11, <1>12, <3>1 DEF StackRule
  <2>2. \A k \in 1..N : f[k - 1] = h[k - 1] => f[k] = h[k]
    <3> SUFFICES ASSUME NEW k \in 1..N, f[k - 1] = h[k - 1] PROVE f[k] = h[k]
      OBVIOUS
    <3>1. k \in 0..N /\ k # 0
      BY <1>1
    <3>2. StackRule(c, f, k) = StackRule(c, h, k)
      BY <3>1 DEF StackRule
    <3> QED
      BY <1>11, <1>12, <3>1, <3>2
  <2>3. GoOnAlike(N, f, h)
    BY <2>1, <2>2 DEF GoOnAlike
  <2>4. \A x, y : GoOnAlike(N, x, y) => \A k \in 0..N : x[k] = y[k]
    BY <1>1, AllAlong
  <2> QED
    BY <1>13, <2>3, <2>4, Zenon
<1>15. UnserializeStack(Stand(g, SerializeVector(ps) \o t)) = f[N]
  BY <1>8, <1>9, StackStepsAre, Zenon DEF f
<1>16. UnserializeStack(Stand(g, SerializeVector(ps) \o t)) = Stand(Append(g, w), t)
  BY <1>8, <1>13, <1>14, <1>15, Zenon
<1> QED
  BY <1>6, <1>8, <1>16 DEF w

-----------------------------------------------------------------------------
(* Witnesses *)

\* Reading the witnesses of all inputs, step by step.
WitRule(b, f, i) == IF i = 0 THEN b ELSE AsWitness(UnserializeStack(f[i - 1]), i)
WitSteps(b) == CHOOSE f : f = [i \in 0..Len(Top(b).vin) |-> WitRule(b, f, i)]

\* Reading the witnesses is the last of the steps.
LEMMA WitStepsAre == \A b : UnserializeWitnesses(b) = WitSteps(b)[Len(Top(b).vin)]
  BY Zenon DEF UnserializeWitnesses, WitSteps, WitRule, AsWitness

\* Inputs of which the first i have their witnesses.
UpToWitness(v, i) == [k \in 1..Len(v) |-> IF k <= i THEN v[k] ELSE NoWitness(v[k])]

\* One more has.
LEMMA NextWitness ==
    ASSUME NEW v \in Seq(CTxIns), NEW i \in 1..Len(v), NEW vout, NEW flags
    PROVE  WithWitness(Body(UpToWitness(v, i - 1), vout, flags), i, v[i].scriptWitness)
           = Body(UpToWitness(v, i), vout, flags)
<1> DEFINE N == Len(v)
           a == UpToWitness(v, i - 1)
           b == UpToWitness(v, i)
           x == v[i].scriptWitness
           d == [a[i] EXCEPT !.scriptWitness = x]
<1>1. N \in Nat /\ v[i] \in CTxIns /\ i \in 1..N
  OBVIOUS
<1>2. [NoWitness(v[i]) EXCEPT !.scriptWitness = x] = v[i]
  BY <1>1 DEF CTxIns, NoWitness
<1>3. a[i] = NoWitness(v[i])
  BY <1>1 DEF UpToWitness
<1>4. d = v[i]
  BY <1>2, <1>3
<1>5. [a EXCEPT ![i] = v[i]] = b
  <2>1. a = [k \in 1..N |-> IF k <= i - 1 THEN v[k] ELSE NoWitness(v[k])]
    BY DEF UpToWitness
  <2>2. b = [k \in 1..N |-> IF k <= i THEN v[k] ELSE NoWitness(v[k])]
    BY DEF UpToWitness
  <2> HIDE DEF N, a, b
  <2>3. ASSUME NEW k \in 1..N PROVE [a EXCEPT ![i] = v[i]][k] = b[k]
    <3>1. CASE k = i
      BY <1>1, <2>1, <2>2, <3>1
    <3>2. CASE k # i
      <4>1. k <= i - 1 <=> k <= i
        BY <1>1, <3>2
      <4> QED
        BY <1>1, <2>1, <2>2, <3>2, <4>1
    <3> QED
      BY <3>1, <3>2
  <2> QED
    BY <1>1, <2>1, <2>2, <2>3
<1>6. [[vin |-> a, vout |-> vout, flags |-> flags] EXCEPT !.vin[i].scriptWitness = x]
        = [vin |-> [a EXCEPT ![i] = d], vout |-> vout, flags |-> flags]
  <2> HIDE DEF a, x
  <2> QED
    OBVIOUS
<1> HIDE DEF a, b, d, x
<1>7. [[vin |-> a, vout |-> vout, flags |-> flags] EXCEPT !.vin[i].scriptWitness = x]
        = [vin |-> b, vout |-> vout, flags |-> flags]
  BY <1>4, <1>5, <1>6
<1> QED
  BY <1>7, Zenon DEF Body, WithWitness, a, b, x

\* The witnesses come back, each to its input.
LEMMA WitnessesRead ==
    ASSUME NEW g, Kept(g), NEW v \in Seq(CTxIns), NEW vout, NEW flags, NEW t \in Seq(Digit)
    PROVE  /\ SerializeWitnesses(v) \in Seq(Digit)
           /\ UnserializeWitnesses(Stand(Append(g, Body(WithoutWitnesses(v), vout, flags)),
                                         SerializeWitnesses(v) \o t))
                = Stand(Append(g, Body(v, vout, flags)), t)
<1> DEFINE N == Len(v)
           ps == [i \in DOMAIN v |-> SerializeStack(v[i].scriptWitness)]
           part(i) == Body(UpToWitness(v, i), vout, flags)
<1>1. N \in Nat /\ DOMAIN v = 1..N /\ \A i \in 1..N : v[i] \in CTxIns
  OBVIOUS
<1>2. \A i \in 1..N : v[i].scriptWitness \in UpToMax(CScripts)
  BY <1>1 DEF CTxIns, CTxWitnesses
<1>3. Kept(<<>>) /\ <<>> \in Seq(Digit)
  BY DEF Kept
<1>4. \A x \in UpToMax(CScripts) : SerializeStack(x) \in Seq(Digit)
  BY <1>3, StackRead
<1>5. ps \in Seq(Seq(Digit)) /\ Len(ps) = N /\ \A i \in 1..N : ps[i] = SerializeStack(v[i].scriptWitness)
  <2>1. \A i \in 1..N : /\ ps[i] = SerializeStack(v[i].scriptWitness)
                        /\ SerializeStack(v[i].scriptWitness) \in Seq(Digit)
    BY <1>1, <1>2, <1>4
  <2>2. ps \in [1..N -> Seq(Digit)]
    BY <1>1, <2>1
  <2> HIDE DEF ps
  <2>3. ps \in Seq(Seq(Digit)) /\ Len(ps) = N
    <3> DEFINE D == Seq(Digit)
    <3>1. ps \in [1..N -> D]
      BY <2>2
    <3> HIDE DEF D
    <3>2. ps \in Seq(D) /\ Len(ps) = N
      BY <1>1, <3>1, FunctionIsSeq
    <3> QED
      BY <3>2 DEF D
  <2> QED
    BY <2>1, <2>3
<1>6. SerializeWitnesses(v) = FlattenSeq(ps)
  BY DEF SerializeWitnesses
<1> HIDE DEF ps
<1>7. PICK B : Behinds(ps, B)
  BY <1>5, Flattened
<1>8. /\ B[N] = <<>> /\ B[0] = FlattenSeq(ps) /\ \A i \in 0..N : B[i] \in Seq(Digit)
      /\ \A i \in 1..N : B[i - 1] = ps[i] \o B[i]
  BY <1>5, <1>7 DEF Behinds
<1>9. UpToWitness(v, 0) = WithoutWitnesses(v) /\ UpToWitness(v, N) = v
  <2>1. UpToWitness(v, 0) = WithoutWitnesses(v)
    BY <1>1 DEF UpToWitness, WithoutWitnesses
  <2>2. UpToWitness(v, N) = [k \in 1..N |-> v[k]]
    BY <1>1 DEF UpToWitness
  <2> QED
    BY <1>1, <2>1, <2>2
<1> HIDE DEF N, part
<1> DEFINE st(i) == Stand(Append(g, part(i)), B[i] \o t)
           h == [i \in 0..N |-> st(i)]
           b == st(0)
           f == WitSteps(b)
<1>10. \A i \in 1..N : st(i) = AsWitness(UnserializeStack(st(i - 1)), i)
  <2> SUFFICES ASSUME NEW i \in 1..N PROVE st(i) = AsWitness(UnserializeStack(st(i - 1)), i)
    OBVIOUS
  <2> DEFINE p == ps[i]
             q == B[i]
             x == v[i].scriptWitness
             g1 == Append(g, part(i - 1))
  <2>1. p \in Seq(Digit) /\ q \in Seq(Digit) /\ B[i - 1] = p \o q /\ p = SerializeStack(x) /\ x \in UpToMax(CScripts)
    <3>1. i \in 0..N
      BY <1>1
    <3> QED
      BY <1>2, <1>4, <1>5, <1>8, <3>1
  <2>2. Kept(g1)
    BY KeptMore
  <2> HIDE DEF p, q, x
  <2>3. q \o t \in Seq(Digit) /\ (p \o q) \o t = p \o (q \o t)
    BY <2>1, BytesAssociate, SMTT(60)
  <2>4. st(i - 1) = Stand(g1, p \o (q \o t))
    BY <2>1, <2>3, Zenon
  <2> HIDE DEF g1
  <2>5. UnserializeStack(Stand(g1, p \o (q \o t))) = Stand(Append(g1, x), q \o t)
    BY <2>1, <2>2, <2>3, StackRead
  <2>6. AsWitness(Stand(Append(g1, x), q \o t), i)
        = Stand(Append(g, WithWitness(part(i - 1), i, x)), q \o t)
    BY MadeWitness DEF g1
  <2>7. WithWitness(part(i - 1), i, x) = part(i)
    BY NextWitness DEF part, x, N
  <2>8. st(i) = Stand(Append(g, part(i)), q \o t)
    BY Zenon DEF q
  <2> HIDE DEF st
  <2> QED
    BY <2>4, <2>5, <2>6, <2>7, <2>8, Zenon
<1>11. Len(Top(b).vin) = N
  <2>1. Top(b) = part(0)
    BY TopOf
  <2>2. part(0).vin = UpToWitness(v, 0)
    BY DEF part, Body
  <2>3. Len(UpToWitness(v, 0)) = N
    BY <1>1 DEF UpToWitness, N
  <2> QED
    BY <2>1, <2>2, <2>3, Zenon
<1>12. st(0) = b
  OBVIOUS
<1> HIDE DEF st, b
<1>13. \A i \in 0..N : h[i] = WitRule(b, h, i)
  <2> SUFFICES ASSUME NEW i \in 0..N PROVE h[i] = WitRule(b, h, i)
    OBVIOUS
  <2>1. h[i] = st(i)
    OBVIOUS
  <2>2. CASE i = 0
    BY <1>12, <2>1, <2>2 DEF WitRule
  <2>3. CASE i # 0
    <3>1. i \in 1..N /\ i - 1 \in 0..N
      BY <1>1, <2>3
    <3>2. h[i - 1] = st(i - 1)
      BY <3>1
    <3> HIDE DEF h
    <3> QED
      BY <1>10, <2>1, <2>3, <3>1, <3>2 DEF WitRule
  <2> QED
    BY <2>2, <2>3
<1>14. \A i \in 0..N : f[i] = WitRule(b, f, i)
  <2>1. h = [i \in 0..N |-> WitRule(b, h, i)]
    BY <1>13
  <2>2. \E x : x = [i \in 0..Len(Top(b).vin) |-> WitRule(b, x, i)]
    BY <1>11, <2>1
  <2>3. f = [i \in 0..N |-> WitRule(b, f, i)]
    BY <1>11, <2>2 DEF WitSteps
  <2> QED
    BY <2>3
<1>15. h[N] = st(N) /\ N \in 0..N
  BY <1>1
<1> HIDE DEF f, h
<1>16. f[N] = h[N]
  <2>1. f[0] = h[0]
    <3>1. 0 \in 0..N
      BY <1>1
    <3> QED
      BY <1>13, <1>14, <3>1 DEF WitRule
  <2>2. \A k \in 1..N : f[k - 1] = h[k - 1] => f[k] = h[k]
    <3> SUFFICES ASSUME NEW k \in 1..N, f[k - 1] = h[k - 1] PROVE f[k] = h[k]
      OBVIOUS
    <3>1. k \in 0..N /\ k # 0
      BY <1>1
    <3>2. WitRule(b, f, k) = WitRule(b, h, k)
      BY <3>1 DEF WitRule
    <3> QED
      BY <1>13, <1>14, <3>1, <3>2
  <2>3. GoOnAlike(N, f, h)
    BY <2>1, <2>2 DEF GoOnAlike
  <2>4. \A x, y : GoOnAlike(N, x, y) => \A k \in 0..N : x[k] = y[k]
    BY <1>1, AllAlong
  <2> QED
    BY <1>15, <2>3, <2>4, Zenon
<1>17. UnserializeWitnesses(b) = f[N]
  BY <1>11, WitStepsAre, Zenon DEF f
<1>18. st(N) = Stand(Append(g, Body(v, vout, flags)), t)
  <2>1. <<>> \o t = t
    OBVIOUS
  <2> QED
    BY <1>8, <1>9, <2>1, Zenon DEF st, part
<1>19. b = Stand(Append(g, Body(WithoutWitnesses(v), vout, flags)), SerializeWitnesses(v) \o t)
  BY <1>6, <1>8, <1>9, Zenon DEF b, st, part
<1>20. SerializeWitnesses(v) \in Seq(Digit)
  <2>1. 0 \in 0..N
    BY <1>1
  <2> QED
    BY <1>6, <1>8, <2>1
<1> QED
  BY <1>15, <1>16, <1>17, <1>18, <1>19, <1>20, Zenon

-----------------------------------------------------------------------------
(* Transactions *)

\* The body that was all.
LEMMA MadeNoBody ==
    ASSUME NEW g, Kept(g), NEW a, NEW b, NEW t
    PROVE  AsNoBody(Stand(Append(Append(g, a), b), t)) = Stand(Append(g, Body(<<>>, <<>>, 0)), t)
<1> DEFINE h == Append(Append(g, a), b)
           r == Stand(h, t)
<1>1. SubSeq(h, 1, Len(h) - 2) = g /\ SubSeq(h, Len(h) - 2 + 1, Len(h)) = <<a, b>>
  BY KeptTwo DEF Lasts
<1>2. r.ok /\ r.got = h /\ \A x : [r EXCEPT !.got = x] = Stand(x, t)
  BY Stands, StandsWith, Zenon
<1> HIDE DEF h, r
<1> DEFINE w == SubSeq(r.got, Len(r.got) - 2 + 1, Len(r.got))
<1>3. AsNoBody(r) = IF r.ok THEN [r EXCEPT !.got = Append(SubSeq(r.got, 1, Len(r.got) - 2), Body(<<>>, <<>>, 0))]
                 ELSE r
  BY Zenon DEF Made, AsNoBody
<1>4. <<a, b>>[1] = a /\ <<a, b>>[2] = b
  OBVIOUS
<1>5. AsNoBody(r) = Stand(Append(g, Body(<<>>, <<>>, 0)), t)
  BY <1>1, <1>2, <1>3, <1>4, Zenon
<1> QED
  BY <1>5 DEF h, r

\* The parts of a transaction on the wire.
Frame(a, x, i, o, w, l) == ((((a \o x) \o i) \o o) \o w) \o l

\* They are read one after the other, and t behind them.
OneByOne(a, x, i, o, w, l, t) ==
    /\ Frame(a, x, i, o, w, l) \in Seq(Digit)
    /\ l \o t \in Seq(Digit) /\ w \o (l \o t) \in Seq(Digit)
    /\ o \o (w \o (l \o t)) \in Seq(Digit) /\ i \o (o \o (w \o (l \o t))) \in Seq(Digit)
    /\ x \o (i \o (o \o (w \o (l \o t)))) \in Seq(Digit)
    /\ Frame(a, x, i, o, w, l) \o t = a \o (x \o (i \o (o \o (w \o (l \o t)))))

\* The parts are bytes, and read so.
LEMMA Framed ==
    ASSUME NEW a \in Seq(Digit), NEW x \in Seq(Digit), NEW i \in Seq(Digit), NEW o \in Seq(Digit),
           NEW w \in Seq(Digit), NEW l \in Seq(Digit), NEW t \in Seq(Digit)
    PROVE  OneByOne(a, x, i, o, w, l, t)
<1> DEFINE s1 == a \o x
           s2 == s1 \o i
           s3 == s2 \o o
           s4 == s3 \o w
           t1 == l \o t
           t2 == w \o t1
           t3 == o \o t2
           t4 == i \o t3
           t5 == x \o t4
<1>1. s1 \in Seq(Digit) /\ t1 \in Seq(Digit)
  BY BytesAssociate
<1> HIDE DEF s1, t1
<1>2. s2 \in Seq(Digit) /\ t2 \in Seq(Digit)
  BY <1>1, BytesAssociate
<1> HIDE DEF s2, t2
<1>3. s3 \in Seq(Digit) /\ t3 \in Seq(Digit)
  BY <1>2, BytesAssociate
<1> HIDE DEF s3, t3
<1>4. s4 \in Seq(Digit) /\ t4 \in Seq(Digit)
  BY <1>3, BytesAssociate
<1> HIDE DEF s4, t4
<1>5. s4 \o l \in Seq(Digit) /\ t5 \in Seq(Digit)
  BY <1>4, BytesAssociate
<1> HIDE DEF t5
<1>6. (s4 \o l) \o t = s4 \o t1
  <2>1. Shifts(s4, l, t)
    BY <1>4, AllShift, Zenon
  <2> QED
    BY <2>1, Zenon DEF Shifts, t1
<1>7. s4 \o t1 = s3 \o t2
  <2>1. Shifts(s3, w, t1)
    BY <1>1, <1>3, AllShift, Zenon
  <2> QED
    BY <2>1, Zenon DEF Shifts, s4, t2
<1>8. s3 \o t2 = s2 \o t3
  <2>1. Shifts(s2, o, t2)
    BY <1>2, AllShift, Zenon
  <2> QED
    BY <2>1, Zenon DEF Shifts, s3, t3
<1>9. s2 \o t3 = s1 \o t4
  <2>1. Shifts(s1, i, t3)
    BY <1>1, <1>3, AllShift, Zenon
  <2> QED
    BY <2>1, Zenon DEF Shifts, s2, t4
<1>10. s1 \o t4 = a \o t5
  <2>1. Shifts(a, x, t4)
    BY <1>4, AllShift, Zenon
  <2> QED
    BY <2>1, Zenon DEF Shifts, s1, t5
<1>11. (s4 \o l) \o t = a \o t5
  BY <1>6, <1>7, <1>8, <1>9, <1>10
<1>12. Frame(a, x, i, o, w, l) = s4 \o l
  BY Zenon DEF Frame, s1, s2, s3, s4
<1>13. /\ Frame(a, x, i, o, w, l) \in Seq(Digit)
       /\ t1 \in Seq(Digit) /\ t2 \in Seq(Digit) /\ t3 \in Seq(Digit) /\ t4 \in Seq(Digit)
       /\ t5 \in Seq(Digit) /\ Frame(a, x, i, o, w, l) \o t = a \o t5
  BY <1>1, <1>2, <1>3, <1>4, <1>5, <1>11, <1>12
<1> QED
  BY <1>13, Zenon DEF OneByOne, t1, t2, t3, t4, t5

\* The parts of a transaction.
LEMMA TxParts ==
    ASSUME NEW tx \in CTransactions
    PROVE  /\ tx.nVersion \in Digit /\ tx.nLockTime \in Digit
           /\ tx.vin \in UpToMax(CTxIns) /\ tx.vout \in UpToMax(CTxOuts)
           /\ tx.vin \in Seq(CTxIns)
           /\ U(tx.nVersion) \in Seq(Digit) /\ U(tx.nLockTime) \in Seq(Digit)
           /\ SerializeIns(tx.vin) \in Seq(Digit) /\ SerializeOuts(tx.vout) \in Seq(Digit)
           /\ SerializeWitnesses(tx.vin) \in Seq(Digit)
           /\ tx = [nVersion |-> tx.nVersion, vin |-> tx.vin, vout |-> tx.vout,
                    nLockTime |-> tx.nLockTime]
           /\ Stripped(tx) = [nVersion |-> tx.nVersion, vin |-> WithoutWitnesses(tx.vin),
                              vout |-> tx.vout, nLockTime |-> tx.nLockTime]
<1>1. /\ tx.nVersion \in Digit /\ tx.nLockTime \in Digit
      /\ tx.vin \in UpToMax(CTxIns) /\ tx.vout \in UpToMax(CTxOuts)
  BY DEF CTransactions
<1>2. tx.vin \in Seq(CTxIns)
  BY <1>1 DEF UpToMax
<1>3. Kept(<<>>) /\ <<>> \in Seq(Digit)
  BY DEF Kept
<1>4. U(tx.nVersion) \in Seq(Digit) /\ U(tx.nLockTime) \in Seq(Digit)
  BY <1>1, <1>3, UReads
<1>5. SerializeIns(tx.vin) \in Seq(Digit) /\ SerializeOuts(tx.vout) \in Seq(Digit)
  BY <1>1, <1>3, InsRead, OutsRead
<1>6. SerializeWitnesses(tx.vin) \in Seq(Digit)
  BY <1>2, <1>3, WitnessesRead
<1>7. tx = [nVersion |-> tx.nVersion, vin |-> tx.vin, vout |-> tx.vout,
            nLockTime |-> tx.nLockTime]
  BY DEF CTransactions
<1>8. Stripped(tx) = [tx EXCEPT !.vin = WithoutWitnesses(tx.vin)]
  BY DEF Stripped, WithoutWitnesses, NoWitness
<1>9. [tx EXCEPT !.vin = WithoutWitnesses(tx.vin)]
        = [nVersion |-> tx.nVersion, vin |-> WithoutWitnesses(tx.vin),
           vout |-> tx.vout, nLockTime |-> tx.nLockTime]
  BY DEF CTransactions
<1> QED
  BY <1>1, <1>2, <1>4, <1>5, <1>6, <1>7, <1>8, <1>9, Zenon

\* What a transaction is written as, with and without witnesses.
LEMMA TxWritten ==
    ASSUME NEW tx
    PROVE  /\ \A b \in BOOLEAN : ~(b /\ HasWitness(tx)) =>
                SerializeTransaction(tx, b) = Frame(U(tx.nVersion), <<>>, SerializeIns(tx.vin),
                    SerializeOuts(tx.vout), <<>>, U(tx.nLockTime))
           /\ HasWitness(tx) =>
                SerializeTransaction(tx, TRUE) = Frame(U(tx.nVersion), SerializeIns(<<>>) \o U(1),
                    SerializeIns(tx.vin), SerializeOuts(tx.vout), SerializeWitnesses(tx.vin),
                    U(tx.nLockTime))
  BY Zenon DEF SerializeTransaction, Frame

\* Reading what follows the inputs of the format without witnesses.
LEMMA RestOfPlain ==
    ASSUME NEW g, Kept(g), NEW tx \in CTransactions, NEW t \in Seq(Digit), NEW vin, NEW b \in BOOLEAN,
           ~(vin = <<>> /\ b)
    PROVE  LET s == SerializeOuts(tx.vout) \o (U(tx.nLockTime) \o t)
               r == Stand(Append(Append(g, tx.nVersion), vin), s)
           IN AsTx(ReadU(AfterBody(AfterIns(r, b))))
              = Stand(Append(g, [nVersion |-> tx.nVersion, vin |-> vin, vout |-> tx.vout,
                                 nLockTime |-> tx.nLockTime]), t)
<1> DEFINE l == U(tx.nLockTime)
           o == SerializeOuts(tx.vout)
           g1 == Append(g, tx.nVersion)
           g2 == Append(g1, vin)
           y == Body(vin, tx.vout, 0)
           g3 == Append(g1, y)
           r == Stand(g2, o \o (l \o t))
<1>1. l \in Seq(Digit) /\ tx.vout \in UpToMax(CTxOuts) /\ tx.nLockTime \in Digit
  BY TxParts
<1>2. Kept(g1) /\ Kept(g2) /\ Kept(g3)
  <2>1. Kept(g1)
    BY KeptMore
  <2> HIDE DEF g1
  <2> QED
    BY <2>1, KeptMore
<1>3. l \o t \in Seq(Digit)
  BY <1>1, BytesAssociate
<1>4. UnserializeOuts(r) = Stand(Append(g2, tx.vout), l \o t)
  <2> HIDE DEF l, g2
  <2> QED
    BY <1>1, <1>2, <1>3, OutsRead
<1>5. r.ok /\ Top(r) = vin
  <2> HIDE DEF g1, l, o
  <2> QED
    BY <1>2, TopOf, Stands
<1>6. AfterIns(r, b) = AsBody(UnserializeOuts(r))
  <2> HIDE DEF r
  <2> QED
    BY <1>5, ReadersAre, Zenon
<1>7. AsBody(Stand(Append(g2, tx.vout), l \o t)) = Stand(g3, l \o t)
  <2> HIDE DEF g1, l
  <2> QED
    BY <1>2, MadeBody
<1>8. AfterBody(Stand(g3, l \o t)) = Stand(g3, l \o t)
  <2>1. Top(Stand(g3, l \o t)) = y
    <3> HIDE DEF g1, l, y
    <3> QED
      BY <1>2, TopOf
  <2>2. y.flags = 0
    BY DEF Body
  <2> HIDE DEF y, g3, l
  <2> QED
    BY <2>1, <2>2, Zenon DEF AfterBody
<1>9. ReadU(Stand(g3, l \o t)) = Stand(Append(g3, tx.nLockTime), t)
  <2> HIDE DEF g3
  <2> QED
    BY <1>1, <1>2, UReads
<1>10. AsTx(Stand(Append(g3, tx.nLockTime), t))
       = Stand(Append(g, [nVersion |-> tx.nVersion, vin |-> y.vin, vout |-> y.vout,
                          nLockTime |-> tx.nLockTime]), t)
  <2> HIDE DEF y
  <2> QED
    BY MadeTx
<1>11. y.vin = vin /\ y.vout = tx.vout
  BY DEF Body
<1> HIDE DEF y, g1, g2, g3, l, o, r
<1>12. AsTx(ReadU(AfterBody(AfterIns(r, b))))
       = Stand(Append(g, [nVersion |-> tx.nVersion, vin |-> vin, vout |-> tx.vout,
                          nLockTime |-> tx.nLockTime]), t)
  BY <1>4, <1>6, <1>7, <1>8, <1>9, <1>10, <1>11, Zenon
<1> QED
  BY <1>12, Zenon DEF r, g2, g1, o, l

\* The format without witnesses: what comes back has none.
LEMMA PlainReads ==
    ASSUME NEW g, Kept(g), NEW tx \in CTransactions, NEW t \in Seq(Digit), NEW b \in BOOLEAN,
           ~(tx.vin = <<>> /\ b)
    PROVE  LET s == Frame(U(tx.nVersion), <<>>, SerializeIns(tx.vin), SerializeOuts(tx.vout), <<>>,
                          U(tx.nLockTime))
           IN /\ s \in Seq(Digit)
              /\ UnserializeTransaction(Stand(g, s \o t), b) = Stand(Append(g, Stripped(tx)), t)
<1> DEFINE a == U(tx.nVersion)
           i == SerializeIns(tx.vin)
           o == SerializeOuts(tx.vout)
           l == U(tx.nLockTime)
           s == Frame(a, <<>>, i, o, <<>>, l)
           V == WithoutWitnesses(tx.vin)
           g1 == Append(g, tx.nVersion)
<1>1. /\ a \in Seq(Digit) /\ i \in Seq(Digit) /\ o \in Seq(Digit) /\ l \in Seq(Digit)
      /\ tx.nVersion \in Digit /\ tx.vin \in UpToMax(CTxIns) /\ tx.vin \in Seq(CTxIns)
      /\ Stripped(tx) = [nVersion |-> tx.nVersion, vin |-> V, vout |-> tx.vout, nLockTime |-> tx.nLockTime]
  BY TxParts
<1>2. <<>> \in Seq(Digit)
  OBVIOUS
<1> HIDE DEF a, i, o, l
<1>3. /\ s \in Seq(Digit) /\ o \o (l \o t) \in Seq(Digit) /\ i \o (o \o (l \o t)) \in Seq(Digit)
      /\ s \o t = a \o (i \o (o \o (l \o t)))
  <2>1. /\ s \in Seq(Digit) /\ l \o t \in Seq(Digit) /\ o \o (<<>> \o (l \o t)) \in Seq(Digit)
        /\ i \o (o \o (<<>> \o (l \o t))) \in Seq(Digit)
        /\ s \o t = a \o (<<>> \o (i \o (o \o (<<>> \o (l \o t)))))
    <3> DEFINE e == <<>>
    <3>1. e \in Seq(Digit) /\ a \in Seq(Digit) /\ i \in Seq(Digit) /\ o \in Seq(Digit) /\ l \in Seq(Digit)
      BY <1>1
    <3> HIDE DEF e
    <3>2. OneByOne(a, e, i, o, e, l, t)
      BY <3>1, Framed
    <3> QED
      BY <3>2, Zenon DEF OneByOne, e
  <2>2. \A x \in Seq(Digit) : <<>> \o x = x
    OBVIOUS
  <2>3. <<>> \o (l \o t) = l \o t
    BY <2>1, <2>2, Zenon
  <2>4. /\ o \o (l \o t) \in Seq(Digit) /\ i \o (o \o (l \o t)) \in Seq(Digit)
        /\ s \o t = a \o (<<>> \o (i \o (o \o (l \o t))))
    BY <2>1, <2>3, Zenon
  <2>5. <<>> \o (i \o (o \o (l \o t))) = i \o (o \o (l \o t))
    BY <2>2, <2>4, Zenon
  <2> QED
    BY <2>1, <2>4, <2>5, Zenon
<1>4. ReadU(Stand(g, a \o (i \o (o \o (l \o t))))) = Stand(g1, i \o (o \o (l \o t))) /\ Kept(g1)
  BY <1>1, <1>3, UReads, KeptMore DEF a
<1>5. UnserializeIns(Stand(g1, i \o (o \o (l \o t)))) = Stand(Append(g1, V), o \o (l \o t))
  BY <1>1, <1>3, <1>4, InsRead DEF i
<1>6. ~(V = <<>> /\ b)
  <2>1. V = <<>> => tx.vin = <<>>
    <3> SUFFICES ASSUME V = <<>> PROVE tx.vin = <<>>
      OBVIOUS
    <3>1. DOMAIN V = DOMAIN tx.vin
      BY DEF WithoutWitnesses
    <3>2. DOMAIN tx.vin = 1..Len(tx.vin) /\ Len(tx.vin) \in Nat
      BY <1>1
    <3>3. DOMAIN V = {}
      OBVIOUS
    <3> HIDE DEF V
    <3>4. Len(tx.vin) = 0
      <4>1. Len(tx.vin) # 0 => 1 \in 1..Len(tx.vin)
        BY <3>2
      <4> QED
        BY <3>1, <3>2, <3>3, <4>1, Zenon
    <3> QED
      BY <1>1, <3>4, EmptySeq
  <2> QED
    BY <2>1
<1> HIDE DEF s, V
<1>7. AsTx(ReadU(AfterBody(AfterIns(Stand(Append(g1, V), o \o (l \o t)), b)))) = Stand(Append(g, Stripped(tx)), t)
  BY <1>1, <1>6, RestOfPlain DEF o, l
<1>8. UnserializeTransaction(Stand(g, s \o t), b) = Stand(Append(g, Stripped(tx)), t)
  BY <1>3, <1>4, <1>5, <1>7, ReadersAre, Zenon
<1> QED
  BY <1>3, <1>8, Zenon DEF s, a, i, o, l

\* The format with witnesses: all of it comes back.
LEMMA ExtendedReads ==
    ASSUME NEW g, Kept(g), NEW tx \in CTransactions, NEW t \in Seq(Digit)
    PROVE  LET s == Frame(U(tx.nVersion), SerializeIns(<<>>) \o U(1), SerializeIns(tx.vin),
                          SerializeOuts(tx.vout), SerializeWitnesses(tx.vin), U(tx.nLockTime))
           IN /\ s \in Seq(Digit)
              /\ UnserializeTransaction(Stand(g, s \o t), TRUE) = Stand(Append(g, tx), t)
<1> DEFINE a == U(tx.nVersion)
           d == SerializeIns(<<>>)
           x == d \o U(1)
           i == SerializeIns(tx.vin)
           o == SerializeOuts(tx.vout)
           w == SerializeWitnesses(tx.vin)
           l == U(tx.nLockTime)
           s == Frame(a, x, i, o, w, l)
           V == WithoutWitnesses(tx.vin)
           t1 == l \o t
           t2 == w \o t1
           t3 == o \o t2
           t4 == i \o t3
           y == Body(V, tx.vout, 1)
           z == Body(tx.vin, tx.vout, 1)
           g1 == Append(g, tx.nVersion)
           g2 == Append(g1, <<>>)
           g3 == Append(g2, 1)
           g4 == Append(g3, V)
           g5 == Append(g1, z)
<1>1. /\ a \in Seq(Digit) /\ i \in Seq(Digit) /\ o \in Seq(Digit) /\ l \in Seq(Digit)
      /\ w \in Seq(Digit)
  BY TxParts
<1>2. /\ tx.nVersion \in Digit /\ tx.vin \in UpToMax(CTxIns) /\ tx.vin \in Seq(CTxIns)
      /\ tx.vout \in UpToMax(CTxOuts) /\ tx.nLockTime \in Digit
      /\ tx = [nVersion |-> tx.nVersion, vin |-> tx.vin, vout |-> tx.vout, nLockTime |-> tx.nLockTime]
  BY TxParts
<1>3. 1 \in Digit /\ <<>> \in UpToMax(CTxIns) /\ WithoutWitnesses(<<>>) = <<>>
  <2>1. 1 \in Digit
    BY Bases DEF Digit
  <2>2. <<>> \in UpToMax(CTxIns)
    BY Bases DEF UpToMax
  <2>3. WithoutWitnesses(<<>>) = <<>>
    BY DEF WithoutWitnesses
  <2> QED
    BY <2>1, <2>2, <2>3
<1>4. Kept(g1) /\ Kept(g2) /\ Kept(g3) /\ Kept(g4) /\ Kept(g5)
  <2>1. Kept(g1)
    BY KeptMore
  <2> HIDE DEF g1
  <2>2. Kept(g2) /\ Kept(g5)
    BY <2>1, KeptMore
  <2> HIDE DEF g2
  <2>3. Kept(g3)
    BY <2>2, KeptMore
  <2> HIDE DEF g3
  <2>4. Kept(g4)
    BY <2>3, KeptMore
  <2> QED
    BY <2>1, <2>2, <2>3, <2>4
<1>5. U(1) \in Seq(Digit) /\ d \in Seq(Digit)
  <2>1. <<>> \in Seq(Digit)
    OBVIOUS
  <2> QED
    BY <1>3, <2>1, UReads, InsRead
<1> HIDE DEF a, d, i, o, w, l
<1>6. x \in Seq(Digit)
  BY <1>5, BytesAssociate
<1> HIDE DEF x
<1>7. OneByOne(a, x, i, o, w, l, t)
  BY <1>1, <1>6, Framed
<1>8. /\ s \in Seq(Digit) /\ t1 \in Seq(Digit) /\ t2 \in Seq(Digit) /\ t3 \in Seq(Digit) /\ t4 \in Seq(Digit)
      /\ x \o t4 \in Seq(Digit) /\ s \o t = a \o (x \o t4)
  BY <1>7, Zenon DEF OneByOne
<1> HIDE DEF s
<1>9. x \o t4 = d \o (U(1) \o t4) /\ U(1) \o t4 \in Seq(Digit)
  <2> HIDE DEF t4
  <2>1. Shifts(d, U(1), t4)
    BY <1>5, <1>8, AllShift, Zenon
  <2>2. U(1) \o t4 \in Seq(Digit)
    BY <1>5, <1>8, BytesAssociate, Zenon
  <2> QED
    BY <2>1, <2>2, Zenon DEF Shifts, x
<1>10. ReadU(Stand(g, a \o (x \o t4))) = Stand(g1, x \o t4)
  <2> HIDE DEF t4
  <2> QED
    BY <1>2, <1>8, UReads DEF a
<1>11. UnserializeIns(Stand(g1, d \o (U(1) \o t4))) = Stand(g2, U(1) \o t4)
  <2> DEFINE u == U(1) \o t4
  <2>1. u \in Seq(Digit)
    BY <1>9
  <2> HIDE DEF u, g1
  <2>2. UnserializeIns(Stand(g1, SerializeIns(<<>>) \o u)) = Stand(Append(g1, WithoutWitnesses(<<>>)), u)
    BY <1>3, <1>4, <2>1, InsRead
  <2> QED
    BY <1>3, <2>2, Zenon DEF d, u
<1>12. ReadU(Stand(g2, U(1) \o t4)) = Stand(g3, t4)
  <2> HIDE DEF t4, g2
  <2> QED
    BY <1>3, <1>4, <1>8, UReads
<1>13. UnserializeIns(Stand(g3, t4)) = Stand(g4, t3)
  <2> HIDE DEF t3, g3
  <2> QED
    BY <1>2, <1>4, <1>8, InsRead DEF i
<1>14. UnserializeOuts(Stand(g4, t3)) = Stand(Append(g4, tx.vout), t2)
  <2> HIDE DEF t2, g4
  <2> QED
    BY <1>2, <1>4, <1>8, OutsRead DEF o
<1>15. AsExtended(Stand(Append(g4, tx.vout), t2)) = Stand(Append(g1, y), t2)
  <2> HIDE DEF t2, g1, V
  <2> QED
    BY <1>4, MadeExtended
<1>16. UnserializeWitnesses(Stand(Append(g1, y), t2)) = Stand(g5, t1)
  <2> HIDE DEF t1, g1
  <2> QED
    BY <1>2, <1>4, <1>8, WitnessesRead DEF w
<1>17. AfterIns(Stand(g2, U(1) \o t4), TRUE) = Stand(Append(g1, y), t2)
  <2>1. Stand(g2, U(1) \o t4).ok /\ Top(Stand(g2, U(1) \o t4)) = <<>>
    <3> HIDE DEF g1, t4
    <3> QED
      BY <1>4, TopOf, Stands
  <2>2. Top(Stand(g3, t4)) = 1
    <3> HIDE DEF g2, t4
    <3> QED
      BY <1>4, TopOf
  <2>3. 1 # 0
    OBVIOUS
  <2> HIDE DEF g1, g2, g3, g4, t1, t2, t3, t4, y
  <2>4. AfterIns(Stand(g2, U(1) \o t4), TRUE) = AfterFlags(Stand(g3, t4))
    BY <1>12, <2>1, ReadersAre, Zenon
  <2>5. AfterFlags(Stand(g3, t4)) = AsExtended(UnserializeOuts(UnserializeIns(Stand(g3, t4))))
    BY <2>2, <2>3, ReadersAre, Zenon
  <2> QED
    BY <1>13, <1>14, <1>15, <2>4, <2>5, Zenon
<1>18. AfterBody(Stand(Append(g1, y), t2)) = Stand(g5, t1)
  <2>1. Top(Stand(Append(g1, y), t2)) = y
    <3> HIDE DEF g1, t2, y
    <3> QED
      BY <1>4, TopOf
  <2>2. y.flags = 1 /\ y.flags # 0
    BY DEF Body
  <2>3. Stand(Append(g1, y), t2).ok
    BY Stands
  <2> HIDE DEF g1, g5, t1, t2, y
  <2> QED
    BY <1>16, <2>1, <2>2, <2>3, Zenon DEF AfterBody
<1>19. ReadU(Stand(g5, t1)) = Stand(Append(g5, tx.nLockTime), t)
  <2> HIDE DEF g5
  <2> QED
    BY <1>2, <1>4, UReads DEF l
<1>20. AsTx(Stand(Append(g5, tx.nLockTime), t)) = Stand(Append(g, tx), t)
  <2>1. z.vin = tx.vin /\ z.vout = tx.vout
    BY DEF Body
  <2> HIDE DEF z
  <2>2. AsTx(Stand(Append(g5, tx.nLockTime), t))
        = Stand(Append(g, [nVersion |-> tx.nVersion, vin |-> z.vin, vout |-> z.vout,
                           nLockTime |-> tx.nLockTime]), t)
    BY MadeTx
  <2> QED
    BY <1>2, <2>1, <2>2
<1> HIDE DEF g1, g2, g3, g4, g5, t1, t2, t3, t4, y
<1>21. UnserializeTransaction(Stand(g, s \o t), TRUE) = Stand(Append(g, tx), t)
  BY <1>8, <1>9, <1>10, <1>11, <1>17, <1>18, <1>19, <1>20, ReadersAre, Zenon
<1> QED
  BY <1>8, <1>21, Zenon DEF s, a, x, d, i, o, w, l

\* What is written of inputs does not depend on their witnesses.
LEMMA InsIgnoreWitnesses ==
    ASSUME NEW v \in Seq(CTxIns)
    PROVE  SerializeIns(WithoutWitnesses(v)) = SerializeIns(v)
<1> DEFINE w == WithoutWitnesses(v)
<1>1. DOMAIN w = DOMAIN v /\ \A i \in DOMAIN v : w[i] = NoWitness(v[i]) /\ v[i] \in CTxIns
  BY DEF WithoutWitnesses
<1>2. \A x \in CTxIns : SerializeTxIn(NoWitness(x)) = SerializeTxIn(x)
  <2> SUFFICES ASSUME NEW x \in CTxIns PROVE SerializeTxIn(NoWitness(x)) = SerializeTxIn(x)
    OBVIOUS
  <2>1. /\ NoWitness(x).prevout = x.prevout /\ NoWitness(x).scriptSig = x.scriptSig
        /\ NoWitness(x).nSequence = x.nSequence
    BY DEF NoWitness, CTxIns
  <2> QED
    BY <2>1, Zenon DEF SerializeTxIn
<1> HIDE DEF w
<1>3. [i \in DOMAIN w |-> SerializeTxIn(w[i])] = [i \in DOMAIN v |-> SerializeTxIn(v[i])]
  BY <1>1, <1>2
<1>4. SerializeIns(w) = SerializeIns(v)
  BY <1>3, Zenon DEF SerializeIns
<1> QED
  BY <1>4 DEF w

\* A transaction that has a witness is not what is left without it.
LEMMA StrippedDiffers ==
    ASSUME NEW tx \in CTransactions, HasWitness(tx)
    PROVE  Stripped(tx) # tx /\ tx.vin # <<>>
<1>1. PICK i \in DOMAIN tx.vin : tx.vin[i].scriptWitness # <<>>
  BY DEF HasWitness
<1>2. tx.vin \in Seq(CTxIns)
  BY TxParts
<1>3. tx.vin[i] \in CTxIns
  BY <1>2
<1>4. NoWitness(tx.vin[i]).scriptWitness = <<>>
  BY <1>3 DEF NoWitness, CTxIns
<1>5. WithoutWitnesses(tx.vin)[i] = NoWitness(tx.vin[i])
  BY DEF WithoutWitnesses
<1>6. WithoutWitnesses(tx.vin) # tx.vin
  BY <1>1, <1>4, <1>5
<1>7. Stripped(tx) = [nVersion |-> tx.nVersion, vin |-> WithoutWitnesses(tx.vin),
                      vout |-> tx.vout, nLockTime |-> tx.nLockTime]
  BY TxParts
<1>8. Stripped(tx).vin = WithoutWitnesses(tx.vin)
  BY <1>7
<1>9. tx.vin # <<>>
  OBVIOUS
<1> QED
  BY <1>6, <1>8, <1>9

\* What TxidIgnoresWitness says of a transaction and its two hashes.
HashesTell(tx, hash, whash) ==
    /\ hash = ComputeHash(Stripped(tx))
    /\ Reads(UnserializeTransaction(Start(hash), FALSE), Stripped(tx), <<>>)
    /\ (whash = hash) = ~HasWitness(tx)
    /\ HasWitness(tx) => Reads(UnserializeTransaction(Start(whash), TRUE), tx, <<>>)

\* They say so.
LEMMA TxHashes ==
    ASSUME NEW tx \in CTransactions
    PROVE  HashesTell(tx, ComputeHash(tx), ComputeWitnessHash(tx))
<1> DEFINE hash == ComputeHash(tx)
           whash == ComputeWitnessHash(tx)
           p == Frame(U(tx.nVersion), <<>>, SerializeIns(tx.vin), SerializeOuts(tx.vout), <<>>,
                      U(tx.nLockTime))
           x == Frame(U(tx.nVersion), SerializeIns(<<>>) \o U(1), SerializeIns(tx.vin),
                      SerializeOuts(tx.vout), SerializeWitnesses(tx.vin), U(tx.nLockTime))
           st == Stripped(tx)
<1>0. Kept(<<>>) /\ <<>> \in Seq(Digit)
  BY DEF Kept
<1>1. hash = p
  <2>1. FALSE \in BOOLEAN /\ ~(FALSE /\ HasWitness(tx))
    OBVIOUS
  <2> QED
    BY <2>1, TxWritten, Zenon DEF ComputeHash
<1>2. HasWitness(tx) => whash = x
  BY TxWritten, Zenon DEF ComputeWitnessHash
<1>3. ComputeHash(st) = p
  <2>1. st = [nVersion |-> tx.nVersion, vin |-> WithoutWitnesses(tx.vin),
              vout |-> tx.vout, nLockTime |-> tx.nLockTime]
    BY TxParts
  <2>2. /\ st.nVersion = tx.nVersion /\ st.vin = WithoutWitnesses(tx.vin) /\ st.vout = tx.vout
        /\ st.nLockTime = tx.nLockTime
    BY <2>1
  <2>3. SerializeIns(st.vin) = SerializeIns(tx.vin)
    <3>1. tx.vin \in Seq(CTxIns)
      BY TxParts
    <3> QED
      BY <2>2, <3>1, InsIgnoreWitnesses
  <2>4. FALSE \in BOOLEAN /\ ~(FALSE /\ HasWitness(st))
    OBVIOUS
  <2> HIDE DEF st
  <2>5. ComputeHash(st) = Frame(U(st.nVersion), <<>>, SerializeIns(st.vin), SerializeOuts(st.vout), <<>>,
                                U(st.nLockTime))
    BY <2>4, TxWritten, Zenon DEF ComputeHash
  <2> QED
    BY <2>2, <2>3, <2>5, Zenon
<1>4. /\ p \in Seq(Digit)
      /\ UnserializeTransaction(Stand(<<>>, p \o <<>>), FALSE) = Stand(Append(<<>>, st), <<>>)
  BY <1>0, PlainReads
<1>5. /\ x \in Seq(Digit)
      /\ UnserializeTransaction(Stand(<<>>, x \o <<>>), TRUE) = Stand(Append(<<>>, tx), <<>>)
  BY <1>0, ExtendedReads
<1>6. HasWitness(tx) =>
        /\ UnserializeTransaction(Stand(<<>>, p \o <<>>), TRUE) = Stand(Append(<<>>, st), <<>>)
        /\ st # tx
  BY <1>0, PlainReads, StrippedDiffers
<1> HIDE DEF p, x, st, hash, whash
<1>7. p \o <<>> = p /\ x \o <<>> = x
  BY <1>4, <1>5
<1>8. \A s : Start(s) = Stand(<<>>, s)
  BY Stands
<1>9. \A y : Append(<<>>, y) = <<y>> /\ Reads(Stand(<<y>>, <<>>), y, <<>>)
  BY ReadableHolds, Stands, Zenon DEF Reads
<1>10. HasWitness(tx) => whash # hash
  <2> SUFFICES ASSUME HasWitness(tx), x = p PROVE FALSE
    BY <1>1, <1>2
  <2>1. Stand(<<tx>>, <<>>) = Stand(<<st>>, <<>>)
    <3>1. UnserializeTransaction(Stand(<<>>, x), TRUE) = Stand(Append(<<>>, tx), <<>>)
      BY <1>5, <1>7
    <3>2. UnserializeTransaction(Stand(<<>>, p), TRUE) = Stand(Append(<<>>, st), <<>>)
      BY <1>6, <1>7
    <3>3. Append(<<>>, tx) = <<tx>> /\ Append(<<>>, st) = <<st>>
      BY <1>9, Zenon
    <3> QED
      BY <3>1, <3>2, <3>3, Zenon
  <2>2. <<tx>> = <<st>>
    <3>1. Stand(<<tx>>, <<>>).got = <<tx>> /\ Stand(<<st>>, <<>>).got = <<st>>
      BY Stands
    <3> QED
      BY <2>1, <3>1
  <2>3. <<tx>>[1] = tx /\ <<st>>[1] = st
    OBVIOUS
  <2> QED
    BY <1>6, <2>2, <2>3
<1>11. ~HasWitness(tx) => whash = hash
  BY Zenon DEF ComputeWitnessHash, whash, hash
<1>12. Reads(UnserializeTransaction(Start(hash), FALSE), st, <<>>)
  BY <1>1, <1>4, <1>7, <1>8, <1>9, Zenon
<1>13. HasWitness(tx) => Reads(UnserializeTransaction(Start(whash), TRUE), tx, <<>>)
  BY <1>2, <1>5, <1>7, <1>8, <1>9, Zenon
<1>14. (whash = hash) = ~HasWitness(tx)
  <2>1. HasWitness(tx) \in BOOLEAN
    BY DEF HasWitness
  <2> QED
    BY <1>10, <1>11, <2>1
<1> QED
  BY <1>1, <1>3, <1>12, <1>13, <1>14, Zenon DEF HashesTell, hash, whash, st

\* Only EncodeTx records a transaction.
LEMMA OnlyEncodeTx ==
    ASSUME CodecNext PROVE EncodeTx \/ out'.op # "tx"
<1>1. EncodeInt => out'.op = "int"
  BY DEF EncodeInt, Run
<1>2. DecodeInt => out'.op = "bytes"
  BY DEF DecodeInt, Run
<1>3. EncodeContainers => out'.op = "containers"
  BY DEF EncodeContainers, Run
<1>4. DecodeTx => out'.op = "txbytes"
  BY DEF DecodeTx, Run
<1>5. EncodeBlock => out'.op = "block"
  BY DEF EncodeBlock, Run
<1>6. SolveScript => out'.op = "script"
  BY DEF SolveScript, Run
<1>7. EncodeText => out'.op = "binary"
  BY DEF EncodeText, Run
<1>8. DecodeText => out'.op = "text"
  BY DEF DecodeText, Run
<1>9. ParseNumber => out'.op = "number"
  BY DEF ParseNumber, Run
<1>10. \/ EncodeInt \/ DecodeInt \/ EncodeContainers \/ EncodeTx \/ DecodeTx
       \/ EncodeBlock \/ SolveScript \/ EncodeText \/ DecodeText \/ ParseNumber
  BY Zenon DEF CodecNext
<1> QED
  BY <1>1, <1>2, <1>3, <1>4, <1>5, <1>6, <1>7, <1>8, <1>9, <1>10

\* The txid says everything about a transaction but its witnesses and nothing about
\* them, the witness hash says everything and is the txid exactly when there is no
\* witness (SerializeTransaction, UnserializeTransaction, ComputeHash and
\* ComputeWitnessHash of transaction.h), for every transaction that can be read.
THEOREM TxidIgnoresWitnessHolds == CodecSpec => []TxidIgnoresWitness
<1>0. TxidIgnoresWitness <=> (out.op = "tx" => HashesTell(out.in, out.hash, out.whash))
  BY Zenon DEF TxidIgnoresWitness, HashesTell
<1>1. CodecInit => TxidIgnoresWitness
  <2> SUFFICES ASSUME CodecInit PROVE TxidIgnoresWitness
    OBVIOUS
  <2>1. out.op = "none"
    BY DEF CodecInit, Idle
  <2> QED
    BY <1>0, <2>1
<1>2. TxidIgnoresWitness /\ [CodecNext]_out => TxidIgnoresWitness'
  <2> SUFFICES ASSUME TxidIgnoresWitness, [CodecNext]_out PROVE TxidIgnoresWitness'
    OBVIOUS
  <2>0. TxidIgnoresWitness' <=> (out'.op = "tx" => HashesTell(out'.in, out'.hash, out'.whash))
    BY Zenon DEF TxidIgnoresWitness, HashesTell
  <2>1. CASE EncodeTx
    <3>1. PICK tx \in Txs : out' = [op |-> "tx", in |-> tx, wire |-> SerializeTransaction(tx, TRUE),
                                    hash |-> ComputeHash(tx), whash |-> ComputeWitnessHash(tx)]
      BY <2>1 DEF EncodeTx, Run
    <3>2. tx \in CTransactions
      BY InputsAssumption
    <3>3. HashesTell(tx, ComputeHash(tx), ComputeWitnessHash(tx))
      BY <3>2, TxHashes
    <3>4. out'.in = tx /\ out'.hash = ComputeHash(tx) /\ out'.whash = ComputeWitnessHash(tx)
      BY <3>1
    <3> QED
      BY <2>0, <3>3, <3>4
  <2>2. CASE CodecNext /\ ~EncodeTx
    <3>1. out'.op # "tx"
      BY <2>2, OnlyEncodeTx
    <3> QED
      BY <2>0, <3>1
  <2>3. CASE out' = out
    BY <1>0, <2>0, <2>3
  <2> QED
    BY <2>1, <2>2, <2>3
<1> QED
  BY <1>1, <1>2, PTL DEF CodecSpec
=============================================================================
