---------------------------- MODULE TextProofs -----------------------------
(***************************************************************************)
(* TextRoundTrip: base64, base32 and hex give back the bytes they were     *)
(* made from, and a text they accept is, up to a NUL, the text of what     *)
(* they return, for bytes and texts of every length; FixedPointExact: a    *)
(* decimal number is parsed just when it should be, and to its value.      *)
(*                                                                         *)
(* Bytes and the characters of a base are digits, in base 2^8 and in base  *)
(* 2^6 or 2^5, and ConvertBits keeps the number they stand for: after each *)
(* digit it has read, the digits it has written and the bits it holds back *)
(* stand for the digits read so far.  What it adds at the end (the filling *)
(* bits) or refuses at the end (bits that are not zero, or a whole         *)
(* character of them) makes the number it started from a multiple of what  *)
(* it ends with; and digits are unique: two sequences of one length that   *)
(* stand for one number are the same (NumberTells).                        *)
(*                                                                         *)
(* The mantissa of a fixed point number is what its digits stand for but   *)
(* the zeros at their end, which are held back (Held): so a shift to the   *)
(* right is exact just when there are zeros enough (ShiftSays), and every  *)
(* check of a product on the way follows from the one at the end.          *)
(***************************************************************************)
EXTENDS CodecsProofs

-----------------------------------------------------------------------------
(* Powers and numbers *)

\* The powers of b.
PowRule(b, f, k) == IF k = 0 THEN 1 ELSE b * f[k - 1]
Pows(b) == CHOOSE f : f = [k \in Nat |-> PowRule(b, f, k)]

\* Pow is one of them.
LEMMA PowIs == \A b, k : Pow(b, k) = Pows(b)[k]
  BY Zenon DEF Pow, Pows, PowRule

\* The powers of a positive number.
LEMMA PowSteps ==
    ASSUME NEW b \in Nat, b > 0
    PROVE  /\ Pow(b, 0) = 1
           /\ \A k \in Nat : Pow(b, k + 1) = b * Pow(b, k)
           /\ \A k \in Nat : Pow(b, k) \in Nat /\ Pow(b, k) > 0
<1> DEFINE a == [n \in Nat |-> 1]
           p == [n \in Nat |-> IF n = 0 THEN 0 ELSE n - 1]
           c == [n \in Nat |-> [x \in Nat |-> b * x]]
           Z == {0}
           F == Pows(b)
<1>1. \E f \in [Nat -> Nat] : Recurs(f, Z, a, p, c)
  <2>1. a \in [Nat -> Nat] /\ p \in [Nat -> Nat]
    OBVIOUS
  <2>2. c \in [Nat -> [Nat -> Nat]]
    OBVIOUS
  <2>3. Descends(p, Z)
    BY DEF Descends
  <2> HIDE DEF a, p, c, Z
  <2> QED
    BY <2>1, <2>2, <2>3, Recursion
<1>2. PICK g \in [Nat -> Nat] : Recurs(g, Z, a, p, c)
  BY <1>1
<1>3. ASSUME NEW n \in Nat PROVE g[n] = PowRule(b, g, n)
  <2>1. g[n] = IF n = 0 THEN 1 ELSE c[n][g[p[n]]]
    BY <1>2 DEF Recurs
  <2>2. n # 0 => p[n] = n - 1 /\ n - 1 \in Nat /\ g[n - 1] \in Nat
    OBVIOUS
  <2>3. n # 0 => c[n][g[n - 1]] = b * g[n - 1]
    BY <2>2
  <2> QED
    BY <2>1, <2>2, <2>3 DEF PowRule
<1>4. F = [n \in Nat |-> PowRule(b, F, n)]
  <2>1. g = [n \in Nat |-> PowRule(b, g, n)]
    BY <1>3
  <2>2. \E f : f = [n \in Nat |-> PowRule(b, f, n)]
    BY <2>1
  <2> QED
    BY <2>2 DEF Pows
<1> HIDE DEF F
<1>5. F[0] = 1 /\ \A k \in Nat : F[k + 1] = b * F[k]
  <2>1. \A n \in Nat : F[n] = PowRule(b, F, n)
    BY <1>4
  <2> QED
    BY <2>1 DEF PowRule
<1> DEFINE T == {k \in Nat : F[k] \in Nat /\ F[k] > 0}
<1>6. ASSUME NEW n \in Nat, \A m \in 0..(n - 1) : m \in T PROVE n \in T
  <2>1. CASE n = 0
    BY <1>5, <2>1
  <2>2. CASE n # 0
    <3>1. n - 1 \in 0..(n - 1) /\ (n - 1) + 1 = n /\ n - 1 \in Nat
      BY <2>2
    <3>2. F[n] = b * F[n - 1] /\ F[n - 1] \in Nat /\ F[n - 1] > 0
      BY <1>5, <1>6, <3>1
    <3>3. F[n] \in Nat /\ F[n] > 0
      BY <3>2
    <3> QED
      BY <3>3
  <2> QED
    BY <2>1, <2>2
<1>7. \A n \in Nat : n \in T
  <2> HIDE DEF T
  <2> QED
    BY <1>6, Induct
<1>8. \A k : Pow(b, k) = F[k]
  BY PowIs DEF F
<1> QED
  BY <1>5, <1>7, <1>8

\* Powers multiply.
LEMMA PowPlus ==
    ASSUME NEW b \in Nat, b > 0, NEW m \in Nat
    PROVE  \A n \in Nat : Pow(b, m + n) = Pow(b, m) * Pow(b, n)
<1> DEFINE T == {n \in Nat : Pow(b, m + n) = Pow(b, m) * Pow(b, n)}
<1>0. /\ Pow(b, 0) = 1 /\ \A k \in Nat : Pow(b, k + 1) = b * Pow(b, k)
      /\ \A k \in Nat : Pow(b, k) \in Nat
  BY PowSteps
<1>1. ASSUME NEW n \in Nat, \A k \in 0..(n - 1) : k \in T PROVE n \in T
  <2>1. CASE n = 0
    <3>1. m + n = m /\ Pow(b, n) = 1
      BY <1>0, <2>1
    <3>2. Pow(b, m) * 1 = Pow(b, m)
      BY <1>0
    <3> QED
      BY <3>1, <3>2
  <2>2. CASE n # 0
    <3>1. n - 1 \in 0..(n - 1) /\ (n - 1) + 1 = n /\ n - 1 \in Nat /\ m + n = (m + (n - 1)) + 1
          /\ m + (n - 1) \in Nat
      BY <2>2
    <3> DEFINE x == Pow(b, m)
               y == Pow(b, n - 1)
    <3>2. x \in Nat /\ y \in Nat
      BY <1>0, <3>1
    <3>3. Pow(b, m + n) = b * Pow(b, m + (n - 1)) /\ Pow(b, n) = b * y
      BY <1>0, <3>1
    <3>4. Pow(b, m + (n - 1)) = x * y
      BY <1>1, <3>1
    <3> HIDE DEF x, y
    <3>5. b * (x * y) = x * (b * y)
      BY <3>2
    <3>6. Pow(b, m + n) = x * Pow(b, n)
      BY <3>3, <3>4, <3>5
    <3> QED
      BY <3>6 DEF x
  <2> QED
    BY <2>1, <2>2
<1>2. \A n \in Nat : n \in T
  <2> HIDE DEF T
  <2> QED
    BY <1>1, Induct
<1> QED
  BY <1>2

\* The number that the first i digits of s stand for, the most significant first.
NumberRule(B, s, f, i) == IF i = 0 THEN 0 ELSE B * f[i - 1] + s[i]
NumbersIn(B, s) == CHOOSE f : f = [i \in 0..Len(s) |-> NumberRule(B, s, f, i)]
NumberIn(B, s) == NumbersIn(B, s)[Len(s)]

\* One digit at a time.
LEMMA NumberSteps ==
    ASSUME NEW B \in Nat, NEW s \in Seq(Nat)
    PROVE  /\ NumbersIn(B, s)[0] = 0
           /\ \A i \in 1..Len(s) : NumbersIn(B, s)[i] = B * NumbersIn(B, s)[i - 1] + s[i]
           /\ \A i \in 0..Len(s) : NumbersIn(B, s)[i] \in Nat
           /\ NumberIn(B, s) \in Nat
<1> DEFINE N == Len(s)
           d == [n \in Nat |-> IF n \in 1..N THEN s[n] ELSE 0]
           b == [n \in Nat |-> [x \in Nat |-> B * x + d[n]]]
           F == NumbersIn(B, s)
<1>0. N \in Nat
  OBVIOUS
<1>1. \A n \in Nat : d[n] \in Nat
  BY ElementOfSeq
<1>4. b \in [Nat -> [Nat -> Nat]]
  <2>1. \A n \in Nat, x \in Nat : B * x + d[n] \in Nat
    BY <1>1
  <2> HIDE DEF d
  <2> QED
    BY <2>1
<1>5. \E f \in [0..N -> Nat] : Chain(f, N, 0, b)
  <2> HIDE DEF b, N
  <2> QED
    BY <1>0, <1>4, Chains
<1>6. PICK g \in [0..N -> Nat] : Chain(g, N, 0, b)
  BY <1>5
<1>7. ASSUME NEW n \in 0..N PROVE g[n] = NumberRule(B, s, g, n)
  <2>1. n = 0 => g[n] = 0
    BY <1>6 DEF Chain
  <2>2. n # 0 => n \in 1..N /\ n \in Nat /\ g[n - 1] \in Nat
    BY <1>0, SMTT(60)
  <2>3. n # 0 => g[n] = b[n][g[n - 1]]
    BY <1>6, <2>2 DEF Chain
  <2>4. n # 0 => b[n][g[n - 1]] = B * g[n - 1] + d[n] /\ d[n] = s[n]
    BY <2>2
  <2> QED
    BY <2>1, <2>3, <2>4 DEF NumberRule
<1>8. F = [i \in 0..N |-> NumberRule(B, s, F, i)] /\ F = g
  <2>1. g = [i \in 0..N |-> NumberRule(B, s, g, i)]
    BY <1>7
  <2>2. \E f : f = [i \in 0..Len(s) |-> NumberRule(B, s, f, i)]
    BY <2>1
  <2>3. F = [i \in 0..N |-> NumberRule(B, s, F, i)]
    BY <2>2 DEF NumbersIn
  <2> HIDE DEF F, N
  <2>4. \A i \in 0..N : F[i] = NumberRule(B, s, F, i) /\ g[i] = NumberRule(B, s, g, i)
    BY <1>7, <2>3
  <2>5. F[0] = g[0] /\ \A i \in 1..N : F[i - 1] = g[i - 1] => F[i] = g[i]
    BY <1>0, <2>4, SMTT(60) DEF NumberRule
  <2>6. \A i \in 0..N : F[i] = g[i]
    <3>1. N \in Nat
      BY <1>0
    <3>2. GoOnAlike(N, F, g)
      BY <2>5, Zenon DEF GoOnAlike
    <3>3. \A x, y : GoOnAlike(N, x, y) => \A k \in 0..N : x[k] = y[k]
      BY <3>1, AllAlong
    <3> QED
      BY <3>2, <3>3, Zenon
  <2>7. F = g
    BY <2>3, <2>6
  <2> QED
    BY <2>3, <2>7
<1> HIDE DEF F
<1>9. \A i \in 0..N : F[i] = NumberRule(B, s, F, i)
  BY <1>8
<1>10. F[0] = 0 /\ \A i \in 1..N : F[i] = B * F[i - 1] + s[i]
  BY <1>0, <1>9 DEF NumberRule
<1>11. \A i \in 0..N : F[i] \in Nat
  BY <1>8
<1> QED
  BY <1>0, <1>10, <1>11 DEF F, NumberIn

\* Digits in common stand for the same number.
LEMMA SameNumbers ==
    ASSUME NEW B \in Nat, NEW s \in Seq(Nat), NEW t \in Seq(Nat), NEW n \in Nat,
           n <= Len(s), n <= Len(t), \A i \in 1..n : s[i] = t[i]
    PROVE  \A i \in 0..n : NumbersIn(B, s)[i] = NumbersIn(B, t)[i]
<1> DEFINE F == NumbersIn(B, s)
           G == NumbersIn(B, t)
<1>1. F[0] = 0 /\ G[0] = 0
  BY NumberSteps
<1>2. \A i \in 1..n : i \in 1..Len(s) /\ i \in 1..Len(t)
  OBVIOUS
<1>3. \A i \in 1..n : F[i] = B * F[i - 1] + s[i]
  BY <1>2, NumberSteps
<1>4. \A i \in 1..n : G[i] = B * G[i - 1] + t[i]
  BY <1>2, NumberSteps
<1> HIDE DEF F, G
<1>5. GoOnAlike(n, F, G)
  BY <1>1, <1>3, <1>4 DEF GoOnAlike
<1>6. \A x, y : GoOnAlike(n, x, y) => \A k \in 0..n : x[k] = y[k]
  BY AllAlong
<1>7. \A k \in 0..n : F[k] = G[k]
  BY <1>5, <1>6, Zenon
<1> QED
  BY <1>7 DEF F, G

\* Digits below the base are told by their number.
LEMMA NumberTells ==
    ASSUME NEW B \in Nat, NEW s \in Seq(0..(B - 1)), NEW t \in Seq(0..(B - 1)),
           Len(s) = Len(t), NumberIn(B, s) = NumberIn(B, t)
    PROVE  s = t
<1> DEFINE F == NumbersIn(B, s)
           G == NumbersIn(B, t)
           n == Len(s)
<1>0. n \in Nat /\ \A i \in 1..n : s[i] \in Nat /\ s[i] < B /\ t[i] \in Nat /\ t[i] < B
  BY ElementOfSeq
<1>s. s \in Seq(Nat) /\ t \in Seq(Nat)
  <2>1. 0..(B - 1) \subseteq Nat
    OBVIOUS
  <2> QED
    BY <2>1
<1>1. /\ \A i \in 1..n : F[i] = B * F[i - 1] + s[i]
      /\ \A i \in 0..n : F[i] \in Nat
  BY <1>s, NumberSteps
<1>2. /\ \A i \in 1..n : G[i] = B * G[i - 1] + t[i]
      /\ \A i \in 0..n : G[i] \in Nat
  BY <1>s, NumberSteps
<1>3. F[n] = G[n]
  BY DEF NumberIn
<1> HIDE DEF F, G, n
<1>4. ASSUME NEW i \in 1..n, F[i] = G[i] PROVE F[i - 1] = G[i - 1] /\ s[i] = t[i]
  <2> DEFINE x == F[i - 1]
             y == G[i - 1]
             c == s[i]
             d == t[i]
  <2>1. x \in Nat /\ y \in Nat /\ c \in Nat /\ d \in Nat /\ c < B /\ d < B
    <3>1. i - 1 \in 0..n
      BY <1>0
    <3> QED
      BY <1>0, <1>1, <1>2, <3>1
  <2>2. B * x + c = B * y + d
    BY <1>1, <1>2, <1>4
  <2> HIDE DEF x, y, c, d
  <2>3. (B * x + c) \div B = x /\ (B * x + c) % B = c
    BY <2>1, Quotients
  <2>4. (B * y + d) \div B = y /\ (B * y + d) % B = d
    BY <2>1, Quotients
  <2>5. x = y /\ c = d
    BY <2>2, <2>3, <2>4
  <2> QED
    BY <2>5 DEF x, y, c, d
<1> DEFINE T == {k \in Nat : k <= n => F[n - k] = G[n - k]}
<1>5. ASSUME NEW k \in Nat, \A m \in 0..(k - 1) : m \in T PROVE k \in T
  <2> SUFFICES ASSUME k <= n PROVE F[n - k] = G[n - k]
    OBVIOUS
  <2>1. CASE k = 0
    <3>1. n - k = n
      BY <1>0, <2>1
    <3> QED
      BY <1>3, <3>1
  <2>2. CASE k # 0
    <3>1. k - 1 \in 0..(k - 1) /\ k - 1 <= n /\ n - (k - 1) \in 1..n /\ (n - (k - 1)) - 1 = n - k
      BY <1>0, <2>2
    <3>2. F[n - (k - 1)] = G[n - (k - 1)]
      BY <1>5, <3>1
    <3>3. F[(n - (k - 1)) - 1] = G[(n - (k - 1)) - 1]
      BY <1>4, <3>1, <3>2
    <3> QED
      BY <3>1, <3>3
  <2> QED
    BY <2>1, <2>2
<1>6. \A k \in Nat : k \in T
  <2> HIDE DEF T
  <2> QED
    BY <1>5, Induct
<1>7. \A i \in 1..n : F[i] = G[i]
  <2> TAKE i \in 1..n
  <2>1. n - i \in Nat /\ n - i <= n /\ n - (n - i) = i
    BY <1>0
  <2>2. n - i \in T
    BY <1>6, <2>1
  <2> QED
    BY <2>1, <2>2
<1>8. \A i \in 1..n : s[i] = t[i]
  BY <1>4, <1>7
<1> QED
  BY <1>8, SeqEqual DEF n

\* Multiples do not show in the remainder.
LEMMA Multiples ==
    ASSUME NEW M \in Nat, M > 0, NEW k \in Nat, NEW w \in Nat
    PROVE  (M * k + w) % M = w % M /\ (M * k + w) \div M = k + (w \div M)
<1> DEFINE q == w \div M
           r == w % M
<1>1. q \in Nat /\ r \in Nat /\ r < M /\ w = M * q + r
  BY Quotients
<1> HIDE DEF q, r
<1>2. M * k + (M * q + r) = M * (k + q) + r /\ k + q \in Nat
  BY <1>1
<1>3. (M * (k + q) + r) % M = r /\ (M * (k + q) + r) \div M = k + q
  BY <1>1, <1>2, Quotients
<1>4. M * k + w = M * (k + q) + r
  BY <1>1, <1>2
<1> QED
  BY <1>3, <1>4 DEF q, r

\* Quotients of quotients.
LEMMA DivDiv ==
    ASSUME NEW x \in Nat, NEW P \in Nat, P > 0, NEW Q \in Nat, Q > 0
    PROVE  (x \div P) \div Q = x \div (P * Q)
<1> DEFINE q == x \div P
           r == x % P
           c == q \div Q
           d == q % Q
           k == P * d + r
<1>1. q \in Nat /\ r \in Nat /\ r < P /\ x = P * q + r
  BY Quotients
<1>2. c \in Nat /\ d \in Nat /\ d < Q /\ q = Q * c + d
  BY <1>1, Quotients
<1> HIDE DEF q, r, c, d
<1>3. x = (P * Q) * c + k
  <2>1. P * (Q * c + d) = P * (Q * c) + P * d
    BY <1>2
  <2>2. P * (Q * c) = (P * Q) * c
    BY <1>2
  <2>3. P * d \in Nat /\ (P * Q) * c \in Nat
    BY <1>2
  <2> QED
    BY <1>1, <1>2, <2>1, <2>2, <2>3
<1>4. k \in Nat /\ k < P * Q
  <2>1. d + 1 <= Q /\ P * d \in Nat /\ P * (d + 1) = P * d + P
    BY <1>2
  <2>2. P * (d + 1) <= P * Q
    BY <1>2, <2>1
  <2> QED
    BY <1>1, <2>1, <2>2
<1>5. P * Q \in Nat
  OBVIOUS
<1> HIDE DEF k
<1>6. x \div (P * Q) = c
  BY <1>2, <1>3, <1>4, <1>5, Quotients
<1> QED
  BY <1>6 DEF c, q

\* Remainders of remainders.
LEMMA ModMod ==
    ASSUME NEW x \in Nat, NEW P \in Nat, P > 0, NEW Q \in Nat, Q > 0
    PROVE  (x % (P * Q)) % P = x % P
<1> DEFINE M == P * Q
           c == x \div M
           y == x % M
<1>1. M \in Nat /\ M > 0
  OBVIOUS
<1>2. c \in Nat /\ y \in Nat /\ x = M * c + y
  <2> HIDE DEF M
  <2> QED
    BY <1>1, Quotients
<1> HIDE DEF c, y
<1>3. M * c = P * (Q * c) /\ Q * c \in Nat
  BY <1>2
<1> HIDE DEF M
<1>4. x = P * (Q * c) + y
  BY <1>2, <1>3
<1>5. (P * (Q * c) + y) % P = y % P
  BY <1>2, <1>3, Multiples, ZenonT(60)
<1> QED
  BY <1>4, <1>5 DEF y, M

\* A digit of x is one of x % M.
DigitBelow(x, M, P, Q) == ((x % M) \div P) % Q = (x \div P) % Q

\* Digits in the middle of a number do not depend on those far above.
LEMMA Middle ==
    ASSUME NEW x \in Nat, NEW P \in Nat, P > 0, NEW Q \in Nat, Q > 0, NEW R \in Nat, R > 0
    PROVE  DigitBelow(x, P * (Q * R), P, Q)
<1> DEFINE M == P * (Q * R)
           c == x \div M
           y == x % M
<1>0. Q * R \in Nat /\ Q * R > 0
  OBVIOUS
<1>1. M \in Nat /\ M > 0
  BY <1>0
<1>2. c \in Nat /\ y \in Nat /\ x = M * c + y
  <2> HIDE DEF M
  <2> QED
    BY <1>1, Quotients
<1> HIDE DEF c, y
<1>3. M * c = P * (Q * (R * c)) /\ R * c \in Nat /\ Q * (R * c) \in Nat
  <2>1. M * c = P * ((Q * R) * c) /\ (Q * R) * c = Q * (R * c)
    BY <1>0, <1>2
  <2> QED
    BY <1>2, <2>1
<1> HIDE DEF M
<1> DEFINE k == Q * (R * c)
<1>4. x = P * k + y
  BY <1>2, <1>3
<1>5. k \in Nat
  BY <1>3
<1> HIDE DEF k
<1>6. x \div P = k + (y \div P) /\ y \div P \in Nat
  <2>1. (P * k + y) \div P = k + (y \div P)
    BY <1>2, <1>5, Multiples
  <2>2. y \div P \in Nat
    BY <1>2, Quotients
  <2> QED
    BY <1>4, <2>1, <2>2
<1> DEFINE u == y \div P
           e == R * c
<1>7. u \in Nat /\ e \in Nat /\ k = Q * e
  BY <1>3, <1>6 DEF k
<1> HIDE DEF u, e
<1>8. (Q * e + u) % Q = u % Q
  BY <1>7, Multiples
<1>9. x \div P = Q * e + u
  BY <1>6, <1>7 DEF u
<1> QED
  BY <1>8, <1>9 DEF u, y, M, DigitBelow

\* Two numbers have the same remainder.
SameRest(u, v, M) == u % M = v % M

\* A remainder may be taken early.
LEMMA ModEarly ==
    ASSUME NEW x \in Nat, NEW A \in Nat, NEW y \in Nat, NEW M \in Nat, M > 0
    PROVE  SameRest((x % M) * A + y, A * x + y, M)
<1> DEFINE c == x \div M
           z == x % M
<1>1. c \in Nat /\ z \in Nat /\ x = M * c + z
  BY Quotients
<1> HIDE DEF c, z
<1>2. A * x = M * (A * c) + z * A /\ A * c \in Nat /\ z * A \in Nat
  <2>1. A * (M * c + z) = A * (M * c) + A * z
    BY <1>1
  <2>2. A * (M * c) = M * (A * c) /\ A * z = z * A
    BY <1>1
  <2> QED
    BY <1>1, <2>1, <2>2
<1> DEFINE k == A * c
           w == z * A + y
<1>3. k \in Nat /\ w \in Nat
  BY <1>2
<1>4. A * x + y = M * k + w
  <2>1. M * (A * c) \in Nat
    BY <1>1, <1>2
  <2> DEFINE u == M * (A * c)
             v == z * A
  <2>2. u \in Nat /\ v \in Nat /\ A * x = u + v
    BY <1>2, <2>1
  <2> HIDE DEF u, v
  <2>3. A * x + y = u + (v + y)
    BY <2>2
  <2> QED
    BY <2>3 DEF u, v
<1> HIDE DEF k, w
<1>5. (M * k + w) % M = w % M
  BY <1>3, Multiples
<1> QED
  BY <1>4, <1>5 DEF w, z, SameRest

\* A common factor.
LEMMA ModScaled ==
    ASSUME NEW x \in Nat, NEW P \in Nat, P > 0, NEW R \in Nat, R > 0
    PROVE  (x * R) % (P * R) = (x % P) * R
<1> DEFINE q == x \div P
           r == x % P
           M == P * R
           k == r * R
<1>1. q \in Nat /\ r \in Nat /\ r < P /\ x = P * q + r
  BY Quotients
<1> HIDE DEF q, r
<1>2. x * R = M * q + k
  <2>1. (P * q + r) * R = (P * q) * R + r * R
    BY <1>1
  <2>2. (P * q) * R = (P * R) * q
    BY <1>1
  <2> QED
    BY <1>1, <2>1, <2>2
<1>3. M \in Nat /\ M > 0 /\ k \in Nat /\ k < M
  <2>1. M \in Nat /\ M > 0 /\ k \in Nat
    BY <1>1
  <2>2. r * R < P * R
    BY <1>1
  <2> QED
    BY <2>1, <2>2
<1> HIDE DEF M, k
<1>4. (M * q + k) % M = k
  BY <1>1, <1>3, Quotients
<1> QED
  BY <1>2, <1>4 DEF M, k, r

-----------------------------------------------------------------------------
(* Groups of bits *)

\* The elements of two sequences, one behind the other.
JoinOf(D, u, a, b) ==
    /\ u \in Seq(D) /\ Len(u) = Len(a) + Len(b)
    /\ \A i \in 1..Len(a) : u[i] = a[i]
    /\ \A i \in 1..Len(b) : u[Len(a) + i] = b[i]

\* \o puts them so.
LEMMA Joining ==
    ASSUME NEW D, NEW a \in Seq(D), NEW b \in Seq(D)
    PROVE  JoinOf(D, a \o b, a, b)
  BY ConcatProperties DEF JoinOf

\* A group of k bits.
Bits(k) == 0..(Pow(2, k) - 1)

\* One step of ConvertBits, and all of them.
NextAcc(p, x, from, to) == (p.acc * Pow(2, from) + x) % Pow(2, from + to - 1)
Emitted(acc, bits, to) ==
    [j \in 1..(bits \div to) |-> (acc \div Pow(2, bits - j * to)) % Pow(2, to)]
BitsAfter(p, x, from, to) ==
    [acc |-> NextAcc(p, x, from, to), bits |-> (p.bits + from) % to,
     out |-> p.out \o Emitted(NextAcc(p, x, from, to), p.bits + from, to)]
NoBits == [acc |-> 0, bits |-> 0, out |-> <<>>]
BitsRule(s, from, to, f, i) == IF i = 0 THEN NoBits ELSE BitsAfter(f[i - 1], s[i], from, to)
BitSteps(s, from, to) == CHOOSE f : f = [i \in 0..Len(s) |-> BitsRule(s, from, to, f, i)]

\* ConvertBits looks at the last step.
LastBits(end, to) == (end.acc * Pow(2, to - end.bits)) % Pow(2, to)
PaddedBits(end, to) == IF end.bits > 0 THEN Append(end.out, LastBits(end, to)) ELSE end.out

\* It fills up the bits it holds back, or refuses them unless they are a filling.
LEMMA ConvertBitsIs ==
    \A s, from, to :
       LET end == BitSteps(s, from, to)[Len(s)] IN
       /\ ConvertBits(s, from, to, TRUE) = [ok |-> TRUE, out |-> PaddedBits(end, to)]
       /\ ConvertBits(s, from, to, FALSE)
            = [ok |-> end.bits < from /\ LastBits(end, to) = 0, out |-> end.out]
<1> SUFFICES ASSUME NEW s, NEW from, NEW to
             PROVE LET end == BitSteps(s, from, to)[Len(s)] IN
                   /\ ConvertBits(s, from, to, TRUE) = [ok |-> TRUE, out |-> PaddedBits(end, to)]
                   /\ ConvertBits(s, from, to, FALSE)
                        = [ok |-> end.bits < from /\ LastBits(end, to) = 0, out |-> end.out]
  OBVIOUS
<1> DEFINE end == BitSteps(s, from, to)[Len(s)]
<1>1. ConvertBits(s, from, to, TRUE)
         = IF TRUE THEN [ok |-> TRUE, out |-> PaddedBits(end, to)]
           ELSE [ok |-> end.bits < from /\ LastBits(end, to) = 0, out |-> end.out]
  BY Zenon DEF ConvertBits, BitSteps, BitsRule, BitsAfter, NextAcc, Emitted, NoBits, LastBits, PaddedBits
<1>2. ConvertBits(s, from, to, FALSE)
         = IF FALSE THEN [ok |-> TRUE, out |-> PaddedBits(end, to)]
           ELSE [ok |-> end.bits < from /\ LastBits(end, to) = 0, out |-> end.out]
  BY Zenon DEF ConvertBits, BitSteps, BitsRule, BitsAfter, NextAcc, Emitted, NoBits, LastBits, PaddedBits
<1> HIDE DEF end
<1> QED
  BY <1>1, <1>2 DEF end

\* The powers of two.
LEMMA Twos ==
    /\ Pow(2, 0) = 1
    /\ \A k \in Nat : Pow(2, k) \in Nat /\ Pow(2, k) > 0
    /\ \A m, n \in Nat : Pow(2, m + n) = Pow(2, m) * Pow(2, n)
<1>1. 2 \in Nat /\ 2 > 0
  OBVIOUS
<1> QED
  BY <1>1, PowSteps, PowPlus

\* Groups of bits are numbers.
LEMMA BitsAreNumbers ==
    ASSUME NEW k \in Nat
    PROVE  /\ Bits(k) \subseteq Nat /\ Seq(Bits(k)) \subseteq Seq(Nat)
           /\ \A x \in Nat : x % Pow(2, k) \in Bits(k)
<1>1. Pow(2, k) \in Nat /\ Pow(2, k) > 0
  BY Twos
<1> DEFINE P == Pow(2, k)
<1> HIDE DEF P
<1>2. P \in Nat /\ P > 0 /\ Bits(k) = 0..(P - 1)
  BY <1>1 DEF P, Bits
<1>3. Bits(k) \subseteq Nat
  BY <1>2
<1>4. Seq(Bits(k)) \subseteq Seq(Nat)
  BY <1>3
<1>5. ASSUME NEW x \in Nat PROVE x % P \in Bits(k)
  <2>1. x % P \in Nat /\ x % P < P
    BY <1>2, Quotients
  <2> QED
    BY <1>2, <2>1
<1> QED
  BY <1>3, <1>4, <1>5 DEF P

\* The groups e are the K next ones of x, of which t bits are left.
NextGroups(e, K, x, t, b) ==
    /\ K \in Nat /\ t = b * K + (t % b) /\ t % b \in 0..(b - 1)
    /\ e \in Seq(Bits(b)) /\ Len(e) = K
    /\ \A j \in 1..K : t - j * b \in Nat /\ e[j] = (x \div Pow(2, t - j * b)) % Pow(2, b)

\* The groups that a step puts out are the next ones.
LEMMA EmittedBits ==
    ASSUME NEW a \in Nat, a > 0, NEW b \in Nat, b > 0, NEW x \in Nat, NEW t \in Nat, t <= a + b - 1,
           NEW e, e = Emitted(x % Pow(2, a + b - 1), t, b), NEW K, K = t \div b
    PROVE  NextGroups(e, K, x, t, b)
<1> DEFINE acc == x % Pow(2, a + b - 1)
<1>1. K \in Nat /\ t % b \in Nat /\ t % b < b /\ t = b * K + (t % b)
  BY Quotients
<1>2. a + b - 1 \in Nat
  OBVIOUS
<1>3. acc \in Nat
  <2>1. Pow(2, a + b - 1) \in Nat /\ Pow(2, a + b - 1) > 0
    BY <1>2, Twos
  <2> QED
    BY <2>1, Quotients
<1>4. ASSUME NEW j \in 1..K PROVE t - j * b \in Nat /\ t - j * b + b <= t
  <2> DEFINE r == t % b
  <2> HIDE DEF r
  <2>1. t = b * K + r /\ r \in Nat /\ K \in Nat /\ j \in Nat /\ j <= K /\ 1 <= j
    BY <1>1 DEF r
  <2>2. b * j <= b * K /\ b * j >= b /\ j * b = b * j /\ b * j \in Nat
    BY <2>1
  <2> QED
    BY <2>1, <2>2
<1>5. ASSUME NEW j \in 1..K
      PROVE  /\ (acc \div Pow(2, t - j * b)) % Pow(2, b) = (x \div Pow(2, t - j * b)) % Pow(2, b)
             /\ (acc \div Pow(2, t - j * b)) % Pow(2, b) \in Bits(b)
  <2> DEFINE u == t - j * b
             v == (a + b - 1) - (u + b)
             P == Pow(2, u)
             Q == Pow(2, b)
             R == Pow(2, v)
  <2>1. u \in Nat /\ u + b <= t
    BY <1>4
  <2> HIDE DEF u
  <2>2. v \in Nat /\ u + (b + v) = a + b - 1 /\ b + v \in Nat
    BY <2>1
  <2> HIDE DEF v
  <2>3. P \in Nat /\ P > 0 /\ Q \in Nat /\ Q > 0 /\ R \in Nat /\ R > 0
    BY <2>1, <2>2, Twos
  <2>4. Pow(2, a + b - 1) = P * (Q * R)
    <3>1. Pow(2, u + (b + v)) = Pow(2, u) * Pow(2, b + v)
      BY <2>1, <2>2, Twos
    <3>2. Pow(2, b + v) = Pow(2, b) * Pow(2, v)
      BY <2>2, Twos
    <3> QED
      BY <2>2, <3>1, <3>2
  <2>5. acc \div P \in Nat
    <3> HIDE DEF P, acc
    <3> QED
      BY <1>3, <2>3, Quotients
  <2>6. (acc \div P) % Q \in Bits(b)
    <3> HIDE DEF P, acc
    <3> QED
      BY <2>5, BitsAreNumbers
  <2> HIDE DEF P, Q, R
  <2>7. DigitBelow(x, P * (Q * R), P, Q)
    BY <2>3, Middle
  <2>8. (acc \div P) % Q = (x \div P) % Q
    BY <2>4, <2>7 DEF DigitBelow
  <2> QED
    BY <2>6, <2>8 DEF P, Q, u
<1>6. e = [j \in 1..K |-> (acc \div Pow(2, t - j * b)) % Pow(2, b)]
  BY Zenon DEF Emitted
<1> HIDE DEF acc
<1>7. e \in [1..K -> Bits(b)] /\ \A j \in 1..K : e[j] = (acc \div Pow(2, t - j * b)) % Pow(2, b)
  BY <1>5, <1>6
<1>8. e \in Seq(Bits(b)) /\ Len(e) = K
  BY <1>1, <1>7, FunctionIsSeq
<1>9. \A j \in 1..K : t - j * b \in Nat /\ e[j] = (x \div Pow(2, t - j * b)) % Pow(2, b)
  BY <1>4, <1>5, <1>7
<1>10. t % b \in 0..(b - 1)
  BY <1>1
<1> QED
  BY <1>1, <1>8, <1>9, <1>10 DEF NextGroups

\* With the groups e behind those in o, all but the last bits of x are there.
Grouped(o, e, x, t, b) ==
    /\ o \o e \in Seq(Bits(b)) /\ Len(o \o e) * b + (t % b) = Len(o) * b + t
    /\ NumberIn(Pow(2, b), o \o e) = x \div Pow(2, t % b)

\* Appended to the groups before, they are the bits of x but the last t % b.
LEMMA Emits ==
    ASSUME NEW a \in Nat, a > 0, NEW b \in Nat, b > 0, NEW x \in Nat, NEW t \in Nat, t <= a + b - 1,
           NEW o \in Seq(Bits(b)), NumberIn(Pow(2, b), o) = x \div Pow(2, t),
           NEW e, e = Emitted(x % Pow(2, a + b - 1), t, b)
    PROVE  Grouped(o, e, x, t, b)
<1> DEFINE K == t \div b
           W == o \o e
           Q == Pow(2, b)
           L == Len(o)
           F == NumbersIn(Q, W)
<1>1. /\ K \in Nat /\ t = b * K + (t % b) /\ t % b \in 0..(b - 1)
      /\ e \in Seq(Bits(b)) /\ Len(e) = K
      /\ \A j \in 1..K : t - j * b \in Nat /\ e[j] = (x \div Pow(2, t - j * b)) % Pow(2, b)
  <2>1. K = t \div b
    OBVIOUS
  <2> HIDE DEF K
  <2>2. NextGroups(e, K, x, t, b)
    BY <2>1, EmittedBits
  <2> QED
    BY <2>2 DEF NextGroups
<1>2. Q \in Nat /\ Q > 0
  BY Twos
<1>3. /\ W \in Seq(Bits(b)) /\ Len(W) = L + K /\ L \in Nat
      /\ \A i \in 1..L : W[i] = o[i]
      /\ \A j \in 1..K : W[L + j] = e[j]
  <2>1. o \in Seq(Bits(b)) /\ e \in Seq(Bits(b)) /\ Len(e) = K /\ K \in Nat
    BY <1>1
  <2>2. /\ W \in Seq(Bits(b)) /\ Len(W) = Len(o) + Len(e)
        /\ \A i \in 1..Len(o) : W[i] = o[i]
        /\ \A i \in 1..Len(e) : W[Len(o) + i] = e[i]
    <3> DEFINE S == Bits(b)
    <3>1. o \in Seq(S) /\ e \in Seq(S)
      BY <2>1
    <3> HIDE DEF S, K
    <3>2. JoinOf(S, o \o e, o, e)
      BY <3>1, Joining
    <3> QED
      BY <3>2 DEF JoinOf, S
  <2>3. Len(o) \in Nat
    BY <2>1
  <2> HIDE DEF K, W
  <2> QED
    BY <2>1, <2>2, <2>3
<1>4. W \in Seq(Nat) /\ o \in Seq(Nat)
  BY <1>3, BitsAreNumbers
<1> HIDE DEF K, W, L, F, Q
<1>5. F[L] = x \div Pow(2, t)
  <2>1. \A i \in 0..L : NumbersIn(Q, W)[i] = NumbersIn(Q, o)[i]
    <3>1. L <= Len(W) /\ L <= Len(o) /\ L \in Nat
      BY <1>1, <1>3 DEF L
    <3>2. \A i \in 1..L : W[i] = o[i]
      BY <1>3
    <3> QED
      BY <1>2, <1>4, <3>1, <3>2, SameNumbers, ZenonT(60)
  <2>2. NumbersIn(Q, o)[L] = x \div Pow(2, t)
    BY DEF NumberIn, Q, L
  <2>3. L \in 0..L
    BY <1>3
  <2> QED
    BY <2>1, <2>2, <2>3 DEF F
<1>6. \A i \in 1..(L + K) : F[i] = Q * F[i - 1] + W[i]
  <2>1. \A i \in 1..Len(W) : NumbersIn(Q, W)[i] = Q * NumbersIn(Q, W)[i - 1] + W[i]
    BY <1>2, <1>4, NumberSteps
  <2> QED
    BY <1>3, <2>1 DEF F
<1> DEFINE T == {j \in Nat : j <= K => F[L + j] = x \div Pow(2, t - j * b)}
<1>7. ASSUME NEW j \in Nat, \A m \in 0..(j - 1) : m \in T PROVE j \in T
  <2> SUFFICES ASSUME j <= K PROVE F[L + j] = x \div Pow(2, t - j * b)
    OBVIOUS
  <2>1. CASE j = 0
    <3>1. L + j = L /\ t - j * b = t
      BY <1>3, <2>1
    <3> QED
      BY <1>5, <3>1
  <2>2. CASE j # 0
    <3> DEFINE u == t - j * b
               P == Pow(2, u)
               y == x \div P
    <3>1. j \in 1..K /\ j - 1 \in 0..(j - 1) /\ j - 1 <= K /\ L + j \in 1..(L + K)
          /\ (L + j) - 1 = L + (j - 1)
      BY <1>1, <1>3, <2>2
    <3>2. u \in Nat /\ W[L + j] = y % Q
      BY <1>1, <1>3, <3>1 DEF Q
    <3>3. t - (j - 1) * b = u + b
      OBVIOUS
    <3> HIDE DEF u
    <3>4. P \in Nat /\ P > 0
      BY <3>2, Twos
    <3>5. Pow(2, u + b) = P * Q
      BY <3>2, Twos DEF Q
    <3> HIDE DEF P
    <3>6. y \in Nat
      BY <3>4, Quotients
    <3>7. F[L + (j - 1)] = y \div Q
      <4>1. F[L + (j - 1)] = x \div Pow(2, t - (j - 1) * b)
        BY <1>7, <3>1
      <4>2. y \div Q = x \div (P * Q)
        BY <1>2, <3>4, DivDiv
      <4> QED
        BY <3>3, <3>5, <4>1, <4>2
    <3>8. F[L + j] = Q * F[L + (j - 1)] + W[L + j]
      BY <1>6, <3>1
    <3> HIDE DEF y
    <3>9. y = Q * (y \div Q) + (y % Q)
      BY <1>2, <3>6, Quotients
    <3>10. F[L + j] = y
      BY <3>2, <3>7, <3>8, <3>9
    <3> QED
      BY <3>10 DEF y, P, u
  <2> QED
    BY <2>1, <2>2
<1>8. \A j \in Nat : j \in T
  <2> HIDE DEF T
  <2> QED
    BY <1>7, Induct
<1>9. F[L + K] = x \div Pow(2, t - K * b)
  BY <1>1, <1>8
<1>10. t - K * b = t % b
  <2>1. K * b = b * K /\ b * K \in Nat
    BY <1>1
  <2> QED
    BY <1>1, <2>1
<1>11. NumberIn(Q, W) = x \div Pow(2, t % b)
  BY <1>3, <1>9, <1>10 DEF NumberIn, F
<1>12. Len(W) * b + (t % b) = L * b + t
  <2>1. (L + K) * b = L * b + b * K /\ L * b \in Nat /\ b * K \in Nat
    BY <1>1, <1>3
  <2> QED
    BY <1>1, <1>3, <2>1
<1> QED
  BY <1>3, <1>11, <1>12 DEF W, Q, L, Grouped

\* What is kept between two steps, and the fields after one.
BitStates(b) == [acc : Nat, bits : 0..(b - 1), out : Seq(Bits(b))]

\* A step keeps to them.
LEMMA StepStays ==
    ASSUME NEW a \in Nat, a > 0, NEW b \in Nat, b > 0, NEW p \in BitStates(b), NEW c \in Nat
    PROVE  BitsAfter(p, c, a, b) \in BitStates(b)
<1> DEFINE x == p.acc * Pow(2, a) + c
           t == p.bits + a
           M == Pow(2, a + b - 1)
           e == Emitted(x % M, t, b)
           K == t \div b
<1>1. p.acc \in Nat /\ p.bits \in 0..(b - 1) /\ p.out \in Seq(Bits(b))
  BY DEF BitStates
<1>2. Pow(2, a) \in Nat /\ M \in Nat /\ M > 0
  <2>1. a + b - 1 \in Nat
    OBVIOUS
  <2> QED
    BY <2>1, Twos
<1>3. x \in Nat
  <2> DEFINE P == Pow(2, a)
             y == p.acc
  <2>1. P \in Nat /\ y \in Nat
    BY <1>1, <1>2
  <2> HIDE DEF P, y
  <2>2. y * P + c \in Nat
    BY <2>1
  <2> QED
    BY <2>2 DEF P, y
<1>4. t \in Nat /\ t <= a + b - 1
  BY <1>1
<1> HIDE DEF x, t, M, e, K
<1>5. NextGroups(e, K, x, t, b)
  BY <1>3, <1>4, EmittedBits DEF e, K, M
<1>6. e \in Seq(Bits(b)) /\ t % b \in 0..(b - 1)
  BY <1>5 DEF NextGroups
<1>7. x % M \in Nat
  BY <1>2, <1>3, Quotients
<1>8. p.out \o e \in Seq(Bits(b))
  BY <1>1, <1>6, ConcatProperties
<1>9. BitsAfter(p, c, a, b) = [acc |-> x % M, bits |-> t % b, out |-> p.out \o e]
  BY Zenon DEF BitsAfter, NextAcc, x, t, M, e
<1> QED
  BY <1>6, <1>7, <1>8, <1>9 DEF BitStates

\* The steps of ConvertBits, one at a time.
LEMMA BitStepsAre ==
    ASSUME NEW a \in Nat, a > 0, NEW b \in Nat, b > 0, NEW s \in Seq(Nat)
    PROVE  /\ BitSteps(s, a, b)[0] = NoBits
           /\ \A i \in 1..Len(s) :
                 BitSteps(s, a, b)[i] = BitsAfter(BitSteps(s, a, b)[i - 1], s[i], a, b)
<1> DEFINE S == BitStates(b)
           N == Len(s)
           d == [n \in Nat |-> IF n \in 1..N THEN s[n] ELSE 0]
           r == [n \in Nat |-> [p \in S |-> BitsAfter(p, d[n], a, b)]]
           F == BitSteps(s, a, b)
<1>0. N \in Nat
  OBVIOUS
<1>1. \A n \in Nat : d[n] \in Nat
  BY ElementOfSeq
<1>2. \A n \in 1..N : d[n] = s[n]
  OBVIOUS
<1> HIDE DEF d
<1>3. \A n \in Nat : \A p \in S : BitsAfter(p, d[n], a, b) \in S
  BY <1>1, StepStays
<1>4. r \in [Nat -> [S -> S]]
  <2> HIDE DEF S
  <2> QED
    BY <1>3
<1>5. NoBits \in S
  <2>1. 0 \in 0..(b - 1) /\ 0 \in Nat /\ <<>> \in Seq(Bits(b))
    OBVIOUS
  <2> QED
    BY <2>1 DEF NoBits, BitStates
<1> HIDE DEF N, S
<1>6. \E f \in [0..N -> S] : Chain(f, N, NoBits, r)
  <2> HIDE DEF r
  <2> QED
    BY <1>0, <1>4, <1>5, Chains
<1>7. PICK g \in [0..N -> S] : Chain(g, N, NoBits, r)
  BY <1>6
<1>8. ASSUME NEW n \in 0..N PROVE g[n] = BitsRule(s, a, b, g, n)
  <2>1. n = 0 => g[n] = NoBits
    BY <1>7 DEF Chain
  <2>2. n # 0 => n \in 1..N /\ n \in Nat /\ g[n - 1] \in S
    BY <1>0
  <2>3. n # 0 => g[n] = r[n][g[n - 1]]
    BY <1>7, <2>2 DEF Chain
  <2>4. n # 0 => r[n][g[n - 1]] = BitsAfter(g[n - 1], s[n], a, b)
    BY <1>2, <2>2
  <2> QED
    BY <2>1, <2>3, <2>4 DEF BitsRule
<1>9. F = [i \in 0..N |-> BitsRule(s, a, b, F, i)]
  <2>1. g = [i \in 0..N |-> BitsRule(s, a, b, g, i)]
    BY <1>8
  <2>2. \E f : f = [i \in 0..Len(s) |-> BitsRule(s, a, b, f, i)]
    BY <2>1 DEF N
  <2> QED
    BY <2>2, Zenon DEF BitSteps, N
<1> HIDE DEF F
<1>10. \A i \in 0..N : F[i] = BitsRule(s, a, b, F, i)
  BY <1>9
<1>11. F[0] = NoBits
  <2>1. 0 \in 0..N
    BY <1>0
  <2> QED
    BY <1>10, <2>1 DEF BitsRule
<1>12. \A i \in 1..N : F[i] = BitsAfter(F[i - 1], s[i], a, b)
  <2> TAKE i \in 1..N
  <2>1. i \in 0..N /\ i # 0
    BY <1>0
  <2> QED
    BY <1>10, <2>1 DEF BitsRule
<1> QED
  BY <1>11, <1>12 DEF F, N

\* Where ConvertBits is when it has read i groups of a bits, which stand for x.
BitsRead(x, i, a, b, p) ==
    /\ p.bits \in 0..(b - 1) /\ p.acc = x % Pow(2, a + b - 1)
    /\ p.out \in Seq(Bits(b)) /\ Len(p.out) * b + p.bits = i * a
    /\ NumberIn(Pow(2, b), p.out) = x \div Pow(2, p.bits)

\* One more group.
LEMMA BitsGoOn ==
    ASSUME NEW a \in Nat, a > 0, NEW b \in Nat, b > 0, NEW x \in Nat, NEW c \in Bits(a),
           NEW i \in Nat, NEW p, BitsRead(x, i, a, b, p), NEW y, y = Pow(2, a) * x + c
    PROVE  y \in Nat /\ BitsRead(y, i + 1, a, b, BitsAfter(p, c, a, b))
<1> DEFINE A == Pow(2, a)
           M == Pow(2, a + b - 1)
           t == p.bits + a
           e == Emitted(y % M, t, b)
           o == p.out
           q == p.bits
<1>1. q \in Nat /\ q < b /\ o \in Seq(Bits(b)) /\ Len(o) \in Nat /\ Len(o) * b + q = i * a
      /\ p.acc = x % M /\ NumberIn(Pow(2, b), o) = x \div Pow(2, q)
  BY SMTT(60) DEF BitsRead
<1>2. A \in Nat /\ A > 0 /\ M \in Nat /\ M > 0 /\ c \in Nat /\ c < A
  <2>1. a + b - 1 \in Nat
    OBVIOUS
  <2>2. A \in Nat /\ A > 0 /\ M \in Nat /\ M > 0
    BY <2>1, Twos
  <2>3. c \in 0..(A - 1)
    BY DEF Bits
  <2> HIDE DEF A, M
  <2> QED
    BY <2>2, <2>3
<1> HIDE DEF A, M
<1>3. y \in Nat /\ y = A * x + c
  BY <1>2 DEF A
<1>4. y \div A = x
  BY <1>2, <1>3, Quotients
<1>5. NextAcc(p, c, a, b) = y % M
  <2>1. SameRest((x % M) * A + c, A * x + c, M)
    BY <1>2, ModEarly
  <2>2. NextAcc(p, c, a, b) = (p.acc * A + c) % M
    BY DEF NextAcc, A, M
  <2> QED
    BY <1>1, <1>3, <2>1, <2>2, Zenon DEF SameRest
<1> HIDE DEF o, q
<1>6. t = a + q /\ t \in Nat /\ t <= a + b - 1
  BY <1>1, SMTT(60) DEF q
<1>7. x \div Pow(2, q) = y \div Pow(2, t)
  <2> DEFINE Q == Pow(2, q)
  <2>1. Q \in Nat /\ Q > 0
    BY <1>1, Twos
  <2>2. Pow(2, t) = A * Q
    BY <1>1, <1>6, Twos DEF A
  <2> HIDE DEF Q
  <2>3. (y \div A) \div Q = y \div (A * Q)
    BY <1>2, <1>3, <2>1, DivDiv
  <2> QED
    BY <1>4, <2>2, <2>3 DEF Q
<1> HIDE DEF t, e
<1>8. /\ o \o e \in Seq(Bits(b)) /\ Len(o \o e) * b + (t % b) = Len(o) * b + t
      /\ NumberIn(Pow(2, b), o \o e) = y \div Pow(2, t % b)
  <2>1. NumberIn(Pow(2, b), o) = y \div Pow(2, t)
    BY <1>1, <1>7
  <2>2. e = Emitted(y % Pow(2, a + b - 1), t, b)
    BY DEF e, M
  <2>3. Grouped(o, e, y, t, b)
    BY <1>1, <1>3, <1>6, <2>1, <2>2, Emits
  <2> QED
    BY <2>3 DEF Grouped
<1>9. Len(o) * b + t = (i + 1) * a
  <2>1. (i + 1) * a = i * a + a /\ Len(o) * b \in Nat /\ i * a \in Nat
    BY <1>1
  <2> QED
    BY <1>1, <1>6, <2>1, SMTT(60)
<1>10. t % b \in 0..(b - 1)
  <2>1. t % b \in Nat /\ t % b < b
    BY <1>6, Quotients
  <2> QED
    BY <2>1
<1> DEFINE z == BitsAfter(p, c, a, b)
<1>11. z.acc = y % M /\ z.bits = t % b /\ z.out = o \o e
  <2>1. z = [acc |-> y % M, bits |-> t % b, out |-> o \o e]
    BY <1>5, Zenon DEF BitsAfter, t, o, e
  <2> HIDE DEF z
  <2> QED
    BY <2>1
<1> HIDE DEF z
<1>12. BitsRead(y, i + 1, a, b, z)
  BY <1>8, <1>9, <1>10, <1>11 DEF BitsRead, M
<1> QED
  BY <1>3, <1>12 DEF z

\* So ConvertBits ends.
LEMMA BitsEnd ==
    ASSUME NEW a \in Nat, a > 0, NEW b \in Nat, b > 0, NEW s \in Seq(Bits(a))
    PROVE  BitsRead(NumberIn(Pow(2, a), s), Len(s), a, b, BitSteps(s, a, b)[Len(s)])
<1> DEFINE A == Pow(2, a)
           F == NumbersIn(A, s)
           G == BitSteps(s, a, b)
           n == Len(s)
<1>1. s \in Seq(Nat) /\ n \in Nat
  BY BitsAreNumbers
<1>2. A \in Nat
  BY Twos
<1> HIDE DEF A
<1>3. /\ F[0] = 0 /\ \A i \in 1..n : F[i] = A * F[i - 1] + s[i]
      /\ \A i \in 0..n : F[i] \in Nat
  BY <1>1, <1>2, NumberSteps
<1>4. G[0] = NoBits /\ \A i \in 1..n : G[i] = BitsAfter(G[i - 1], s[i], a, b)
  BY <1>1, BitStepsAre
<1> HIDE DEF F, G
<1> DEFINE T == {i \in Nat : i <= n => BitsRead(F[i], i, a, b, G[i])}
<1>5. ASSUME NEW i \in Nat, \A m \in 0..(i - 1) : m \in T PROVE i \in T
  <2> SUFFICES ASSUME i <= n PROVE BitsRead(F[i], i, a, b, G[i])
    OBVIOUS
  <2>1. CASE i = 0
    <3>1. NoBits.acc = 0 /\ NoBits.bits = 0 /\ NoBits.out = <<>>
      BY DEF NoBits
    <3>2. Len(<<>>) * b + 0 = 0 * a /\ <<>> \in Seq(Bits(b)) /\ 0 \in 0..(b - 1)
      OBVIOUS
    <3>3. 0 % Pow(2, a + b - 1) = 0
      <4> DEFINE M == Pow(2, a + b - 1)
      <4>1. a + b - 1 \in Nat
        OBVIOUS
      <4>2. M \in Nat /\ M > 0
        BY <4>1, Twos
      <4> HIDE DEF M
      <4>3. 0 % M = 0
        BY <4>2
      <4> QED
        BY <4>3 DEF M
    <3>4. NumberIn(Pow(2, b), <<>>) = 0 \div Pow(2, 0)
      <4>0. <<>> \in Seq(Nat)
        OBVIOUS
      <4>1. Pow(2, b) \in Nat
        BY Twos
      <4>2. NumbersIn(Pow(2, b), <<>>)[0] = 0
        BY <4>0, <4>1, NumberSteps
      <4>3. Len(<<>>) = 0 /\ 0 \div 1 = 0
        OBVIOUS
      <4> QED
        BY <4>2, <4>3, Twos DEF NumberIn
    <3>5. BitsRead(0, 0, a, b, NoBits)
      BY <3>1, <3>2, <3>3, <3>4, Zenon DEF BitsRead
    <3> QED
      BY <1>3, <1>4, <2>1, <3>5
  <2>2. CASE i # 0
    <3>1. i \in 1..n /\ i - 1 \in 0..(i - 1) /\ i - 1 <= n /\ i - 1 \in Nat /\ i - 1 \in 0..n
          /\ (i - 1) + 1 = i
      BY <1>1, <2>2
    <3>2. F[i - 1] \in Nat /\ F[i] = A * F[i - 1] + s[i] /\ s[i] \in Bits(a)
      BY <1>3, <3>1, ElementOfSeq
    <3>3. BitsRead(F[i - 1], i - 1, a, b, G[i - 1])
      BY <1>5, <3>1
    <3>4. BitsRead(F[i], (i - 1) + 1, a, b, BitsAfter(G[i - 1], s[i], a, b))
      BY <3>1, <3>2, <3>3, BitsGoOn DEF A
    <3> QED
      BY <1>4, <3>1, <3>4
  <2> QED
    BY <2>1, <2>2
<1>6. \A i \in Nat : i \in T
  <2> HIDE DEF T
  <2> QED
    BY <1>5, Induct
<1>7. BitsRead(F[n], n, a, b, G[n])
  BY <1>1, <1>6
<1> QED
  BY <1>7 DEF F, G, A, NumberIn

\* A digit behind others.
LEMMA NumberAppend ==
    ASSUME NEW B \in Nat, NEW s \in Seq(Nat), NEW c \in Nat
    PROVE  NumberIn(B, Append(s, c)) = B * NumberIn(B, s) + c
<1> DEFINE t == Append(s, c)
           n == Len(s)
<1>1. t \in Seq(Nat) /\ Len(t) = n + 1 /\ n \in Nat /\ t[n + 1] = c /\ \A i \in 1..n : t[i] = s[i]
  OBVIOUS
<1> HIDE DEF t
<1>2. \A i \in 0..n : NumbersIn(B, t)[i] = NumbersIn(B, s)[i]
  <2>1. n <= Len(t) /\ n <= Len(s)
    BY <1>1
  <2> QED
    BY <1>1, <2>1, SameNumbers, ZenonT(60)
<1>3. \A i \in 1..Len(t) : NumbersIn(B, t)[i] = B * NumbersIn(B, t)[i - 1] + t[i]
  BY <1>1, NumberSteps
<1>4. n + 1 \in 1..Len(t) /\ n \in 0..n /\ (n + 1) - 1 = n
  BY <1>1
<1>5. NumbersIn(B, t)[n + 1] = B * NumbersIn(B, t)[n] + t[n + 1]
  BY <1>3, <1>4
<1> QED
  BY <1>1, <1>2, <1>4, <1>5 DEF NumberIn, t

\* The bits left at the end, as a group.
LEMMA LastBitsAre ==
    ASSUME NEW a \in Nat, a > 0, NEW b \in Nat, b > 0, NEW x \in Nat, NEW m, NEW end,
           BitsRead(x, m, a, b, end)
    PROVE  LastBits(end, b) = (x % Pow(2, end.bits)) * Pow(2, b - end.bits)
<1> DEFINE q == end.bits
           v == a + b - 1 - q
           Q == Pow(2, q)
           R == Pow(2, b - q)
           V == Pow(2, v)
<1>1. q \in Nat /\ q < b /\ end.acc = x % Pow(2, a + b - 1)
  BY DEF BitsRead
<1> HIDE DEF q
<1>2. b - q \in Nat /\ v \in Nat /\ q + (b - q) = b /\ q + v = a + b - 1
  BY <1>1
<1> HIDE DEF v
<1>3. Q \in Nat /\ Q > 0 /\ R \in Nat /\ R > 0 /\ V \in Nat /\ V > 0
  BY <1>1, <1>2, Twos
<1>4. Pow(2, b) = Q * R /\ Pow(2, a + b - 1) = Q * V
  <2>1. Pow(2, q + (b - q)) = Q * R
    BY <1>1, <1>2, Twos
  <2>2. Pow(2, q + v) = Q * V
    BY <1>1, <1>2, Twos
  <2> QED
    BY <1>2, <2>1, <2>2
<1> DEFINE y == end.acc
<1>5. y = x % (Q * V)
  BY <1>1, <1>4
<1>6. LastBits(end, b) = (y * R) % (Q * R)
  BY <1>4 DEF LastBits, q
<1> HIDE DEF Q, R, V, y
<1>7. y \in Nat
  <2> DEFINE W == Q * V
  <2>1. W \in Nat /\ W > 0
    BY <1>3
  <2>2. y = x % W
    BY <1>5
  <2> HIDE DEF W
  <2> QED
    BY <2>1, <2>2, Quotients
<1>8. (y * R) % (Q * R) = (y % Q) * R
  BY <1>3, <1>7, ModScaled
<1>9. (x % (Q * V)) % Q = x % Q
  BY <1>3, ModMod
<1>10. y % Q = x % Q
  BY <1>5, <1>9
<1> QED
  BY <1>6, <1>8, <1>10 DEF Q, R, q

\* The groups in o are those of x with p zero bits behind it.
Filled(x, m, o, a, b, p) ==
    /\ p \in 0..(b - 1) /\ o \in Seq(Bits(b)) /\ Len(o) * b = m * a + p
    /\ NumberIn(Pow(2, b), o) = x * Pow(2, p)

\* Conversion with and without padding.
Padding(s, a, b) == ConvertBits(s, a, b, TRUE).out
Cutting(s, a, b) == ConvertBits(s, a, b, FALSE)

\* Conversion with padding.
LEMMA PaddedIs ==
    ASSUME NEW a \in Nat, a > 0, NEW b \in Nat, b > 0, NEW s \in Seq(Bits(a))
    PROVE  \E p \in Nat :
             Filled(NumberIn(Pow(2, a), s), Len(s), Padding(s, a, b), a, b, p)
<1> DEFINE end == BitSteps(s, a, b)[Len(s)]
           x == NumberIn(Pow(2, a), s)
           m == Len(s)
           o == PaddedBits(end, b)
           q == end.bits
           Q == Pow(2, q)
           B == Pow(2, b)
<1>1. x \in Nat /\ m \in Nat
  <2>1. s \in Seq(Nat) /\ Pow(2, a) \in Nat
    BY BitsAreNumbers, Twos
  <2> QED
    BY <2>1, NumberSteps
<1>2. BitsRead(x, m, a, b, end)
  BY BitsEnd
<1>3. Padding(s, a, b) = o
  <2> DEFINE r == ConvertBits(s, a, b, TRUE)
  <2>1. r = [ok |-> TRUE, out |-> o]
    BY ConvertBitsIs
  <2> HIDE DEF o, r
  <2>2. r.out = o
    BY <2>1
  <2> QED
    BY <2>2 DEF r, Padding
<1> HIDE DEF end, x, m
<1>4. /\ q \in Nat /\ q < b /\ end.out \in Seq(Bits(b)) /\ Len(end.out) \in Nat
      /\ Len(end.out) * b + q = m * a /\ NumberIn(B, end.out) = x \div Q
  BY <1>2 DEF BitsRead
<1>5. LastBits(end, b) = (x % Q) * Pow(2, b - q)
  BY <1>1, <1>2, LastBitsAre
<1>6. Q \in Nat /\ Q > 0 /\ B \in Nat
  BY <1>4, Twos
<1>7. CASE q = 0
  <2>1. o = end.out
    BY <1>7 DEF PaddedBits
  <2>2. Q = 1 /\ x \div 1 = x /\ x * 1 = x
    BY <1>1, <1>7, Twos
  <2>3. Len(end.out) * b = m * a + 0
    <3>1. Len(end.out) * b \in Nat /\ m * a \in Nat
      BY <1>1, <1>4
    <3> QED
      BY <1>4, <1>7, <3>1
  <2>4. NumberIn(B, o) = x * Pow(2, 0) /\ 0 \in 0..(b - 1)
    BY <1>4, <2>1, <2>2, Twos
  <2>5. Filled(x, m, o, a, b, 0)
    BY <1>4, <2>1, <2>3, <2>4 DEF Filled
  <2> QED
    BY <1>3, <2>5 DEF x, m
<1>8. CASE q # 0
  <2> DEFINE p == b - q
             R == Pow(2, p)
             c == (x % Q) * R
  <2>1. p \in Nat /\ p \in 0..(b - 1) /\ q + p = b
    BY <1>4, <1>8, SMTT(60)
  <2>2. R \in Nat /\ R > 0
    BY <2>1, Twos
  <2>3. B = Q * R
    <3>1. Pow(2, q + p) = Q * R
      BY <1>4, <2>1, Twos
    <3> QED
      BY <2>1, <3>1
  <2>4. o = Append(end.out, c)
    BY <1>4, <1>5, <1>8, SMTT(60) DEF PaddedBits
  <2> HIDE DEF p, R, Q, q
  <2> DEFINE d == x \div Q
             r == x % Q
  <2>5. d \in Nat /\ r \in Nat /\ r < Q /\ x = Q * d + r
    BY <1>1, <1>6, Quotients
  <2>6. c \in Bits(b)
    <3>1. r * R \in Nat /\ r * R < Q * R
      <4> HIDE DEF r
      <4> QED
        BY <1>6, <2>2, <2>5
    <3> DEFINE u == r * R
    <3>2. u \in Nat /\ u < B
      BY <2>3, <3>1
    <3> HIDE DEF u, B
    <3>3. u \in 0..(B - 1)
      BY <1>6, <3>2
    <3> QED
      BY <3>3 DEF u, B, Bits
  <2>7. o \in Seq(Bits(b)) /\ Len(o) = Len(end.out) + 1
    BY <1>4, <2>4, <2>6
  <2>8. NumberIn(B, o) = B * d + c
    <3>1. end.out \in Seq(Nat) /\ c \in Nat
      BY <1>4, <2>6, BitsAreNumbers
    <3> HIDE DEF c, B, o
    <3>2. NumberIn(B, Append(end.out, c)) = B * NumberIn(B, end.out) + c
      BY <1>6, <3>1, NumberAppend
    <3> QED
      BY <1>4, <2>4, <3>2
  <2>9. B * d + c = x * R
    <3> HIDE DEF d, r
    <3>1. (Q * R) * d + r * R = (Q * d + r) * R
      BY <1>6, <2>2, <2>5
    <3> QED
      BY <2>3, <2>5, <3>1 DEF r
  <2>10. Len(o) * b = m * a + p
    <3> DEFINE L == Len(end.out)
    <3>1. (L + 1) * b = L * b + b /\ L * b \in Nat /\ m * a \in Nat
      BY <1>1, <1>4
    <3> DEFINE u == L * b
               v == m * a
    <3>2. u \in Nat /\ v \in Nat /\ u + q = v /\ q \in Nat /\ p \in Nat /\ q + p = b
          /\ (L + 1) * b = u + b
      BY <1>4, <2>1, <3>1
    <3> HIDE DEF u, v
    <3>3. u + b = v + p
      BY <3>2
    <3>4. Len(o) * b = u + b
      BY <2>7, <3>2
    <3> QED
      BY <3>3, <3>4 DEF v
  <2>11. Filled(x, m, o, a, b, p)
    <3> HIDE DEF o, c, d, B
    <3> QED
      BY <2>1, <2>7, <2>8, <2>9, <2>10 DEF Filled, R, B
  <2> QED
    BY <1>3, <2>1, <2>11 DEF x, m
<1> QED
  BY <1>7, <1>8

\* The groups in r are those of x but for its last q bits, and it says whether these
\* are less than a group of zeros.
Cut(x, m, r, a, b, q) ==
    /\ q \in 0..(b - 1) /\ r.out \in Seq(Bits(b)) /\ Len(r.out) * b + q = m * a
    /\ NumberIn(Pow(2, b), r.out) = x \div Pow(2, q)
    /\ r = [ok |-> q < a /\ x % Pow(2, q) = 0, out |-> r.out]

\* Conversion without padding.
LEMMA UnpaddedIs ==
    ASSUME NEW a \in Nat, a > 0, NEW b \in Nat, b > 0, NEW s \in Seq(Bits(a))
    PROVE  \E q \in Nat : Cut(NumberIn(Pow(2, a), s), Len(s), Cutting(s, a, b), a, b, q)
<1> DEFINE end == BitSteps(s, a, b)[Len(s)]
           x == NumberIn(Pow(2, a), s)
           m == Len(s)
           r == Cutting(s, a, b)
           q == end.bits
           Q == Pow(2, q)
           R == Pow(2, b - q)
<1>1. x \in Nat /\ m \in Nat
  <2>1. s \in Seq(Nat) /\ Pow(2, a) \in Nat
    BY BitsAreNumbers, Twos
  <2> QED
    BY <2>1, NumberSteps
<1>2. BitsRead(x, m, a, b, end)
  BY BitsEnd
<1>3. r = [ok |-> end.bits < a /\ LastBits(end, b) = 0, out |-> end.out]
  BY ConvertBitsIs DEF Cutting
<1> HIDE DEF end, x, m, r
<1>4. /\ q \in Nat /\ q < b /\ end.out \in Seq(Bits(b))
      /\ Len(end.out) * b + q = m * a /\ NumberIn(Pow(2, b), end.out) = x \div Q
  BY <1>2 DEF BitsRead
<1>5. LastBits(end, b) = (x % Q) * R
  BY <1>1, <1>2, LastBitsAre
<1>6. Q \in Nat /\ Q > 0 /\ R \in Nat /\ R > 0
  <2>1. b - q \in Nat
    BY <1>4
  <2> QED
    BY <1>4, <2>1, Twos
<1>7. (LastBits(end, b) = 0) <=> (x % Q = 0)
  <2> DEFINE z == x % Q
  <2>1. z \in Nat
    BY <1>1, <1>6, Quotients
  <2> HIDE DEF z, R
  <2>2. (z * R = 0) <=> (z = 0)
    BY <1>6, <2>1
  <2> QED
    BY <1>5, <2>2 DEF z
<1>8. r.out = end.out
  BY <1>3
<1>9. r = [ok |-> q < a /\ x % Q = 0, out |-> r.out]
  <2>1. (end.bits < a /\ LastBits(end, b) = 0) = (q < a /\ x % Q = 0)
    BY <1>7
  <2> QED
    BY <1>3, <1>8, <2>1, Zenon
<1>10. q \in 0..(b - 1)
  BY <1>4
<1> HIDE DEF q
<1>11. Cut(x, m, r, a, b, q)
  BY <1>4, <1>8, <1>9, <1>10, Zenon DEF Cut
<1> QED
  BY <1>4, <1>11 DEF x, m, r

\* Quotient and remainder are told by their number.
LEMMA SameShare ==
    ASSUME NEW a \in Nat, NEW k \in Nat, NEW l \in Nat, NEW p \in Nat, NEW q \in Nat,
           p < a, q < a, k * a + q = l * a + p
    PROVE  k = l /\ q = p
<1>1. (a * k + q) \div a = k /\ (a * k + q) % a = q
  BY Quotients
<1>2. (a * l + p) \div a = l /\ (a * l + p) % a = p
  BY Quotients
<1>3. a * k + q = a * l + p
  <2>1. a * k = k * a /\ a * l = l * a
    OBVIOUS
  <2> QED
    BY <2>1
<1> QED
  BY <1>1, <1>2, <1>3

\* What was converted to smaller groups with padding comes back.
LEMMA BitsBack ==
    ASSUME NEW a \in Nat, NEW b \in Nat, b > 0, b <= a, NEW s \in Seq(Bits(a)),
           NEW o, o = Padding(s, a, b)
    PROVE  /\ o \in Seq(Bits(b)) /\ \E p \in 0..(b - 1) : Len(o) * b = Len(s) * a + p
           /\ Cutting(o, b, a) = [ok |-> TRUE, out |-> s]
<1> DEFINE x == NumberIn(Pow(2, a), s)
           y == NumberIn(Pow(2, b), o)
           m == Len(s)
           n == Len(o)
           r == Cutting(o, b, a)
<1>0. a > 0
  OBVIOUS
<1>1. x \in Nat /\ m \in Nat
  <2>1. s \in Seq(Nat) /\ Pow(2, a) \in Nat
    BY BitsAreNumbers, Twos
  <2> QED
    BY <2>1, NumberSteps
<1>2. PICK p \in Nat : Filled(x, m, o, a, b, p)
  BY <1>0, PaddedIs
<1>3. p < b /\ o \in Seq(Bits(b)) /\ n * b = m * a + p /\ y = x * Pow(2, p) /\ n \in Nat
  BY <1>2 DEF Filled
<1>4. PICK q \in Nat : Cut(y, n, r, b, a, q)
  BY <1>0, <1>3, UnpaddedIs
<1> HIDE DEF x, y, r, m, n
<1>5. /\ q < a /\ r.out \in Seq(Bits(a)) /\ Len(r.out) * a + q = n * b
      /\ NumberIn(Pow(2, a), r.out) = y \div Pow(2, q)
      /\ r = [ok |-> q < b /\ y % Pow(2, q) = 0, out |-> r.out]
  BY <1>4 DEF Cut
<1>6. Len(r.out) = m /\ q = p
  <2>1. Len(r.out) \in Nat /\ p < a /\ Len(r.out) * a + q = m * a + p
    BY <1>3, <1>5
  <2> DEFINE k == Len(r.out)
  <2>2. k \in Nat /\ k * a + q = m * a + p
    BY <2>1
  <2> HIDE DEF k
  <2>3. k = m /\ q = p
    BY <1>1, <1>5, <2>1, <2>2, SameShare, SMTT(60)
  <2> QED
    BY <2>3 DEF k
<1> DEFINE P == Pow(2, p)
<1>7. P \in Nat /\ P > 0
  BY Twos
<1> HIDE DEF P
<1>8. y = P * x + 0
  BY <1>1, <1>3, <1>7 DEF P
<1>9. y \div P = x /\ y % P = 0
  BY <1>1, <1>7, <1>8, Quotients
<1>10. r.out = s
  <2>1. NumberIn(Pow(2, a), r.out) = NumberIn(Pow(2, a), s)
    BY <1>5, <1>6, <1>9 DEF P, x
  <2>2. Pow(2, a) \in Nat
    BY Twos
  <2>3. r.out \in Seq(0..(Pow(2, a) - 1)) /\ s \in Seq(0..(Pow(2, a) - 1)) /\ Len(r.out) = Len(s)
    BY <1>5, <1>6 DEF Bits, m
  <2> QED
    BY <2>1, <2>2, <2>3, NumberTells
<1>11. (q < b /\ y % Pow(2, q) = 0) = TRUE
  BY <1>3, <1>6, <1>9 DEF P
<1>12. r = [ok |-> TRUE, out |-> s]
  BY <1>5, <1>10, <1>11, Zenon
<1>13. p \in 0..(b - 1)
  BY <1>3
<1> QED
  BY <1>3, <1>12, <1>13 DEF r, n, m

\* Groups that are accepted are those that their bytes are converted to.
LEMMA BitsOnly ==
    ASSUME NEW a \in Nat, NEW b \in Nat, b > 0, b <= a, NEW t \in Seq(Bits(b)),
           NEW r, r = Cutting(t, b, a)
    PROVE  r.out \in Seq(Bits(a)) /\ (r.ok => Padding(r.out, a, b) = t)
<1> DEFINE y == NumberIn(Pow(2, b), t)
           n == Len(t)
           z == NumberIn(Pow(2, a), r.out)
           l == Len(r.out)
           o == Padding(r.out, a, b)
<1>0. a > 0
  OBVIOUS
<1>1. y \in Nat /\ n \in Nat
  <2>1. t \in Seq(Nat) /\ Pow(2, b) \in Nat
    BY BitsAreNumbers, Twos
  <2> QED
    BY <2>1, NumberSteps
<1>2. PICK q \in Nat : Cut(y, n, r, b, a, q)
  BY <1>0, UnpaddedIs
<1>3. /\ r.out \in Seq(Bits(a)) /\ l * a + q = n * b /\ z = y \div Pow(2, q) /\ l \in Nat
      /\ r = [ok |-> q < b /\ y % Pow(2, q) = 0, out |-> r.out]
  BY <1>2 DEF Cut
<1> SUFFICES ASSUME r.ok PROVE o = t
  BY <1>3
<1>4. q < b /\ y % Pow(2, q) = 0
  <2> DEFINE ok == q < b /\ y % Pow(2, q) = 0
  <2> DEFINE w == r.out
  <2>1. r = [ok |-> ok, out |-> w]
    BY <1>3
  <2> HIDE DEF ok, w
  <2>2. r.ok = ok
    BY <2>1
  <2>3. ok
    BY <2>2
  <2> QED
    BY <2>3 DEF ok
<1>5. PICK p \in Nat : Filled(z, l, o, a, b, p)
  BY <1>0, <1>3, PaddedIs
<1>6. p < b /\ o \in Seq(Bits(b)) /\ Len(o) * b = l * a + p /\ NumberIn(Pow(2, b), o) = z * Pow(2, p)
  BY <1>5 DEF Filled
<1> HIDE DEF y, n, z, l, o
<1>7. Len(o) = n /\ p = q
  <2> DEFINE k == Len(o)
             u == k * b
             v == n * b
             w == l * a
  <2>1. k \in Nat
    BY <1>6
  <2>2. u \in Nat /\ v \in Nat /\ w \in Nat /\ w + q = v /\ u = w + p
    BY <1>1, <1>3, <1>6, <2>1, SMTT(60)
  <2> HIDE DEF u, v, w
  <2>3. u + q = v + p
    BY <2>2
  <2>4. k * b + q = n * b + p
    BY <2>3 DEF u, v
  <2> HIDE DEF k
  <2>5. k = n /\ q = p
    BY <1>1, <1>4, <1>6, <2>1, <2>4, SameShare, ZenonT(60)
  <2> QED
    BY <2>5 DEF k
<1> DEFINE Q == Pow(2, q)
<1>8. Q \in Nat /\ Q > 0 /\ y % Q = 0 /\ z = y \div Q
  BY <1>3, <1>4, Twos
<1> HIDE DEF Q
<1>9. z * Q = y
  <2>1. z \in Nat /\ y = Q * z + (y % Q)
    BY <1>1, <1>8, Quotients
  <2>2. y = Q * z + 0
    BY <1>8, <2>1
  <2> QED
    BY <1>8, <2>1, <2>2
<1>10. NumberIn(Pow(2, b), o) = NumberIn(Pow(2, b), t)
  BY <1>6, <1>7, <1>9 DEF Q, y
<1>11. Pow(2, b) \in Nat
  BY Twos
<1>12. o \in Seq(0..(Pow(2, b) - 1)) /\ t \in Seq(0..(Pow(2, b) - 1)) /\ Len(o) = Len(t)
  BY <1>6, <1>7 DEF Bits, n
<1> QED
  BY <1>10, <1>11, <1>12, NumberTells

-----------------------------------------------------------------------------
(* Texts in base 64 and 32 *)

\* From i on the characters are in S as far as j, and no further.
Skips(s, i, S, j) ==
    /\ \A k \in i..(j - 1) : s[k] \in S
    /\ j <= Len(s) => s[j] \notin S

\* SkipOver stops where the characters in S do.
LEMMA SkipFound ==
    ASSUME NEW s, Len(s) \in Nat, NEW i \in 1..(Len(s) + 1), NEW S
    PROVE  SkipOver(s, i, S) \in i..(Len(s) + 1) /\ Skips(s, i, S, SkipOver(s, i, S))
<1> DEFINE N == Len(s)
           T == {j \in i..(N + 1) : j <= N => s[j] \notin S}
<1>1. T \subseteq Nat /\ N + 1 \in T
  OBVIOUS
<1>2. T # {}
  BY <1>1
<1>3. PICK j \in T : \A y \in T : ~(y < j)
  <2> HIDE DEF T
  <2> QED
    BY <1>1, <1>2, LeastNumber
<1>4. \A k \in i..(j - 1) : s[k] \in S
  <2> SUFFICES ASSUME NEW k \in i..(j - 1), s[k] \notin S PROVE FALSE
    OBVIOUS
  <2>1. k \in T /\ k < j
    OBVIOUS
  <2> QED
    BY <1>3, <2>1
<1>5. j \in i..(Len(s) + 1) /\ Skips(s, i, S, j)
  BY <1>4 DEF Skips
<1>6. SkipOver(s, i, S) = CHOOSE x \in i..(Len(s) + 1) : Skips(s, i, S, x)
  BY Zenon DEF SkipOver, Skips
<1> QED
  BY <1>5, <1>6

\* There is one such place.
LEMMA SkipIs ==
    ASSUME NEW s, Len(s) \in Nat, NEW i \in 1..(Len(s) + 1), NEW S,
           NEW j \in i..(Len(s) + 1), Skips(s, i, S, j)
    PROVE  SkipOver(s, i, S) = j
<1> DEFINE h == SkipOver(s, i, S)
<1>1. h \in i..(Len(s) + 1) /\ Skips(s, i, S, h)
  BY SkipFound
<1> HIDE DEF h
<1>2. ~(h < j)
  <2> SUFFICES ASSUME h < j PROVE FALSE
    OBVIOUS
  <2>1. h \in i..(j - 1) /\ h <= Len(s)
    BY <1>1
  <2> QED
    BY <1>1, <2>1 DEF Skips
<1>3. ~(j < h)
  <2> SUFFICES ASSUME j < h PROVE FALSE
    OBVIOUS
  <2>1. j \in i..(h - 1) /\ j <= Len(s)
    BY <1>1
  <2> QED
    BY <1>1, <2>1 DEF Skips
<1> QED
  BY <1>1, <1>2, <1>3 DEF h

\* The powers in use.
LEMMA SmallPowers == Pow(2, 5) = 32 /\ Pow(2, 6) = 64 /\ Pow(2, 8) = 256
<1>0. /\ Pow(2, 0) = 1 /\ \A k \in Nat : Pow(2, k + 1) = 2 * Pow(2, k)
  <2>1. 2 \in Nat /\ 2 > 0
    OBVIOUS
  <2> QED
    BY <2>1, PowSteps
<1>1. /\ Pow(2, 0 + 1) = 2 * Pow(2, 0) /\ Pow(2, 1 + 1) = 2 * Pow(2, 1)
      /\ Pow(2, 2 + 1) = 2 * Pow(2, 2) /\ Pow(2, 3 + 1) = 2 * Pow(2, 3)
      /\ Pow(2, 4 + 1) = 2 * Pow(2, 4) /\ Pow(2, 5 + 1) = 2 * Pow(2, 5)
      /\ Pow(2, 6 + 1) = 2 * Pow(2, 6) /\ Pow(2, 7 + 1) = 2 * Pow(2, 7)
  BY <1>0
<1>2. Pow(2, 1) = 2 /\ Pow(2, 2) = 4 /\ Pow(2, 3) = 8 /\ Pow(2, 4) = 16
  BY <1>0, <1>1
<1> QED
  BY <1>1, <1>2

\* The digits of a base and its groups.
LEMMA BaseDigits ==
    ASSUME NEW k \in {5, 6}
    PROVE  /\ k \in Nat /\ k > 0 /\ k <= 8 /\ Bits(k) \subseteq Int /\ Pad \notin Bits(k)
           /\ Group(k) \in {4, 8} /\ Bits(k) = 0..(Pow(2, k) - 1)
           /\ Bits(8) = 0..255
<1>1. k \in Nat /\ k > 0 /\ k <= 8
  OBVIOUS
<1>2. Group(k) \in {4, 8}
  BY DEF Group
<1>3. Bits(5) = 0..31 /\ Bits(6) = 0..63 /\ Bits(8) = 0..255
  BY SmallPowers DEF Bits
<1>4. Bits(k) \subseteq Int /\ Pad \notin Bits(k)
  <2>1. CASE k = 5
    BY <1>3, <2>1 DEF Pad
  <2>2. CASE k = 6
    BY <1>3, <2>2 DEF Pad
  <2> QED
    BY <2>1, <2>2
<1> QED
  BY <1>1, <1>2, <1>3, <1>4 DEF Bits

\* Padding fills the last group.
LEMMA PadCount ==
    ASSUME NEW G \in {4, 8}, NEW n \in Nat
    PROVE  /\ (-n) % G \in 0..(G - 1) /\ (n + ((-n) % G)) % G = 0
<1>1. CASE G = 4
  BY <1>1
<1>2. CASE G = 8
  BY <1>2
<1> QED
  BY <1>1, <1>2

\* Nothing else does.
LEMMA PadOnly ==
    ASSUME NEW G \in {4, 8}, NEW n \in Nat, NEW c \in 0..(G - 1), (n + c) % G = 0
    PROVE  c = (-n) % G
<1>1. CASE G = 4
  BY <1>1
<1>2. CASE G = 8
  BY <1>2
<1> QED
  BY <1>1, <1>2

\* Nothing but padding.
LEMMA PadsAre ==
    ASSUME NEW c \in Nat
    PROVE  /\ [i \in 1..c |-> Pad] \in Seq(Int) /\ Len([i \in 1..c |-> Pad]) = c
           /\ \A j \in 1..c : [i \in 1..c |-> Pad][j] = Pad
<1> DEFINE w == [i \in 1..c |-> Pad]
<1>1. Pad \in Int
  BY DEF Pad
<1>2. w \in [1..c -> Int] /\ \A i \in 1..c : w[i] = Pad
  BY <1>1
<1> HIDE DEF w
<1>3. w \in Seq(Int) /\ Len(w) = c
  BY <1>2, FunctionIsSeq
<1> QED
  BY <1>2, <1>3 DEF w

\* A text of digits and padding.
PaddedText(str, c) == str \o [i \in 1..c |-> Pad]

\* Its parts.
PartsOfText(t, D, str, c) ==
    /\ t \in Seq(Int) /\ Len(t) = Len(str) + c
    /\ SkipOver(t, 1, D) = Len(str) + 1
    /\ SkipOver(t, Len(str) + 1, {Pad}) = Len(t) + 1
    /\ SubSeq(t, 1, Len(str)) = str

\* The digits end where the padding begins, and the padding at the end of the text.
LEMMA PaddedParts ==
    ASSUME NEW D, D \subseteq Int, Pad \notin D, NEW str \in Seq(D), NEW c \in Nat,
           NEW t, t = PaddedText(str, c)
    PROVE  PartsOfText(t, D, str, c)
<1> DEFINE w == [i \in 1..c |-> Pad]
           n == Len(str)
<1>1. w \in Seq(Int) /\ Len(w) = c /\ \A i \in 1..c : w[i] = Pad
  BY PadsAre
<1>2. str \in Seq(Int) /\ n \in Nat /\ \A i \in 1..n : str[i] \in D
  <2> HIDE DEF w
  <2>1. n \in Nat /\ str \in [1..n -> D]
    OBVIOUS
  <2>2. \A i \in 1..n : str[i] \in D /\ str[i] \in Int
    BY <2>1
  <2>3. str \in [1..n -> Int]
    BY <2>1, <2>2
  <2>4. str \in Seq(Int)
    BY <2>1, <2>3, FunctionIsSeq
  <2> QED
    BY <2>1, <2>2, <2>4
<1>3. t = str \o w
  BY DEF PaddedText
<1> HIDE DEF w
<1>4. /\ t \in Seq(Int) /\ Len(t) = n + c
      /\ \A i \in 1..n : t[i] = str[i]
      /\ \A i \in 1..c : t[n + i] = w[i]
  <2>1. JoinOf(Int, str \o w, str, w)
    BY <1>1, <1>2, Joining
  <2> QED
    BY <1>1, <1>3, <2>1, Zenon DEF JoinOf
<1>5. \A i \in 1..n : t[i] \in D
  BY <1>2, <1>4
<1>6. \A i \in (n + 1)..(n + c) : t[i] = Pad
  <2> TAKE i \in (n + 1)..(n + c)
  <2>1. i - n \in 1..c /\ n + (i - n) = i
    BY <1>2
  <2> QED
    BY <1>1, <1>4, <2>1
<1>7. SkipOver(t, 1, D) = n + 1
  <2>1. \A i \in 1..((n + 1) - 1) : t[i] \in D
    BY <1>2, <1>5
  <2>2. n + 1 <= Len(t) => t[n + 1] \notin D
    <3>1. n + 1 <= Len(t) => n + 1 \in (n + 1)..(n + c)
      BY <1>2, <1>4
    <3> QED
      BY <1>6, <3>1
  <2>3. Skips(t, 1, D, n + 1)
    BY <2>1, <2>2 DEF Skips
  <2>4. Len(t) \in Nat /\ 1 \in 1..(Len(t) + 1) /\ n + 1 \in 1..(Len(t) + 1)
    BY <1>2, <1>4
  <2> QED
    BY <2>3, <2>4, SkipIs
<1>8. SkipOver(t, n + 1, {Pad}) = Len(t) + 1
  <2>1. \A i \in (n + 1)..((Len(t) + 1) - 1) : t[i] \in {Pad}
    BY <1>2, <1>4, <1>6
  <2>2. ~(Len(t) + 1 <= Len(t))
    BY <1>2, <1>4
  <2>3. Skips(t, n + 1, {Pad}, Len(t) + 1)
    BY <2>1, <2>2 DEF Skips
  <2>4. Len(t) \in Nat /\ n + 1 \in 1..(Len(t) + 1) /\ Len(t) + 1 \in (n + 1)..(Len(t) + 1)
    BY <1>2, <1>4
  <2> QED
    BY <2>3, <2>4, SkipIs
<1>9. SubSeq(t, 1, n) = str
  BY <1>1, <1>2, <1>3, InFront
<1> QED
  BY <1>4, <1>7, <1>8, <1>9 DEF PartsOfText

\* How the parts of a text decide.
DecodedAs(k, q, p, text, bits) ==
    [valid |-> bits.ok /\ p > Len(text) /\ (p - 1) % Group(k) = 0 /\ p - q < Group(k), ret |-> bits.out]

\* DecodeBase64 and DecodeBase32 skip the digits and then the padding.
LEMMA DecodeBaseIs ==
    \A k, text :
       LET q == SkipOver(text, 1, 0..(Pow(2, k) - 1)) IN
       DecodeBase(k, text) = DecodedAs(k, q, SkipOver(text, q, {Pad}), text, Cutting(SubSeq(text, 1, q - 1), k, 8))
  BY Zenon DEF DecodeBase, DecodedAs, Cutting

\* EncodeBase64 and EncodeBase32 pad the digits to whole groups.
LEMMA EncodeBaseIs ==
    \A k, bytes : EncodeBase(k, bytes)
       = PaddedText(Padding(bytes, 8, k), (-Len(Padding(bytes, 8, k))) % Group(k))
  BY Zenon DEF EncodeBase, PaddedText, Padding

\* Bytes come back from their text.
LEMMA BaseComesBack ==
    ASSUME NEW k \in {5, 6}, NEW bytes \in Seq(0..255)
    PROVE  DecodeBase(k, EncodeBase(k, bytes)) = [valid |-> TRUE, ret |-> bytes]
<1> DEFINE str == Padding(bytes, 8, k)
           n == Len(str)
           G == Group(k)
           c == (-n) % G
           t == EncodeBase(k, bytes)
           p == SkipOver(t, n + 1, {Pad})
           bits == Cutting(SubSeq(t, 1, (n + 1) - 1), k, 8)
<1>0. /\ k \in Nat /\ k > 0 /\ k <= 8 /\ Bits(k) \subseteq Int /\ Pad \notin Bits(k)
      /\ G \in {4, 8} /\ Bits(k) = 0..(Pow(2, k) - 1) /\ Bits(8) = 0..255
  BY BaseDigits
<1>1. str \in Seq(Bits(k)) /\ Cutting(str, k, 8) = [ok |-> TRUE, out |-> bytes]
  <2>1. bytes \in Seq(Bits(8)) /\ 8 \in Nat
    BY <1>0
  <2> HIDE DEF str
  <2>2. str = Padding(bytes, 8, k)
    BY DEF str
  <2> QED
    BY <1>0, <2>1, <2>2, BitsBack
<1> HIDE DEF str, G
<1>2. n \in Nat
  BY <1>1
<1>3. c \in 0..(G - 1) /\ (n + c) % G = 0 /\ c \in Nat
  <2>1. c \in 0..(G - 1) /\ (n + c) % G = 0
    BY <1>0, <1>2, PadCount, ZenonT(60)
  <2> QED
    BY <1>0, <2>1
<1> HIDE DEF c, n
<1>4. t = PaddedText(str, c)
  BY EncodeBaseIs DEF str, n, c, G
<1> HIDE DEF t
<1>5. /\ Len(t) = n + c /\ SkipOver(t, 1, Bits(k)) = n + 1
      /\ p = Len(t) + 1 /\ SubSeq(t, 1, n) = str
  <2>1. PartsOfText(t, Bits(k), str, c)
    BY <1>0, <1>1, <1>3, <1>4, PaddedParts
  <2> QED
    BY <2>1 DEF n, PartsOfText
<1>6. DecodeBase(k, t) = DecodedAs(k, n + 1, p, t, bits)
  BY <1>0, <1>5, DecodeBaseIs
<1> HIDE DEF p
<1>7. bits = [ok |-> TRUE, out |-> bytes]
  <2>1. (n + 1) - 1 = n
    BY <1>2
  <2> QED
    BY <1>1, <1>5, <2>1
<1> HIDE DEF bits
<1>8. p > Len(t) /\ (p - 1) % G = 0 /\ p - (n + 1) < G
  BY <1>0, <1>2, <1>3, <1>5
<1>9. bits.ok = TRUE /\ bits.out = bytes
  BY <1>7
<1>10. DecodedAs(k, n + 1, p, t, bits) = [valid |-> TRUE, ret |-> bytes]
  BY <1>8, <1>9 DEF DecodedAs, G
<1> QED
  BY <1>6, <1>10 DEF t

\* A text and its C string, which is the whole of it where it has no NUL.
LEMMA CStrEnds ==
    ASSUME NEW t \in Seq(Int)
    PROVE  /\ CStr(t) \in Seq(Int) /\ EndsAfter(t, CStr(t))
           /\ (\A i \in 1..Len(t) : t[i] # Nul) => CStr(t) = t
<1> DEFINE j == SkipOver(t, 1, Int \ {Nul})
<1>1. Len(t) \in Nat /\ \A i \in 1..Len(t) : t[i] \in Int
  OBVIOUS
<1>2. j \in 1..(Len(t) + 1) /\ Skips(t, 1, Int \ {Nul}, j)
  <2>1. 1 \in 1..(Len(t) + 1)
    BY <1>1
  <2> QED
    BY <1>1, <2>1, SkipFound
<1>3. CStr(t) = SubSeq(t, 1, j - 1)
  BY DEF CStr
<1> HIDE DEF j
<1>4. j - 1 \in 0..Len(t) /\ (j - 1 < Len(t) => j \in 1..Len(t) /\ (j - 1) + 1 = j)
  BY <1>1, <1>2
<1>5. /\ SubSeq(t, 1, j - 1) \in Seq(Int) /\ Len(SubSeq(t, 1, j - 1)) = j - 1
  BY <1>4
<1>6. j - 1 < Len(t) => t[j] = Nul
  <2>1. j \in 1..Len(t) => j <= Len(t)
    BY <1>1
  <2> QED
    BY <1>1, <1>2, <1>4, <2>1 DEF Skips
<1>7. EndsAfter(t, CStr(t))
  <2>1. j - 1 <= Len(t)
    BY <1>1, <1>4
  <2> QED
    BY <1>3, <1>4, <1>5, <1>6, <2>1 DEF EndsAfter
<1>8. ASSUME \A i \in 1..Len(t) : t[i] # Nul PROVE CStr(t) = t
  <2>1. j - 1 = Len(t)
    BY <1>1, <1>4, <1>6, <1>8
  <2>2. SubSeq(t, 1, Len(t)) = t
    OBVIOUS
  <2> QED
    BY <1>3, <2>1, <2>2
<1> QED
  BY <1>3, <1>5, <1>7, <1>8

\* No text that EncodeBase64 or EncodeBase32 writes has a NUL in it.
LEMMA EncodedCStr ==
    ASSUME NEW k \in {5, 6}, NEW bytes \in Seq(0..255)
    PROVE  CStr(EncodeBase(k, bytes)) = EncodeBase(k, bytes)
<1> DEFINE str == Padding(bytes, 8, k)
           G == Group(k)
           c == (-Len(str)) % G
           w == [i \in 1..c |-> Pad]
           D == Bits(k)
           t == EncodeBase(k, bytes)
<1>0. /\ k \in Nat /\ k > 0 /\ k <= 8 /\ D \subseteq Int /\ Nul \notin D
      /\ G \in {4, 8} /\ Bits(8) = 0..255
  <2>1. /\ k \in Nat /\ k > 0 /\ k <= 8 /\ D \subseteq Int
        /\ G \in {4, 8} /\ D = 0..(Pow(2, k) - 1) /\ Bits(8) = 0..255
    BY BaseDigits
  <2>2. \A n : Nul \notin 0..n
    BY DEF Nul
  <2> HIDE DEF D, G
  <2> QED
    BY <2>1, <2>2, ZenonT(60)
<1>1. str \in Seq(D)
  <2>1. bytes \in Seq(Bits(8)) /\ 8 \in Nat
    BY <1>0
  <2> HIDE DEF str
  <2>2. str = Padding(bytes, 8, k)
    BY DEF str
  <2> QED
    BY <1>0, <2>1, <2>2, BitsBack
<1> HIDE DEF str, G, D
<1>2. Len(str) \in Nat /\ str \in Seq(Int) /\ \A i \in 1..Len(str) : str[i] \in D
  <2>1. Len(str) \in Nat /\ str \in [1..Len(str) -> D]
    BY <1>1
  <2>2. \A i \in 1..Len(str) : str[i] \in D /\ str[i] \in Int
    BY <1>0, <2>1
  <2>3. str \in [1..Len(str) -> Int]
    BY <2>1, <2>2
  <2>4. str \in Seq(Int)
    BY <2>1, <2>3, FunctionIsSeq
  <2> QED
    BY <2>1, <2>2, <2>4
<1>3. c \in Nat
  <2>1. c \in 0..(G - 1)
    BY <1>0, <1>2, PadCount, ZenonT(60)
  <2> QED
    BY <1>0, <2>1
<1> HIDE DEF c
<1>4. w \in Seq(Int) /\ Len(w) = c /\ \A i \in 1..c : w[i] = Pad
  BY <1>3, PadsAre
<1>5. t = str \o w
  BY EncodeBaseIs DEF PaddedText, str, c, G
<1> HIDE DEF t, w
<1>6. /\ t \in Seq(Int) /\ Len(t) = Len(str) + c
      /\ \A i \in 1..Len(str) : t[i] = str[i]
      /\ \A i \in 1..c : t[Len(str) + i] = w[i]
  <2>1. JoinOf(Int, str \o w, str, w)
    BY <1>2, <1>4, Joining
  <2> QED
    BY <1>4, <1>5, <2>1, Zenon DEF JoinOf
<1>7. \A i \in 1..Len(t) : t[i] # Nul
  <2> TAKE i \in 1..Len(t)
  <2>1. CASE i \in 1..Len(str)
    <3>1. t[i] \in D
      BY <2>1, <1>2, <1>6
    <3> QED
      BY <3>1, <1>0
  <2>2. CASE i \notin 1..Len(str)
    <3>1. i - Len(str) \in 1..c /\ Len(str) + (i - Len(str)) = i
      BY <2>2, <1>2, <1>3, <1>6
    <3>2. t[i] = Pad
      BY <3>1, <1>4, <1>6
    <3> QED
      BY <3>2 DEF Pad, Nul
  <2> QED
    BY <2>1, <2>2
<1> QED
  BY <1>6, <1>7, CStrEnds DEF t

\* A text that is accepted is the one its bytes are written as.
LEMMA BaseAccepts ==
    ASSUME NEW k \in {5, 6}, NEW t \in Seq(Int), DecodeBase(k, t).valid
    PROVE  EncodeBase(k, DecodeBase(k, t).ret) = t
<1> DEFINE D == Bits(k)
           q == SkipOver(t, 1, D)
           p == SkipOver(t, q, {Pad})
           n == q - 1
           str == SubSeq(t, 1, n)
           bits == Cutting(str, k, 8)
           G == Group(k)
           c == Len(t) - n
           w == [i \in 1..c |-> Pad]
<1>0. /\ k \in Nat /\ k > 0 /\ k <= 8 /\ D \subseteq Int /\ Pad \notin D
      /\ G \in {4, 8} /\ D = 0..(Pow(2, k) - 1) /\ 8 \in Nat
  BY BaseDigits
<1>1. DecodeBase(k, t) = DecodedAs(k, q, p, t, bits)
  BY <1>0, DecodeBaseIs
<1>2. q \in 1..(Len(t) + 1) /\ Skips(t, 1, D, q) /\ Len(t) \in Nat
  <2>1. Len(t) \in Nat /\ 1 \in 1..(Len(t) + 1)
    OBVIOUS
  <2> QED
    BY <2>1, SkipFound
<1> HIDE DEF q
<1>3. p \in q..(Len(t) + 1) /\ Skips(t, q, {Pad}, p)
  BY <1>2, SkipFound
<1> HIDE DEF p, bits, G, D
<1>4. bits.ok /\ p > Len(t) /\ (p - 1) % G = 0 /\ p - q < G /\ DecodeBase(k, t).ret = bits.out
  <2> DEFINE v == bits.ok /\ p > Len(t) /\ (p - 1) % G = 0 /\ p - q < G
             z == DecodeBase(k, t)
  <2>1. z = [valid |-> v, ret |-> bits.out]
    BY <1>1, Zenon DEF DecodedAs, G
  <2> HIDE DEF v, z
  <2>2. z.valid = v /\ z.ret = bits.out
    BY <2>1
  <2>3. v
    BY <2>2 DEF z
  <2> QED
    BY <2>2, <2>3 DEF v, z
<1>5. n \in Nat /\ n <= Len(t) /\ p = Len(t) + 1 /\ c \in Nat /\ q = n + 1 /\ Len(t) = n + c
  BY <1>2, <1>3, <1>4
<1>6. str \in Seq(Int) /\ Len(str) = n /\ \A i \in 1..n : str[i] = t[i]
  BY <1>5, PartOf
<1>7. str \in Seq(D)
  <2>1. \A i \in 1..n : str[i] \in D
    BY <1>2, <1>6 DEF Skips
  <2> QED
    BY <1>6, <2>1
<1>8. str \o w = t
  <2>1. w \in Seq(Int) /\ Len(w) = c /\ \A i \in 1..c : w[i] = Pad
    <3> HIDE DEF c
    <3> QED
      BY <1>5, PadsAre
  <2>2. \A i \in (n + 1)..Len(t) : t[i] = Pad
    BY <1>3, <1>5 DEF Skips
  <2> HIDE DEF w, str, c, n
  <2>3. JoinOf(Int, str \o w, str, w)
    BY <1>6, <2>1, Joining
  <2> DEFINE u == str \o w
  <2>4. /\ u \in Seq(Int) /\ Len(u) = n + c /\ n + c = Len(t)
        /\ \A i \in 1..n : u[i] = t[i]
        /\ \A i \in 1..c : u[n + i] = Pad
    BY <1>5, <1>6, <2>1, <2>3, SMTT(60) DEF JoinOf
  <2> HIDE DEF u
  <2>5. ASSUME NEW i \in 1..Len(t) PROVE u[i] = t[i]
    <3>1. CASE i <= n
      <4>1. i \in 1..n
        BY <1>5, <3>1
      <4> QED
        BY <2>4, <4>1
    <3>2. CASE ~(i <= n)
      <4>1. i \in (n + 1)..Len(t) /\ i - n \in 1..c /\ n + (i - n) = i
        BY <1>5, <3>2
      <4> QED
        BY <2>2, <2>4, <4>1
    <3> QED
      BY <3>1, <3>2
  <2>6. u = t
    BY <2>4, <2>5, SeqEqual, ZenonT(60)
  <2> QED
    BY <2>6 DEF u
<1>9. c = (-n) % G
  <2>1. c \in 0..(G - 1) /\ (n + c) % G = 0
    BY <1>0, <1>4, <1>5
  <2> HIDE DEF c, n
  <2> QED
    BY <1>0, <1>5, <2>1, PadOnly, ZenonT(60)
<1>10. Padding(bits.out, 8, k) = str
  <2>1. bits = Cutting(str, k, 8) /\ str \in Seq(Bits(k))
    BY <1>7 DEF bits, D
  <2> HIDE DEF str
  <2> QED
    BY <1>0, <1>4, <2>1, BitsOnly
<1>11. EncodeBase(k, bits.out) = PaddedText(str, c)
  <2> HIDE DEF str, c, n
  <2>1. EncodeBase(k, bits.out) = PaddedText(str, (-Len(str)) % G)
    BY <1>10, EncodeBaseIs DEF G
  <2> QED
    BY <1>6, <1>9, <2>1
<1> QED
  BY <1>4, <1>8, <1>11 DEF PaddedText

-----------------------------------------------------------------------------
(* Hexadecimal *)

\* The bytes from a place on.
PairAt(text, i) == At(text, i) \in Hex /\ At(text, i + 1) \in Hex
NextPair(text, n) == SkipOver(text, n, {Space})
HexRule(text, f, n) ==
    IF PairAt(text, NextPair(text, n))
    THEN <<16 * text[NextPair(text, n)] + text[NextPair(text, n) + 1]>> \o f[NextPair(text, n) + 2]
    ELSE <<>>
HexFrom(text) == CHOOSE f : f = [n \in 1..(Len(text) + 1) |-> HexRule(text, f, n)]

\* ParseHex starts at the first.
LEMMA ParseHexIs == \A text : ParseHex(text) = HexFrom(text)[1]
  BY Zenon DEF ParseHex, HexFrom, HexRule, PairAt, NextPair

\* A sequence over a part of a set.
LEMMA WiderSeq ==
    ASSUME NEW D, NEW E, D \subseteq E, NEW s \in Seq(D)
    PROVE  s \in Seq(E)
<1> DEFINE n == Len(s)
<1>1. n \in Nat /\ s \in [1..n -> D]
  OBVIOUS
<1>2. s \in [1..n -> E]
  BY <1>1
<1> QED
  BY <1>1, <1>2, FunctionIsSeq

\* A pair lies within the text.
LEMMA PairWithin ==
    ASSUME NEW text \in Seq(Int), NEW i \in Nat, PairAt(text, i)
    PROVE  i \in 1..Len(text) /\ i + 1 \in 1..Len(text)
<1>1. DOMAIN text = 1..Len(text) /\ Other \notin Hex
  BY DEF Other, Hex
<1>2. At(text, i) # Other /\ At(text, i + 1) # Other
  BY <1>1 DEF PairAt
<1> QED
  BY <1>1, <1>2 DEF At

\* The bytes from each place on are well defined.
LEMMA HexSteps ==
    ASSUME NEW text \in Seq(Int)
    PROVE  \A n \in 1..(Len(text) + 1) : HexFrom(text)[n] = HexRule(text, HexFrom(text), n)
<1> DEFINE N == Len(text)
           S == Seq(Int)
           J(m) == NextPair(text, (N + 1) - m)
           Z == {m \in Nat : m > N \/ ~PairAt(text, J(m))}
           a == [m \in Nat |-> <<>>]
           p == [m \in Nat |-> IF m \in Z THEN 0 ELSE (N - 1) - J(m)]
           d == [m \in Nat |-> IF m \in Z THEN 0 ELSE 16 * text[J(m)] + text[J(m) + 1]]
           b == [m \in Nat |-> [x \in S |-> <<d[m]>> \o x]]
<1>0. N \in Nat
  OBVIOUS
<1>1. ASSUME NEW m \in Nat, m \notin Z
      PROVE  /\ J(m) \in Nat /\ (N - 1) - J(m) \in Nat /\ (N - 1) - J(m) < m /\ m <= N
             /\ J(m) \in 1..N /\ J(m) + 1 \in 1..N
  <2>1. m <= N /\ PairAt(text, J(m))
    BY <1>0, <1>1
  <2>2. (N + 1) - m \in 1..(N + 1)
    BY <1>0, <2>1
  <2>3. J(m) \in ((N + 1) - m)..(N + 1)
    BY <1>0, <2>2, SkipFound DEF NextPair
  <2> DEFINE j == J(m)
  <2> HIDE DEF j
  <2>4. j \in Nat /\ (N + 1) - m <= j
    BY <1>0, <2>2, <2>3 DEF j
  <2>5. j \in 1..N /\ j + 1 \in 1..N
    BY <2>1, <2>4, PairWithin DEF j
  <2>6. (N - 1) - j \in Nat /\ (N - 1) - j < m
    BY <1>0, <2>4, <2>5
  <2> QED
    BY <2>1, <2>4, <2>5, <2>6 DEF j
<1> HIDE DEF Z, J
<1>2. a \in [Nat -> S]
  OBVIOUS
<1>3. p \in [Nat -> Nat] /\ Descends(p, Z)
  BY <1>1 DEF Descends
<1>4. \A m \in Nat : d[m] \in Int
  <2> TAKE m \in Nat
  <2>1. CASE m \in Z
    BY <2>1
  <2>2. CASE m \notin Z
    <3>1. text[J(m)] \in Int /\ text[J(m) + 1] \in Int
      BY <1>1, <2>2, ElementOfSeq
    <3> QED
      BY <2>2, <3>1
  <2> QED
    BY <2>1, <2>2
<1>5. b \in [Nat -> [S -> S]]
  <2> HIDE DEF d
  <2>1. \A m \in Nat, x \in S : <<d[m]>> \o x \in S
    BY <1>4
  <2> HIDE DEF S
  <2> QED
    BY <2>1
<1>6. \E g \in [Nat -> S] : Recurs(g, Z, a, p, b)
  <2> HIDE DEF S, a, p, b
  <2> QED
    BY <1>2, <1>3, <1>5, Recursion
<1>7. PICK g \in [Nat -> S] : Recurs(g, Z, a, p, b)
  BY <1>6
<1> DEFINE f == [n \in 1..(N + 1) |-> g[(N + 1) - n]]
<1>8. ASSUME NEW n \in 1..(N + 1) PROVE f[n] = HexRule(text, f, n)
  <2> DEFINE m == (N + 1) - n
  <2>1. m \in Nat /\ (N + 1) - m = n /\ m <= N
    BY <1>0
  <2>2. J(m) = NextPair(text, n)
    BY <2>1 DEF J
  <2> HIDE DEF m
  <2>3. f[n] = g[m]
    BY DEF m
  <2>4. g[m] = IF m \in Z THEN a[m] ELSE b[m][g[p[m]]]
    BY <1>7, <2>1 DEF Recurs
  <2>5. CASE m \in Z
    <3>1. ~PairAt(text, NextPair(text, n))
      BY <2>1, <2>2, <2>5 DEF Z
    <3>2. f[n] = <<>>
      BY <2>1, <2>3, <2>4, <2>5
    <3> QED
      BY <3>1, <3>2, Zenon DEF HexRule
  <2>6. CASE m \notin Z
    <3> DEFINE i == NextPair(text, n)
    <3>1. i \in Nat /\ i + 1 \in 1..N /\ p[m] = (N - 1) - i /\ p[m] \in Nat
      BY <1>1, <2>1, <2>2, <2>6
    <3>2. PairAt(text, i)
      BY <2>1, <2>2, <2>6 DEF Z
    <3>3. d[m] = 16 * text[i] + text[i + 1]
      BY <2>1, <2>2, <2>6
    <3> HIDE DEF i, d
    <3>4. b[m][g[p[m]]] = <<d[m]>> \o g[p[m]]
      BY <2>1, <3>1
    <3>5. f[i + 2] = g[p[m]]
      <4>1. i + 2 \in 1..(N + 1) /\ (N + 1) - (i + 2) = (N - 1) - i
        BY <1>0, <3>1
      <4> QED
        BY <3>1, <4>1
    <3> HIDE DEF f, b, p
    <3>6. f[n] = <<16 * text[i] + text[i + 1]>> \o f[i + 2]
      BY <2>3, <2>4, <2>6, <3>3, <3>4, <3>5
    <3> QED
      BY <3>2, <3>6, Zenon DEF HexRule, i
  <2> QED
    BY <2>5, <2>6
<1> DEFINE F == HexFrom(text)
<1>9. F = [n \in 1..(N + 1) |-> HexRule(text, F, n)]
  <2>1. f = [n \in 1..(N + 1) |-> HexRule(text, f, n)]
    BY <1>8
  <2> HIDE DEF f
  <2>2. \E h : h = [n \in 1..(Len(text) + 1) |-> HexRule(text, h, n)]
    BY <2>1
  <2> QED
    BY <2>2, Zenon DEF HexFrom
<1> HIDE DEF F
<1>10. \A n \in 1..(N + 1) : F[n] = HexRule(text, F, n)
  BY <1>9
<1> QED
  BY <1>10 DEF F

\* The bytes that pairs of digits stand for.
HexPairs(t, M) == [k \in 1..M |-> 16 * t[2 * k - 1] + t[2 * k]]

\* A text of digits, two to a byte, is parsed to the end.
LEMMA ParsesPairs ==
    ASSUME NEW t \in Seq(Hex), NEW M \in Nat, Len(t) = 2 * M
    PROVE  ParseHex(t) = HexPairs(t, M) /\ HexPairs(t, M) \in Seq(0..255)
<1> DEFINE v == [k \in 1..M |-> 16 * t[2 * k - 1] + t[2 * k]]
           F == HexFrom(t)
<1>0. \A i \in 1..(2 * M) : t[i] \in 0..15
  BY ElementOfSeq DEF Hex
<1>1. t \in Seq(Int) /\ DOMAIN t = 1..(2 * M)
  <2>1. Hex \subseteq Int
    BY DEF Hex
  <2>2. t \in Seq(Int)
    BY <2>1, WiderSeq
  <2> QED
    BY <2>2
<1>2. \A k \in 1..M : v[k] \in 0..255
  <2> TAKE k \in 1..M
  <2>1. 2 * k - 1 \in 1..(2 * M) /\ 2 * k \in 1..(2 * M)
    OBVIOUS
  <2>2. t[2 * k - 1] \in 0..15 /\ t[2 * k] \in 0..15
    BY <1>0, <2>1
  <2> DEFINE y == t[2 * k - 1]
             z == t[2 * k]
  <2>3. v[k] = 16 * y + z
    OBVIOUS
  <2> HIDE DEF y, z, v
  <2>4. y \in 0..15 /\ z \in 0..15
    BY <2>2 DEF y, z
  <2>5. 16 * y + z \in 0..255
    BY <2>4
  <2> QED
    BY <2>3, <2>5
<1>b. \A k \in 1..M : v[k] \in Int
  <2> HIDE DEF v
  <2>1. 0..255 \subseteq Int
    OBVIOUS
  <2> QED
    BY <1>2, <2>1, Zenon
<1>3. \A n \in 1..(2 * M + 1) : F[n] = HexRule(t, F, n)
  BY <1>1, HexSteps
<1> HIDE DEF F
<1>4. \A n \in 1..(2 * M + 1) : NextPair(t, n) = n
  <2> TAKE n \in 1..(2 * M + 1)
  <2>1. n <= Len(t) => t[n] \notin {Space}
    <3>1. n <= Len(t) => t[n] \in 0..15
      BY <1>0
    <3> QED
      BY <3>1, SMTT(60) DEF Space
  <2>2. n \in n..(Len(t) + 1) /\ n \in 1..(Len(t) + 1) /\ Len(t) \in Nat
    OBVIOUS
  <2>3. Skips(t, n, {Space}, n)
    BY <2>1, <2>2 DEF Skips
  <2> QED
    BY <2>2, <2>3, SkipIs DEF NextPair
<1>5. F[2 * M + 1] = <<>>
  <2>1. At(t, 2 * M + 1) \notin Hex
    BY <1>1 DEF At, Other, Hex
  <2>2. 2 * M + 1 \in 1..(2 * M + 1)
    OBVIOUS
  <2> QED
    BY <1>3, <1>4, <2>1, <2>2 DEF HexRule, PairAt
<1>6. ASSUME NEW k \in 1..M
      PROVE  F[2 * k - 1] = <<v[k]>> \o F[2 * k + 1]
  <2> DEFINE n == 2 * k - 1
  <2>1. n \in 1..(2 * M + 1) /\ n \in DOMAIN t /\ n + 1 \in DOMAIN t /\ n + 1 = 2 * k /\ n + 2 = 2 * k + 1
        /\ n \in 1..(2 * M) /\ n + 1 \in 1..(2 * M)
    BY <1>1
  <2>2. PairAt(t, n)
    BY <1>0, <2>1 DEF PairAt, At, Hex
  <2>3. F[n] = <<16 * t[n] + t[n + 1]>> \o F[n + 2]
    BY <1>3, <1>4, <2>1, <2>2 DEF HexRule
  <2>4. v[k] = 16 * t[n] + t[n + 1]
    BY <2>1
  <2> QED
    BY <2>1, <2>3, <2>4
<1>v. v = HexPairs(t, M)
  BY DEF HexPairs
<1> HIDE DEF v
<1> DEFINE T == {j \in Nat : j <= M => F[2 * (M - j) + 1] = [k \in 1..j |-> v[(M - j) + k]]}
<1>7. ASSUME NEW j \in Nat, \A m \in 0..(j - 1) : m \in T PROVE j \in T
  <2> SUFFICES ASSUME j <= M PROVE F[2 * (M - j) + 1] = [k \in 1..j |-> v[(M - j) + k]]
    OBVIOUS
  <2>1. CASE j = 0
    <3>1. 2 * (M - j) + 1 = 2 * M + 1
      BY <2>1
    <3>2. [k \in 1..j |-> v[(M - j) + k]] = <<>>
      BY <2>1
    <3> QED
      BY <1>5, <3>1, <3>2
  <2>2. CASE j # 0
    <3> DEFINE i == (M - j) + 1
               w == [k \in 1..(j - 1) |-> v[(M - (j - 1)) + k]]
               u == [k \in 1..j |-> v[(M - j) + k]]
               x == v[i]
    <3>1. i \in 1..M /\ 2 * i - 1 = 2 * (M - j) + 1 /\ 2 * i + 1 = 2 * (M - (j - 1)) + 1
          /\ j - 1 \in 0..(j - 1) /\ j - 1 \in Nat /\ j - 1 <= M
      BY <2>2
    <3>2. F[2 * (M - (j - 1)) + 1] = w
      BY <1>7, <3>1
    <3>3. F[2 * (M - j) + 1] = <<x>> \o w
      BY <1>6, <3>1, <3>2
    <3>4. x \in Int
      BY <1>b, <3>1
    <3>5. w \in Seq(Int) /\ Len(w) = j - 1 /\ \A k \in 1..(j - 1) : w[k] = v[(M - (j - 1)) + k]
      <4>1. \A k \in 1..(j - 1) : (M - (j - 1)) + k \in 1..M
        BY <3>1
      <4>2. w \in [1..(j - 1) -> Int]
        BY <1>b, <4>1
      <4> HIDE DEF w
      <4>3. w \in Seq(Int) /\ Len(w) = j - 1
        BY <3>1, <4>2, FunctionIsSeq
      <4> QED
        BY <4>3 DEF w
    <3>6. u \in Seq(Int) /\ Len(u) = j /\ \A k \in 1..j : u[k] = v[(M - j) + k]
      <4>1. \A k \in 1..j : (M - j) + k \in 1..M
        OBVIOUS
      <4>2. u \in [1..j -> Int]
        BY <1>b, <4>1
      <4> HIDE DEF u
      <4>3. u \in Seq(Int) /\ Len(u) = j
        BY <4>2, FunctionIsSeq
      <4> QED
        BY <4>3 DEF u
    <3> HIDE DEF u, w, x
    <3> DEFINE z == <<x>> \o w
    <3>7. JoinOf(Int, z, <<x>>, w)
      <4>1. <<x>> \in Seq(Int)
        BY <3>4
      <4> QED
        BY <3>5, <4>1, Joining
    <3>8. z \in Seq(Int) /\ Len(z) = j /\ z[1] = x /\ \A k \in 1..(j - 1) : z[1 + k] = w[k]
      <4>1. Len(<<x>>) = 1 /\ <<x>>[1] = x
        OBVIOUS
      <4>2. 1 \in 1..1 /\ 1 + (j - 1) = j
        OBVIOUS
      <4> HIDE DEF z
      <4> QED
        BY <3>5, <3>7, <4>1, <4>2 DEF JoinOf
    <3> HIDE DEF z
    <3>9. ASSUME NEW k \in 1..j PROVE z[k] = u[k]
      <4>1. CASE k = 1
        BY <3>6, <3>8, <4>1 DEF x
      <4>2. CASE k # 1
        <5>1. k - 1 \in 1..(j - 1) /\ 1 + (k - 1) = k /\ (M - (j - 1)) + (k - 1) = (M - j) + k
          BY <4>2
        <5> QED
          BY <3>5, <3>6, <3>8, <5>1, ZenonT(60)
      <4> QED
        BY <4>1, <4>2
    <3>10. z = u
      BY <3>6, <3>8, <3>9, SeqEqual
    <3> QED
      BY <3>3, <3>10 DEF z, u
  <2> QED
    BY <2>1, <2>2
<1>8. \A j \in Nat : j \in T
  <2> HIDE DEF T
  <2> QED
    BY <1>7, Induct
<1>9. F[1] = [k \in 1..M |-> v[k]]
  <2>1. F[2 * (M - M) + 1] = [k \in 1..M |-> v[(M - M) + k]]
    BY <1>8
  <2>2. 2 * (M - M) + 1 = 1 /\ \A k \in 1..M : (M - M) + k = k
    OBVIOUS
  <2> QED
    BY <2>1, <2>2
<1>10. F[1] = HexPairs(t, M)
  BY <1>9, <1>v DEF v
<1>11. v \in Seq(0..255)
  <2>1. v \in [1..M -> 0..255]
    BY <1>2 DEF v
  <2> QED
    BY <2>1, FunctionIsSeq
<1> QED
  BY <1>10, <1>11, <1>v, ParseHexIs DEF F

\* Bytes come back from their digits.
LEMMA HexComesBack ==
    ASSUME NEW bytes \in Seq(0..255)
    PROVE  ParseHex(HexStr(bytes)) = bytes /\ (bytes # <<>> => IsHex(HexStr(bytes)))
<1> DEFINE M == Len(bytes)
           t == HexStr(bytes)
<1>0. M \in Nat /\ \A k \in 1..M : bytes[k] \in 0..255
  BY ElementOfSeq
<1>1. \A b \in 0..255 : b \div 16 \in 0..15 /\ b % 16 \in 0..15 /\ 16 * (b \div 16) + (b % 16) = b
  OBVIOUS
<1>2. t = [i \in 1..(2 * M) |->
             IF i % 2 = 1 THEN bytes[(i + 1) \div 2] \div 16 ELSE bytes[i \div 2] % 16]
  BY DEF HexStr
<1> HIDE DEF t
<1>3. ASSUME NEW i \in 1..(2 * M) PROVE t[i] \in Hex
  <2>1. CASE i % 2 = 1
    <3>1. (i + 1) \div 2 \in 1..M
      BY <1>0, <2>1
    <3>2. bytes[(i + 1) \div 2] \div 16 \in 0..15
      BY <1>0, <1>1, <3>1
    <3> QED
      BY <1>2, <2>1, <3>2 DEF Hex
  <2>2. CASE i % 2 # 1
    <3>1. i \div 2 \in 1..M
      BY <1>0, <2>2
    <3>2. bytes[i \div 2] % 16 \in 0..15
      BY <1>0, <1>1, <3>1
    <3> QED
      BY <1>2, <2>2, <3>2 DEF Hex
  <2> QED
    BY <2>1, <2>2
<1>4. t \in Seq(Hex) /\ Len(t) = 2 * M
  <2>1. 2 * M \in Nat
    BY <1>0
  <2>2. t \in [1..(2 * M) -> Hex]
    BY <1>2, <1>3
  <2> QED
    BY <2>1, <2>2, FunctionIsSeq
<1>5. ASSUME NEW k \in 1..M PROVE 16 * t[2 * k - 1] + t[2 * k] = bytes[k]
  <2>1. 2 * k - 1 \in 1..(2 * M) /\ 2 * k \in 1..(2 * M) /\ (2 * k - 1) % 2 = 1 /\ (2 * k) % 2 # 1
        /\ ((2 * k - 1) + 1) \div 2 = k /\ (2 * k) \div 2 = k
    BY <1>0
  <2>2. t[2 * k - 1] = bytes[k] \div 16 /\ t[2 * k] = bytes[k] % 16
    BY <1>2, <2>1
  <2>3. bytes[k] \in 0..255
    BY <1>0
  <2> QED
    BY <1>1, <2>2, <2>3
<1>6. ParseHex(t) = HexPairs(t, M) /\ HexPairs(t, M) \in Seq(0..255)
  BY <1>0, <1>4, ParsesPairs
<1>7. HexPairs(t, M) = bytes
  <2> DEFINE h == HexPairs(t, M)
  <2>1. h = [k \in 1..M |-> bytes[k]]
    BY <1>5, Zenon DEF HexPairs
  <2>2. bytes = [k \in 1..M |-> bytes[k]]
    OBVIOUS
  <2> QED
    BY <2>1, <2>2
<1>8. bytes # <<>> => IsHex(t)
  <2> SUFFICES ASSUME bytes # <<>> PROVE IsHex(t)
    OBVIOUS
  <2>1. M > 0
    BY <1>0, EmptySeq
  <2>2. Len(t) > 0 /\ Len(t) % 2 = 0
    BY <1>0, <1>4, <2>1
  <2>3. \A i \in DOMAIN t : t[i] \in Hex
    BY <1>4, ElementOfSeq
  <2> QED
    BY <2>2, <2>3 DEF IsHex
<1> QED
  BY <1>6, <1>7, <1>8 DEF t

\* A text of digits is what its bytes are written as.
LEMMA HexAccepts ==
    ASSUME NEW t \in Seq(Int), IsHex(t)
    PROVE  HexStr(ParseHex(t)) = t
<1> DEFINE n == Len(t)
           M == n \div 2
           h == HexPairs(t, M)
<1>1. /\ n \in Nat /\ n % 2 = 0 /\ t \in [1..n -> Int]
      /\ \A i \in 1..n : t[i] \in Hex
  BY DEF IsHex
<1>2. M \in Nat /\ n = 2 * M
  <2> HIDE DEF n
  <2>1. n \in Nat /\ n % 2 = 0
    BY <1>1
  <2> QED
    BY <2>1
<1> HIDE DEF n, M
<1>3. t \in Seq(Hex) /\ Len(t) = 2 * M
  <2>1. t \in [1..n -> Hex]
    BY <1>1
  <2>2. t \in Seq(Hex) /\ Len(t) = n
    BY <1>1, <2>1, FunctionIsSeq
  <2> QED
    BY <1>2, <2>2
<1>4. ParseHex(t) = h /\ h \in Seq(0..255)
  BY <1>2, <1>3, ParsesPairs
<1>5. h = [k \in 1..M |-> 16 * t[2 * k - 1] + t[2 * k]]
  BY DEF HexPairs
<1> HIDE DEF h
<1>6. Len(h) = M
  <2>1. DOMAIN h = 1..M
    BY <1>5, Zenon
  <2>2. DOMAIN h = 1..Len(h) /\ Len(h) \in Nat
    BY <1>4
  <2> HIDE DEF n
  <2> QED
    BY <1>2, <2>1, <2>2
<1>7. \A y \in 0..15, z \in 0..15 : (16 * y + z) \div 16 = y /\ (16 * y + z) % 16 = z
  OBVIOUS
<1>8. ASSUME NEW i \in 1..n
      PROVE  t[i] = IF i % 2 = 1 THEN h[(i + 1) \div 2] \div 16 ELSE h[i \div 2] % 16
  <2>1. CASE i % 2 = 1
    <3> DEFINE k == (i + 1) \div 2
    <3>1. k \in 1..M /\ 2 * k - 1 = i /\ 2 * k = i + 1 /\ i + 1 \in 1..n
      BY <1>1, <1>2, <2>1
    <3> HIDE DEF k
    <3>2. h[k] = 16 * t[i] + t[i + 1]
      BY <1>5, <3>1
    <3>3. t[i] \in 0..15 /\ t[i + 1] \in 0..15
      BY <1>1, <3>1 DEF Hex
    <3>4. h[k] \div 16 = t[i]
      BY <1>7, <3>2, <3>3, ZenonT(60)
    <3> QED
      BY <2>1, <3>4 DEF k
  <2>2. CASE i % 2 # 1
    <3> DEFINE k == i \div 2
    <3>1. k \in 1..M /\ 2 * k - 1 = i - 1 /\ 2 * k = i /\ i - 1 \in 1..n
      BY <1>1, <1>2, <2>2
    <3> HIDE DEF k
    <3>2. h[k] = 16 * t[i - 1] + t[i]
      BY <1>5, <3>1
    <3>3. t[i - 1] \in 0..15 /\ t[i] \in 0..15
      BY <1>1, <3>1 DEF Hex
    <3>4. h[k] % 16 = t[i]
      <4> DEFINE y == t[i - 1]
                 z == t[i]
      <4>1. y \in 0..15 /\ z \in 0..15 /\ h[k] = 16 * y + z
        BY <3>2, <3>3
      <4> HIDE DEF y, z
      <4>2. (16 * y + z) % 16 = z
        BY <1>7, <4>1
      <4>3. h[k] % 16 = z
        BY <4>1, <4>2
      <4> QED
        BY <4>3 DEF z
    <3> QED
      BY <2>2, <3>4 DEF k
  <2> QED
    BY <2>1, <2>2
<1>9. HexStr(h) = [i \in 1..n |-> IF i % 2 = 1 THEN h[(i + 1) \div 2] \div 16 ELSE h[i \div 2] % 16]
  BY <1>2, <1>6 DEF HexStr
<1>10. HexStr(h) = [i \in 1..n |-> t[i]]
  BY <1>8, <1>9, Zenon
<1>11. t = [i \in 1..n |-> t[i]]
  BY <1>1
<1> QED
  BY <1>4, <1>10, <1>11

-----------------------------------------------------------------------------
(* TextRoundTrip *)

\* What TextRoundTrip says of bytes and their texts, and of a text and its bytes.
TextsComeBack(b, base64, base32, hex) ==
    /\ DecodeBase64(base64) = [valid |-> TRUE, ret |-> b]
    /\ DecodeBase32(base32) = [valid |-> TRUE, ret |-> b]
    /\ ParseHex(hex) = b /\ (b # <<>> => IsHex(hex))
TextsAreWritten(t, base64, base32, hex) ==
    /\ base64.valid => EndsAfter(t, EncodeBase64(base64.ret))
    /\ base32.valid => EndsAfter(t, EncodeBase32(base32.ret))
    /\ IsHex(t) => HexStr(hex) = t

\* TextRoundTrip says these two things.
LEMMA TextForm ==
    TextRoundTrip <=>
        /\ out.op = "binary" => TextsComeBack(out.in, out.base64, out.base32, out.hex)
        /\ out.op = "text" => TextsAreWritten(out.in, out.base64, out.base32, out.hex)
  BY Zenon DEF TextRoundTrip, TextsComeBack, TextsAreWritten

\* Only two actions are about texts.
LEMMA OnlyTexts ==
    ASSUME CodecNext PROVE EncodeText \/ DecodeText \/ (out'.op # "binary" /\ out'.op # "text")
<1>1. EncodeInt => out'.op = "int"
  BY DEF EncodeInt, Run
<1>2. DecodeInt => out'.op = "bytes"
  BY DEF DecodeInt, Run
<1>3. EncodeContainers => out'.op = "containers"
  BY DEF EncodeContainers, Run
<1>4. DecodeTx => out'.op = "txbytes"
  BY DEF DecodeTx, Run
<1>5. EncodeBlock => out'.op = "block"
  BY DEF EncodeBlock, Run
<1>6. SolveScript => out'.op = "script"
  BY DEF SolveScript, Run
<1>7. EncodeTx => out'.op = "tx"
  BY DEF EncodeTx, Run
<1>8. ParseNumber => out'.op = "number"
  BY DEF ParseNumber, Run
<1>9. \/ EncodeInt \/ DecodeInt \/ EncodeContainers \/ EncodeTx \/ DecodeTx
       \/ EncodeBlock \/ SolveScript \/ EncodeText \/ DecodeText \/ ParseNumber
  BY Zenon DEF CodecNext
<1> QED
  BY <1>1, <1>2, <1>3, <1>4, <1>5, <1>6, <1>7, <1>8, <1>9

\* Base64, Base32 and hexadecimal give back the bytes they were made of, and a text
\* that is accepted is, up to a NUL, the one its bytes are written as (EncodeBase64, DecodeBase64,
\* EncodeBase32, DecodeBase32, HexStr, IsHex and ParseHex of strencodings.cpp), for
\* every string of bytes and every text.
THEOREM TextRoundTripHolds == CodecSpec => []TextRoundTrip
<1>1. CodecInit => TextRoundTrip
  <2> SUFFICES ASSUME CodecInit PROVE TextRoundTrip
    OBVIOUS
  <2>1. out.op = "none"
    BY DEF CodecInit, Idle
  <2> QED
    BY <2>1, TextForm
<1>2. TextRoundTrip /\ [CodecNext]_out => TextRoundTrip'
  <2> SUFFICES ASSUME TextRoundTrip, [CodecNext]_out PROVE TextRoundTrip'
    OBVIOUS
  <2>0. TextRoundTrip' <=>
            /\ out'.op = "binary" => TextsComeBack(out'.in, out'.base64, out'.base32, out'.hex)
            /\ out'.op = "text" => TextsAreWritten(out'.in, out'.base64, out'.base32, out'.hex)
    BY Zenon DEF TextRoundTrip, TextsComeBack, TextsAreWritten
  <2>1. CASE EncodeText
    <3>1. PICK b \in Binaries : out' = [op |-> "binary", in |-> b, base64 |-> EncodeBase64(b),
                                        base32 |-> EncodeBase32(b), hex |-> HexStr(b)]
      BY <2>1 DEF EncodeText, Run
    <3>2. b \in Seq(0..255)
      BY InputsAssumption
    <3>3. DecodeBase64(EncodeBase64(b)) = [valid |-> TRUE, ret |-> b]
      BY <3>2, BaseComesBack, EncodedCStr DEF DecodeBase64, EncodeBase64
    <3>4. DecodeBase32(EncodeBase32(b)) = [valid |-> TRUE, ret |-> b]
      BY <3>2, BaseComesBack, EncodedCStr DEF DecodeBase32, EncodeBase32
    <3>5. ParseHex(HexStr(b)) = b /\ (b # <<>> => IsHex(HexStr(b)))
      BY <3>2, HexComesBack
    <3>6. TextsComeBack(b, EncodeBase64(b), EncodeBase32(b), HexStr(b))
      BY <3>3, <3>4, <3>5, Zenon DEF TextsComeBack
    <3>7. out'.op = "binary" /\ out'.in = b /\ out'.base64 = EncodeBase64(b)
          /\ out'.base32 = EncodeBase32(b) /\ out'.hex = HexStr(b)
      BY <3>1
    <3> QED
      BY <2>0, <3>6, <3>7
  <2>2. CASE DecodeText
    <3>1. PICK t \in Texts : out' = [op |-> "text", in |-> t, base64 |-> DecodeBase64(t),
                                     base32 |-> DecodeBase32(t), hex |-> ParseHex(t)]
      BY <2>2 DEF DecodeText, Run
    <3>2. t \in Seq(Int)
      BY InputsAssumption
    <3>0. CStr(t) \in Seq(Int) /\ EndsAfter(t, CStr(t))
      BY <3>2, CStrEnds
    <3>3. DecodeBase64(t).valid => EndsAfter(t, EncodeBase64(DecodeBase64(t).ret))
      BY <3>0, BaseAccepts DEF DecodeBase64, EncodeBase64
    <3>4. DecodeBase32(t).valid => EndsAfter(t, EncodeBase32(DecodeBase32(t).ret))
      BY <3>0, BaseAccepts DEF DecodeBase32, EncodeBase32
    <3>5. IsHex(t) => HexStr(ParseHex(t)) = t
      BY <3>2, HexAccepts
    <3>6. TextsAreWritten(t, DecodeBase64(t), DecodeBase32(t), ParseHex(t))
      BY <3>3, <3>4, <3>5, Zenon DEF TextsAreWritten
    <3>7. out'.op = "text" /\ out'.in = t /\ out'.base64 = DecodeBase64(t)
          /\ out'.base32 = DecodeBase32(t) /\ out'.hex = ParseHex(t)
      BY <3>1
    <3> QED
      BY <2>0, <3>6, <3>7
  <2>3. CASE CodecNext /\ ~EncodeText /\ ~DecodeText
    <3>1. out'.op # "binary" /\ out'.op # "text"
      BY <2>3, OnlyTexts
    <3> QED
      BY <2>0, <3>1
  <2>4. CASE out' = out
    BY <2>0, <2>4, TextForm
  <2> QED
    BY <2>1, <2>2, <2>3, <2>4
<1> QED
  BY <1>1, <1>2, PTL DEF CodecSpec

-----------------------------------------------------------------------------
(* Fixed point numbers *)

\* The powers of ten.
LEMMA Tens ==
    /\ Pow(10, 0) = 1
    /\ \A k \in Nat : Pow(10, k) \in Nat /\ Pow(10, k) > 0 /\ Pow(10, k + 1) = 10 * Pow(10, k)
    /\ \A m, n \in Nat : Pow(10, m + n) = Pow(10, m) * Pow(10, n)
<1>1. 10 \in Nat /\ 10 > 0
  OBVIOUS
<1>2. /\ Pow(10, 0) = 1
      /\ \A k \in Nat : Pow(10, k) \in Nat /\ Pow(10, k) > 0 /\ Pow(10, k + 1) = 10 * Pow(10, k)
  BY <1>1, PowSteps
<1>3. \A m, n \in Nat : Pow(10, m + n) = Pow(10, m) * Pow(10, n)
  BY <1>1, PowPlus
<1> QED
  BY <1>2, <1>3

\* A number has room for another digit up to a tenth of the bound.
RoomFor(v, c) == v <= UPPER_BOUND \div 10 <=> 10 * v + c <= UPPER_BOUND

\* The bound is made of nines.
LEMMA Bound ==
    UPPER_BOUND \in Nat /\ \A v \in Nat, c \in 0..9 : RoomFor(v, c)
<1> DEFINE P == Pow(10, MaxExp - 1)
<1>1. MaxExp - 1 \in Nat /\ (MaxExp - 1) + 1 = MaxExp
  BY StrEncodingsAssumption
<1>2. P \in Nat /\ P > 0 /\ Pow(10, MaxExp) = 10 * P
  BY <1>1, Tens
<1>3. UPPER_BOUND = 10 * P - 1
  BY <1>2, StrEncodingsAssumption
<1> HIDE DEF P
<1>4. UPPER_BOUND \in Nat /\ UPPER_BOUND \div 10 = P - 1
  BY <1>2, <1>3
<1>5. ASSUME NEW v \in Nat, NEW c \in 0..9 PROVE RoomFor(v, c)
  <2>1. v <= P - 1 <=> 10 * v + c <= 10 * P - 1
    BY <1>2
  <2> QED
    BY <1>3, <1>4, <2>1 DEF RoomFor
<1> QED
  BY <1>4, <1>5

\* Larger powers make larger products.
LEMMA Grows ==
    ASSUME NEW m \in Nat, NEW i \in Nat, NEW k \in Nat, i <= k
    PROVE  m * Pow(10, i) \in Nat /\ m * Pow(10, k) \in Nat /\ m * Pow(10, i) <= m * Pow(10, k)
<1> DEFINE j == k - i
           I == Pow(10, i)
           D == Pow(10, j)
           n == m * I
<1>1. j \in Nat /\ k = i + j
  OBVIOUS
<1> HIDE DEF j
<1>2. I \in Nat /\ D \in Nat /\ D > 0 /\ Pow(10, k) = I * D
  BY <1>1, Tens
<1> HIDE DEF I, D
<1>3. n \in Nat /\ m * (I * D) = n * D
  BY <1>2
<1> HIDE DEF n
<1>4. n * D = n + n * (D - 1) /\ n * (D - 1) \in Nat
  <2>1. D - 1 \in Nat /\ D = 1 + (D - 1)
    BY <1>2
  <2> DEFINE e == D - 1
  <2> HIDE DEF e
  <2>2. n * (1 + e) = n + n * e /\ n * e \in Nat
    BY <1>3, <2>1 DEF e
  <2> QED
    BY <2>1, <2>2 DEF e
<1> QED
  BY <1>2, <1>3, <1>4 DEF n, I

\* States of ProcessMantissaDigit.
MantStates == [ok : BOOLEAN, mantissa : Nat, tzeros : Nat]
NoDigits == [ok |-> TRUE, mantissa |-> 0, tzeros |-> 0]

\* What they are after n digits that stand for v: the zeros at the end are held back,
\* and the rest is within the bound as long as no product was too large.
Held(st, v, n) ==
    /\ st \in MantStates
    /\ st.tzeros <= n /\ v = st.mantissa * Pow(10, st.tzeros)
    /\ st.mantissa = 0 \/ st.mantissa % 10 # 0
    /\ st.ok <=> st.mantissa <= UPPER_BOUND

\* One more digit.
LEMMA DigitHeld ==
    ASSUME NEW v \in Nat, NEW n \in Nat, NEW st, Held(st, v, n), NEW c \in 0..9
    PROVE  Held(ProcessMantissaDigit(st, c), 10 * v + c, n + 1)
<1> DEFINE m == st.mantissa
           z == st.tzeros
           P == Pow(10, z)
           r == ProcessMantissaDigit(st, c)
<1>1. /\ st \in MantStates /\ m \in Nat /\ z \in Nat /\ z <= n /\ v = m * P
      /\ m = 0 \/ m % 10 # 0
      /\ st.ok <=> m <= UPPER_BOUND
  BY DEF Held, MantStates
<1>2. P \in Nat /\ P > 0 /\ Pow(10, z + 1) = 10 * P
  BY <1>1, Tens
<1>3. m * Pow(10, z + 1) = 10 * v
  <2> HIDE DEF m, P
  <2>1. m * (10 * P) = 10 * (m * P)
    BY <1>1, <1>2
  <2> QED
    BY <1>1, <1>2, <2>1
<1>4. CASE c = 0
  <2>1. r = [st EXCEPT !.tzeros = z + 1]
    BY <1>4 DEF ProcessMantissaDigit
  <2>2. r = [ok |-> st.ok, mantissa |-> m, tzeros |-> z + 1]
    BY <1>1, <2>1 DEF MantStates
  <2> HIDE DEF r
  <2>3. r \in MantStates /\ r.mantissa = m /\ r.tzeros = z + 1 /\ (r.ok <=> st.ok)
    BY <1>1, <2>2 DEF MantStates
  <2> QED
    BY <1>1, <1>3, <1>4, <2>3 DEF Held, r
<1>5. CASE c # 0
  <2> DEFINE w == 10 * v + c
             Room == st.ok /\ \A i \in 0..z : m * Pow(10, i) <= UPPER_BOUND \div 10
  <2>1. r = [ok |-> Room, tzeros |-> 0, mantissa |-> w]
    <3>1. r = [ok |-> Room, tzeros |-> 0, mantissa |-> m * Pow(10, z + 1) + c]
      BY <1>5, Zenon DEF ProcessMantissaDigit
    <3> QED
      BY <1>3, <3>1, Zenon
  <2>2. w \in Nat /\ w % 10 # 0 /\ w = w * Pow(10, 0)
    <3>1. w \in Nat /\ w % 10 = c
      OBVIOUS
    <3> QED
      BY <1>5, <3>1, Tens
  <2>3. Room <=> w <= UPPER_BOUND
    <3>1. UPPER_BOUND \in Nat /\ (v <= UPPER_BOUND \div 10 <=> w <= UPPER_BOUND)
      BY Bound DEF RoomFor
    <3>2. UPPER_BOUND \div 10 \in Nat
      BY <3>1
    <3>3. \A i \in 0..z : m * Pow(10, i) \in Nat /\ m * Pow(10, i) <= v
      <4> HIDE DEF m, z
      <4> TAKE i \in 0..z
      <4>1. i \in Nat /\ i <= z /\ m \in Nat /\ z \in Nat
        BY <1>1
      <4>2. m * Pow(10, i) \in Nat /\ m * Pow(10, i) <= m * Pow(10, z)
        BY <4>1, Grows
      <4> QED
        BY <1>1, <4>2
    <3>4. m <= v
      <4>0. 0 \in 0..z
        BY <1>1
      <4> HIDE DEF m, z
      <4>1. m * Pow(10, 0) <= v /\ m * Pow(10, 0) = m
        BY <1>1, <3>3, <4>0, Tens
      <4> QED
        BY <4>1
    <3>5. ASSUME v <= UPPER_BOUND \div 10 PROVE Room
      <4> DEFINE Tenth == UPPER_BOUND \div 10
      <4>1. Tenth <= UPPER_BOUND
        BY <3>1
      <4> HIDE DEF Tenth
      <4>2. v <= Tenth /\ Tenth \in Nat
        BY <3>2, <3>5 DEF Tenth
      <4>3. \A i \in 0..z : m * Pow(10, i) <= Tenth
        BY <3>3, <4>2
      <4>4. m <= UPPER_BOUND
        BY <1>1, <3>1, <3>4, <4>1, <4>2
      <4> QED
        BY <1>1, <4>3, <4>4 DEF Tenth
    <3>6. ASSUME Room PROVE v <= UPPER_BOUND \div 10
      <4>1. z \in 0..z
        BY <1>1
      <4> QED
        BY <1>1, <3>6, <4>1
    <3> QED
      BY <3>1, <3>5, <3>6
  <2> HIDE DEF r, w, Room
  <2>4. r \in MantStates /\ r.mantissa = w /\ r.tzeros = 0 /\ (r.ok <=> Room)
    <3>1. Room \in BOOLEAN
      BY DEF Room
    <3> QED
      BY <2>1, <2>2, <3>1 DEF MantStates
  <2>5. Held(r, w, n + 1)
    BY <2>2, <2>3, <2>4 DEF Held
  <2> QED
    BY <2>5 DEF r, w
<1> QED
  BY <1>4, <1>5

\* The states of Mantissa, one digit at a time.
MantRule(s, f, i) == IF i = 0 THEN NoDigits ELSE ProcessMantissaDigit(f[i - 1], s[i])
MantSteps(s) == CHOOSE f : f = [i \in 0..Len(s) |-> MantRule(s, f, i)]

\* Mantissa looks at the last one, and Decimal is the number its digits stand for.
LEMMA MantissaIs == \A s : Mantissa(s) = MantSteps(s)[Len(s)]
  BY Zenon DEF Mantissa, MantSteps, MantRule, NoDigits

\* Decimal takes the digits one at a time, the most significant first.
LEMMA DecimalIs == \A s : Decimal(s) = NumberIn(10, s)
  BY Zenon DEF Decimal, NumberIn, NumbersIn, NumberRule

\* ProcessMantissaDigit stays among its states.
LEMMA MantStays ==
    ASSUME NEW st \in MantStates, NEW c \in Nat
    PROVE  ProcessMantissaDigit(st, c) \in MantStates
<1> DEFINE m == st.mantissa
           z == st.tzeros
           Room == st.ok /\ \A i \in 0..z : m * Pow(10, i) <= UPPER_BOUND \div 10
           w == m * Pow(10, z + 1) + c
           r == ProcessMantissaDigit(st, c)
<1>1. m \in Nat /\ z \in Nat /\ z + 1 \in Nat
  BY DEF MantStates
<1>2. w \in Nat
  <2> DEFINE P == Pow(10, z + 1)
  <2>1. P \in Nat
    BY <1>1, Tens
  <2> HIDE DEF P, m
  <2>2. m * P + c \in Nat
    BY <1>1, <2>1
  <2> QED
    BY <2>2 DEF P
<1>3. CASE c = 0
  <2>1. r = [st EXCEPT !.tzeros = z + 1]
    BY <1>3 DEF ProcessMantissaDigit
  <2>2. r = [ok |-> st.ok, mantissa |-> m, tzeros |-> z + 1]
    BY <1>1, <2>1 DEF MantStates
  <2> QED
    BY <1>1, <2>2 DEF MantStates
<1>4. CASE c # 0
  <2>1. r = [ok |-> Room, tzeros |-> 0, mantissa |-> w]
    BY <1>4, Zenon DEF ProcessMantissaDigit
  <2>2. Room \in BOOLEAN
    OBVIOUS
  <2> HIDE DEF r, Room, w
  <2>3. r \in MantStates
    BY <1>2, <2>1, <2>2 DEF MantStates
  <2> QED
    BY <2>3 DEF r
<1> QED
  BY <1>3, <1>4

\* The steps of Mantissa.
LEMMA MantStepsAre ==
    ASSUME NEW s \in Seq(Nat)
    PROVE  /\ MantSteps(s)[0] = NoDigits
           /\ \A i \in 1..Len(s) : MantSteps(s)[i] = ProcessMantissaDigit(MantSteps(s)[i - 1], s[i])
<1> DEFINE S == MantStates
           N == Len(s)
           d == [n \in Nat |-> IF n \in 1..N THEN s[n] ELSE 0]
           r == [n \in Nat |-> [p \in S |-> ProcessMantissaDigit(p, d[n])]]
           F == MantSteps(s)
<1>0. N \in Nat
  OBVIOUS
<1>1. \A n \in Nat : d[n] \in Nat
  BY ElementOfSeq
<1>2. \A n \in 1..N : d[n] = s[n]
  OBVIOUS
<1> HIDE DEF d
<1>3. \A n \in Nat : \A p \in S : ProcessMantissaDigit(p, d[n]) \in S
  BY <1>1, MantStays
<1>4. r \in [Nat -> [S -> S]]
  <2> HIDE DEF S
  <2> QED
    BY <1>3
<1>5. NoDigits \in S
  BY DEF NoDigits, MantStates
<1> HIDE DEF N, S
<1>6. \E f \in [0..N -> S] : Chain(f, N, NoDigits, r)
  <2> HIDE DEF r
  <2> QED
    BY <1>0, <1>4, <1>5, Chains
<1>7. PICK g \in [0..N -> S] : Chain(g, N, NoDigits, r)
  BY <1>6
<1>8. ASSUME NEW n \in 0..N PROVE g[n] = MantRule(s, g, n)
  <2>1. n = 0 => g[n] = NoDigits
    BY <1>7 DEF Chain
  <2>2. n # 0 => n \in 1..N /\ n \in Nat /\ g[n - 1] \in S
    BY <1>0
  <2>3. n # 0 => g[n] = r[n][g[n - 1]]
    BY <1>7, <2>2 DEF Chain
  <2>4. n # 0 => r[n][g[n - 1]] = ProcessMantissaDigit(g[n - 1], s[n])
    BY <1>2, <2>2
  <2> QED
    BY <2>1, <2>3, <2>4 DEF MantRule
<1>9. F = [i \in 0..N |-> MantRule(s, F, i)]
  <2>1. g = [i \in 0..N |-> MantRule(s, g, i)]
    BY <1>8
  <2>2. \E f : f = [i \in 0..Len(s) |-> MantRule(s, f, i)]
    BY <2>1 DEF N
  <2> QED
    BY <2>2, Zenon DEF MantSteps, N
<1> HIDE DEF F
<1>10. \A i \in 0..N : F[i] = MantRule(s, F, i)
  BY <1>9
<1>11. F[0] = NoDigits
  <2>1. 0 \in 0..N
    BY <1>0
  <2> QED
    BY <1>10, <2>1 DEF MantRule
<1>12. \A i \in 1..N : F[i] = ProcessMantissaDigit(F[i - 1], s[i])
  <2> TAKE i \in 1..N
  <2>1. i \in 0..N /\ i # 0
    BY <1>0
  <2> QED
    BY <1>10, <2>1 DEF MantRule
<1> QED
  BY <1>11, <1>12 DEF F, N

\* So the digits of a number are held as its mantissa and its zeros.
LEMMA MantissaHeld ==
    ASSUME NEW s \in Seq(0..9)
    PROVE  Held(Mantissa(s), Decimal(s), Len(s)) /\ Decimal(s) \in Nat
<1> DEFINE N == Len(s)
           F == MantSteps(s)
           V == NumbersIn(10, s)
           T == {n \in Nat : n <= N => Held(F[n], V[n], n)}
<1>0. N \in Nat /\ s \in Seq(Nat) /\ 10 \in Nat /\ \A i \in 1..N : s[i] \in 0..9
  <2>1. 0..9 \subseteq Nat
    OBVIOUS
  <2> QED
    BY <2>1, WiderSeq, ElementOfSeq
<1>1. /\ V[0] = 0 /\ (\A i \in 1..N : V[i] = 10 * V[i - 1] + s[i])
      /\ (\A i \in 0..N : V[i] \in Nat) /\ NumberIn(10, s) \in Nat
  BY <1>0, NumberSteps
<1>2. F[0] = NoDigits /\ \A i \in 1..N : F[i] = ProcessMantissaDigit(F[i - 1], s[i])
  BY <1>0, MantStepsAre
<1> HIDE DEF N, F, V
<1>3. Held(F[0], V[0], 0)
  <2>1. NoDigits \in MantStates /\ NoDigits.mantissa = 0 /\ NoDigits.tzeros = 0 /\ NoDigits.ok
    BY DEF NoDigits, MantStates
  <2>2. UPPER_BOUND \in Nat /\ Pow(10, 0) = 1
    BY Bound, Tens
  <2> QED
    BY <1>1, <1>2, <2>1, <2>2 DEF Held
<1>4. ASSUME NEW n \in Nat, \A m \in 0..(n - 1) : m \in T PROVE n \in T
  <2> SUFFICES ASSUME n <= N PROVE Held(F[n], V[n], n)
    OBVIOUS
  <2>1. CASE n = 0
    BY <1>3, <2>1
  <2>2. CASE n # 0
    <3> DEFINE p == n - 1
    <3>1. p \in 0..(n - 1) /\ p \in Nat /\ p \in 0..N /\ n \in 1..N /\ p + 1 = n
      BY <1>0, <2>2
    <3>2. Held(F[p], V[p], p)
      BY <1>0, <1>4, <3>1
    <3>3. V[p] \in Nat /\ s[n] \in 0..9
      BY <1>0, <1>1, <3>1
    <3>4. Held(ProcessMantissaDigit(F[p], s[n]), 10 * V[p] + s[n], p + 1)
      BY <3>1, <3>2, <3>3, DigitHeld
    <3>5. F[n] = ProcessMantissaDigit(F[p], s[n]) /\ V[n] = 10 * V[p] + s[n]
      BY <1>1, <1>2, <3>1
    <3> QED
      BY <3>1, <3>4, <3>5, Zenon
  <2> QED
    BY <2>1, <2>2
<1>5. N \in T
  <2> HIDE DEF T
  <2>1. \A n \in Nat : n \in T
    BY <1>4, Induct
  <2> QED
    BY <1>0, <2>1
<1>6. Held(F[N], V[N], N)
  BY <1>0, <1>5
<1>7. Mantissa(s) = F[N] /\ Decimal(s) = V[N] /\ V[N] \in Nat
  BY <1>1, MantissaIs, DecimalIs DEF F, N, V, NumberIn
<1> QED
  BY <1>6, <1>7 DEF N

\* The number that the first digits stand for is at most a tenth of the whole.
LEMMA Prefix ==
    ASSUME NEW s \in Seq(0..9), NEW n \in 0..(Len(s) - 1)
    PROVE  Decimal(SubSeq(s, 1, n)) \in Nat /\ 10 * Decimal(SubSeq(s, 1, n)) <= Decimal(s)
<1> DEFINE N == Len(s)
           V == NumbersIn(10, s)
           t == SubSeq(s, 1, n)
           T == {k \in Nat : k \in (n + 1)..N => 10 * V[n] <= V[k]}
<1>0. N \in Nat /\ s \in Seq(Nat) /\ 10 \in Nat /\ \A i \in 1..N : s[i] \in 0..9
  <2>1. 0..9 \subseteq Nat
    OBVIOUS
  <2> QED
    BY <2>1, WiderSeq, ElementOfSeq
<1>1. /\ V[0] = 0 /\ (\A i \in 1..N : V[i] = 10 * V[i - 1] + s[i])
      /\ (\A i \in 0..N : V[i] \in Nat)
  BY <1>0, NumberSteps
<1>2. n \in Nat /\ n <= N /\ n + 1 <= N
  BY <1>0
<1>3. t \in Seq(Nat) /\ Len(t) = n /\ \A i \in 1..n : t[i] = s[i]
  BY <1>0, <1>2, PartOf
<1>4. NumbersIn(10, t)[n] = V[n]
  <2>1. n <= Len(s) /\ n <= Len(t) /\ n \in 0..n
    BY <1>2, <1>3
  <2> HIDE DEF t
  <2>2. \A i \in 0..n : NumbersIn(10, t)[i] = NumbersIn(10, s)[i]
    BY <1>0, <1>2, <1>3, <2>1, SameNumbers, ZenonT(60)
  <2> QED
    BY <2>1, <2>2
<1> HIDE DEF t, V, N
<1>5. Decimal(t) = V[n] /\ Decimal(s) = V[N]
  BY <1>3, <1>4, DecimalIs DEF NumberIn, V, N
<1>6. ASSUME NEW k \in Nat, \A m \in 0..(k - 1) : m \in T PROVE k \in T
  <2> SUFFICES ASSUME k \in (n + 1)..N PROVE 10 * V[n] <= V[k]
    OBVIOUS
  <2>0. k \in 1..N /\ k - 1 \in 0..N /\ n \in 0..N
    BY <1>0, <1>2
  <2>1. k \in 1..N /\ k - 1 \in 0..N /\ n \in 0..N /\ s[k] \in Nat
    BY <1>0, <2>0, SMTT(60)
  <2>2. V[k] = 10 * V[k - 1] + s[k] /\ V[k - 1] \in Nat /\ V[n] \in Nat
    BY <1>1, <2>1
  <2>3. CASE k = n + 1
    <3>1. k - 1 = n
      BY <1>2, <2>3
    <3> QED
      BY <2>1, <2>2, <3>1
  <2>4. CASE k # n + 1
    <3>1. k - 1 \in 0..(k - 1) /\ k - 1 \in (n + 1)..N
      BY <1>2, <2>1, <2>4
    <3>2. 10 * V[n] <= V[k - 1]
      BY <1>6, <3>1
    <3> QED
      BY <2>1, <2>2, <3>2, SMTT(60)
  <2> QED
    BY <2>3, <2>4
<1>7. N \in T
  <2> HIDE DEF T
  <2>1. \A k \in Nat : k \in T
    BY <1>6, Induct
  <2> QED
    BY <1>0, <2>1
<1>8. 10 * V[n] <= V[N] /\ V[n] \in Nat
  <2>1. N \in (n + 1)..N /\ n \in 0..N
    BY <1>0, <1>2
  <2> QED
    BY <1>1, <1>7, <2>1
<1> QED
  BY <1>5, <1>8 DEF t

\* The number V * 10^q is a whole one, not too large to be looked at, and its value.
WholeNumber(V, q, L) == IF q >= 0 THEN q < MaxExp ELSE -q <= L /\ V % Pow(10, -q) = 0
ValueAt(V, q) == IF q >= 0 THEN V * Pow(10, q) ELSE V \div Pow(10, -q)

\* A product of powers.
LEMMA Shifted ==
    ASSUME NEW m \in Nat, NEW i \in Nat, NEW k \in Nat
    PROVE  m * Pow(10, i) \in Nat /\ (m * Pow(10, i)) * Pow(10, k) = m * Pow(10, i + k)
<1> DEFINE I == Pow(10, i)
           J == Pow(10, k)
<1>1. I \in Nat /\ J \in Nat /\ Pow(10, i + k) = I * J
  BY Tens
<1> HIDE DEF I, J
<1>2. m * I \in Nat /\ (m * I) * J = m * (I * J)
  BY <1>1
<1> QED
  BY <1>1, <1>2 DEF I, J

\* With zeros held back, a negative exponent up to their number takes them away.
LEMMA ZerosTaken ==
    ASSUME NEW m \in Nat, NEW z \in Nat, NEW n \in 0..z
    PROVE  /\ (m * Pow(10, z)) % Pow(10, n) = 0
           /\ (m * Pow(10, z)) \div Pow(10, n) = m * Pow(10, z - n)
<1> DEFINE x == z - n
           w == m * Pow(10, x)
           P == Pow(10, n)
<1>1. x \in Nat /\ n \in Nat /\ x + n = z
  OBVIOUS
<1> HIDE DEF x
<1>2. w \in Nat /\ m * Pow(10, z) = w * P /\ P \in Nat /\ P > 0
  <2>1. P \in Nat /\ P > 0
    BY <1>1, Tens
  <2>2. w \in Nat /\ (m * Pow(10, x)) * Pow(10, n) = m * Pow(10, x + n)
    BY <1>1, Shifted
  <2> QED
    BY <1>1, <2>1, <2>2, Zenon
<1> HIDE DEF w, P
<1>3. w * P = P * w + 0 /\ 0 % P = 0 /\ 0 \div P = 0
  BY <1>2
<1>4. (P * w + 0) % P = 0 % P /\ (P * w + 0) \div P = w + (0 \div P)
  BY <1>2, Multiples
<1>5. (w * P) % P = 0 /\ (w * P) \div P = w
  BY <1>2, <1>3, <1>4
<1> QED
  BY <1>2, <1>5 DEF w, P, x

\* No more than the zeros that are held back can be taken away.
LEMMA NoMoreZeros ==
    ASSUME NEW m \in Nat, m % 10 # 0, NEW z \in Nat, NEW n \in Nat,
           (m * Pow(10, z)) % Pow(10, n) = 0
    PROVE  n <= z
<1> SUFFICES ASSUME n > z PROVE FALSE
  OBVIOUS
<1> DEFINE j == n - z - 1
           Z == Pow(10, z)
           J == Pow(10, j)
           V == m * Z
           M == Pow(10, n)
<1>1. j \in Nat /\ n = z + (j + 1) /\ j + 1 \in Nat
  OBVIOUS
<1> HIDE DEF j
<1>2. Z \in Nat /\ Z > 0 /\ J \in Nat /\ J > 0 /\ M = Z * (10 * J)
  <2>1. Z \in Nat /\ Z > 0 /\ J \in Nat /\ J > 0
    BY <1>1, Tens
  <2>2. Pow(10, z + (j + 1)) = Pow(10, z) * Pow(10, j + 1)
    BY <1>1, Tens
  <2>3. Pow(10, j + 1) = 10 * Pow(10, j)
    BY <1>1, Tens
  <2> QED
    BY <1>1, <2>1, <2>2, <2>3, Zenon
<1>3. V % M = 0
  OBVIOUS
<1> HIDE DEF Z, J, M
<1>4. V \in Nat /\ M \in Nat /\ M > 0
  <2>1. 10 * J \in Nat /\ 10 * J > 0
    BY <1>2
  <2> DEFINE T == 10 * J
  <2> HIDE DEF T
  <2>2. Z * T \in Nat /\ Z * T > 0
    BY <1>2, <2>1 DEF T
  <2> QED
    BY <1>2, <2>2 DEF T
<1> HIDE DEF V
<1>5. PICK k \in Nat : V = M * k
  <2>1. V = M * (V \div M) + (V % M) /\ V \div M \in Nat
    BY <1>4, Quotients
  <2> DEFINE k == V \div M
  <2> HIDE DEF k
  <2>2. M * k \in Nat /\ k \in Nat
    BY <1>4, <2>1 DEF k
  <2>3. V = M * k
    BY <1>3, <2>1, <2>2 DEF k
  <2> QED
    BY <2>2, <2>3
<1>6. m * Z = ((10 * J) * k) * Z
  <2>1. Z * (10 * J) * k = ((10 * J) * k) * Z
    BY <1>2
  <2> QED
    BY <1>2, <1>5, <2>1 DEF V
<1>7. m = (10 * J) * k
  <2> DEFINE y == (10 * J) * k
  <2>1. y \in Nat
    BY <1>2
  <2> HIDE DEF y
  <2>2. m * Z = y * Z => m = y
    BY <1>2, <2>1
  <2> QED
    BY <1>6, <2>2 DEF y
<1>8. m = 10 * (J * k) /\ J * k \in Nat
  BY <1>2, <1>7
<1> DEFINE u == J * k
<1> HIDE DEF u
<1>9. m = 10 * u /\ u \in Nat
  BY <1>8 DEF u
<1> QED
  BY <1>9

\* A number within the bound has no more than MaxExp digits.
LEMMA Short ==
    ASSUME NEW m \in Nat, m # 0, NEW x \in Nat, m * Pow(10, x) <= UPPER_BOUND
    PROVE  x < MaxExp
<1> SUFFICES ASSUME MaxExp <= x PROVE FALSE
  BY StrEncodingsAssumption
<1> DEFINE B == Pow(10, MaxExp)
           X == Pow(10, x)
<1>0. MaxExp \in Nat
  BY StrEncodingsAssumption
<1>1. B \in Nat /\ X \in Nat /\ B > 0 /\ UPPER_BOUND = B - 1
  BY <1>0, Tens, StrEncodingsAssumption
<1>2. m * B <= m * X /\ m * B \in Nat /\ m * X \in Nat
  BY <1>0, Grows
<1> HIDE DEF B
<1>3. m * X <= B - 1
  BY <1>1
<1> HIDE DEF X
<1>4. m * B >= B
  BY <1>1
<1> QED
  BY <1>1, <1>2, <1>3, <1>4

\* What the mantissa and its zeros say of the number: it is whole and within the
\* bound just when the exponent that is left is not negative and the product fits.
ShiftSays(m, z, L, V, q) ==
    /\ q + z >= 0 /\ q + z < MaxExp =>
         WholeNumber(V, q, L) /\ ValueAt(V, q) = m * Pow(10, q + z)
    /\ V # 0 /\ WholeNumber(V, q, L) /\ ValueAt(V, q) <= UPPER_BOUND =>
         /\ q + z >= 0 /\ q + z < MaxExp /\ ValueAt(V, q) = m * Pow(10, q + z)

\* A number that is not zero has a mantissa.
LEMMA NotZero ==
    ASSUME NEW m \in Nat, NEW z \in Nat, NEW V, V = m * Pow(10, z), V # 0
    PROVE  m # 0
<1>1. Pow(10, z) \in Nat
  BY Tens
<1>2. 0 * Pow(10, z) = 0
  BY <1>1
<1> QED
  BY <1>2

\* It says so when places are added,
LEMMA ShiftsUp ==
    ASSUME NEW m \in Nat, m = 0 \/ m % 10 # 0, NEW z \in Nat, NEW L \in Nat, z <= L,
           NEW V, V = m * Pow(10, z), NEW q \in Int, q >= 0
    PROVE  ShiftSays(m, z, L, V, q)
<1> DEFINE x == q + z
<1>1. MaxExp \in Nat /\ V \in Nat
  BY StrEncodingsAssumption, Shifted
<1>2. q \in Nat /\ x \in Nat /\ z + q = x /\ q <= x
  OBVIOUS
<1>3. ValueAt(V, q) = m * Pow(10, x)
  <2>1. ValueAt(V, q) = V * Pow(10, q)
    BY DEF ValueAt
  <2>2. (m * Pow(10, z)) * Pow(10, q) = m * Pow(10, z + q)
    BY <1>2, Shifted
  <2> QED
    BY <1>2, <2>1, <2>2
<1>4. WholeNumber(V, q, L) <=> q < MaxExp
  BY DEF WholeNumber
<1> HIDE DEF x
<1>5. x < MaxExp => q < MaxExp
  BY <1>1, <1>2
<1>6. V # 0 /\ m * Pow(10, x) <= UPPER_BOUND => x < MaxExp
  BY <1>2, NotZero, Short
<1> QED
  BY <1>2, <1>3, <1>4, <1>5, <1>6 DEF ShiftSays, x

\* and when they are taken away.
LEMMA ShiftsDown ==
    ASSUME NEW m \in Nat, m = 0 \/ m % 10 # 0, NEW z \in Nat, NEW L \in Nat, z <= L,
           NEW V, V = m * Pow(10, z), NEW q \in Int, q < 0
    PROVE  ShiftSays(m, z, L, V, q)
<1> DEFINE n == 0 - q
           x == z - n
<1>1. n \in Nat /\ q + z = x /\ x \in Int /\ -q = n
  OBVIOUS
<1>2. ValueAt(V, q) = V \div Pow(10, n)
  BY <1>1 DEF ValueAt
<1>3. WholeNumber(V, q, L) <=> n <= L /\ V % Pow(10, n) = 0
  BY <1>1 DEF WholeNumber
<1> HIDE DEF n
<1>4. x >= 0 => WholeNumber(V, q, L) /\ ValueAt(V, q) = m * Pow(10, x)
  <2> SUFFICES ASSUME x >= 0 PROVE WholeNumber(V, q, L) /\ ValueAt(V, q) = m * Pow(10, x)
    OBVIOUS
  <2>1. n \in 0..z /\ n <= L
    BY <1>1
  <2>2. V % Pow(10, n) = 0 /\ V \div Pow(10, n) = m * Pow(10, z - n)
    BY <2>1, ZerosTaken
  <2> QED
    BY <1>2, <1>3, <2>1, <2>2
<1>5. V # 0 /\ WholeNumber(V, q, L) => x \in Nat
  <2> SUFFICES ASSUME V # 0, WholeNumber(V, q, L) PROVE x \in Nat
    OBVIOUS
  <2>1. m % 10 # 0
    BY NotZero
  <2>2. (m * Pow(10, z)) % Pow(10, n) = 0
    BY <1>3
  <2>3. n <= z
    BY <1>1, <2>1, <2>2, NoMoreZeros
  <2> QED
    BY <1>1, <2>3
<1> HIDE DEF x
<1>6. V # 0 /\ x \in Nat /\ m * Pow(10, x) <= UPPER_BOUND => x < MaxExp
  BY NotZero, Short
<1>7. x \in Nat => x >= 0
  OBVIOUS
<1> QED
  BY <1>1, <1>4, <1>5, <1>6, <1>7 DEF ShiftSays

\* Part of a text: its characters from i on, up to j.
LEMMA CharsIn ==
    ASSUME NEW D, NEW val \in Seq(Int), NEW i \in 1..(Len(val) + 1), NEW j \in i..(Len(val) + 1),
           \A k \in i..(j - 1) : val[k] \in D
    PROVE  SubSeq(val, i, j - 1) \in Seq(D) /\ Len(SubSeq(val, i, j - 1)) = j - i
<1> DEFINE w == SubSeq(val, i, j - 1)
           n == j - i
<1>1. Len(val) \in Nat /\ n \in Nat /\ i \in Nat /\ j \in Nat
  OBVIOUS
<1>2. w = [k \in 1..n |-> val[i + k - 1]]
  BY <1>1
<1>3. \A k \in 1..n : val[i + k - 1] \in D
  <2> TAKE k \in 1..n
  <2>1. i + k - 1 \in i..(j - 1)
    BY <1>1
  <2> QED
    BY <2>1
<1>4. w \in [1..n -> D]
  BY <1>2, <1>3
<1> HIDE DEF w, n
<1>5. w \in Seq(D) /\ Len(w) = n
  BY <1>1, <1>4, FunctionIsSeq
<1> QED
  BY <1>5 DEF w, n

\* The digits that are skipped are a number.
LEMMA DigitsSkipped ==
    ASSUME NEW val \in Seq(Int), NEW i \in 1..(Len(val) + 1), NEW j, j = SkipOver(val, i, IsDigit)
    PROVE  j \in i..(Len(val) + 1) /\ SubSeq(val, i, j - 1) \in Seq(0..9)
           /\ Len(SubSeq(val, i, j - 1)) = j - i
<1>1. Len(val) \in Nat
  OBVIOUS
<1>2. j \in i..(Len(val) + 1) /\ Skips(val, i, IsDigit, j)
  BY <1>1, SkipFound
<1>3. \A k \in i..(j - 1) : val[k] \in 0..9
  BY <1>2 DEF Skips, IsDigit
<1> QED
  BY <1>2, <1>3, CharsIn

\* The parts of a number are digits, and fit into its text.
PartsFit(p, n) ==
    /\ p.int \in Seq(0..9) /\ p.frac \in Seq(0..9) /\ p.exp \in Seq(0..9)
    /\ Len(p.int) + Len(p.frac) <= n

\* A mark that is found is a position of the text.
LEMMA MarkWithin ==
    ASSUME NEW val \in Seq(Int), NEW i \in Nat, At(val, i) # Other
    PROVE  i \in 1..Len(val)
  BY DEF At

\* Every text is taken apart so.
LEMMA PartsOf ==
    ASSUME NEW val \in Seq(Int)
    PROVE  PartsFit(NumberParts(val), Len(val))
<1> DEFINE n == Len(val)
           i0 == SignEnd(val)
           i1 == IntEnd(val, i0)
           f1 == FracEnd(val, i1)
           point == At(val, i1) = Point
           exp == At(val, f1) = Exp
           e0 == IF ~exp THEN f1 ELSE IF At(val, f1 + 1) \in {Plus_, Minus} THEN f1 + 2 ELSE f1 + 1
           e1 == IF exp THEN SkipOver(val, e0, IsDigit) ELSE f1
           int == IF At(val, i0) = 0 THEN <<>> ELSE SubSeq(val, i0, i1 - 1)
           frac == IF point THEN SubSeq(val, i1 + 1, f1 - 1) ELSE <<>>
           digits == SubSeq(val, e0, e1 - 1)
<1>0. n \in Nat
  OBVIOUS
<1>1. i0 \in 1..(n + 1)
  <2>1. At(val, 1) = Minus => 1 \in 1..n
    BY MarkWithin DEF Minus, Other
  <2> QED
    BY <1>0, <2>1 DEF SignEnd
<1> HIDE DEF i0
<1>2. i1 \in i0..(n + 1) /\ int \in Seq(0..9) /\ Len(int) <= i1 - i0
  <2>1. CASE At(val, i0) = 0
    <3>1. i0 \in 1..n
      BY <1>1, <2>1, MarkWithin DEF Other
    <3>2. i1 = i0 + 1 /\ int = <<>>
      BY <2>1 DEF IntEnd
    <3>3. <<>> \in Seq(0..9) /\ Len(<<>>) = 0
      OBVIOUS
    <3> HIDE DEF int
    <3> QED
      BY <3>1, <3>2, <3>3
  <2>2. CASE At(val, i0) # 0
    <3>1. i1 = SkipOver(val, i0, IsDigit) /\ int = SubSeq(val, i0, i1 - 1)
      BY <2>2 DEF IntEnd
    <3> HIDE DEF i1, int
    <3>2. i1 \in i0..(n + 1) /\ int \in Seq(0..9) /\ Len(int) = i1 - i0
      BY <1>1, <3>1, DigitsSkipped
    <3> QED
      BY <1>0, <1>1, <3>2
  <2> QED
    BY <2>1, <2>2
<1> HIDE DEF i1, int
<1>3. f1 \in i1..(n + 1) /\ frac \in Seq(0..9) /\ Len(frac) <= f1 - i1
  <2>1. CASE point
    <3>1. i1 \in 1..n
      BY <1>0, <1>1, <1>2, <2>1, MarkWithin DEF Point, Other
    <3>2. f1 = SkipOver(val, i1 + 1, IsDigit) /\ frac = SubSeq(val, i1 + 1, f1 - 1)
      BY <2>1 DEF FracEnd
    <3> DEFINE j == i1 + 1
    <3>3. j \in 1..(n + 1) /\ j - 1 = i1
      BY <1>0, <3>1
    <3> HIDE DEF f1, frac, j
    <3>4. f1 = SkipOver(val, j, IsDigit) /\ frac = SubSeq(val, j, f1 - 1)
      BY <3>2 DEF j
    <3>5. f1 \in j..(n + 1) /\ frac \in Seq(0..9) /\ Len(frac) = f1 - j
      BY <3>3, <3>4, DigitsSkipped
    <3> QED
      BY <1>0, <3>1, <3>5 DEF j
  <2>2. CASE ~point
    <3>1. f1 = i1 /\ frac = <<>>
      BY <2>2 DEF FracEnd
    <3>2. <<>> \in Seq(0..9) /\ Len(<<>>) = 0
      OBVIOUS
    <3> HIDE DEF f1, frac
    <3> QED
      BY <1>0, <1>1, <1>2, <3>1, <3>2
  <2> QED
    BY <2>1, <2>2
<1> HIDE DEF f1, frac
<1>4. digits \in Seq(0..9)
  <2>1. CASE exp
    <3>1. f1 \in 1..n
      BY <1>0, <1>1, <1>2, <1>3, <2>1, MarkWithin DEF Exp, Other
    <3>2. At(val, f1 + 1) \in {Plus_, Minus} => f1 + 1 \in 1..n
      BY <1>0, <3>1, MarkWithin DEF Plus_, Minus, Other
    <3>3. e0 \in 1..(n + 1)
      BY <1>0, <2>1, <3>1, <3>2
    <3>4. e1 = SkipOver(val, e0, IsDigit)
      BY <2>1
    <3> HIDE DEF e0, e1
    <3> QED
      BY <3>3, <3>4, DigitsSkipped
  <2>2. CASE ~exp
    <3>1. e0 = f1 /\ e1 = f1
      BY <2>2
    <3>2. f1 \in 1..(n + 1) /\ f1 \in f1..(n + 1) /\ \A k \in f1..(f1 - 1) : val[k] \in 0..9
      BY <1>0, <1>1, <1>2, <1>3
    <3> HIDE DEF e0, e1
    <3>3. SubSeq(val, f1, f1 - 1) \in Seq(0..9)
      BY <3>2, CharsIn
    <3> QED
      BY <3>1, <3>3
  <2> QED
    BY <2>1, <2>2
<1> DEFINE p == NumberParts(val)
<1>5. p.int = int /\ p.frac = frac /\ p.exp = digits
  <2>1. p = PartsAt(val, i0, i1, f1)
    BY Zenon DEF NumberParts, i0, i1, f1
  <2> HIDE DEF p
  <2>2. p.int = int
    BY <2>1 DEF PartsAt, int
  <2>3. p.frac = frac
    BY <2>1 DEF PartsAt, frac
  <2>4. p.exp = digits
    BY <2>1 DEF PartsAt
  <2> QED
    BY <2>2, <2>3, <2>4
<1> HIDE DEF p, digits
<1>6. Len(int) + Len(frac) <= n
  BY <1>0, <1>1, <1>2, <1>3
<1> QED
  BY <1>2, <1>3, <1>4, <1>5, <1>6 DEF PartsFit, p

\* ParseFixedPoint by the parts p of its text, the state st of its digits and the
\* exponent x that is left.
ExpOK(e) == \A n \in 0..(Len(e) - 1) : Decimal(SubSeq(e, 1, n)) <= UPPER_BOUND \div 10
InRange(m, x) == \A i \in 0..(x - 1) : m * Pow(10, i) <= UPPER_BOUND \div 10
ExponentOf(p) == IF p.eneg THEN -Decimal(p.exp) ELSE Decimal(p.exp)
Signed(p, a) == IF p.neg THEN -a ELSE a
Accepts(p, st, x) ==
    /\ p.ok /\ st.ok /\ ExpOK(p.exp) /\ x >= 0 /\ x < MaxExp
    /\ InRange(st.mantissa, x) /\ st.mantissa * Pow(10, x) <= UPPER_BOUND
Parsed(p, st, x) ==
    IF Accepts(p, st, x) THEN [ok |-> TRUE, amount |-> Signed(p, st.mantissa * Pow(10, x))]
    ELSE [ok |-> FALSE, amount |-> 0]

\* It says that, with the exponent it computes.
LEMMA ParsedIs ==
    \A val, d :
       LET p == NumberParts(val)  st == Mantissa(p.int \o p.frac) IN
       ParseFixedPoint(val, d) = Parsed(p, st, ExponentOf(p) - Len(p.frac) + st.tzeros + d)
  BY Zenon DEF ParseFixedPoint, Parsed, Accepts, Signed, ExponentOf, ExpOK, InRange

\* FixedPointExact by the same parts, the number V of the digits and the places q.
PlacesOf(p, d) == ExponentOf(p) - Len(p.frac) + d
Fits(p, V, q, L) == p.ok /\ WholeNumber(V, q, L) /\ ValueAt(V, q) <= UPPER_BOUND
ExactFor(p, V, q, L, got) ==
    /\ got.ok => Fits(p, V, q, L) /\ got.amount = Signed(p, ValueAt(V, q))
    /\ Fits(p, V, q, L) /\ V # 0 => got.ok
NumberExact(val, d, got) ==
    LET p == NumberParts(val) IN
    ExactFor(p, Decimal(p.int \o p.frac), PlacesOf(p, d), Len(p.int \o p.frac), got)

\* It says that.
LEMMA ExactForm ==
    FixedPointExact <=> (out.op = "number" => NumberExact(out.in, out.decimals, out.got))
  BY Zenon DEF FixedPointExact, NumberExact, ExactFor, Fits, PlacesOf, ExponentOf, Signed,
               WholeNumber, ValueAt

\* The exponent of a number that fits is not too large to be read.
LEMMA ExponentsRead ==
    ASSUME NEW p, NEW n \in Nat, PartsFit(p, n), NEW d \in Nat, n + d + MaxExp <= UPPER_BOUND,
           NEW V, NEW L, L = Len(p.int) + Len(p.frac), WholeNumber(V, PlacesOf(p, d), L)
    PROVE  ExpOK(p.exp)
<1> DEFINE E == Decimal(p.exp)
           I == Len(p.int)
           F == Len(p.frac)
           q == PlacesOf(p, d)
<1>1. p.exp \in Seq(0..9) /\ I \in Nat /\ F \in Nat /\ I + F <= n
  <2>1. /\ p.int \in Seq(0..9) /\ p.frac \in Seq(0..9) /\ p.exp \in Seq(0..9)
        /\ Len(p.int) + Len(p.frac) <= n
    BY DEF PartsFit
  <2>2. \A u \in Seq(0..9) : Len(u) \in Nat
    OBVIOUS
  <2> QED
    BY <2>1, <2>2
<1>2. E \in Nat /\ UPPER_BOUND \in Nat /\ MaxExp \in Nat
  BY <1>1, MantissaHeld, Bound, StrEncodingsAssumption
<1>3. q = (IF p.eneg THEN -E ELSE E) - F + d
  BY Zenon DEF PlacesOf, ExponentOf
<1>4. IF q >= 0 THEN q < MaxExp ELSE -q <= I + F
  <2> HIDE DEF q, I, F
  <2> QED
    BY DEF WholeNumber, q, I, F
<1> HIDE DEF E, I, F, q
<1>5. E <= UPPER_BOUND
  <2>1. CASE p.eneg
    <3>1. q = -E - F + d
      BY <1>3, <2>1
    <3> QED
      BY <1>1, <1>2, <1>4, <3>1
  <2>2. CASE ~p.eneg
    <3>1. q = E - F + d
      BY <1>3, <2>2
    <3> QED
      BY <1>1, <1>2, <1>4, <3>1
  <2> QED
    BY <2>1, <2>2
<1>6. ASSUME NEW k \in 0..(Len(p.exp) - 1)
      PROVE  Decimal(SubSeq(p.exp, 1, k)) <= UPPER_BOUND \div 10
  <2> DEFINE v == Decimal(SubSeq(p.exp, 1, k))
  <2>1. v \in Nat /\ 10 * v <= E
    BY <1>1, Prefix DEF E
  <2> HIDE DEF v
  <2>2. 10 * v + 0 <= UPPER_BOUND /\ 0 \in 0..9
    BY <1>2, <1>5, <2>1
  <2>3. RoomFor(v, 0)
    BY <2>1, <2>2, Bound
  <2>4. v <= UPPER_BOUND \div 10
    BY <2>2, <2>3 DEF RoomFor
  <2> QED
    BY <2>4 DEF v
<1> QED
  BY <1>6 DEF ExpOK

\* No product on the way to one that is within the bound is too large.
LEMMA ProductsFit ==
    ASSUME NEW m \in Nat, NEW x \in Nat, m * Pow(10, x) <= UPPER_BOUND
    PROVE  InRange(m, x) /\ m <= UPPER_BOUND
<1>1. UPPER_BOUND \in Nat
  BY Bound
<1>2. ASSUME NEW i \in 0..(x - 1) PROVE m * Pow(10, i) <= UPPER_BOUND \div 10
  <2> DEFINE v == m * Pow(10, i)
             w == m * Pow(10, i + 1)
  <2>1. i \in Nat /\ i + 1 \in Nat /\ i + 1 <= x
    OBVIOUS
  <2>2. w \in Nat /\ w <= m * Pow(10, x) /\ m * Pow(10, x) \in Nat
    BY <2>1, Grows
  <2>3. v \in Nat /\ w = 10 * v
    <3> DEFINE P == Pow(10, i)
    <3>1. P \in Nat /\ Pow(10, i + 1) = 10 * P
      BY <2>1, Tens
    <3> HIDE DEF P
    <3>2. m * P \in Nat /\ m * (10 * P) = 10 * (m * P)
      BY <3>1
    <3> QED
      BY <3>1, <3>2 DEF P
  <2> HIDE DEF v, w
  <2>4. 10 * v + 0 <= UPPER_BOUND /\ 0 \in 0..9
    BY <1>1, <2>2, <2>3
  <2>5. RoomFor(v, 0)
    BY <2>3, <2>4, Bound
  <2>6. v <= UPPER_BOUND \div 10
    BY <2>4, <2>5 DEF RoomFor
  <2> QED
    BY <2>6 DEF v
<1>3. m <= UPPER_BOUND
  <2>1. 0 \in Nat /\ 0 <= x
    OBVIOUS
  <2>2. m * Pow(10, 0) <= m * Pow(10, x) /\ m * Pow(10, x) \in Nat
    BY <2>1, Grows
  <2>3. m * Pow(10, 0) = m
    BY Tens
  <2> QED
    BY <1>1, <2>2, <2>3
<1> QED
  BY <1>2, <1>3 DEF InRange

\* A number is parsed when it should be, to the value that it stands for.
LEMMA ParsesExactly ==
    ASSUME NEW val \in Seq(Int), NEW d \in Nat, Len(val) + d + MaxExp <= UPPER_BOUND
    PROVE  NumberExact(val, d, ParseFixedPoint(val, d))
<1> DEFINE p == NumberParts(val)
           s == p.int \o p.frac
           st == Mantissa(s)
           m == st.mantissa
           z == st.tzeros
           V == Decimal(s)
           L == Len(s)
           q == PlacesOf(p, d)
           x == ExponentOf(p) - Len(p.frac) + z + d
           got == ParseFixedPoint(val, d)
           A == Accepts(p, st, x)
<1>1. got = Parsed(p, st, x)
  BY ParsedIs, Zenon
<1>2. PartsFit(p, Len(val)) /\ Len(val) \in Nat
  BY PartsOf
<1> HIDE DEF p
<1>3. s \in Seq(0..9) /\ L = Len(p.int) + Len(p.frac) /\ L \in Nat
      /\ Len(p.frac) \in Nat /\ p.exp \in Seq(0..9)
  <2>1. p.int \in Seq(0..9) /\ p.frac \in Seq(0..9) /\ p.exp \in Seq(0..9)
    BY <1>2 DEF PartsFit
  <2> DEFINE D == 0..9
             u == p.int
             v == p.frac
  <2> HIDE DEF D, u, v
  <2>2. u \in Seq(D) /\ v \in Seq(D)
    BY <2>1 DEF D, u, v
  <2>3. JoinOf(D, u \o v, u, v)
    BY <2>2, Joining
  <2>4. u \o v \in Seq(D) /\ Len(u \o v) = Len(u) + Len(v) /\ Len(u) \in Nat /\ Len(v) \in Nat
    BY <2>2, <2>3 DEF JoinOf
  <2>5. s = u \o v
    BY Zenon DEF u, v
  <2> HIDE DEF s
  <2>6. s \in Seq(D) /\ L = Len(u) + Len(v) /\ L \in Nat
    BY <2>4, <2>5
  <2> HIDE DEF L
  <2> QED
    BY <2>1, <2>4, <2>6 DEF D, u, v
<1> HIDE DEF s
<1>4. Held(st, V, L) /\ V \in Nat
  BY <1>3, MantissaHeld
<1> HIDE DEF st, V, L
<1>5. /\ m \in Nat /\ z \in Nat /\ z <= L /\ V = m * Pow(10, z)
      /\ m = 0 \/ m % 10 # 0
      /\ st.ok <=> m <= UPPER_BOUND
  BY <1>4 DEF Held, MantStates
<1>6. q \in Int /\ x = q + z
  <2> DEFINE e == ExponentOf(p)
  <2>1. Decimal(p.exp) \in Nat
    BY <1>3, MantissaHeld
  <2>2. e \in Int
    BY <2>1 DEF ExponentOf
  <2> HIDE DEF e
  <2>3. q = e - Len(p.frac) + d /\ x = e - Len(p.frac) + z + d
    BY DEF PlacesOf, e
  <2> DEFINE f == Len(p.frac)
  <2> HIDE DEF q, x, z, m, f
  <2>4. q = e - f + d /\ x = e - f + z + d /\ f \in Nat /\ z \in Nat
    BY <1>3, <1>5, <2>3 DEF f
  <2> QED
    BY <2>2, <2>4
<1> HIDE DEF q, x, m, z
<1>7. ShiftSays(m, z, L, V, q)
  <2>1. CASE q >= 0
    BY <1>3, <1>5, <1>6, <2>1, ShiftsUp
  <2>2. CASE q < 0
    BY <1>3, <1>5, <1>6, <2>2, ShiftsDown
  <2>3. q >= 0 \/ q < 0
    BY <1>6
  <2> QED
    BY <2>1, <2>2, <2>3, Zenon
<1>8. A => Fits(p, V, q, L) /\ m * Pow(10, x) = ValueAt(V, q)
  <2> SUFFICES ASSUME A PROVE Fits(p, V, q, L) /\ m * Pow(10, x) = ValueAt(V, q)
    OBVIOUS
  <2>1. p.ok /\ x >= 0 /\ x < MaxExp /\ m * Pow(10, x) <= UPPER_BOUND
    BY DEF Accepts, m
  <2> QED
    BY <1>6, <1>7, <2>1 DEF ShiftSays, Fits
<1>9. Fits(p, V, q, L) /\ V # 0 => A
  <2> SUFFICES ASSUME Fits(p, V, q, L), V # 0 PROVE A
    OBVIOUS
  <2>1. p.ok /\ WholeNumber(V, q, L) /\ ValueAt(V, q) <= UPPER_BOUND
    BY DEF Fits
  <2>2. x >= 0 /\ x < MaxExp /\ m * Pow(10, x) <= UPPER_BOUND
    BY <1>6, <1>7, <2>1 DEF ShiftSays
  <2>3. x \in Nat
    BY <1>5, <1>6, <2>2
  <2>4. InRange(m, x) /\ m <= UPPER_BOUND
    BY <1>5, <2>2, <2>3, ProductsFit
  <2>5. ExpOK(p.exp)
    BY <1>2, <1>3, <2>1, ExponentsRead DEF q
  <2> QED
    BY <1>5, <2>1, <2>2, <2>4, <2>5 DEF Accepts, m
<1>10. (got.ok <=> A) /\ (A => got.amount = Signed(p, m * Pow(10, x)))
  <2>1. CASE A
    <3>1. got = [ok |-> TRUE, amount |-> Signed(p, m * Pow(10, x))]
      BY <1>1, <2>1, Zenon DEF Parsed, m
    <3> HIDE DEF got, A
    <3> QED
      BY <2>1, <3>1
  <2>2. CASE ~A
    <3>1. got = [ok |-> FALSE, amount |-> 0]
      BY <1>1, <2>2, Zenon DEF Parsed
    <3> HIDE DEF got, A
    <3> QED
      BY <2>2, <3>1
  <2> QED
    BY <2>1, <2>2
<1> HIDE DEF got, A
<1>11. ExactFor(p, V, q, L, got)
  BY <1>8, <1>9, <1>10 DEF ExactFor
<1> QED
  BY <1>11, Zenon DEF NumberExact, p, V, q, L, got, s

\* Only one action is about numbers.
LEMMA OnlyNumbers ==
    ASSUME CodecNext PROVE ParseNumber \/ out'.op # "number"
<1>1. EncodeInt => out'.op = "int"
  BY DEF EncodeInt, Run
<1>2. DecodeInt => out'.op = "bytes"
  BY DEF DecodeInt, Run
<1>3. EncodeContainers => out'.op = "containers"
  BY DEF EncodeContainers, Run
<1>4. DecodeTx => out'.op = "txbytes"
  BY DEF DecodeTx, Run
<1>5. EncodeBlock => out'.op = "block"
  BY DEF EncodeBlock, Run
<1>6. SolveScript => out'.op = "script"
  BY DEF SolveScript, Run
<1>7. EncodeTx => out'.op = "tx"
  BY DEF EncodeTx, Run
<1>8. EncodeText => out'.op = "binary"
  BY DEF EncodeText, Run
<1>9. DecodeText => out'.op = "text"
  BY DEF DecodeText, Run
<1>10. \/ EncodeInt \/ DecodeInt \/ EncodeContainers \/ EncodeTx \/ DecodeTx
       \/ EncodeBlock \/ SolveScript \/ EncodeText \/ DecodeText \/ ParseNumber
  BY Zenon DEF CodecNext
<1> QED
  BY <1>1, <1>2, <1>3, <1>4, <1>5, <1>6, <1>7, <1>8, <1>9, <1>10

\* A fixed point number is parsed exactly when it is a whole number of units within
\* the bound, and to its exact value (ParseFixedPoint and ProcessMantissaDigit of
\* strencodings.cpp), for every text, every number of decimals and every bound.
THEOREM FixedPointExactHolds == CodecSpec => []FixedPointExact
<1>1. CodecInit => FixedPointExact
  <2> SUFFICES ASSUME CodecInit PROVE FixedPointExact
    OBVIOUS
  <2>1. out.op = "none"
    BY DEF CodecInit, Idle
  <2> QED
    BY <2>1, ExactForm
<1>2. FixedPointExact /\ [CodecNext]_out => FixedPointExact'
  <2> SUFFICES ASSUME FixedPointExact, [CodecNext]_out PROVE FixedPointExact'
    OBVIOUS
  <2>0. FixedPointExact' <=> (out'.op = "number" => NumberExact(out'.in, out'.decimals, out'.got))
    BY Zenon DEF FixedPointExact, NumberExact, ExactFor, Fits, PlacesOf, ExponentOf, Signed,
                 WholeNumber, ValueAt
  <2>1. CASE ParseNumber
    <3>1. PICK t \in Numbers, d \in Decimals :
             out' = [op |-> "number", in |-> t, decimals |-> d, got |-> ParseFixedPoint(t, d)]
      BY <2>1 DEF ParseNumber, Run
    <3>2. t \in Seq(Int) /\ d \in Nat /\ Len(t) + d + MaxExp <= UPPER_BOUND
      BY InputsAssumption
    <3>3. NumberExact(t, d, ParseFixedPoint(t, d))
      BY <3>2, ParsesExactly
    <3>4. out'.in = t /\ out'.decimals = d /\ out'.got = ParseFixedPoint(t, d)
      BY <3>1
    <3> QED
      BY <2>0, <3>3, <3>4, Zenon
  <2>2. CASE CodecNext /\ ~ParseNumber
    BY <2>0, <2>2, OnlyNumbers
  <2>3. CASE UNCHANGED out
    BY <2>0, <2>3, ExactForm
  <2> QED
    BY <2>1, <2>2, <2>3
<1> QED
  BY <1>1, <1>2, PTL DEF CodecSpec

-----------------------------------------------------------------------------
(* The operations of a script *)

\* The bytes of a script.
Octets == 0..255

\* A number of w bytes, from its last byte on.
LERule(s, pc, w, f, i) == IF i = w THEN 0 ELSE Byte(s, pc + i) + 256 * f[i + 1]
LEFrom(s, pc, w) == CHOOSE f : f = [i \in 0..w |-> LERule(s, pc, w, f, i)]

\* ReadLE is what has come together at the first byte.
LEMMA ReadLEIs == \A s, pc, w : ReadLE(s, pc, w) = LEFrom(s, pc, w)[0]
  BY Zenon DEF ReadLE, LEFrom, LERule

\* The number is well defined.
LEMMA LESteps ==
    ASSUME NEW s \in Seq(Octets), NEW pc \in Nat, NEW w \in Nat, pc + w <= Len(s)
    PROVE  /\ LEFrom(s, pc, w)[w] = 0
           /\ \A i \in 0..(w - 1) : LEFrom(s, pc, w)[i] = s[pc + i + 1] + 256 * LEFrom(s, pc, w)[i + 1]
<1> DEFINE d == [k \in Nat |-> IF k \in 1..w THEN s[(pc + w - k) + 1] ELSE 0]
           b == [k \in Nat |-> [x \in Nat |-> d[k] + 256 * x]]
<1>1. \A k \in Nat : d[k] \in Nat
  <2> TAKE k \in Nat
  <2>1. CASE k \in 1..w
    <3>1. (pc + w - k) + 1 \in 1..Len(s)
      BY <2>1
    <3>2. s[(pc + w - k) + 1] \in Octets
      BY <3>1, ElementOfSeq
    <3>3. d[k] = s[(pc + w - k) + 1]
      BY <2>1
    <3>4. \A x \in Octets : x \in Nat
      BY DEF Octets
    <3> HIDE DEF d
    <3> QED
      BY <3>2, <3>3, <3>4
  <2> QED
    BY <2>1
<1>2. b \in [Nat -> [Nat -> Nat]]
  <2> HIDE DEF d
  <2> QED
    BY <1>1
<1>3. \E g \in [0..w -> Nat] : Chain(g, w, 0, b)
  <2> HIDE DEF b
  <2> QED
    BY <1>2, Chains
<1>4. PICK g \in [0..w -> Nat] : Chain(g, w, 0, b)
  BY <1>3
<1> DEFINE f == [i \in 0..w |-> g[w - i]]
<1>5. ASSUME NEW i \in 0..w PROVE f[i] = LERule(s, pc, w, f, i)
  <2>1. CASE i = w
    BY <1>4, <2>1 DEF Chain, LERule
  <2>2. CASE i # w
    <3> DEFINE k == w - i
    <3>1. k \in 1..w /\ k \in Nat /\ (pc + w - k) + 1 = (pc + i) + 1 /\ k - 1 = w - (i + 1) /\ i + 1 \in 0..w
          /\ k - 1 \in 0..w
      BY <2>2
    <3> HIDE DEF k
    <3>2. g[k] = b[k][g[k - 1]] /\ g[k - 1] \in Nat
      BY <1>4, <3>1, ZenonT(60) DEF Chain
    <3>3. b[k][g[k - 1]] = s[(pc + i) + 1] + 256 * g[k - 1]
      BY <3>1, <3>2
    <3>4. f[i] = g[k] /\ f[i + 1] = g[k - 1]
      BY <3>1 DEF k
    <3> HIDE DEF f, b
    <3> QED
      BY <2>2, <3>2, <3>3, <3>4 DEF LERule, Byte
  <2> QED
    BY <2>1, <2>2
<1> DEFINE F == LEFrom(s, pc, w)
<1>6. F = [i \in 0..w |-> LERule(s, pc, w, F, i)]
  <2>1. f = [i \in 0..w |-> LERule(s, pc, w, f, i)]
    BY <1>5
  <2> HIDE DEF f
  <2>2. \E h : h = [i \in 0..w |-> LERule(s, pc, w, h, i)]
    BY <2>1
  <2> QED
    BY <2>2, Zenon DEF LEFrom
<1> HIDE DEF F
<1>7. \A i \in 0..w : F[i] = LERule(s, pc, w, F, i)
  BY <1>6
<1>8. F[w] = 0
  BY <1>7 DEF LERule
<1>9. ASSUME NEW i \in 0..(w - 1) PROVE F[i] = s[pc + i + 1] + 256 * F[i + 1]
  <2>1. i \in 0..w /\ i # w
    OBVIOUS
  <2> QED
    BY <1>7, <2>1 DEF LERule, Byte
<1> QED
  BY <1>8, <1>9 DEF F

\* The bytes of a number that takes one of them.
LEMMA SmallLE ==
    ASSUME NEW n \in Octets, NEW w \in Nat, w >= 1
    PROVE  /\ LE(n, w) \in Seq(Octets) /\ Len(LE(n, w)) = w /\ LE(n, w)[1] = n
           /\ \A i \in 2..w : LE(n, w)[i] = 0
<1>1. Pow(256, 0) = 1 /\ \A k \in Nat : Pow(256, k + 1) = 256 * Pow(256, k) /\ Pow(256, k) \in Nat /\ Pow(256, k) > 0
  <2>1. 256 \in Nat /\ 256 > 0
    OBVIOUS
  <2> QED
    BY <2>1, PowSteps
<1>2. ASSUME NEW i \in 2..w PROVE n \div Pow(256, i - 1) = 0
  <2>1. i - 2 \in Nat /\ (i - 2) + 1 = i - 1
    OBVIOUS
  <2>2. Pow(256, i - 1) = 256 * Pow(256, i - 2) /\ Pow(256, i - 2) \in Nat /\ Pow(256, i - 2) > 0
    BY <1>1, <2>1
  <2> DEFINE p == Pow(256, i - 1)
  <2>3. p \in Nat /\ p > n
    BY <2>2 DEF Octets
  <2> HIDE DEF p
  <2>4. n = p * 0 + n /\ n \in Nat
    BY <2>3 DEF Octets
  <2>5. (p * 0 + n) \div p = 0
    BY <2>3, <2>4, Quotients
  <2> QED
    BY <2>4, <2>5 DEF p
<1>3. LE(n, w) = [i \in 1..w |-> IF i = 1 THEN n ELSE 0]
  <2>1. ASSUME NEW i \in 1..w PROVE (n \div Pow(256, i - 1)) % 256 = IF i = 1 THEN n ELSE 0
    <3>1. CASE i = 1
      <4>1. Pow(256, i - 1) = 1
        BY <1>1, <3>1
      <4>2. (n \div 1) % 256 = n
        BY DEF Octets
      <4> QED
        BY <3>1, <4>1, <4>2
    <3>2. CASE i # 1
      <4>1. n \div Pow(256, i - 1) = 0
        BY <1>2, <3>2
      <4> QED
        BY <3>2, <4>1
    <3> QED
      BY <3>1, <3>2
  <2> QED
    BY <2>1 DEF LE
<1>4. \A i \in 1..w : (IF i = 1 THEN n ELSE 0) \in Octets
  BY DEF Octets
<1>5. [i \in 1..w |-> IF i = 1 THEN n ELSE 0] \in Seq(Octets)
  BY <1>4, FunctionIsSeq
<1> QED
  BY <1>3, <1>5

\* The w bytes from pc on hold the number n of one byte.
HoldsSmall(s, pc, w, n) == s[pc + 1] = n /\ \A i \in 2..w : s[pc + i] = 0

\* A number that takes one byte is read from its bytes and from no others.
LEMMA SmallRead ==
    ASSUME NEW s \in Seq(Octets), NEW pc \in Nat, NEW w \in {1, 2, 4}, pc + w <= Len(s), NEW n \in Octets
    PROVE  /\ ReadLE(s, pc, w) \in Nat
           /\ (ReadLE(s, pc, w) = n <=> HoldsSmall(s, pc, w, n))
<1> DEFINE F == LEFrom(s, pc, w)
<1>1. F[w] = 0 /\ \A i \in 0..(w - 1) : F[i] = s[pc + i + 1] + 256 * F[i + 1]
  BY LESteps, SMTT(60)
<1>2. ReadLE(s, pc, w) = F[0]
  BY ReadLEIs
<1>3. \A i \in 1..w : s[pc + i] \in 0..255
  <2> TAKE i \in 1..w
  <2>1. pc + i \in 1..Len(s)
    OBVIOUS
  <2> QED
    BY <2>1, ElementOfSeq DEF Octets
<1>3a. n \in 0..255
  BY DEF Octets
<1>3b. \A i \in 1..w : F[i - 1] = s[pc + i] + 256 * F[i]
  <2> TAKE i \in 1..w
  <2>1. i - 1 \in 0..(w - 1) /\ pc + (i - 1) + 1 = pc + i /\ (i - 1) + 1 = i
    OBVIOUS
  <2>2. F[i - 1] = s[pc + (i - 1) + 1] + 256 * F[(i - 1) + 1]
    BY <1>1, <2>1
  <2> QED
    BY <2>1, <2>2
<1> HIDE DEF F
<1>4. CASE w = 1
  <2>1. F[0] = s[pc + 1] + 256 * F[1] /\ F[1] = 0 /\ s[pc + 1] \in 0..255
    <3>1. 1 \in 1..w /\ 1 - 1 = 0
      BY <1>4
    <3> QED
      BY <1>1, <1>3, <1>3b, <1>4, <3>1
  <2>2. F[0] \in Nat /\ (F[0] = n <=> s[pc + 1] = n)
    <3>1. \A a \in 0..255 : a + 256 * 0 = a /\ a \in Nat
      OBVIOUS
    <3> QED
      BY <2>1, <3>1, ZenonT(60)
  <2> QED
    BY <1>2, <1>4, <2>2 DEF HoldsSmall
<1>5. CASE w = 2
  <2>0. 1 \in 1..w /\ 2 \in 1..w /\ 1 - 1 = 0 /\ 2 - 1 = 1
    BY <1>5
  <2>1. F[0] = s[pc + 1] + 256 * F[1] /\ F[1] = s[pc + 2] + 256 * F[2] /\ F[2] = 0
        /\ s[pc + 1] \in 0..255 /\ s[pc + 2] \in 0..255
    BY <1>1, <1>3, <1>3b, <1>5, <2>0
  <2>2. F[0] \in Nat /\ (F[0] = n <=> s[pc + 1] = n /\ s[pc + 2] = 0)
    <3>2. F[0] = s[pc + 1] + 256 * (s[pc + 2] + 256 * 0)
      BY <2>1
    <3>3. PICK a, b \in 0..255 : a = s[pc + 1] /\ b = s[pc + 2]
      BY <2>1, ZenonT(60)
    <3>4. F[0] = a + 256 * (b + 256 * 0)
      BY <3>2, <3>3, Zenon
    <3>5. F[0] \in Nat /\ (F[0] = n <=> a = n /\ b = 0)
      <4> DEFINE v == F[0]
      <4>1. v = a + 256 * (b + 256 * 0)
        BY <3>4
      <4> HIDE DEF v
      <4>2. v \in Nat /\ (v = n <=> a = n /\ b = 0)
        BY <1>3a, <4>1
      <4> QED
        BY <4>2 DEF v
    <3> QED
      BY <3>3, <3>5, Zenon
  <2> QED
    BY <1>2, <1>5, <2>2 DEF HoldsSmall
<1>6. CASE w = 4
  <2>0. 1 \in 1..w /\ 2 \in 1..w /\ 3 \in 1..w /\ 4 \in 1..w /\ 1 - 1 = 0 /\ 2 - 1 = 1 /\ 3 - 1 = 2 /\ 4 - 1 = 3
    BY <1>6
  <2>1. F[0] = s[pc + 1] + 256 * F[1] /\ F[1] = s[pc + 2] + 256 * F[2]
        /\ F[2] = s[pc + 3] + 256 * F[3] /\ F[3] = s[pc + 4] + 256 * F[4] /\ F[4] = 0
        /\ s[pc + 1] \in 0..255 /\ s[pc + 2] \in 0..255 /\ s[pc + 3] \in 0..255 /\ s[pc + 4] \in 0..255
    BY <1>1, <1>3, <1>3b, <1>6, <2>0
  <2>2. F[0] \in Nat /\ (F[0] = n <=> s[pc + 1] = n /\ s[pc + 2] = 0 /\ s[pc + 3] = 0 /\ s[pc + 4] = 0)
    <3>1. F[0] = s[pc + 1] + 256 * (s[pc + 2] + 256 * (s[pc + 3] + 256 * (s[pc + 4] + 256 * 0)))
      BY <2>1
    <3>2. s[pc + 1] \in 0..255 /\ s[pc + 2] \in 0..255 /\ s[pc + 3] \in 0..255 /\ s[pc + 4] \in 0..255
      BY <2>1
    <3>a. PICK a \in 0..255 : a = s[pc + 1]
      BY <3>2
    <3>b. PICK b \in 0..255 : b = s[pc + 2]
      BY <3>2
    <3>c. PICK c \in 0..255 : c = s[pc + 3]
      BY <3>2
    <3>d. PICK d \in 0..255 : d = s[pc + 4]
      BY <3>2
    <3>3. a = s[pc + 1] /\ b = s[pc + 2] /\ c = s[pc + 3] /\ d = s[pc + 4]
      BY <3>a, <3>b, <3>c, <3>d, Zenon
    <3>4. F[0] = a + 256 * (b + 256 * (c + 256 * (d + 256 * 0)))
      BY <3>1, <3>3, ZenonT(60)
    <3>5. F[0] \in Nat /\ (F[0] = n <=> a = n /\ b = 0 /\ c = 0 /\ d = 0)
      <4> DEFINE v == F[0]
      <4>1. v = a + 256 * (b + 256 * (c + 256 * (d + 256 * 0)))
        BY <3>4
      <4> HIDE DEF v
      <4>2. v \in Nat /\ (v = n <=> a = n /\ b = 0 /\ c = 0 /\ d = 0)
        BY <1>3a, <4>1
      <4> QED
        BY <4>2 DEF v
    <3> QED
      BY <3>3, <3>5, Zenon
  <2> QED
    BY <1>2, <1>6, <2>2 DEF HoldsSmall
<1> QED
  BY <1>4, <1>5, <1>6

\* What an operation found at pc is, whatever the script.
OpFacts(s, pc, op) ==
    /\ op.ok \in BOOLEAN /\ op.opcode \in Octets /\ op.data \in Seq(Octets) /\ op.pc \in Nat
    /\ op.ok => pc < Len(s) /\ pc < op.pc /\ op.pc <= Len(s) /\ op.opcode = s[pc + 1]
    /\ ~op.ok => op.opcode = OP_INVALIDOPCODE
    /\ op.ok /\ op.opcode > OP_PUSHDATA4 => op.data = <<>> /\ op.pc = pc + 1
    /\ pc < Len(s) /\ s[pc + 1] > OP_PUSHDATA4 => op.ok

\* The size that is announced to follow w bytes behind the opcode.
SizeAt(s, pc, w) == IF w = 0 THEN s[pc + 1] ELSE ReadLE(s, pc + 1, w)
DataOp(s, pc, from, n) ==
    [ok |-> TRUE, opcode |-> s[pc + 1], data |-> SubSeq(s, from + 1, from + n), pc |-> from + n]
LEMMA DataOpIs ==
    \A s, pc, from, n : LET op == DataOp(s, pc, from, n) IN
       op.ok /\ op.data = SubSeq(s, from + 1, from + n) /\ op.pc = from + n
  BY DEF DataOp

\* The ways it goes.
OpCases(s, pc, w, from, op) ==
    /\ pc >= Len(s) => op = NoOp(pc)
    /\ ~(pc >= Len(s)) /\ s[pc + 1] > OP_PUSHDATA4 =>
         op = [ok |-> TRUE, opcode |-> s[pc + 1], data |-> <<>>, pc |-> pc + 1]
    /\ ~(pc >= Len(s)) /\ ~(s[pc + 1] > OP_PUSHDATA4) =>
         /\ from > Len(s) => op = NoOp(pc + 1)
         /\ ~(from > Len(s)) =>
              /\ Len(s) - from < SizeAt(s, pc, w) => op = NoOp(from)
              /\ ~(Len(s) - from < SizeAt(s, pc, w)) => op = DataOp(s, pc, from, SizeAt(s, pc, w))

\* GetScriptOp, case by case.
LEMMA OpIs ==
    ASSUME NEW s, NEW pc, NEW w, w = SizeBytes(s[pc + 1]), NEW from, from = pc + 1 + w
    PROVE  OpCases(s, pc, w, from, GetScriptOp(s, pc))
  BY DEF OpCases, GetScriptOp, DataOp, SizeAt, Byte, Slice

\* How many bytes hold the size.
LEMMA SizeBytesIs ==
    /\ \A c : SizeBytes(c) \in {0, 1, 2, 4}
    /\ SizeBytes(OP_PUSHDATA1) = 1 /\ SizeBytes(OP_PUSHDATA2) = 2 /\ SizeBytes(OP_PUSHDATA4) = 4
    /\ \A c \in 0..(OP_PUSHDATA1 - 1) : SizeBytes(c) = 0
  BY DEF SizeBytes, OP_PUSHDATA1, OP_PUSHDATA2, OP_PUSHDATA4

\* The n elements of s behind a.
Piece(D, s, a, n, p) ==
    p \in Seq(D) /\ Len(p) = n /\ \A i \in 1..n : p[i] = s[a + i] /\ s[a + i] \in D

\* SubSeq gives them.
LEMMA SubPiece ==
    ASSUME NEW D, NEW s \in Seq(D), NEW a \in Nat, NEW n \in Nat, a + n <= Len(s)
    PROVE  Piece(D, s, a, n, SubSeq(s, a + 1, a + n))
<1>1. \A i \in 1..n : s[a + i] \in D
  <2> TAKE i \in 1..n
  <2>1. a + i \in 1..Len(s)
    OBVIOUS
  <2> QED
    BY <2>1, ElementOfSeq
<1>2. SubSeq(s, a + 1, a + n) = [i \in 1..n |-> s[a + i]]
  OBVIOUS
<1>3. [i \in 1..n |-> s[a + i]] \in Seq(D)
  BY <1>1, FunctionIsSeq
<1> QED
  BY <1>1, <1>2, <1>3 DEF Piece

\* GetScriptOp on any script.
LEMMA OpAlways ==
    ASSUME NEW s \in Seq(Octets), NEW pc \in Nat, NEW op, op = GetScriptOp(s, pc)
    PROVE  OpFacts(s, pc, op)
<1> DEFINE w == SizeBytes(s[pc + 1])
           from == pc + 1 + w
           n == SizeAt(s, pc, w)
<1>1. OpCases(s, pc, w, from, op)
  BY OpIs
<1>2. w \in Nat /\ w \in {0, 1, 2, 4} /\ from \in Nat /\ pc + 1 <= from
  BY SizeBytesIs
<1>3. OP_PUSHDATA4 = 78 /\ OP_INVALIDOPCODE = 255 /\ <<>> \in Seq(Octets) /\ 255 \in Octets
  BY DEF OP_PUSHDATA4, OP_INVALIDOPCODE, Octets
<1>4. pc < Len(s) => s[pc + 1] \in Octets /\ s[pc + 1] \in 0..255
  <2>1. pc < Len(s) => pc + 1 \in 1..Len(s)
    OBVIOUS
  <2> QED
    BY <2>1, ElementOfSeq DEF Octets
<1>5. ASSUME pc < Len(s), from <= Len(s) PROVE n \in Nat
  <2>1. CASE w = 0
    <3> HIDE DEF w
    <3>1. n = s[pc + 1]
      BY <2>1 DEF SizeAt
    <3>2. \A c \in 0..255 : c \in Nat
      OBVIOUS
    <3> HIDE DEF n
    <3> QED
      BY <1>4, <1>5, <3>1, <3>2, Zenon
  <2>2. CASE w # 0
    <3>1. w \in {1, 2, 4} /\ (pc + 1) + w <= Len(s) /\ pc + 1 \in Nat /\ 0 \in Octets
      BY <1>2, <1>5, <2>2 DEF Octets
    <3> HIDE DEF w
    <3>2. ReadLE(s, pc + 1, w) \in Nat
      BY <3>1, SmallRead
    <3> QED
      BY <2>2, <3>2 DEF SizeAt
  <2> QED
    BY <2>1, <2>2
<1> HIDE DEF w, from, n
<1>6. ASSUME NEW p \in Nat, op = NoOp(p), ~(pc < Len(s) /\ s[pc + 1] > OP_PUSHDATA4)
      PROVE OpFacts(s, pc, op)
  BY <1>3, <1>6 DEF OpFacts, NoOp
<1>7. CASE pc >= Len(s)
  BY <1>1, <1>6, <1>7 DEF OpCases
<1>8. CASE ~(pc >= Len(s)) /\ s[pc + 1] > OP_PUSHDATA4
  <2>1. op = [ok |-> TRUE, opcode |-> s[pc + 1], data |-> <<>>, pc |-> pc + 1]
    BY <1>1, <1>8 DEF OpCases
  <2>2. pc < Len(s) /\ pc + 1 \in Nat /\ pc < pc + 1 /\ pc + 1 <= Len(s)
    BY <1>8
  <2> QED
    BY <1>3, <1>4, <1>8, <2>1, <2>2 DEF OpFacts
<1>9. CASE ~(pc >= Len(s)) /\ ~(s[pc + 1] > OP_PUSHDATA4) /\ (from > Len(s) \/ Len(s) - from < n)
  <2>1. op = NoOp(pc + 1) \/ op = NoOp(from)
    BY <1>1, <1>9 DEF OpCases, n
  <2> QED
    BY <1>2, <1>6, <1>9, <2>1
<1>10. CASE ~(pc >= Len(s)) /\ ~(s[pc + 1] > OP_PUSHDATA4) /\ ~(from > Len(s)) /\ ~(Len(s) - from < n)
  <2>1. op = DataOp(s, pc, from, n)
    BY <1>1, <1>10 DEF OpCases, n
  <2>2. n \in Nat /\ pc < Len(s)
    BY <1>2, <1>5, <1>10
  <2>3. from <= from + n /\ from + n <= Len(s) /\ from + n \in Nat /\ pc < from + n
    BY <1>2, <1>10, <2>2
  <2>4. SubSeq(s, from + 1, from + n) \in Seq(Octets)
    BY <1>2, <2>2, <2>3, SubPiece DEF Piece
  <2> QED
    BY <1>3, <1>4, <1>10, <2>1, <2>2, <2>3, <2>4 DEF OpFacts, DataOp
<1> QED
  BY <1>7, <1>8, <1>9, <1>10

\* The bytes at pc announce n bytes of data, in w bytes behind the opcode.
Announces(s, pc, w, n) ==
    /\ w = SizeBytes(s[pc + 1]) /\ s[pc + 1] <= OP_PUSHDATA4
    /\ IF w = 0 THEN s[pc + 1] = n ELSE HoldsSmall(s, pc + 1, w, n)

\* A size that takes one byte is announced in the bytes behind the opcode.
LEMMA SmallSize ==
    ASSUME NEW s \in Seq(Octets), NEW pc \in Nat, NEW w, w = SizeBytes(s[pc + 1]),
           pc + 1 + w <= Len(s), s[pc + 1] <= OP_PUSHDATA4, NEW n \in Octets
    PROVE  SizeAt(s, pc, w) \in Nat /\ (SizeAt(s, pc, w) = n <=> Announces(s, pc, w, n))
<1>1. w \in {0, 1, 2, 4} /\ w \in Nat
  BY SizeBytesIs
<1>2. s[pc + 1] \in Octets /\ \A c \in Octets : c \in Nat
  <2>1. pc + 1 \in 1..Len(s)
    BY <1>1
  <2>2. s[pc + 1] \in Octets
    BY <2>1, ElementOfSeq
  <2> QED
    BY <2>2 DEF Octets
<1>3. CASE w = 0
  BY <1>2, <1>3 DEF SizeAt, Announces
<1>4. CASE w # 0
  <2>1. w \in {1, 2, 4} /\ (pc + 1) + w <= Len(s) /\ pc + 1 \in Nat /\ (pc + 1) + 1 = pc + 2
    BY <1>1, <1>4
  <2>2. ReadLE(s, pc + 1, w) \in Nat /\ (ReadLE(s, pc + 1, w) = n <=> HoldsSmall(s, pc + 1, w, n))
    BY <2>1, SmallRead
  <2>3. SizeAt(s, pc, w) = ReadLE(s, pc + 1, w)
    BY <1>4 DEF SizeAt
  <2>4. Announces(s, pc, w, n) <=> HoldsSmall(s, pc + 1, w, n)
    BY <1>4, Zenon DEF Announces
  <2> QED
    BY <2>2, <2>3, <2>4
<1> QED
  BY <1>3, <1>4

\* The data of n bytes between pc and q, announced in w bytes.
DataLies(s, pc, w, n, data, q) ==
    /\ Announces(s, pc, w, n) /\ q = pc + 1 + w + n /\ q <= Len(s)
    /\ data = SubSeq(s, (pc + 1 + w) + 1, q)

\* GetScriptOp returns data of n > 0 bytes, and stops at q, when they lie there.
LEMMA DataRead ==
    ASSUME NEW s \in Seq(Octets), NEW pc \in Nat, NEW n \in Octets, n > 0, NEW w, w = SizeBytes(s[pc + 1]),
           NEW op, op = GetScriptOp(s, pc), NEW data, Len(data) = n, NEW q
    PROVE  op.ok /\ op.data = data /\ op.pc = q <=> DataLies(s, pc, w, n, data, q)
<1> DEFINE from == pc + 1 + w
           N == SizeAt(s, pc, w)
<1>1. OpCases(s, pc, w, from, op)
  BY OpIs
<1>2. w \in {0, 1, 2, 4} /\ w \in Nat /\ from \in Nat /\ n \in Nat /\ Len(s) \in Nat
  BY SizeBytesIs DEF Octets
<1>3. pc < Len(s) => s[pc + 1] \in Nat
  <2>1. pc < Len(s) => pc + 1 \in 1..Len(s)
    OBVIOUS
  <2>2. \A c \in Octets : c \in Nat
    BY DEF Octets
  <2> QED
    BY <2>1, <2>2, ElementOfSeq
<1>4. OP_PUSHDATA4 \in Nat
  BY DEF OP_PUSHDATA4
<1>5. \A p : ~NoOp(p).ok
  BY DEF NoOp
<1> HIDE DEF N, from
<1>6. CASE pc >= Len(s)
  <2>1. ~op.ok
    BY <1>1, <1>5, <1>6 DEF OpCases
  <2>2. ~DataLies(s, pc, w, n, data, q)
    BY <1>2, <1>6 DEF DataLies
  <2> QED
    BY <2>1, <2>2
<1>7. CASE ~(pc >= Len(s)) /\ s[pc + 1] > OP_PUSHDATA4
  <2>1. op = [ok |-> TRUE, opcode |-> s[pc + 1], data |-> <<>>, pc |-> pc + 1]
    BY <1>1, <1>7 DEF OpCases
  <2>2. op.data # data
    BY <1>2, <2>1
  <2>3. ~DataLies(s, pc, w, n, data, q)
    <3>1. ~(s[pc + 1] <= OP_PUSHDATA4)
      BY <1>3, <1>4, <1>7
    <3> QED
      BY <3>1 DEF DataLies, Announces
  <2> QED
    BY <2>2, <2>3
<1>8. CASE ~(pc >= Len(s)) /\ ~(s[pc + 1] > OP_PUSHDATA4)
  <2>0. pc < Len(s) /\ s[pc + 1] <= OP_PUSHDATA4
    BY <1>2, <1>3, <1>4, <1>8
  <2>1. CASE from > Len(s)
    <3>1. ~op.ok
      BY <1>1, <1>5, <1>8, <2>1 DEF OpCases
    <3>2. ~DataLies(s, pc, w, n, data, q)
      BY <1>2, <2>1 DEF DataLies, from
    <3> QED
      BY <3>1, <3>2
  <2>2. CASE ~(from > Len(s))
    <3>1. N \in Nat /\ (N = n <=> Announces(s, pc, w, n))
      <4>1. pc + 1 + w <= Len(s)
        BY <1>2, <2>2 DEF from
      <4> QED
        BY <2>0, <4>1, SmallSize DEF N
    <3>2. CASE Len(s) - from < N
      <4>1. ~op.ok
        BY <1>1, <1>5, <1>8, <2>2, <3>2 DEF OpCases, N
      <4>2. ~DataLies(s, pc, w, n, data, q)
        <5>1. ~(N = n /\ from + n <= Len(s))
          BY <1>2, <3>1, <3>2
        <5> QED
          BY <1>2, <3>1, <5>1 DEF DataLies, from
      <4> QED
        BY <4>1, <4>2
    <3>3. CASE ~(Len(s) - from < N)
      <4>1. op = DataOp(s, pc, from, N)
        BY <1>1, <1>8, <2>2, <3>3 DEF OpCases, N
      <4>2. op.ok /\ op.data = SubSeq(s, from + 1, from + N) /\ op.pc = from + N
        BY <4>1, DataOpIs
      <4>3. from <= from + N /\ from + N <= Len(s) /\ (from + N) - from = N /\ from + N \in Nat
        BY <1>2, <3>1, <3>3
      <4>4. Len(op.data) = N
        BY <1>2, <3>1, <4>2, <4>3, SubPiece DEF Piece
      <4>5. ASSUME op.data = data, op.pc = q PROVE DataLies(s, pc, w, n, data, q)
        BY <3>1, <4>2, <4>3, <4>4, <4>5 DEF DataLies, from
      <4>6. ASSUME DataLies(s, pc, w, n, data, q) PROVE op.data = data /\ op.pc = q
        BY <3>1, <4>2, <4>6 DEF DataLies, from
      <4> QED
        BY <4>2, <4>5, <4>6
    <3> QED
      BY <3>2, <3>3
  <2> QED
    BY <2>1, <2>2
<1> QED
  BY <1>6, <1>7, <1>8

\* x begins with h, and what is left of it is k.
Splits(x, h, k) ==
    /\ Len(x) = Len(h) + Len(k) /\ \A i \in 1..Len(h) : x[i] = h[i]
    /\ SubSeq(x, Len(h) + 1, Len(x)) = k

\* A sequence is two others one behind the other when it splits so.
LEMMA SplitsSo ==
    ASSUME NEW D, NEW h \in Seq(D), NEW k \in Seq(D), NEW x \in Seq(D)
    PROVE  x = h \o k <=> Splits(x, h, k)
<1>1. ASSUME x = h \o k PROVE Splits(x, h, k)
  <2>1. Len(x) = Len(h) + Len(k) /\ SubSeq(x, Len(h) + 1, Len(x)) = k
    BY <1>1, InFront
  <2>2. \A i \in 1..Len(h) : x[i] = h[i]
    BY <1>1, Joining DEF JoinOf
  <2> QED
    BY <2>1, <2>2 DEF Splits
<1>2. ASSUME Splits(x, h, k) PROVE x = h \o k
  <2> DEFINE w == Len(h)
  <2>1. w \in Nat /\ w <= Len(x)
    BY <1>2 DEF Splits
  <2>2. SubSeq(x, 1, w) = h
    <3>1. SubSeq(x, 1, w) \in Seq(D) /\ Len(SubSeq(x, 1, w)) = w /\ \A i \in 1..w : SubSeq(x, 1, w)[i] = x[i]
      BY <2>1, PartOf
    <3>2. \A i \in 1..w : x[i] = h[i]
      BY <1>2 DEF Splits
    <3> DEFINE p == SubSeq(x, 1, w)
    <3> HIDE DEF p
    <3>3. p = h
      BY <3>1, <3>2, SeqEqual DEF p
    <3> QED
      BY <3>3 DEF p
  <2>3. SubSeq(x, w + 1, Len(x)) = k
    BY <1>2 DEF Splits
  <2> HIDE DEF w
  <2>4. SubSeq(x, 1, w) \o SubSeq(x, w + 1, Len(x)) = x
    BY <2>1, PartOf
  <2> QED
    BY <2>2, <2>3, <2>4
<1> QED
  BY <1>1, <1>2

\* A push of data of n bytes: its opcode c, its size in w bytes, the data.
PushOf(c, n, w, key) == (<<c>> \o LE(n, w)) \o key
IsPushOf(x, c, n, w, key) ==
    /\ Len(x) = 1 + w + n /\ x[1] = c /\ HoldsSmall(x, 1, w, n)
    /\ SubSeq(x, (1 + w) + 1, Len(x)) = key

PushKnown(c, n, w, key) ==
    /\ PushOf(c, n, w, key) \in Seq(Octets)
    /\ \A x \in Seq(Octets) : x = PushOf(c, n, w, key) <=> IsPushOf(x, c, n, w, key)

\* Its bytes, one by one.
LEMMA PushOfIs ==
    ASSUME NEW c \in Octets, NEW w \in {1, 2, 4}, NEW n \in Octets, NEW key \in Seq(Octets), Len(key) = n
    PROVE  PushKnown(c, n, w, key)
<1> DEFINE l == LE(n, w)
           h == <<c>> \o l
<1>1. l \in Seq(Octets) /\ Len(l) = w /\ l[1] = n /\ \A i \in 2..w : l[i] = 0
  BY SmallLE
<1>2. w \in Nat /\ w >= 1 /\ n \in Nat /\ <<c>> \in Seq(Octets) /\ Len(<<c>>) = 1 /\ <<c>>[1] = c
  BY DEF Octets
<1> HIDE DEF l
<1>3. h \in Seq(Octets) /\ Len(h) = 1 + w /\ h[1] = c /\ \A i \in 1..w : h[1 + i] = l[i]
  <2>1. JoinOf(Octets, <<c>> \o l, <<c>>, l)
    BY <1>1, <1>2, Joining
  <2> DEFINE o == <<c>>
  <2>2. o \in Seq(Octets) /\ Len(o) = 1 /\ o[1] = c /\ JoinOf(Octets, o \o l, o, l)
    BY <1>2, <2>1
  <2> HIDE DEF o
  <2>3. o \o l \in Seq(Octets) /\ Len(o \o l) = 1 + w /\ (o \o l)[1] = c /\ \A i \in 1..w : (o \o l)[1 + i] = l[i]
    BY <1>1, <1>2, <2>2 DEF JoinOf
  <2> QED
    BY <2>3 DEF o
<1> HIDE DEF h
<1>4. PushOf(c, n, w, key) = h \o key /\ h \o key \in Seq(Octets)
  BY <1>3, InFront DEF PushOf, h, l
<1>5. ASSUME NEW x \in Seq(Octets) PROVE x = h \o key <=> IsPushOf(x, c, n, w, key)
  <2>1. x = h \o key <=> Splits(x, h, key)
    BY <1>3, SplitsSo
  <2>2. (\A i \in 1..Len(h) : x[i] = h[i]) <=> x[1] = c /\ HoldsSmall(x, 1, w, n)
    <3>1. ASSUME \A i \in 1..Len(h) : x[i] = h[i] PROVE x[1] = c /\ HoldsSmall(x, 1, w, n)
      <4>1. 1 \in 1..Len(h) /\ 1 \in 1..w /\ 1 + 1 \in 1..Len(h)
        BY <1>2, <1>3
      <4>2. x[1] = c /\ x[1 + 1] = n
        BY <1>1, <1>3, <3>1, <4>1
      <4>3. ASSUME NEW i \in 2..w PROVE x[1 + i] = 0
        <5>1. i \in 1..w /\ 1 + i \in 1..Len(h)
          BY <1>2, <1>3
        <5> QED
          BY <1>1, <1>3, <3>1, <5>1
      <4> QED
        BY <4>2, <4>3, Zenon DEF HoldsSmall
    <3>2. ASSUME x[1] = c, HoldsSmall(x, 1, w, n) PROVE \A i \in 1..Len(h) : x[i] = h[i]
      <4> TAKE i \in 1..Len(h)
      <4>0. x[1 + 1] = n /\ \A j \in 2..w : x[1 + j] = 0
        BY <3>2, Zenon DEF HoldsSmall
      <4>1. CASE i = 1
        BY <1>3, <3>2, <4>1
      <4>2. CASE i # 1
        <5> DEFINE j == i - 1
        <5>1. j \in 1..w /\ 1 + j = i /\ (j = 1 \/ j \in 2..w)
          BY <1>2, <1>3, <4>2
        <5> HIDE DEF j
        <5>2. x[1 + j] = l[j]
          BY <1>1, <4>0, <5>1
        <5>3. h[1 + j] = l[j]
          BY <1>3, <5>1
        <5> QED
          BY <5>1, <5>2, <5>3
      <4> QED
        BY <4>1, <4>2
    <3> QED
      BY <3>1, <3>2
  <2>3. Len(h) + Len(key) = 1 + w + n /\ Len(h) = 1 + w
    BY <1>2, <1>3
  <2> QED
    BY <2>1, <2>2, <2>3, Zenon DEF Splits, IsPushOf
<1> QED
  BY <1>4, <1>5, Zenon DEF PushKnown

\* The ways to push are these.
LEMMA PushesAre ==
    \A key, x : x \in Pushes(key) <=>
       \/ x = <<Len(key)>> \o key
       \/ x = PushOf(OP_PUSHDATA1, Len(key), 1, key)
       \/ x = PushOf(OP_PUSHDATA2, Len(key), 2, key)
       \/ x = PushOf(OP_PUSHDATA4, Len(key), 4, key)
<1> SUFFICES ASSUME NEW key, NEW x
             PROVE x \in Pushes(key) <=>
                     \/ x = <<Len(key)>> \o key
                     \/ x = PushOf(OP_PUSHDATA1, Len(key), 1, key)
                     \/ x = PushOf(OP_PUSHDATA2, Len(key), 2, key)
                     \/ x = PushOf(OP_PUSHDATA4, Len(key), 4, key)
  OBVIOUS
<1> DEFINE T == {<<OP_PUSHDATA1, 1>>, <<OP_PUSHDATA2, 2>>, <<OP_PUSHDATA4, 4>>}
<1>1. x \in Pushes(key) <=>
        x = <<Len(key)>> \o key \/ \E p \in T : x = PushOf(p[1], Len(key), p[2], key)
  BY DEF Pushes, PushOf
<1>2. \A c, w : <<c, w>>[1] = c /\ <<c, w>>[2] = w
  OBVIOUS
<1>3. (\E p \in T : x = PushOf(p[1], Len(key), p[2], key)) <=>
        \/ x = PushOf(OP_PUSHDATA1, Len(key), 1, key)
        \/ x = PushOf(OP_PUSHDATA2, Len(key), 2, key)
        \/ x = PushOf(OP_PUSHDATA4, Len(key), 4, key)
  BY <1>2
<1> QED
  BY <1>1, <1>3, Zenon

\* A push of a key is data that lies at its start and goes to its end.
LEMMA PushForm ==
    ASSUME NEW key \in Seq(Octets), NEW n \in 1..75, n = Len(key)
    PROVE  /\ Pushes(key) \subseteq Seq(Octets)
           /\ \A x \in Seq(Octets) :
                x \in Pushes(key) <=> Len(x) >= 1 /\ DataLies(x, 0, SizeBytes(x[1]), n, key, Len(x))
<1>1. OP_PUSHDATA1 = 76 /\ OP_PUSHDATA2 = 77 /\ OP_PUSHDATA4 = 78
  BY DEF OP_PUSHDATA1, OP_PUSHDATA2, OP_PUSHDATA4
<1>2. n \in Octets /\ n \in Nat /\ n > 0 /\ n < 76 /\ 76 \in Octets /\ 77 \in Octets /\ 78 \in Octets
  <2>1. \A m \in 1..75 : m \in Octets /\ m \in Nat /\ m > 0 /\ m < 76
    BY DEF Octets
  <2>2. 76 \in Octets /\ 77 \in Octets /\ 78 \in Octets
    BY DEF Octets
  <2> QED
    BY <2>1, <2>2, Zenon
<1>3. <<n>> \in Seq(Octets) /\ Len(<<n>>) = 1 /\ <<n>>[1] = n
  BY <1>2
<1>4. <<n>> \o key \in Seq(Octets) /\ \A x \in Seq(Octets) : x = <<n>> \o key <=> Splits(x, <<n>>, key)
  <2> DEFINE o == <<n>>
  <2> HIDE DEF o
  <2>1. o \o key \in Seq(Octets) /\ \A x \in Seq(Octets) : x = o \o key <=> Splits(x, o, key)
    BY <1>3, InFront, SplitsSo DEF o
  <2> QED
    BY <2>1 DEF o
<1>5. \A c \in {76, 77, 78}, w \in {1, 2, 4} : PushKnown(c, n, w, key)
  <2> TAKE c \in {76, 77, 78}, w \in {1, 2, 4}
  <2>1. c \in Octets
    BY <1>2
  <2> QED
    BY <1>2, <2>1, PushOfIs
<1>6. Pushes(key) \subseteq Seq(Octets)
  <2> SUFFICES ASSUME NEW x \in Pushes(key) PROVE x \in Seq(Octets)
    OBVIOUS
  <2>1. \A c \in {76, 77, 78}, w \in {1, 2, 4} : PushOf(c, n, w, key) \in Seq(Octets)
    BY <1>5, SMTT(60) DEF PushKnown
  <2>2. x \in {<<n>> \o key, PushOf(76, n, 1, key), PushOf(77, n, 2, key), PushOf(78, n, 4, key)}
    BY <1>1, PushesAre
  <2> QED
    BY <1>4, <2>1, <2>2, ZenonT(60)
<1>7. ASSUME NEW x \in Seq(Octets)
      PROVE x \in Pushes(key) <=> Len(x) >= 1 /\ DataLies(x, 0, SizeBytes(x[1]), n, key, Len(x))
  <2> DEFINE w == SizeBytes(x[1])
  <2>1. x \in Pushes(key) <=>
          \/ Splits(x, <<n>>, key) \/ IsPushOf(x, 76, n, 1, key) \/ IsPushOf(x, 77, n, 2, key)
          \/ IsPushOf(x, 78, n, 4, key)
    <3>1. x = <<n>> \o key <=> Splits(x, <<n>>, key)
      BY <1>4
    <3>2. x = PushOf(76, n, 1, key) <=> IsPushOf(x, 76, n, 1, key)
      BY <1>5 DEF PushKnown
    <3>3. x = PushOf(77, n, 2, key) <=> IsPushOf(x, 77, n, 2, key)
      BY <1>5 DEF PushKnown
    <3>4. x = PushOf(78, n, 4, key) <=> IsPushOf(x, 78, n, 4, key)
      BY <1>5 DEF PushKnown
    <3> QED
      BY <1>1, <3>1, <3>2, <3>3, <3>4, PushesAre, Zenon
  <2>2. /\ w \in {0, 1, 2, 4}
        /\ (w = 1 <=> x[1] = 76) /\ (w = 2 <=> x[1] = 77) /\ (w = 4 <=> x[1] = 78)
    BY <1>1 DEF SizeBytes
  <2>3. Len(x) >= 1 => x[1] \in Octets
    <3>1. Len(x) >= 1 => 1 \in 1..Len(x)
      OBVIOUS
    <3> QED
      BY <3>1, ElementOfSeq
  <2> HIDE DEF w
  <2>4. Splits(x, <<n>>, key) <=> Len(x) = 1 + n /\ x[1] = n /\ SubSeq(x, 2, Len(x)) = key
    BY <1>2, <1>3 DEF Splits
  <2>5. DataLies(x, 0, w, n, key, Len(x)) <=>
          /\ w = SizeBytes(x[1]) /\ x[1] <= 78
          /\ IF w = 0 THEN x[1] = n ELSE HoldsSmall(x, 1, w, n)
          /\ Len(x) = 1 + w + n /\ key = SubSeq(x, (1 + w) + 1, Len(x))
    BY <1>1 DEF DataLies, Announces
  <2>6. ASSUME Splits(x, <<n>>, key) PROVE Len(x) >= 1 /\ DataLies(x, 0, w, n, key, Len(x))
    <3>1. Len(x) >= 1 /\ x[1] \in Octets /\ x[1] = n
      BY <1>2, <2>3, <2>4, <2>6
    <3>2. w = 0
      <4>1. \A m \in 1..75 : m # 76 /\ m # 77 /\ m # 78
        OBVIOUS
      <4>2. n # 76 /\ n # 77 /\ n # 78
        BY <4>1, ZenonT(60)
      <4> QED
        BY <2>2, <3>1, <4>2
    <3> QED
      BY <1>2, <2>4, <2>5, <2>6, <3>1, <3>2 DEF w
  <2>7. ASSUME NEW v \in {1, 2, 4}, NEW c \in {76, 77, 78}, <<c, v>> \in {<<76, 1>>, <<77, 2>>, <<78, 4>>},
               IsPushOf(x, c, n, v, key)
        PROVE Len(x) >= 1 /\ DataLies(x, 0, w, n, key, Len(x))
    <3>1. Len(x) = 1 + v + n /\ x[1] = c /\ HoldsSmall(x, 1, v, n) /\ SubSeq(x, (1 + v) + 1, Len(x)) = key
      BY <2>7, Zenon DEF IsPushOf
    <3>2. Len(x) >= 1
      BY <1>2, <3>1
    <3>3. w = v
      BY <2>2, <2>3, <2>7, <3>1, <3>2
    <3> QED
      BY <2>5, <3>1, <3>2, <3>3 DEF w
  <2>8. ASSUME Len(x) >= 1, DataLies(x, 0, w, n, key, Len(x)), w = 0 PROVE Splits(x, <<n>>, key)
    BY <2>4, <2>5, <2>8
  <2>9. ASSUME Len(x) >= 1, DataLies(x, 0, w, n, key, Len(x)), w # 0
        PROVE \/ IsPushOf(x, 76, n, 1, key) \/ IsPushOf(x, 77, n, 2, key) \/ IsPushOf(x, 78, n, 4, key)
    <3>1. IsPushOf(x, x[1], n, w, key)
      BY <2>5, <2>9, Zenon DEF IsPushOf
    <3>2. \/ x[1] = 76 /\ w = 1
          \/ x[1] = 77 /\ w = 2
          \/ x[1] = 78 /\ w = 4
      BY <2>2, <2>9
    <3> QED
      BY <3>1, <3>2
  <2>10. Len(x) >= 1 /\ DataLies(x, 0, w, n, key, Len(x)) =>
          \/ Splits(x, <<n>>, key) \/ IsPushOf(x, 76, n, 1, key) \/ IsPushOf(x, 77, n, 2, key)
          \/ IsPushOf(x, 78, n, 4, key)
    BY <2>8, <2>9, Zenon
  <2>11. \/ Splits(x, <<n>>, key) \/ IsPushOf(x, 76, n, 1, key) \/ IsPushOf(x, 77, n, 2, key)
         \/ IsPushOf(x, 78, n, 4, key)
         => Len(x) >= 1 /\ DataLies(x, 0, w, n, key, Len(x))
    BY <2>6, <2>7
  <2> QED
    BY <2>1, <2>10, <2>11, Zenon DEF w
<1> QED
  BY <1>6, <1>7, Zenon

\* Data that lies in a piece of a script lies in the script.
LEMMA DataShifts ==
    ASSUME NEW s \in Seq(Octets), NEW pc \in Nat, NEW L \in Nat, L >= 1, pc + L <= Len(s),
           NEW x, Piece(Octets, s, pc, L, x), NEW n \in 1..75, NEW key, NEW w, w = SizeBytes(x[1])
    PROVE  DataLies(x, 0, w, n, key, L) <=> DataLies(s, pc, w, n, key, pc + L)
<1>1. x \in Seq(Octets) /\ Len(x) = L /\ \A i \in 1..L : x[i] = s[pc + i]
  BY DEF Piece
<1>2. w \in {0, 1, 2, 4} /\ w \in Nat /\ n \in Nat /\ n >= 1 /\ Len(s) \in Nat
  BY SizeBytesIs
<1>3. x[1] = s[pc + 1]
  BY <1>1
<1>4. DataLies(x, 0, w, n, key, L) <=>
        /\ Announces(x, 0, w, n) /\ L = 1 + w + n /\ key = SubSeq(x, (1 + w) + 1, L)
  <2>1. 0 + 1 + w = 1 + w /\ L <= Len(x)
    BY <1>1, <1>2
  <2> QED
    BY <2>1, Zenon DEF DataLies
<1>5. DataLies(s, pc, w, n, key, pc + L) <=>
        /\ Announces(s, pc, w, n) /\ L = 1 + w + n /\ key = SubSeq(s, (pc + (1 + w)) + 1, pc + L)
  <2>1. (pc + L = pc + 1 + w + n) <=> (L = 1 + w + n)
    BY <1>2, SMTT(60)
  <2>2. pc + 1 + w = pc + (1 + w)
    BY <1>2
  <2> QED
    BY <2>1, <2>2, Zenon DEF DataLies
<1>6. ASSUME L = 1 + w + n PROVE SubSeq(x, (1 + w) + 1, L) = SubSeq(s, (pc + (1 + w)) + 1, pc + L)
  <2> DEFINE f == 1 + w
             a == SubSeq(x, f + 1, f + n)
             b == SubSeq(s, (pc + f) + 1, (pc + f) + n)
  <2>1. f \in Nat /\ f + n = L /\ pc + f \in Nat /\ (pc + f) + n = pc + L
    <3>1. \A a1, b1, c1 \in Nat : 1 + a1 \in Nat /\ c1 + (1 + a1) \in Nat
                                /\ (c1 + (1 + a1)) + b1 = c1 + (1 + a1 + b1)
      OBVIOUS
    <3>2. f \in Nat /\ pc + f \in Nat
      BY <1>2, <3>1
    <3>3. f + n = L
      BY <1>6
    <3>4. (pc + f) + n = pc + (f + n)
      BY <1>2, <3>1
    <3> QED
      BY <3>2, <3>3, <3>4
  <2> HIDE DEF f
  <2>2. f + n <= Len(x) /\ (pc + f) + n <= Len(s)
    BY <1>1, <2>1
  <2>3. Piece(Octets, x, f, n, a)
    BY <1>1, <1>2, <2>1, <2>2, SubPiece
  <2>4. Piece(Octets, s, pc + f, n, b)
    BY <1>2, <2>1, <2>2, SubPiece
  <2> HIDE DEF a, b
  <2>5. ASSUME NEW i \in 1..n PROVE a[i] = b[i]
    <3>1. f + i \in 1..L /\ pc + (f + i) = (pc + f) + i
      BY <1>2, <2>1
    <3>2. x[f + i] = s[pc + (f + i)]
      BY <1>1, <3>1
    <3> QED
      BY <2>3, <2>4, <3>1, <3>2 DEF Piece
  <2>6. a = b
    BY <1>2, <2>3, <2>4, <2>5, SeqEqual DEF Piece
  <2> QED
    BY <2>1, <2>6 DEF a, b, f
<1>7. ASSUME L = 1 + w + n PROVE Announces(x, 0, w, n) <=> Announces(s, pc, w, n)
  <2>1. HoldsSmall(x, 1, w, n) <=> HoldsSmall(s, pc + 1, w, n)
    <3>1. x[1 + 1] = s[(pc + 1) + 1]
      <4>1. 1 + 1 \in 1..L /\ pc + (1 + 1) = (pc + 1) + 1
        BY <1>2, <1>7
      <4> QED
        BY <1>1, <4>1
    <3>2. ASSUME NEW i \in 2..w PROVE x[1 + i] = s[(pc + 1) + i]
      <4>1. 1 + i \in 1..L /\ pc + (1 + i) = (pc + 1) + i
        BY <1>2, <1>7
      <4> QED
        BY <1>1, <4>1
    <3> QED
      BY <3>1, <3>2 DEF HoldsSmall
  <2>2. x[0 + 1] = x[1] /\ HoldsSmall(x, 0 + 1, w, n) = HoldsSmall(x, 1, w, n)
    OBVIOUS
  <2> QED
    BY <1>3, <2>1, <2>2 DEF Announces
<1> QED
  BY <1>4, <1>5, <1>6, <1>7

\* The sizes of a key.
LEMMA KeySizes == \A key : ValidSize(key) => Len(key) \in {33, 65}
  BY DEF ValidSize, GetLen, COMPRESSED_PUBLIC_KEY_SIZE, PUBLIC_KEY_SIZE

\* The key that lies between pc and q is the data of the operation at pc.
KeyAt(s, pc, key, q) == pc < q /\ q <= Len(s) /\ SubSeq(s, pc + 1, q) \in Pushes(key)
OpGives(op, key, q) == op.ok /\ op.data = key /\ op.pc = q

\* GetScriptOp reads a key just when it has been pushed there.
LEMMA KeyRead ==
    ASSUME NEW s \in Seq(Octets), NEW pc \in Nat, NEW key \in Seq(Octets), ValidSize(key), NEW q \in Nat,
           NEW op, op = GetScriptOp(s, pc)
    PROVE  OpGives(op, key, q) <=> KeyAt(s, pc, key, q)
<1> DEFINE n == Len(key)
           w == SizeBytes(s[pc + 1])
<1>1. n \in 1..75 /\ n \in Octets /\ n > 0
  <2>1. n \in {33, 65}
    BY KeySizes
  <2> HIDE DEF n
  <2> QED
    BY <2>1 DEF Octets
<1> HIDE DEF n, w
<1>2. OpGives(op, key, q) <=> DataLies(s, pc, w, n, key, q)
  <2>1. op.ok /\ op.data = key /\ op.pc = q <=> DataLies(s, pc, w, n, key, q)
    BY <1>1, DataRead, SMTT(60) DEF n, w
  <2> QED
    BY <2>1 DEF OpGives
<1>3. DataLies(s, pc, w, n, key, q) => pc < q /\ q <= Len(s)
  <2>1. w \in Nat /\ n \in Nat
    BY <1>1, SizeBytesIs DEF w
  <2> QED
    BY <2>1 DEF DataLies
<1>4. ASSUME pc < q, q <= Len(s)
      PROVE SubSeq(s, pc + 1, q) \in Pushes(key) <=> DataLies(s, pc, w, n, key, q)
  <2> DEFINE L == q - pc
             x == SubSeq(s, pc + 1, pc + L)
  <2>0. L \in Nat /\ L >= 1 /\ pc + L = q
    BY <1>4
  <2> HIDE DEF L
  <2>1. Piece(Octets, s, pc, L, x)
    BY <1>4, <2>0, SubPiece
  <2>2. x = SubSeq(s, pc + 1, q)
    BY <2>0
  <2> HIDE DEF x
  <2>3. x \in Seq(Octets) /\ Len(x) = L /\ w = SizeBytes(x[1])
    BY <2>0, <2>1 DEF w, Piece
  <2>4. x \in Pushes(key) <=> Len(x) >= 1 /\ DataLies(x, 0, SizeBytes(x[1]), n, key, Len(x))
    <3> DEFINE R(y) == y \in Pushes(key) <=> Len(y) >= 1 /\ DataLies(y, 0, SizeBytes(y[1]), n, key, Len(y))
    <3>1. \A y \in Seq(Octets) : R(y)
      BY <1>1, PushForm DEF n
    <3>2. R(x)
      BY <2>3, <3>1
    <3> QED
      BY <3>2
  <2>5. DataLies(x, 0, w, n, key, L) <=> DataLies(s, pc, w, n, key, pc + L)
    BY <1>1, <1>4, <2>0, <2>1, <2>3, DataShifts, ZenonT(60)
  <2> QED
    BY <2>0, <2>2, <2>3, <2>4, <2>5
<1> QED
  BY <1>2, <1>3, <1>4 DEF KeyAt

\* The operations from pc on.
OpsRule(s, f, pc) ==
    IF GetScriptOp(s, pc).ok THEN <<GetScriptOp(s, pc)>> \o f[GetScriptOp(s, pc).pc]
    ELSE IF pc < Len(s) THEN <<GetScriptOp(s, pc)>> ELSE <<>>
OpsFrom(s) == CHOOSE f : f = [pc \in Nat |-> OpsRule(s, f, pc)]

\* Ops is one of them.
LEMMA OpsIs == \A s, start : Ops(s, start) = OpsFrom(s)[start]
  BY Zenon DEF Ops, OpsFrom, OpsRule

\* What GetScriptOp returns for a script.
OpsOf(s) == {GetScriptOp(s, pc) : pc \in Nat}

\* The operations from each place on are well defined.
LEMMA OpsSteps ==
    ASSUME NEW s \in Seq(Octets)
    PROVE  /\ \A pc \in Nat : OpsFrom(s)[pc] = OpsRule(s, OpsFrom(s), pc)
           /\ \A pc \in 0..Len(s) : OpsFrom(s)[pc] \in Seq(OpsOf(s))
<1> DEFINE N == Len(s)
           Op(pc) == GetScriptOp(s, pc)
           S == Seq(OpsOf(s))
           Z == {m \in Nat : m > N \/ ~Op(N - m).ok}
           a == [m \in Nat |-> IF m <= N /\ N - m < N THEN <<Op(N - m)>> ELSE <<>>]
           p == [m \in Nat |-> IF m \in Z THEN 0 ELSE N - Op(N - m).pc]
           b == [m \in Nat |-> [x \in S |-> IF m \in Z THEN x ELSE <<Op(N - m)>> \o x]]
<1>0. N \in Nat
  OBVIOUS
<1>1. \A pc \in Nat : Op(pc) \in OpsOf(s) /\ <<Op(pc)>> \in S
  <2> TAKE pc \in Nat
  <2>1. Op(pc) \in OpsOf(s)
    BY DEF OpsOf
  <2> HIDE DEF Op
  <2> QED
    BY <2>1
<1>2. \A pc \in Nat : Op(pc).ok => pc < N /\ pc < Op(pc).pc /\ Op(pc).pc <= N /\ Op(pc).pc \in Nat
  <2> TAKE pc \in Nat
  <2>1. OpFacts(s, pc, Op(pc))
    BY OpAlways
  <2> HIDE DEF Op
  <2> QED
    BY <2>1 DEF OpFacts
<1> HIDE DEF Op
<1>3. ASSUME NEW m \in Nat, m \notin Z
      PROVE m <= N /\ N - m \in Nat /\ Op(N - m).ok /\ N - Op(N - m).pc \in Nat /\ N - Op(N - m).pc < m
  <2>1. m <= N /\ N - m \in Nat /\ Op(N - m).ok
    BY <1>0, <1>3
  <2> DEFINE k == N - m
             e == Op(k).pc
  <2>2. k \in Nat /\ Op(k).ok /\ N - k = m
    BY <1>0, <2>1
  <2> HIDE DEF k
  <2>3. k < e /\ e <= N /\ e \in Nat
    BY <1>2, <2>2
  <2> HIDE DEF e
  <2>4. N - e \in Nat /\ N - e < m
    BY <1>0, <2>2, <2>3
  <2> QED
    BY <2>1, <2>4 DEF e, k
<1>4. a \in [Nat -> S]
  <2>1. <<>> \in S
    OBVIOUS
  <2>2. ASSUME NEW m \in Nat PROVE (IF m <= N /\ N - m < N THEN <<Op(N - m)>> ELSE <<>>) \in S
    <3>1. m <= N => N - m \in Nat
      BY <1>0
    <3> HIDE DEF S
    <3> QED
      BY <1>1, <2>1, <3>1
  <2> QED
    BY <2>2
<1>5. p \in [Nat -> Nat] /\ Descends(p, Z)
  <2> HIDE DEF Z
  <2> QED
    BY <1>3 DEF Descends
<1>6. b \in [Nat -> [S -> S]]
  <2>1. ASSUME NEW m \in Nat, NEW x \in S PROVE (IF m \in Z THEN x ELSE <<Op(N - m)>> \o x) \in S
    <3>1. CASE m \in Z
      BY <3>1
    <3>2. CASE m \notin Z
      <4>1. <<Op(N - m)>> \in S
        BY <1>1, <1>3, <3>2
      <4> DEFINE o == <<Op(N - m)>>
      <4> HIDE DEF o
      <4>2. o \o x \in S
        BY <4>1, InFront DEF o
      <4> QED
        BY <3>2, <4>2 DEF o
    <3> QED
      BY <3>1, <3>2
  <2> HIDE DEF S, Z
  <2> QED
    BY <2>1
<1>7. \E g \in [Nat -> S] : Recurs(g, Z, a, p, b)
  <2> HIDE DEF S, Z, a, p, b
  <2> QED
    BY <1>4, <1>5, <1>6, Recursion
<1>8. PICK g \in [Nat -> S] : Recurs(g, Z, a, p, b)
  BY <1>7
<1> DEFINE f == [pc \in Nat |-> IF pc <= N THEN g[N - pc] ELSE <<>>]
<1>9. ASSUME NEW pc \in Nat PROVE f[pc] = OpsRule(s, f, pc)
  <2>1. CASE pc <= N
    <3> DEFINE m == N - pc
    <3>1. m \in Nat /\ N - m = pc /\ m <= N
      BY <1>0, <2>1
    <3>2. f[pc] = g[m]
      BY <2>1
    <3> HIDE DEF m, f
    <3>3. g[m] = IF m \in Z THEN a[m] ELSE b[m][g[p[m]]]
      BY <1>8, <3>1 DEF Recurs
    <3>4. CASE ~Op(pc).ok
      <4>1. m \in Z
        BY <3>1, <3>4
      <4>2. a[m] = IF pc < N THEN <<Op(pc)>> ELSE <<>>
        BY <3>1
      <4> QED
        BY <3>2, <3>3, <3>4, <4>1, <4>2, Zenon DEF OpsRule, Op, N
    <3>5. CASE Op(pc).ok
      <4>1. m \notin Z
        <5>1. Op(N - m) = Op(pc)
          BY <3>1
        <5>2. Op(N - m).ok
          BY <3>5, <5>1, Zenon
        <5> HIDE DEF N
        <5>3. ~(m > N)
          BY <1>0, <3>1
        <5> QED
          BY <5>2, <5>3
      <4>2. p[m] = N - Op(pc).pc /\ p[m] \in Nat
        BY <1>3, <3>1, <4>1
      <4>3. g[p[m]] \in S
        BY <4>2
      <4>4. b[m][g[p[m]]] = <<Op(pc)>> \o g[p[m]]
        <5> HIDE DEF S, Z, p
        <5> QED
          BY <3>1, <4>1, <4>3
      <4>5. f[Op(pc).pc] = g[N - Op(pc).pc]
        BY <1>2, <3>5 DEF f
      <4> QED
        BY <3>2, <3>3, <3>5, <4>1, <4>2, <4>4, <4>5, Zenon DEF OpsRule, Op
    <3> QED
      BY <3>4, <3>5
  <2>2. CASE ~(pc <= N)
    <3>1. f[pc] = <<>>
      BY <2>2
    <3>2. ~Op(pc).ok /\ ~(pc < N)
      BY <1>0, <1>2, <2>2, SMTT(60)
    <3> QED
      BY <3>1, <3>2, Zenon DEF OpsRule, Op, N
  <2> QED
    BY <2>1, <2>2
<1> DEFINE F == OpsFrom(s)
<1>10. F = [pc \in Nat |-> OpsRule(s, F, pc)]
  <2>1. f = [pc \in Nat |-> OpsRule(s, f, pc)]
    BY <1>9
  <2> HIDE DEF f
  <2>2. \E h : h = [pc \in Nat |-> OpsRule(s, h, pc)]
    BY <2>1
  <2> QED
    BY <2>2, Zenon DEF OpsFrom
<1> HIDE DEF F
<1>11. \A pc \in Nat : F[pc] = OpsRule(s, F, pc)
  BY <1>10
<1> DEFINE T == {m \in Nat : m <= N => F[N - m] \in S}
<1>12. ASSUME NEW m \in Nat, \A k \in 0..(m - 1) : k \in T PROVE m \in T
  <2> SUFFICES ASSUME m <= N PROVE F[N - m] \in S
    OBVIOUS
  <2> DEFINE pc == N - m
  <2>1. pc \in Nat /\ N - pc = m
    BY <1>0
  <2> HIDE DEF pc
  <2>2. F[pc] = OpsRule(s, F, pc) /\ <<Op(pc)>> \in S /\ <<>> \in S
    <3>1. F[pc] = OpsRule(s, F, pc)
      BY <1>11, <2>1
    <3>2. <<Op(pc)>> \in S /\ <<>> \in S
      BY <1>1, <2>1
    <3> QED
      BY <3>1, <3>2
  <2>3. CASE ~Op(pc).ok
    <3>1. F[pc] = <<Op(pc)>> \/ F[pc] = <<>>
      BY <2>2, <2>3, Zenon DEF OpsRule, Op
    <3> QED
      BY <2>2, <3>1 DEF pc
  <2>4. CASE Op(pc).ok
    <3> DEFINE e == Op(pc).pc
               k == N - e
    <3>1. e \in Nat /\ pc < e /\ e <= N
      BY <1>2, <2>1, <2>4
    <3>2. F[pc] = <<Op(pc)>> \o F[e]
      BY <2>2, <2>4, Zenon DEF OpsRule, Op
    <3> HIDE DEF e
    <3>3. k \in 0..(m - 1) /\ k <= N /\ N - k = e
      <4>1. \A x1, x2, x3, x4 \in Nat : x1 - x2 = x3 /\ x2 < x4 /\ x4 <= x1 =>
              x1 - x4 \in 0..(x3 - 1) /\ x1 - x4 <= x1 /\ x1 - (x1 - x4) = x4
        OBVIOUS
      <4> QED
        BY <1>0, <2>1, <3>1, <4>1, Zenon
    <3>4. F[e] \in S
      <4> HIDE DEF k, S
      <4>1. k \in T
        BY <1>12, <3>3
      <4> QED
        BY <3>3, <4>1
    <3> DEFINE o == <<Op(pc)>>
    <3> HIDE DEF o
    <3>5. o \o F[e] \in S
      BY <2>2, <3>4, InFront DEF o
    <3> QED
      BY <3>2, <3>5 DEF o, pc
  <2> QED
    BY <2>3, <2>4
<1>13. \A m \in Nat : m \in T
  <2> HIDE DEF T
  <2> QED
    BY <1>12, Induct
<1>14. ASSUME NEW pc \in 0..N PROVE F[pc] \in S
  <2>1. N - pc \in Nat /\ N - pc <= N /\ N - (N - pc) = pc
    BY <1>0
  <2> HIDE DEF S
  <2> QED
    BY <1>13, <2>1
<1> QED
  BY <1>11, <1>14 DEF F, S, N

\* Each operation is the one at the place where that before it stopped.
Trace(s, pc, o) ==
    /\ o \in Seq(OpsOf(s))
    /\ pc >= Len(s) => Len(o) = 0
    /\ pc < Len(s) => Len(o) >= 1 /\ o[1] = GetScriptOp(s, pc)
    /\ \A j \in 1..Len(o) : o[j].ok /\ o[j].pc < Len(s) => j < Len(o)
    /\ \A j \in 1..(Len(o) - 1) : o[j].ok /\ o[j + 1] = GetScriptOp(s, o[j].pc)

\* A sequence with one more element in front.
LEMMA OneBefore ==
    ASSUME NEW D, NEW e \in D, NEW u \in Seq(D), NEW o, o = <<e>> \o u
    PROVE  /\ o \in Seq(D) /\ Len(o) = Len(u) + 1 /\ o[1] = e
           /\ \A j \in 1..Len(u) : o[j + 1] = u[j]
<1>1. <<e>> \in Seq(D) /\ Len(<<e>>) = 1 /\ <<e>>[1] = e
  OBVIOUS
<1> DEFINE h == <<e>>
<1> HIDE DEF h
<1>2. h \in Seq(D) /\ Len(h) = 1 /\ h[1] = e /\ o = h \o u
  BY <1>1 DEF h
<1>3. o \in Seq(D) /\ Len(o) = Len(h) + Len(u) /\ (\A i \in 1..Len(h) : o[i] = h[i])
      /\ \A i \in 1..Len(u) : o[Len(h) + i] = u[i]
  BY <1>2, ConcatProperties
<1>4. Len(u) \in Nat
  OBVIOUS
<1> QED
  BY <1>2, <1>3, <1>4

\* One operation more.
LEMMA TraceGoesOn ==
    ASSUME NEW s, Len(s) \in Nat, NEW pc \in Nat, pc < Len(s), NEW e, e = GetScriptOp(s, pc), e \in OpsOf(s),
           e.ok, e.pc \in Nat, NEW u, Trace(s, e.pc, u), NEW o, o = <<e>> \o u
    PROVE  Trace(s, pc, o)
<1> DEFINE D == OpsOf(s)
           n == Len(u)
<1>1. u \in Seq(D) /\ n \in Nat
  BY DEF Trace
<1> HIDE DEF D
<1>2. o \in Seq(D) /\ Len(o) = n + 1 /\ o[1] = e /\ \A j \in 1..n : o[j + 1] = u[j]
  BY <1>1, OneBefore DEF D
<1>3. ASSUME NEW j \in 1..Len(o), o[j].ok, o[j].pc < Len(s) PROVE j < Len(o)
  <2>1. CASE j = 1
    <3>1. e.pc < Len(s)
      BY <1>2, <1>3, <2>1
    <3>2. n >= 1
      BY <3>1 DEF Trace
    <3> QED
      BY <1>1, <1>2, <2>1, <3>2
  <2>2. CASE j # 1
    <3> DEFINE k == j - 1
    <3>1. k \in 1..n /\ k + 1 = j
      BY <1>1, <1>2, <2>2
    <3> HIDE DEF k
    <3>2. o[j] = u[k]
      BY <1>2, <3>1
    <3>3. k < n
      BY <1>3, <3>1, <3>2 DEF Trace
    <3> QED
      BY <1>1, <1>2, <3>1, <3>3
  <2> QED
    BY <2>1, <2>2
<1>4. ASSUME NEW j \in 1..(Len(o) - 1) PROVE o[j].ok /\ o[j + 1] = GetScriptOp(s, o[j].pc)
  <2>1. j \in 1..n /\ o[j + 1] = u[j]
    BY <1>1, <1>2
  <2>2. CASE j = 1
    <3>1. ~(e.pc >= Len(s))
      BY <1>1, <2>1 DEF Trace
    <3>2. u[1] = GetScriptOp(s, e.pc)
      BY <3>1 DEF Trace
    <3> QED
      BY <1>2, <2>1, <2>2, <3>2
  <2>3. CASE j # 1
    <3> DEFINE k == j - 1
    <3>1. k \in 1..(n - 1) /\ k \in 1..n /\ k + 1 = j
      BY <1>1, <2>1, <2>3
    <3> HIDE DEF k
    <3>2. o[j] = u[k] /\ u[k].ok /\ u[k + 1] = GetScriptOp(s, u[k].pc)
      BY <1>2, <3>1 DEF Trace
    <3> QED
      BY <2>1, <3>1, <3>2
  <2> QED
    BY <2>2, <2>3
<1>5. ~(pc >= Len(s)) /\ Len(o) >= 1
  BY <1>1, <1>2
<1> QED
  BY <1>2, <1>3, <1>4, <1>5, Zenon DEF Trace, D

\* A refused operation is the last.
LEMMA TraceEnds ==
    ASSUME NEW s, Len(s) \in Nat, NEW pc \in Nat, NEW e, e = GetScriptOp(s, pc), e \in OpsOf(s), ~e.ok, NEW o
    PROVE  /\ pc < Len(s) /\ o = <<e>> => Trace(s, pc, o)
           /\ ~(pc < Len(s)) /\ o = <<>> => Trace(s, pc, o)
<1> DEFINE D == OpsOf(s)
<1> HIDE DEF D
<1>1. ASSUME pc < Len(s), o = <<e>> PROVE Trace(s, pc, o)
  <2>1. o \in Seq(D) /\ Len(o) = 1 /\ o[1] = e
    BY <1>1 DEF D
  <2>2. ~(pc >= Len(s)) /\ 1 >= 1 /\ (\A j \in 1..1 : j = 1) /\ 1..(1 - 1) = {}
    BY <1>1
  <2> QED
    BY <2>1, <2>2, Zenon DEF Trace, D
<1>2. ASSUME ~(pc < Len(s)), o = <<>> PROVE Trace(s, pc, o)
  <2>1. o \in Seq(D) /\ Len(o) = 0
    BY <1>2
  <2>2. 1..0 = {} /\ 1..(0 - 1) = {}
    OBVIOUS
  <2> QED
    BY <1>2, <2>1, <2>2, Zenon DEF Trace, D
<1> QED
  BY <1>1, <1>2

\* The operations of a script, from any place on.
LEMMA OpsTrace ==
    ASSUME NEW s \in Seq(Octets)
    PROVE  \A pc \in 0..Len(s) : Trace(s, pc, Ops(s, pc))
<1> DEFINE N == Len(s)
           F == OpsFrom(s)
           T == {m \in Nat : \A pc \in 0..N : m = N - pc => Trace(s, pc, F[pc])}
<1>0. N \in Nat
  OBVIOUS
<1>1. \A pc \in Nat : F[pc] = OpsRule(s, F, pc)
  BY OpsSteps
<1> HIDE DEF F
<1>2. ASSUME NEW m \in Nat, \A k \in 0..(m - 1) : k \in T PROVE m \in T
  <2> SUFFICES ASSUME NEW pc \in 0..N, m = N - pc PROVE Trace(s, pc, F[pc])
    OBVIOUS
  <2> DEFINE e == GetScriptOp(s, pc)
  <2>1. pc \in Nat /\ F[pc] = OpsRule(s, F, pc)
    BY <1>1
  <2>2. OpFacts(s, pc, e)
    BY <2>1, OpAlways
  <2>3. e \in OpsOf(s)
    BY <2>1 DEF OpsOf
  <2>4. CASE e.ok
    <3>1. F[pc] = <<e>> \o F[e.pc]
      BY <2>1, <2>4, Zenon DEF OpsRule
    <3> HIDE DEF e
    <3> DEFINE k == e.pc
    <3>2. k \in Nat /\ pc < k /\ k <= N
      BY <2>2, <2>4 DEF OpFacts
    <3> HIDE DEF k
    <3>3. N - k \in 0..(m - 1) /\ k \in 0..N /\ pc < N
      <4> HIDE DEF N
      <4> QED
        BY <1>0, <2>1, <3>2
    <3>4. N - k \in T
      BY <1>2, <3>3
    <3>5. Trace(s, e.pc, F[e.pc])
      <4>1. Trace(s, k, F[k])
        BY <3>3, <3>4
      <4> QED
        BY <4>1 DEF k
    <3>6. e = GetScriptOp(s, pc) /\ e.pc \in Nat
      BY <3>2 DEF e, k
    <3> QED
      BY <1>0, <2>1, <2>3, <2>4, <3>1, <3>3, <3>5, <3>6, TraceGoesOn, Zenon
  <2>5. CASE ~e.ok
    <3>1. F[pc] = IF pc < N THEN <<e>> ELSE <<>>
      BY <2>1, <2>5, Zenon DEF OpsRule
    <3>2. (pc < N => F[pc] = <<e>>) /\ (~(pc < N) => F[pc] = <<>>)
      BY <3>1
    <3> DEFINE o == F[pc]
    <3>3. o = F[pc]
      OBVIOUS
    <3>4. e = GetScriptOp(s, pc)
      OBVIOUS
    <3> HIDE DEF e, o
    <3>5. Trace(s, pc, o)
      BY <1>0, <2>1, <2>3, <2>5, <3>2, <3>3, <3>4, TraceEnds
    <3> QED
      BY <3>3, <3>5
  <2> QED
    BY <2>4, <2>5
<1>3. \A m \in Nat : m \in T
  <2> HIDE DEF T
  <2> QED
    BY <1>2, Induct
<1>4. ASSUME NEW pc \in 0..Len(s) PROVE Trace(s, pc, Ops(s, pc))
  <2>1. N - pc \in Nat /\ pc \in 0..N
    BY <1>0
  <2>2. N - pc \in T
    BY <1>3, <2>1
  <2>3. Trace(s, pc, F[pc])
    BY <2>1, <2>2
  <2> QED
    BY <2>3, OpsIs DEF F
<1> QED
  BY <1>4

IsKey(op) == op.ok /\ ValidSize(op.data)

\* k operations, the first and then keys; the next is not a key.
KeysEnd(ops, k) ==
    /\ \A i \in 2..k : IsKey(ops[i])
    /\ k >= 1 /\ (k < Len(ops) => ~IsKey(ops[k + 1]))

\* KeysIn looks for such a k.
LEMMA KeysInIs == \A ops : KeysIn(ops) = (CHOOSE k \in 0..Len(ops) : KeysEnd(ops, k)) - 1
  BY Zenon DEF KeysIn, KeysEnd, IsKey

\* There is one end of the keys.
LEMMA KeysEndOnce ==
    ASSUME NEW ops, Len(ops) \in Nat, NEW k \in 0..Len(ops), KeysEnd(ops, k),
           NEW l \in 0..Len(ops), KeysEnd(ops, l)
    PROVE  ~(k < l)
<1> SUFFICES ASSUME k < l PROVE FALSE
  OBVIOUS
<1>1. k >= 1
  BY DEF KeysEnd
<1>2. k + 1 \in 2..l /\ k < Len(ops)
  BY <1>1
<1> QED
  BY <1>2 DEF KeysEnd

\* It is found.
LEMMA KeysFound ==
    ASSUME NEW ops, Len(ops) \in Nat, Len(ops) >= 1
    PROVE  KeysIn(ops) + 1 \in 1..Len(ops) /\ KeysIn(ops) \in Nat /\ KeysEnd(ops, KeysIn(ops) + 1)
<1> DEFINE N == Len(ops)
           T == {k \in 1..N : k < N => ~IsKey(ops[k + 1])}
           c == CHOOSE k \in 0..Len(ops) : KeysEnd(ops, k)
<1>1. T \subseteq Nat /\ N \in T
  OBVIOUS
<1>2. T # {}
  BY <1>1
<1>3. PICK k \in T : \A y \in T : ~(y < k)
  <2> HIDE DEF T
  <2> QED
    BY <1>1, <1>2, LeastNumber
<1>4. ASSUME NEW i \in 2..k PROVE IsKey(ops[i])
  <2> SUFFICES ASSUME ~IsKey(ops[i]) PROVE FALSE
    OBVIOUS
  <2> DEFINE y == i - 1
  <2>1. y \in 1..N /\ y < k /\ y + 1 = i
    OBVIOUS
  <2> HIDE DEF y
  <2>2. y \in T
    BY <2>1
  <2> QED
    BY <1>3, <2>1, <2>2
<1>5. KeysEnd(ops, k) /\ k \in 0..Len(ops)
  BY <1>4 DEF KeysEnd
<1>6. c \in 0..Len(ops) /\ KeysEnd(ops, c)
  <2>1. \E x \in 0..Len(ops) : KeysEnd(ops, x)
    BY <1>5
  <2> QED
    BY <2>1, Zenon
<1> HIDE DEF c
<1>7. c >= 1
  BY <1>6 DEF KeysEnd
<1>8. KeysIn(ops) = c - 1
  BY KeysInIs, Zenon DEF c
<1>9. c \in 1..Len(ops) /\ KeysIn(ops) \in Nat /\ KeysIn(ops) + 1 = c
  BY <1>6, <1>7, <1>8
<1> QED
  BY <1>6, <1>9

\* KeysIn counts them.
LEMMA KeysCounted ==
    ASSUME NEW ops, Len(ops) \in Nat, NEW n \in Nat, n < Len(ops), KeysEnd(ops, n + 1)
    PROVE  KeysIn(ops) = n
<1> DEFINE m == KeysIn(ops)
           M == m + 1
           N == n + 1
<1>1. M \in 1..Len(ops) /\ m \in Nat /\ KeysEnd(ops, M)
  BY KeysFound
<1> HIDE DEF m
<1>2. M \in 0..Len(ops) /\ N \in 0..Len(ops)
  BY <1>1
<1>3. KeysEnd(ops, N)
  OBVIOUS
<1> HIDE DEF M, N
<1>4. ~(M < N) /\ ~(N < M)
  BY <1>1, <1>2, <1>3, KeysEndOnce
<1>5. m = n
  BY <1>1, <1>4 DEF M, N
<1> QED
  BY <1>5 DEF m

-----------------------------------------------------------------------------
(* Multisig scripts *)

\* The pushes of the first keys, one key after the other.
UpToRule(keys, f, i) == IF i = 0 THEN {<<>>} ELSE Concats(f[i - 1], Pushes(keys[i]))
KeysUpTo(keys) == CHOOSE f : f = [i \in 0..Len(keys) |-> UpToRule(keys, f, i)]

\* What is one of a and then one of b.
LEMMA ConcatsIs == \A A, B, x : x \in Concats(A, B) <=> \E a \in A, b \in B : x = a \o b
  BY SMT DEF Concats

\* KeyPushes are those of all the keys.
LEMMA KeyPushesAre == \A keys : KeyPushes(keys) = KeysUpTo(keys)[Len(keys)]
  BY Zenon DEF KeyPushes, KeysUpTo, UpToRule

\* They are well defined.
LEMMA UpToSteps ==
    ASSUME NEW keys, Len(keys) \in Nat, NEW D, \A i \in 1..Len(keys) : Pushes(keys[i]) \subseteq Seq(D)
    PROVE  /\ KeysUpTo(keys)[0] = {<<>>}
           /\ \A i \in 1..Len(keys) : KeysUpTo(keys)[i] = Concats(KeysUpTo(keys)[i - 1], Pushes(keys[i]))
           /\ \A i \in 0..Len(keys) : KeysUpTo(keys)[i] \subseteq Seq(D)
<1> DEFINE N == Len(keys)
           S == SUBSET Seq(D)
           v == {<<>>}
           b == [i \in Nat |-> [A \in S |-> IF i \in 1..N THEN Concats(A, Pushes(keys[i])) ELSE A]]
<1>1. v \in S
  OBVIOUS
<1>2. ASSUME NEW i \in 1..N, NEW A \in S PROVE Concats(A, Pushes(keys[i])) \in S
  <2>1. ASSUME NEW z \in Concats(A, Pushes(keys[i])) PROVE z \in Seq(D)
    <3>1. PICK x \in A, y \in Pushes(keys[i]) : z = x \o y
      BY ConcatsIs
    <3>2. x \in Seq(D) /\ y \in Seq(D)
      OBVIOUS
    <3> QED
      BY <3>1, <3>2, ConcatProperties
  <2> QED
    BY <2>1
<1>3. b \in [Nat -> [S -> S]]
  <2> HIDE DEF S
  <2> QED
    BY <1>2
<1>4. \E f \in [0..N -> S] : Chain(f, N, v, b)
  <2> HIDE DEF S, v, b
  <2> QED
    BY <1>1, <1>3, Chains
<1>5. PICK f \in [0..N -> S] : Chain(f, N, v, b)
  BY <1>4
<1>6. ASSUME NEW i \in 0..N PROVE f[i] = UpToRule(keys, f, i)
  <2>1. CASE i = 0
    BY <1>5, <2>1 DEF Chain, UpToRule
  <2>2. CASE i # 0
    <3>1. i \in 1..N /\ i \in Nat /\ i - 1 \in 0..N
      BY <2>2
    <3>2. f[i] = b[i][f[i - 1]]
      BY <1>5, <3>1 DEF Chain
    <3>3. f[i - 1] \in S
      BY <3>1
    <3> DEFINE A == f[i - 1]
    <3> HIDE DEF S, A
    <3>4. b[i][A] = Concats(A, Pushes(keys[i]))
      BY <3>1, <3>3 DEF A
    <3> HIDE DEF b
    <3> QED
      BY <2>2, <3>2, <3>4, Zenon DEF UpToRule, A
  <2> QED
    BY <2>1, <2>2
<1> DEFINE F == KeysUpTo(keys)
<1>7. F = [i \in 0..N |-> UpToRule(keys, F, i)]
  <2>1. f = [i \in 0..N |-> UpToRule(keys, f, i)]
    BY <1>6
  <2>2. \E h : h = [i \in 0..N |-> UpToRule(keys, h, i)]
    BY <2>1
  <2> QED
    BY <2>2, Zenon DEF KeysUpTo
<1> HIDE DEF F
<1>8. F[0] = {<<>>}
  <2>1. F[0] = UpToRule(keys, F, 0)
    BY <1>7
  <2> QED
    BY <2>1 DEF UpToRule
<1>9. ASSUME NEW i \in 1..N PROVE F[i] = Concats(F[i - 1], Pushes(keys[i]))
  <2>1. F[i] = UpToRule(keys, F, i) /\ i # 0
    BY <1>7
  <2> QED
    BY <2>1, Zenon DEF UpToRule
<1> DEFINE T == {i \in Nat : i <= N => F[i] \in S}
<1>10. ASSUME NEW i \in Nat, \A j \in 0..(i - 1) : j \in T PROVE i \in T
  <2>1. CASE i = 0
    BY <1>1, <1>8, <2>1
  <2>2. CASE i # 0 /\ i <= N
    <3>1. i - 1 \in 0..(i - 1) /\ i - 1 <= N /\ i \in 1..N
      BY <2>2
    <3>2. i - 1 \in T
      BY <1>10, <3>1
    <3> DEFINE A == F[i - 1]
    <3>3. A \in S /\ F[i] = Concats(A, Pushes(keys[i]))
      BY <1>9, <3>1, <3>2
    <3> HIDE DEF S, A
    <3>4. F[i] \in S
      BY <1>2, <3>1, <3>3
    <3> QED
      BY <3>4
  <2> QED
    BY <2>1, <2>2
<1>11. \A i \in Nat : i \in T
  <2> HIDE DEF T
  <2> QED
    BY <1>10, Induct
<1>12. ASSUME NEW i \in 0..N PROVE F[i] \subseteq Seq(D)
  BY <1>11
<1> QED
  BY <1>8, <1>9, <1>12 DEF F

\* A stretch of a script in two parts.
Parted(s, p, r, q, a, b) ==
    /\ r <= q /\ q = r + Len(b) /\ SubSeq(s, p + 1, r) = a /\ SubSeq(s, r + 1, q) = b

\* Two sequences that fill a stretch part it where the first one ends.
LEMMA Parting ==
    ASSUME NEW D, NEW s \in Seq(D), NEW p \in Nat, NEW q \in Nat, p <= q, q <= Len(s),
           NEW a \in Seq(D), NEW b \in Seq(D), NEW r, r = p + Len(a), SubSeq(s, p + 1, q) = a \o b
    PROVE  r \in Nat /\ Parted(s, p, r, q, a, b)
<1> DEFINE n == Len(a)
           m == Len(b)
           t == a \o b
<1>0. n \in Nat /\ m \in Nat /\ r = p + n
  OBVIOUS
<1>1. Len(t) = n + m /\ (\A i \in 1..n : t[i] = a[i]) /\ \A i \in 1..m : t[n + i] = b[i]
  BY ConcatProperties
<1>2. SubSeq(s, p + 1, q) = t
  OBVIOUS
<1> HIDE DEF t
<1>3. \E L \in Nat : L = q - p /\ p + L = q
  OBVIOUS
<1>4. PICK L \in Nat : L = q - p /\ p + L = q
  BY <1>3
<1>5. Piece(D, s, p, L, t)
  <2>1. Piece(D, s, p, L, SubSeq(s, p + 1, p + L))
    BY <1>4, SubPiece
  <2> QED
    BY <1>2, <1>4, <2>1
<1>6. L = n + m /\ \A i \in 1..L : t[i] = s[p + i]
  BY <1>1, <1>5 DEF Piece
<1>7. p + n <= Len(s) /\ r + m <= Len(s) /\ r \in Nat /\ q = r + m /\ r <= q
  BY <1>0, <1>4, <1>6
<1>8. SubSeq(s, p + 1, r) = a
  <2> DEFINE x == SubSeq(s, p + 1, p + n)
  <2>1. Piece(D, s, p, n, x)
    BY <1>0, <1>7, SubPiece
  <2> HIDE DEF x
  <2>2. x \in Seq(D) /\ Len(x) = n /\ \A i \in 1..n : x[i] = s[p + i]
    BY <2>1 DEF Piece
  <2>3. \A i \in 1..n : x[i] = a[i]
    <3> TAKE i \in 1..n
    <3>1. i \in 1..L
      BY <1>0, <1>6
    <3> QED
      BY <1>1, <1>6, <2>2, <3>1
  <2>4. x = a
    BY <2>2, <2>3, SeqEqual
  <2> QED
    BY <1>0, <2>4 DEF x
<1>9. SubSeq(s, r + 1, q) = b
  <2> DEFINE x == SubSeq(s, r + 1, r + m)
  <2>1. Piece(D, s, r, m, x)
    BY <1>0, <1>7, SubPiece
  <2> HIDE DEF x
  <2>2. x \in Seq(D) /\ Len(x) = m /\ \A i \in 1..m : x[i] = s[r + i]
    BY <2>1 DEF Piece
  <2>3. \A i \in 1..m : x[i] = b[i]
    <3> TAKE i \in 1..m
    <3>1. n + i \in 1..L /\ r + i = p + (n + i)
      BY <1>0, <1>6
    <3>2. t[n + i] = s[p + (n + i)]
      BY <1>6, <3>1
    <3> QED
      BY <1>1, <2>2, <3>1, <3>2
  <2>4. x = b
    BY <2>2, <2>3, SeqEqual
  <2> QED
    BY <1>7, <2>4 DEF x
<1> QED
  BY <1>7, <1>8, <1>9 DEF Parted

\* And put together.
LEMMA Together ==
    ASSUME NEW D, NEW s \in Seq(D), NEW p \in Nat, NEW r \in Nat, NEW q \in Nat,
           p <= r, r <= q, q <= Len(s)
    PROVE  SubSeq(s, p + 1, q) = SubSeq(s, p + 1, r) \o SubSeq(s, r + 1, q)
<1>0. \E n, m \in Nat : p + n = r /\ r + m = q
  <2>1. r - p \in Nat /\ q - r \in Nat /\ p + (r - p) = r /\ r + (q - r) = q
    OBVIOUS
  <2> QED
    BY <2>1
<1>1. PICK n \in Nat, m \in Nat : p + n = r /\ r + m = q
  BY <1>0
<1> DEFINE a == SubSeq(s, p + 1, r)
           b == SubSeq(s, r + 1, q)
           x == SubSeq(s, p + 1, q)
           t == a \o b
<1>2. Piece(D, s, p, n, a)
  <2>1. p + n <= Len(s)
    BY <1>1
  <2> QED
    BY <1>1, <2>1, SubPiece
<1>3. Piece(D, s, r, m, b)
  BY <1>1, SubPiece
<1>4. n + m \in Nat /\ p + (n + m) = q
  BY <1>1
<1>5. Piece(D, s, p, n + m, x)
  BY <1>4, SubPiece
<1> HIDE DEF a, b, x
<1>6. a \in Seq(D) /\ Len(a) = n /\ (\A i \in 1..n : a[i] = s[p + i])
      /\ b \in Seq(D) /\ Len(b) = m /\ (\A i \in 1..m : b[i] = s[r + i])
      /\ x \in Seq(D) /\ Len(x) = n + m /\ \A i \in 1..(n + m) : x[i] = s[p + i]
  BY <1>2, <1>3, <1>5 DEF Piece
<1>7. t \in Seq(D) /\ Len(t) = n + m /\ (\A i \in 1..n : t[i] = a[i]) /\ \A i \in 1..m : t[n + i] = b[i]
  <2>1. t \in Seq(D) /\ Len(t) = Len(a) + Len(b) /\ (\A i \in 1..Len(a) : t[i] = a[i])
        /\ \A i \in 1..Len(b) : t[Len(a) + i] = b[i]
    <3>1. a \in Seq(D) /\ b \in Seq(D)
      BY <1>6
    <3> QED
      BY <3>1, ConcatProperties
  <2> HIDE DEF t
  <2> QED
    BY <1>6, <2>1
<1> HIDE DEF t
<1>8. \A i \in 1..(n + m) : x[i] = t[i]
  <2> TAKE i \in 1..(n + m)
  <2>1. CASE i <= n
    <3>1. i \in 1..n
      BY <2>1
    <3> QED
      BY <1>6, <1>7, <3>1
  <2>2. CASE ~(i <= n)
    <3> DEFINE j == i - n
    <3>1. j \in 1..m /\ i = n + j /\ p + i = r + j
      BY <1>1, <2>2
    <3> HIDE DEF j
    <3>2. x[i] = s[p + i] /\ t[n + j] = b[j] /\ b[j] = s[r + j]
      BY <1>6, <1>7, <3>1
    <3> QED
      BY <3>1, <3>2
  <2> QED
    BY <2>1, <2>2
<1>9. x = t
  BY <1>6, <1>7, <1>8, SeqEqual
<1> QED
  BY <1>9 DEF x, t, a, b

\* What is known of every operation of a script.
LEMMA TraceOps ==
    ASSUME NEW s \in Seq(Octets), NEW pc, NEW ops, Trace(s, pc, ops), NEW j \in 1..Len(ops)
    PROVE  \E p \in Nat : ops[j] = GetScriptOp(s, p) /\ OpFacts(s, p, ops[j])
<1>1. ops \in Seq(OpsOf(s))
  BY DEF Trace
<1> DEFINE D == OpsOf(s)
<1>2. ops[j] \in D
  <2> HIDE DEF D
  <2> QED
    BY <1>1 DEF D
<1>3. PICK p \in Nat : ops[j] = GetScriptOp(s, p)
  BY <1>2 DEF OpsOf
<1> DEFINE op == ops[j]
<1> HIDE DEF op
<1>4. op = GetScriptOp(s, p)
  BY <1>3 DEF op
<1>5. OpFacts(s, p, op)
  BY <1>4, OpAlways
<1> QED
  BY <1>4, <1>5 DEF op

\* What the pushes of the first i keys are read as, when they end at q.
KeysRead(ops, keys, i, q) ==
    /\ i < Len(ops) /\ ops[i + 1].ok /\ ops[i + 1].pc = q
    /\ \A j \in 1..i : ops[j + 1].ok /\ ops[j + 1].data = keys[j]

\* Keys of bytes, of their sizes.
KeyList(keys) == keys \in Seq(Seq(Octets)) /\ \A i \in 1..Len(keys) : ValidSize(keys[i])
PushForms(key) ==
    /\ Pushes(key) \subseteq Seq(Octets)
    /\ \A x \in Pushes(key) : Len(x) >= 1

\* A push of a key is bytes, and at least one.
LEMMA KeyPushForms == ASSUME NEW key \in Seq(Octets), ValidSize(key) PROVE PushForms(key)
<1> DEFINE n == Len(key)
<1>1. n \in 1..75
  <2>1. Len(key) \in {33, 65}
    BY KeySizes
  <2> QED
    BY <2>1
<1>2. /\ Pushes(key) \subseteq Seq(Octets)
      /\ \A x \in Seq(Octets) :
           x \in Pushes(key) <=> Len(x) >= 1 /\ DataLies(x, 0, SizeBytes(x[1]), n, key, Len(x))
  BY <1>1, PushForm
<1> HIDE DEF n
<1> QED
  BY <1>2 DEF PushForms

\* So is a push of each key of a list.
LEMMA KeyListPushes ==
    ASSUME NEW keys, KeyList(keys)
    PROVE  /\ Len(keys) \in Nat
           /\ \A i \in 1..Len(keys) : keys[i] \in Seq(Octets) /\ ValidSize(keys[i]) /\ PushForms(keys[i])
<1>1. Len(keys) \in Nat
  BY DEF KeyList
<1>2. ASSUME NEW i \in 1..Len(keys) PROVE keys[i] \in Seq(Octets) /\ ValidSize(keys[i]) /\ PushForms(keys[i])
  <2>1. keys[i] \in Seq(Octets) /\ ValidSize(keys[i])
    BY DEF KeyList
  <2> QED
    BY <2>1, KeyPushForms
<1> QED
  BY <1>1, <1>2

KeysStep(f, keys, i) ==
    /\ f[i] = Concats(f[i - 1], Pushes(keys[i])) /\ f[i] \subseteq Seq(Octets)
    /\ f[i - 1] \subseteq Seq(Octets)

\* The pushes of one key more.
LEMMA KeysSteps ==
    ASSUME NEW keys, KeyList(keys)
    PROVE  KeysUpTo(keys)[0] = {<<>>} /\ \A i \in 1..Len(keys) : KeysStep(KeysUpTo(keys), keys, i)
<1> DEFINE F == KeysUpTo(keys)
<1>1. Len(keys) \in Nat /\ \A i \in 1..Len(keys) : Pushes(keys[i]) \subseteq Seq(Octets)
  BY KeyListPushes DEF PushForms
<1>2. /\ F[0] = {<<>>}
      /\ \A i \in 1..Len(keys) : F[i] = Concats(F[i - 1], Pushes(keys[i]))
      /\ \A i \in 0..Len(keys) : F[i] \subseteq Seq(Octets)
  BY <1>1, UpToSteps
<1> HIDE DEF F
<1>3. ASSUME NEW i \in 1..Len(keys) PROVE KeysStep(F, keys, i)
  <2>1. i \in 0..Len(keys) /\ i - 1 \in 0..Len(keys)
    BY <1>1
  <2> QED
    BY <1>2, <2>1 DEF KeysStep
<1> QED
  BY <1>2, <1>3 DEF F

\* The key pushed behind the first operations is read by the next one.
LEMMA OneKeyRead ==
    ASSUME NEW s \in Seq(Octets), NEW ops, Trace(s, 0, ops), NEW keys, KeyList(keys),
           NEW i \in 1..Len(keys), NEW r \in Nat, NEW q \in Nat, KeyAt(s, r, keys[i], q),
           KeysRead(ops, keys, i - 1, r)
    PROVE  KeysRead(ops, keys, i, q)
<1> DEFINE k == i - 1
<1>0. k \in Nat /\ k + 1 = i /\ i \in Nat /\ KeysRead(ops, keys, k, r) /\ Len(keys) \in Nat
  BY KeyListPushes
<1> HIDE DEF k
<1>1. k < Len(ops) /\ ops[i].ok /\ ops[i].pc = r /\ \A j \in 1..k : ops[j + 1].ok /\ ops[j + 1].data = keys[j]
  BY <1>0 DEF KeysRead
<1>2. r < Len(s) /\ Len(ops) \in Nat
  <2>1. Len(s) \in Nat /\ r < q /\ q <= Len(s)
    BY DEF KeyAt
  <2> QED
    BY <2>1 DEF Trace
<1>3. i \in 1..Len(ops)
  BY <1>0, <1>1, <1>2
<1>4. i < Len(ops) /\ i \in 1..(Len(ops) - 1)
  <2>1. i < Len(ops)
    BY <1>1, <1>2, <1>3 DEF Trace
  <2> QED
    BY <1>2, <1>3, <2>1
<1>5. ops[i + 1] = GetScriptOp(s, r)
  BY <1>1, <1>4 DEF Trace
<1> DEFINE op == GetScriptOp(s, r)
           key == keys[i]
<1>6. OpGives(op, key, q)
  <2>1. key \in Seq(Octets) /\ ValidSize(key) /\ KeyAt(s, r, key, q)
    BY KeyListPushes
  <2> HIDE DEF key
  <2>2. op = GetScriptOp(s, r)
    OBVIOUS
  <2> HIDE DEF op
  <2>3. OpGives(op, key, q) <=> KeyAt(s, r, key, q)
    BY <2>1, <2>2, KeyRead
  <2> QED
    BY <2>1, <2>3
<1>7. ops[i + 1].ok /\ ops[i + 1].data = keys[i] /\ ops[i + 1].pc = q
  BY <1>5, <1>6, Zenon DEF OpGives
<1>8. \A j \in 1..i : ops[j + 1].ok /\ ops[j + 1].data = keys[j]
  <2> TAKE j \in 1..i
  <2>1. j = i \/ j \in 1..k
    BY <1>0
  <2> QED
    BY <1>1, <1>7, <2>1
<1> QED
  BY <1>4, <1>7, <1>8 DEF KeysRead

\* From the pushes to what is read.
LEMMA PushesRead ==
    ASSUME NEW s \in Seq(Octets), NEW ops, Trace(s, 0, ops), NEW keys, KeyList(keys),
           KeysRead(ops, keys, 0, 1)
    PROVE  \A i \in 0..Len(keys) : \A q \in 1..Len(s) :
              SubSeq(s, 2, q) \in KeysUpTo(keys)[i] => KeysRead(ops, keys, i, q)
<1> DEFINE N == Len(keys)
           F == KeysUpTo(keys)
           T == {i \in Nat : i <= N => \A q \in 1..Len(s) : SubSeq(s, 2, q) \in F[i] => KeysRead(ops, keys, i, q)}
<1>0. N \in Nat /\ F[0] = {<<>>} /\ \A i \in 1..N : KeysStep(F, keys, i)
  BY KeyListPushes, KeysSteps
<1> HIDE DEF F
<1>1. ASSUME NEW i \in Nat, \A j \in 0..(i - 1) : j \in T PROVE i \in T
  <2> SUFFICES ASSUME i <= N, NEW q \in 1..Len(s), SubSeq(s, 2, q) \in F[i]
               PROVE  KeysRead(ops, keys, i, q)
    OBVIOUS
  <2>1. CASE i = 0
    <3>1. SubSeq(s, 1 + 1, q) = <<>>
      <4>1. SubSeq(s, 2, q) \in F[0] /\ F[0] = {<<>>}
        BY <1>0, <2>1
      <4>2. SubSeq(s, 2, q) = <<>>
        BY <4>1, Zenon
      <4>3. 1 + 1 = 2
        OBVIOUS
      <4> QED
        BY <4>2, <4>3, Zenon
    <3> DEFINE n == q - 1
    <3>2. n \in Nat /\ 1 + n = q
      OBVIOUS
    <3> HIDE DEF n
    <3>3. Piece(Octets, s, 1, n, SubSeq(s, 1 + 1, 1 + n))
      BY <3>2, SubPiece
    <3> DEFINE x == SubSeq(s, 1 + 1, q)
    <3>4. Len(x) = n
      BY <3>2, <3>3 DEF Piece
    <3>5. Len(<<>>) = 0
      OBVIOUS
    <3>6. n = 0
      BY <3>1, <3>4, <3>5, Zenon
    <3> QED
      BY <2>1, <3>2, <3>6
  <2>2. CASE i # 0
    <3> DEFINE k == i - 1
    <3>1. k \in 0..(i - 1) /\ k \in Nat /\ k <= N /\ i \in 1..N
      BY <2>2
    <3>2. F[i] = Concats(F[k], Pushes(keys[i])) /\ F[k] \subseteq Seq(Octets)
      BY <1>0, <3>1 DEF KeysStep
    <3>3. PICK a \in F[k], b \in Pushes(keys[i]) : SubSeq(s, 2, q) = a \o b
      <4>1. SubSeq(s, 2, q) \in Concats(F[k], Pushes(keys[i]))
        BY <3>2, Zenon
      <4> DEFINE A == F[k]
                 B == Pushes(keys[i])
                 x == SubSeq(s, 2, q)
      <4>2. x \in Concats(A, B)
        BY <4>1
      <4> HIDE DEF A, B, x
      <4>3. \E a \in A, b \in B : x = a \o b
        BY <4>2, ConcatsIs
      <4> QED
        BY <4>3 DEF A, B, x
    <3>4. a \in Seq(Octets) /\ b \in Seq(Octets) /\ Len(b) >= 1
      BY <3>1, <3>2, KeyListPushes DEF PushForms
    <3> DEFINE r == 1 + Len(a)
    <3>5. r \in Nat /\ Parted(s, 1, r, q, a, b)
      <4>1. SubSeq(s, 1 + 1, q) = a \o b
        BY <3>3, SMTT(60)
      <4> QED
        <5>1. 1 \in Nat /\ q \in Nat /\ 1 <= q /\ q <= Len(s)
          OBVIOUS
        <5> HIDE DEF k
        <5>2. a \in Seq(Octets) /\ b \in Seq(Octets)
          BY <3>4
        <5>3. \A z : z = 1 + Len(a) => z \in Nat /\ Parted(s, 1, z, q, a, b)
          BY <4>1, <5>1, <5>2, Parting
        <5> QED
          BY <5>3
    <3> HIDE DEF k
    <3>6. r \in 1..Len(s) /\ r < q /\ q \in Nat /\ q <= Len(s)
      <4>1. Len(a) \in Nat /\ Len(b) \in Nat
        BY <3>4
      <4> HIDE DEF r
      <4>2. r <= q /\ q = r + Len(b)
        BY <3>5 DEF Parted
      <4>3. r >= 1
        BY <4>1 DEF r
      <4> QED
        BY <3>4, <3>5, <4>1, <4>2, <4>3
    <3> HIDE DEF r
    <3>7. SubSeq(s, 2, r) = a
      BY <3>5 DEF Parted
    <3>8. KeysRead(ops, keys, k, r)
      BY <1>1, <3>1, <3>6, <3>7
    <3>9. KeyAt(s, r, keys[i], q)
      BY <3>5, <3>6 DEF Parted, KeyAt
    <3> QED
      BY <3>1, <3>5, <3>6, <3>8, <3>9, OneKeyRead DEF k
  <2> QED
    BY <2>1, <2>2
<1>2. \A i \in Nat : i \in T
  <2> HIDE DEF T
  <2> QED
    BY <1>1, Induct
<1>3. ASSUME NEW i \in 0..N, NEW q \in 1..Len(s), SubSeq(s, 2, q) \in F[i] PROVE KeysRead(ops, keys, i, q)
  BY <1>2, <1>3
<1> QED
  BY <1>3 DEF F

\* The stretch behind the first byte holds the pushes of the first i keys.
KeysLie(s, ops, keys, i) ==
    ops[i + 1].pc \in 1..Len(s) /\ SubSeq(s, 2, ops[i + 1].pc) \in KeysUpTo(keys)[i]

\* The key read by an operation was pushed where that before it stopped.
LEMMA OneKeyPushed ==
    ASSUME NEW s \in Seq(Octets), NEW ops, Trace(s, 0, ops), NEW keys, KeyList(keys),
           NEW i \in 1..Len(keys), i < Len(ops), ops[i + 1].ok, ops[i + 1].data = keys[i],
           NEW r \in Nat, ops[i].pc = r
    PROVE  ops[i + 1].pc \in Nat /\ KeyAt(s, r, keys[i], ops[i + 1].pc)
<1> DEFINE op == ops[i + 1]
           key == keys[i]
           q == op.pc
<1>1. i \in Nat /\ Len(ops) \in Nat
  BY KeyListPushes DEF Trace
<1>2. i \in 1..(Len(ops) - 1) /\ i + 1 \in 1..Len(ops)
  BY <1>1
<1>3. op = GetScriptOp(s, r)
  BY <1>2 DEF Trace
<1>4. PICK p \in Nat : op = GetScriptOp(s, p) /\ OpFacts(s, p, op)
  BY <1>2, TraceOps
<1>5. q \in Nat
  BY <1>4 DEF OpFacts
<1>6. key \in Seq(Octets) /\ ValidSize(key)
  BY KeyListPushes
<1>7. OpGives(op, key, q)
  BY DEF OpGives
<1> HIDE DEF op, key, q
<1>8. OpGives(op, key, q) <=> KeyAt(s, r, key, q)
  BY <1>3, <1>5, <1>6, KeyRead
<1> QED
  BY <1>5, <1>7, <1>8 DEF op, key, q

\* From what is read to the pushes.
LEMMA ReadIsPushed ==
    ASSUME NEW s \in Seq(Octets), Len(s) >= 1, NEW ops, Trace(s, 0, ops), NEW keys, KeyList(keys),
           NEW q, KeysRead(ops, keys, Len(keys), q), ops[1].pc = 1
    PROVE  \A i \in 0..Len(keys) : KeysLie(s, ops, keys, i)
<1> DEFINE N == Len(keys)
           F == KeysUpTo(keys)
           T == {i \in Nat : i <= N => KeysLie(s, ops, keys, i)}
<1>0. N \in Nat /\ F[0] = {<<>>} /\ \A i \in 1..N : KeysStep(F, keys, i)
  BY KeyListPushes, KeysSteps
<1>1. N < Len(ops) /\ Len(ops) \in Nat /\ \A j \in 1..N : ops[j + 1].ok /\ ops[j + 1].data = keys[j]
  BY DEF KeysRead, Trace
<1>2. ASSUME NEW i \in Nat, \A j \in 0..(i - 1) : j \in T PROVE i \in T
  <2> SUFFICES ASSUME i <= N PROVE KeysLie(s, ops, keys, i)
    OBVIOUS
  <2>1. CASE i = 0
    <3>1. SubSeq(s, 2, 1) = <<>>
      OBVIOUS
    <3>2. ops[i + 1].pc = 1
      BY <2>1
    <3>3. 1 \in 1..Len(s)
      OBVIOUS
    <3>4. SubSeq(s, 2, 1) \in F[0]
      BY <1>0, <3>1
    <3> QED
      BY <2>1, <3>2, <3>3, <3>4 DEF KeysLie
  <2>2. CASE i # 0
    <3> DEFINE k == i - 1
               r == ops[i].pc
               e == ops[i + 1].pc
    <3>1. k \in 0..(i - 1) /\ k \in Nat /\ k <= N /\ i \in 1..N /\ k + 1 = i
      BY <2>2
    <3>2. F[i] = Concats(F[k], Pushes(keys[i]))
      BY <1>0, <3>1 DEF KeysStep
    <3>3. r \in 1..Len(s) /\ SubSeq(s, 2, r) \in F[k]
      <4>1. k \in T
        BY <1>2, <3>1
      <4> HIDE DEF k
      <4>2. KeysLie(s, ops, keys, k)
        BY <3>1, <4>1
      <4> QED
        BY <3>1, <4>2 DEF KeysLie
    <3> HIDE DEF k
    <3>4. i < Len(ops) /\ ops[i + 1].ok /\ ops[i + 1].data = keys[i] /\ r \in Nat
      BY <1>0, <1>1, <3>1, <3>3
    <3>5. e \in Nat /\ KeyAt(s, r, keys[i], e)
      BY <3>1, <3>4, OneKeyPushed
    <3> HIDE DEF r, e, F
    <3>6. r < e /\ e <= Len(s) /\ SubSeq(s, r + 1, e) \in Pushes(keys[i])
      BY <3>5 DEF KeyAt
    <3>7. SubSeq(s, 1 + 1, e) = SubSeq(s, 1 + 1, r) \o SubSeq(s, r + 1, e)
      <4> DEFINE u == 1
      <4>1. u \in Nat /\ u <= r /\ r <= e
        BY <3>3, <3>4, <3>5, <3>6
      <4> HIDE DEF u
      <4>2. SubSeq(s, u + 1, e) = SubSeq(s, u + 1, r) \o SubSeq(s, r + 1, e)
        <5>1. r \in Nat /\ e \in Nat /\ u \in Nat /\ u <= r /\ r <= e /\ e <= Len(s)
          BY <3>4, <3>5, <3>6, <4>1
        <5> QED
          BY <5>1, Together
      <4> QED
        BY <4>2 DEF u
    <3>t. 1 + 1 = 2
      OBVIOUS
    <3> DEFINE A == F[k]
               B == Pushes(keys[i])
               x == SubSeq(s, 2, e)
               a == SubSeq(s, 2, r)
               b == SubSeq(s, r + 1, e)
    <3>8. a \in A /\ b \in B /\ x = a \o b
      <4>1. SubSeq(s, 2, e) = SubSeq(s, 2, r) \o SubSeq(s, r + 1, e)
        BY <3>7, <3>t, Zenon
      <4> QED
        BY <3>3, <3>6, <4>1, Zenon
    <3> HIDE DEF A, B, x, a, b
    <3>9. x \in Concats(A, B)
      BY <3>8, ConcatsIs
    <3>10. x \in F[i]
      BY <3>2, <3>9 DEF A, B
    <3>11. e \in 1..Len(s)
      BY <3>3, <3>5, <3>6
    <3> QED
      BY <3>10, <3>11 DEF KeysLie, x, e, F
  <2> QED
    BY <2>1, <2>2
<1>3. \A i \in Nat : i \in T
  <2> HIDE DEF T
  <2> QED
    BY <1>2, Induct
<1>4. ASSUME NEW i \in 0..N PROVE KeysLie(s, ops, keys, i)
  BY <1>3, <1>4
<1> QED
  BY <1>4

\* Bytes with others in front of them and behind.
FormFramed(s, h, k, t) ==
    /\ Len(s) = Len(h) + Len(k) + Len(t)
    /\ \A i \in 1..Len(h) : s[i] = h[i]
    /\ SubSeq(s, Len(h) + 1, Len(h) + Len(k)) = k
    /\ \A i \in 1..Len(t) : s[Len(h) + Len(k) + i] = t[i]

\* A sequence is three others in a row when it is framed so.
LEMMA FramedSo ==
    ASSUME NEW D, NEW s \in Seq(D), NEW h \in Seq(D), NEW k \in Seq(D), NEW t \in Seq(D)
    PROVE  s = h \o k \o t <=> FormFramed(s, h, k, t)
<1> DEFINE w == Len(h)
           n == Len(k)
           m == Len(t)
           u == h \o k
           x == u \o t
<1>0. w \in Nat /\ n \in Nat /\ m \in Nat
  OBVIOUS
<1>1. u \in Seq(D) /\ Len(u) = w + n /\ (\A i \in 1..w : u[i] = h[i]) /\ \A i \in 1..n : u[w + i] = k[i]
  BY ConcatProperties
<1> HIDE DEF u
<1>2. x \in Seq(D) /\ Len(x) = (w + n) + m /\ (\A i \in 1..(w + n) : x[i] = u[i])
      /\ \A i \in 1..m : x[(w + n) + i] = t[i]
  <2>1. x \in Seq(D) /\ Len(x) = Len(u) + Len(t) /\ (\A i \in 1..Len(u) : x[i] = u[i])
        /\ \A i \in 1..Len(t) : x[Len(u) + i] = t[i]
    <3>1. u \in Seq(D)
      BY <1>1
    <3> QED
      BY <3>1, ConcatProperties
  <2> HIDE DEF x
  <2> QED
    BY <1>1, <2>1
<1> HIDE DEF x
<1>3. ASSUME NEW y \in Seq(D), Len(y) = (w + n) + m PROVE
         /\ SubSeq(y, w + 1, w + n) \in Seq(D) /\ Len(SubSeq(y, w + 1, w + n)) = n
         /\ \A i \in 1..n : SubSeq(y, w + 1, w + n)[i] = y[w + i]
  <2>1. w + n <= Len(y)
    BY <1>0, <1>3
  <2> HIDE DEF w, n
  <2>2. Piece(D, y, w, n, SubSeq(y, w + 1, w + n))
    BY <1>0, <2>1, SubPiece
  <2> QED
    BY <2>2 DEF Piece
<1>4. ASSUME s = x PROVE FormFramed(s, h, k, t)
  <2> DEFINE z == SubSeq(s, w + 1, w + n)
  <2>1. z \in Seq(D) /\ Len(z) = n /\ \A i \in 1..n : z[i] = s[w + i]
    BY <1>2, <1>3, <1>4
  <2> HIDE DEF z
  <2>2. \A i \in 1..n : z[i] = k[i]
    <3> TAKE i \in 1..n
    <3>1. w + i \in 1..(w + n)
      BY <1>0
    <3> QED
      BY <1>1, <1>2, <1>4, <2>1, <3>1
  <2>3. z = k
    BY <2>1, <2>2, SeqEqual
  <2>4. \A i \in 1..w : s[i] = h[i]
    <3> TAKE i \in 1..w
    <3>1. i \in 1..(w + n)
      BY <1>0
    <3> QED
      BY <1>1, <1>2, <1>4, <3>1
  <2>5. SubSeq(s, w + 1, w + n) = k
    BY <2>3 DEF z
  <2> QED
    BY <1>2, <1>4, <2>4, <2>5 DEF FormFramed
<1>5. ASSUME FormFramed(s, h, k, t) PROVE s = x
  <2> DEFINE z == SubSeq(s, w + 1, w + n)
  <2>1. Len(s) = (w + n) + m /\ (\A i \in 1..w : s[i] = h[i]) /\ z = k /\ \A i \in 1..m : s[(w + n) + i] = t[i]
    BY <1>5 DEF FormFramed
  <2>2. \A i \in 1..n : z[i] = s[w + i]
    BY <1>3, <2>1
  <2> HIDE DEF z
  <2>3. \A i \in 1..((w + n) + m) : s[i] = x[i]
    <3> TAKE i \in 1..((w + n) + m)
    <3>1. CASE i <= w
      <4>1. i \in 1..w /\ i \in 1..(w + n)
        BY <1>0, <3>1
      <4> QED
        BY <1>1, <1>2, <2>1, <4>1
    <3>2. CASE ~(i <= w) /\ i <= w + n
      <4> DEFINE j == i - w
      <4>1. j \in 1..n /\ w + j = i /\ i \in 1..(w + n)
        BY <1>0, <3>2
      <4> HIDE DEF j, w, n
      <4>2. x[i] = u[w + j] /\ u[w + j] = k[j] /\ s[w + j] = z[j]
        BY <1>1, <1>2, <2>2, <4>1
      <4> QED
        BY <2>1, <4>1, <4>2
    <3>3. CASE ~(i <= w + n)
      <4> DEFINE j == i - (w + n)
      <4>1. j \in 1..m /\ (w + n) + j = i
        BY <1>0, <3>3
      <4> HIDE DEF j, w, n, m
      <4>2. x[(w + n) + j] = t[j] /\ s[(w + n) + j] = t[j]
        BY <1>2, <2>1, <4>1
      <4> QED
        BY <4>1, <4>2
    <3> QED
      BY <3>1, <3>2, <3>3
  <2> QED
    BY <1>2, <2>1, <2>3, SeqEqual
<1> QED
  BY <1>4, <1>5 DEF x, u

\* What m of the keys are, and the script of them byte by byte.
MofN(m, keys) == KeyList(keys) /\ Len(keys) \in 1..16 /\ m \in 1..Len(keys)
MultiScripts(m, keys) ==
    {<<EncodeOP_N(m)>> \o k \o <<EncodeOP_N(Len(keys)), OP_CHECKMULTISIG>> : k \in KeyPushes(keys)}
MultiShape(s, m, keys) ==
    /\ Len(s) >= 3 /\ s[1] = 80 + m /\ s[Len(s) - 1] = 80 + Len(keys) /\ s[Len(s)] = 174
    /\ SubSeq(s, 2, Len(s) - 2) \in KeysUpTo(keys)[Len(keys)]

\* The opcodes of the numbers from 1 to 16.
LEMMA SmallOps ==
    /\ \A n \in 1..16 : EncodeOP_N(n) = 80 + n /\ IsSmallInteger(80 + n) /\ DecodeOP_N(80 + n) = n
    /\ \A c \in Octets : IsSmallInteger(c) => c \in 81..96 /\ DecodeOP_N(c) \in 1..16 /\ c = 80 + DecodeOP_N(c)
    /\ OP_CHECKMULTISIG = 174 /\ OP_PUSHDATA4 = 78 /\ OP_INVALIDOPCODE = 255
  BY DEF EncodeOP_N, DecodeOP_N, IsSmallInteger, OP_0, OP_1, OP_16, OP_CHECKMULTISIG, OP_PUSHDATA4,
         OP_INVALIDOPCODE, Octets

\* The scripts of m of the keys are those of that shape.
LEMMA MultiShapes ==
    ASSUME NEW s \in Seq(Octets), NEW keys, NEW m, MofN(m, keys)
    PROVE  s \in MultiScripts(m, keys) <=> MultiShape(s, m, keys)
<1> DEFINE n == Len(keys)
           L == Len(s)
           K == KeysUpTo(keys)[n]
           b == 80 + m
           c == 80 + n
           h == <<b>>
           t == <<c, 174>>
<1>0. n \in 1..16 /\ m \in 1..16 /\ KeyList(keys) /\ L \in Nat
  <2>1. n \in 1..16 /\ m \in 1..n /\ KeyList(keys)
    BY Zenon DEF MofN
  <2>2. L \in Nat
    OBVIOUS
  <2> HIDE DEF n, L
  <2>3. m \in 1..16
    BY <2>1
  <2> QED
    BY <2>1, <2>2, <2>3
<1>1. KeyPushes(keys) = K
  BY KeyPushesAre, Zenon
<1>2. K \subseteq Seq(Octets)
  <2>1. KeyList(keys)
    BY <1>0
  <2>2. \A i \in 1..Len(keys) : KeysStep(KeysUpTo(keys), keys, i)
    BY <2>1, KeysSteps
  <2>3. n \in 1..n
    <3> HIDE DEF n
    <3> QED
      BY <1>0
  <2>4. KeysStep(KeysUpTo(keys), keys, n)
    BY <2>2, <2>3
  <2> QED
    BY <2>4, Zenon DEF KeysStep
<1>3. EncodeOP_N(m) = b /\ EncodeOP_N(n) = c /\ OP_CHECKMULTISIG = 174
  <2> HIDE DEF n
  <2> QED
    BY <1>0, SmallOps
<1>4. b \in Octets /\ c \in Octets /\ 174 \in Octets
  <2> HIDE DEF n
  <2> QED
    BY <1>0 DEF Octets
<1> HIDE DEF K, b, c
<1>5. h \in Seq(Octets) /\ Len(h) = 1 /\ h[1] = b /\ t \in Seq(Octets) /\ Len(t) = 2 /\ t[1] = c /\ t[2] = 174
  BY <1>4
<1>6. s \in MultiScripts(m, keys) <=> \E k \in K : s = h \o k \o t
  <2>1. MultiScripts(m, keys) = {h \o k \o t : k \in K}
    BY <1>1, <1>3, Zenon DEF MultiScripts, n
  <2> HIDE DEF h, t
  <2> QED
    BY <2>1, Zenon
<1> HIDE DEF h, t, n
<1>7. ASSUME NEW k \in K, s = h \o k \o t PROVE MultiShape(s, m, keys)
  <2>1. k \in Seq(Octets) /\ Len(k) \in Nat
    BY <1>2
  <2>2. FormFramed(s, h, k, t)
    BY <1>5, <1>7, <2>1, FramedSo
  <2>3. L = 1 + Len(k) + 2 /\ s[1] = b /\ SubSeq(s, 1 + 1, 1 + Len(k)) = k
        /\ s[1 + Len(k) + 1] = c /\ s[1 + Len(k) + 2] = 174
    BY <1>5, <2>2 DEF FormFramed
  <2>4. L >= 3 /\ 1 + Len(k) = L - 2 /\ 1 + Len(k) + 1 = L - 1 /\ 1 + Len(k) + 2 = L /\ 1 + 1 = 2
    BY <2>1, <2>3
  <2> QED
    BY <2>3, <2>4, ZenonT(60) DEF MultiShape, b, c, n, K, L
<1>8. ASSUME MultiShape(s, m, keys) PROVE \E k \in K : s = h \o k \o t
  <2> DEFINE k == SubSeq(s, 2, L - 2)
  <2>1. L >= 3 /\ s[1] = b /\ s[L - 1] = c /\ s[L] = 174 /\ k \in K
    BY <1>8, Zenon DEF MultiShape, b, c, n, K, L
  <2> DEFINE w == L - 3
  <2>2. w \in Nat /\ 1 + w = L - 2 /\ 1 + w <= L /\ 1 + w + 1 = L - 1 /\ 1 + w + 2 = L /\ 1 + 1 = 2
    BY <1>0, <2>1
  <2>3. Piece(Octets, s, 1, w, SubSeq(s, 1 + 1, 1 + w))
    <3> HIDE DEF w
    <3> QED
      BY <2>2, SubPiece
  <2>4. SubSeq(s, 1 + 1, 1 + w) = k
    BY <2>2, Zenon
  <2>5. k \in Seq(Octets) /\ Len(k) = w
    BY <2>3, <2>4, Zenon DEF Piece
  <2> HIDE DEF k
  <2>6. FormFramed(s, h, k, t)
    <3>1. Len(s) = 1 + w + 2 /\ (\A i \in 1..1 : s[i] = h[i])
      BY <1>5, <2>1, <2>2
    <3>2. \A i \in 1..2 : s[1 + w + i] = t[i]
      BY <1>5, <2>1, <2>2
    <3> QED
      BY <1>5, <2>4, <2>5, <3>1, <3>2 DEF FormFramed
  <2>7. s = h \o k \o t
    <3>1. h \in Seq(Octets) /\ k \in Seq(Octets) /\ t \in Seq(Octets)
      BY <1>5, <2>5
    <3>2. s = h \o k \o t <=> FormFramed(s, h, k, t)
      BY <3>1, FramedSo
    <3> QED
      BY <2>6, <3>2
  <2> QED
    BY <2>1, <2>7
<1> QED
  BY <1>6, <1>7, <1>8

\* The operations of a multisig script.
MultiOps(ops, m, keys) ==
    /\ DecodeOP_N(ops[1].opcode) = m /\ KeysIn(ops) = Len(keys)
    /\ \A i \in 1..Len(keys) : ops[i + 1].data = keys[i]

\* MatchMultisig, by the operations of the script.
LEMMA MultisigIs ==
    \A s, ops : ops = Ops(s, 0) =>
       (MatchMultisig(s) <=> Len(s) >= 1 /\ s[Len(s)] = OP_CHECKMULTISIG /\ MultisigOps(s, ops, KeysIn(ops)))
  BY Zenon DEF MatchMultisig, Back

\* The first operation.
LEMMA FirstOp ==
    ASSUME NEW s \in Seq(Octets), Len(s) >= 1, NEW ops, ops = Ops(s, 0)
    PROVE  /\ Trace(s, 0, ops) /\ Len(ops) \in Nat /\ Len(ops) >= 1
           /\ ops[1] = GetScriptOp(s, 0) /\ OpFacts(s, 0, ops[1])
<1>1. 0 \in 0..Len(s) /\ 0 < Len(s) /\ 0 \in Nat
  OBVIOUS
<1>2. Trace(s, 0, ops)
  BY <1>1, OpsTrace
<1>3. Len(ops) \in Nat /\ Len(ops) >= 1 /\ ops[1] = GetScriptOp(s, 0)
  BY <1>1, <1>2 DEF Trace
<1>4. OpFacts(s, 0, ops[1])
  BY <1>1, <1>3, OpAlways
<1> QED
  BY <1>2, <1>3, <1>4

\* An operation that pushes nothing.
LEMMA PlainOp ==
    ASSUME NEW s \in Seq(Octets), NEW p \in Nat, p < Len(s), s[p + 1] \in 81..96, NEW op, op = GetScriptOp(s, p)
    PROVE  op.ok /\ op.opcode = s[p + 1] /\ op.pc = p + 1 /\ ~IsKey(op) /\ op.data = <<>>
<1>1. OpFacts(s, p, op)
  BY OpAlways
<1>2. s[p + 1] > OP_PUSHDATA4
  <2>1. OP_PUSHDATA4 = 78
    BY SmallOps
  <2> QED
    BY <2>1
<1>3. op.ok /\ op.opcode = s[p + 1]
  BY <1>1, <1>2 DEF OpFacts
<1>4. op.data = <<>> /\ op.pc = p + 1
  BY <1>1, <1>2, <1>3 DEF OpFacts
<1>5. ~ValidSize(op.data)
  BY <1>4 DEF ValidSize
<1> QED
  BY <1>3, <1>4, <1>5 DEF IsKey

\* The multisig scripts match, and give back what they were made of.
LEMMA MultiRead ==
    ASSUME NEW s \in Seq(Octets), NEW keys, NEW m, MofN(m, keys), MultiShape(s, m, keys),
           NEW ops, ops = Ops(s, 0)
    PROVE  MatchMultisig(s) /\ MultiOps(ops, m, keys)
<1> DEFINE n == Len(keys)
           L == Len(s)
           q == L - 2
<1>0. n \in 1..16 /\ m \in 1..n /\ KeyList(keys) /\ L \in Nat
  BY DEF MofN
<1>1. L >= 3 /\ s[1] = 80 + m /\ s[L - 1] = 80 + n /\ s[L] = 174 /\ SubSeq(s, 2, q) \in KeysUpTo(keys)[n]
  BY Zenon DEF MultiShape, L, n, q
<1> HIDE DEF n
<1>2. q \in 1..L /\ q \in Nat /\ q < L /\ q + 1 = L - 1 /\ m \in 1..16 /\ n \in Nat /\ n \in 0..n
  BY <1>0, <1>1
<1> HIDE DEF q, L
<1>3. Trace(s, 0, ops) /\ Len(ops) \in Nat /\ Len(ops) >= 1 /\ ops[1] = GetScriptOp(s, 0)
  BY <1>0, <1>1, FirstOp DEF L
<1>4. ops[1].ok /\ ops[1].opcode = 80 + m /\ ops[1].pc = 1
  <2>1. 0 \in Nat /\ 0 < L /\ s[0 + 1] = 80 + m /\ 80 + m \in 81..96 /\ 0 + 1 = 1
    BY <1>0, <1>1, <1>2
  <2> DEFINE op == ops[1]
             z == 0
  <2>2. op = GetScriptOp(s, z) /\ z \in Nat /\ z < Len(s) /\ s[z + 1] \in 81..96
    BY <1>3, <2>1 DEF L
  <2> HIDE DEF op, z
  <2>3. op.ok /\ op.opcode = s[z + 1] /\ op.pc = z + 1
    BY <2>2, PlainOp
  <2> QED
    BY <2>1, <2>3 DEF op, z
<1>5. KeysRead(ops, keys, 0, 1)
  <2>1. 0 < Len(ops) /\ 1..0 = {} /\ 0 + 1 = 1
    BY <1>3
  <2> QED
    BY <1>4, <2>1 DEF KeysRead
<1>6. KeysRead(ops, keys, n, q)
  <2>1. \A i \in 0..Len(keys) : \A e \in 1..Len(s) :
           SubSeq(s, 2, e) \in KeysUpTo(keys)[i] => KeysRead(ops, keys, i, e)
    BY <1>0, <1>3, <1>5, PushesRead
  <2> QED
    BY <1>1, <1>2, <2>1 DEF L, n
<1>7. n < Len(ops) /\ ops[n + 1].ok /\ ops[n + 1].pc = q /\ \A j \in 1..n : ops[j + 1].ok /\ ops[j + 1].data = keys[j]
  BY <1>6 DEF KeysRead
<1> DEFINE u == n + 1
           op == ops[n + 2]
<1>8. u \in 1..Len(ops) /\ u + 1 = n + 2
  BY <1>2, <1>3, <1>7
<1> HIDE DEF u
<1>9. u < Len(ops)
  <2>1. ops[u].ok /\ ops[u].pc < Len(s)
    BY <1>2, <1>7 DEF u, L
  <2> QED
    BY <1>3, <1>8, <2>1 DEF Trace
<1>10. op = GetScriptOp(s, q)
  <2>1. u \in 1..(Len(ops) - 1)
    BY <1>3, <1>8, <1>9
  <2>2. ops[u + 1] = GetScriptOp(s, ops[u].pc)
    BY <1>3, <2>1 DEF Trace
  <2>3. ops[u].pc = q
    BY <1>7 DEF u
  <2> QED
    BY <1>8, <2>2, <2>3, Zenon
<1> HIDE DEF op
<1>11. s[q + 1] = 80 + n /\ s[q + 1] \in 81..96
  <2>1. s[q + 1] = 80 + n
    BY <1>1, <1>2, Zenon
  <2>2. 80 + n \in 81..96
    BY <1>0
  <2> QED
    BY <2>1, <2>2, Zenon
<1>12. op.ok /\ op.opcode = 80 + n /\ op.pc = q + 1 /\ ~IsKey(op)
  <2>1. q < Len(s)
    BY <1>2 DEF L
  <2>2. op.ok /\ op.opcode = s[q + 1] /\ op.pc = q + 1 /\ ~IsKey(op)
    BY <1>2, <1>10, <1>11, <2>1, PlainOp
  <2> QED
    BY <1>11, <2>2
<1>13. KeysEnd(ops, u)
  <2>1. ASSUME NEW i \in 2..u PROVE IsKey(ops[i])
    <3> DEFINE j == i - 1
    <3>1. j \in 1..n /\ j + 1 = i
      BY <1>2 DEF u
    <3> HIDE DEF j
    <3>2. ops[i].ok /\ ops[i].data = keys[j] /\ ValidSize(keys[j])
      BY <1>0, <1>7, <3>1, KeyListPushes DEF n
    <3> QED
      BY <3>2, Zenon DEF IsKey
  <2>2. u >= 1
    BY <1>8
  <2>3. ~IsKey(ops[u + 1])
    BY <1>8, <1>12, Zenon DEF op
  <2> QED
    BY <2>1, <2>2, <2>3 DEF KeysEnd
<1>14. KeysIn(ops) = n
  BY <1>2, <1>3, <1>7, <1>13, KeysCounted DEF u
<1>15. IsSmallInteger(80 + m) /\ DecodeOP_N(80 + m) = m /\ IsSmallInteger(80 + n) /\ DecodeOP_N(80 + n) = n
  BY <1>0, <1>2, SmallOps
<1>16. MultisigOps(s, ops, n)
  <2>1. Len(ops) >= n + 2 /\ n >= m /\ op.pc + 1 = L
    BY <1>0, <1>1, <1>2, <1>3, <1>8, <1>9, <1>12
  <2> QED
    BY <1>4, <1>12, <1>15, <2>1, Zenon DEF MultisigOps, op, L
<1>17. MatchMultisig(s)
  <2>1. L >= 1 /\ s[L] = OP_CHECKMULTISIG
    BY <1>0, <1>1, SmallOps
  <2> QED
    BY <1>14, <1>16, <2>1, MultisigIs DEF L
<1>18. MultiOps(ops, m, keys)
  BY <1>4, <1>7, <1>14, <1>15, Zenon DEF MultiOps, n
<1> QED
  BY <1>17, <1>18

\* The first byte of a script whose first operation is a small integer.
LEMMA SmallFirst ==
    ASSUME NEW s \in Seq(Octets), NEW p \in Nat, NEW op, op = GetScriptOp(s, p), IsSmallInteger(op.opcode)
    PROVE  p < Len(s) /\ s[p + 1] = op.opcode /\ op.opcode \in 81..96 /\ op.ok /\ op.pc = p + 1
<1>1. OpFacts(s, p, op)
  BY OpAlways
<1>2. op.opcode \in Octets /\ op.opcode \in 81..96
  <2>1. op.opcode \in Octets
    BY <1>1 DEF OpFacts
  <2> QED
    BY <2>1, SmallOps
<1>3. op.ok
  <2> SUFFICES ASSUME ~op.ok PROVE FALSE
    OBVIOUS
  <2>1. op.opcode = 255
    BY <1>1, SmallOps DEF OpFacts
  <2> QED
    BY <1>2, <2>1
<1>4. p < Len(s) /\ op.opcode = s[p + 1]
  BY <1>1, <1>3 DEF OpFacts
<1>5. op.opcode > OP_PUSHDATA4
  <2>1. OP_PUSHDATA4 = 78
    BY SmallOps
  <2> QED
    BY <1>2, <2>1
<1>6. op.pc = p + 1
  BY <1>1, <1>3, <1>5 DEF OpFacts
<1> QED
  BY <1>2, <1>3, <1>4, <1>6

\* A script that matches is one of them.
LEMMA MultiKnown ==
    ASSUME NEW s \in Seq(Octets), MatchMultisig(s), NEW ops, ops = Ops(s, 0)
    PROVE  \E keys, m : MofN(m, keys) /\ MultiShape(s, m, keys) /\ MultiOps(ops, m, keys)
<1> DEFINE n == KeysIn(ops)
           L == Len(s)
           a == ops[1]
           z == ops[n + 2]
           m == DecodeOP_N(a.opcode)
           keys == [i \in 1..n |-> ops[i + 1].data]
<1>0. L >= 1 /\ s[L] = OP_CHECKMULTISIG /\ MultisigOps(s, ops, n) /\ L \in Nat
  <2>1. L \in Nat
    OBVIOUS
  <2> QED
    BY <2>1, MultisigIs
<1>1. Trace(s, 0, ops) /\ Len(ops) \in Nat /\ Len(ops) >= 1 /\ a = GetScriptOp(s, 0)
  BY <1>0, FirstOp
<1>2. n \in Nat /\ n + 1 \in 1..Len(ops) /\ KeysEnd(ops, n + 1)
  BY <1>1, KeysFound
<1>3. /\ a.ok /\ IsSmallInteger(a.opcode) /\ Len(ops) >= n + 2 /\ IsSmallInteger(z.opcode)
      /\ n = DecodeOP_N(z.opcode) /\ n >= m /\ z.pc + 1 = L
  BY <1>0, Zenon DEF MultisigOps
<1> HIDE DEF n, m, L, a, z
<1>4. 0 < L /\ s[1] = a.opcode /\ a.opcode \in 81..96 /\ a.pc = 1
  <2> DEFINE o == 0
  <2>1. o \in Nat /\ a = GetScriptOp(s, o)
    BY <1>1
  <2>2. o + 1 = 1
    OBVIOUS
  <2> HIDE DEF o
  <2>3. o < Len(s) /\ s[o + 1] = a.opcode /\ a.opcode \in 81..96 /\ a.pc = o + 1
    BY <1>3, <2>1, SmallFirst
  <2> QED
    BY <2>2, <2>3 DEF o, L
<1>5. m \in 1..16 /\ s[1] = 80 + m
  <2>1. a.opcode \in Octets
    BY <1>4 DEF Octets
  <2>2. m \in 1..16 /\ a.opcode = 80 + m
    BY <1>3, <2>1, SmallOps DEF m
  <2> QED
    BY <1>4, <2>2
<1> DEFINE u == n + 1
<1>6. u \in 1..(Len(ops) - 1) /\ u \in 1..Len(ops) /\ u + 1 = n + 2 /\ n + 2 \in 1..Len(ops)
  BY <1>1, <1>2, <1>3
<1> HIDE DEF u
<1> DEFINE q == ops[u].pc
<1>7. ops[u].ok /\ z = GetScriptOp(s, q)
  BY <1>1, <1>6 DEF Trace, z
<1>8. q \in Nat
  <2>1. PICK p \in Nat : OpFacts(s, p, ops[u])
    BY <1>1, <1>6, TraceOps
  <2> QED
    BY <2>1 DEF OpFacts
<1> HIDE DEF q
<1>9. q < L /\ s[q + 1] = z.opcode /\ z.opcode \in 81..96 /\ z.pc = q + 1
  BY <1>3, <1>7, <1>8, SmallFirst DEF L
<1>10. n \in 1..16 /\ s[q + 1] = 80 + n /\ q = L - 2 /\ L >= 3
  <2>1. z.opcode \in Octets
    BY <1>9 DEF Octets
  <2>2. n \in 1..16 /\ z.opcode = 80 + n
    BY <1>3, <2>1, SmallOps
  <2>3. q = L - 2
    BY <1>0, <1>3, <1>8, <1>9
  <2>4. q # 0
    <3> SUFFICES ASSUME q = 0 PROVE FALSE
      OBVIOUS
    <3>1. ops[u].ok /\ u \in 1..Len(ops)
      BY <1>6, <1>7
    <3>2. PICK p \in Nat : OpFacts(s, p, ops[u])
      BY <1>1, <1>6, TraceOps
    <3>3. p < ops[u].pc
      BY <3>1, <3>2 DEF OpFacts
    <3> QED
      BY <3>3 DEF q
  <2> QED
    BY <1>0, <1>8, <1>9, <2>2, <2>3, <2>4
<1>11. ASSUME NEW i \in 1..n PROVE ops[i + 1].ok /\ ValidSize(ops[i + 1].data) /\ ops[i + 1].data \in Seq(Octets)
  <2> DEFINE j == i + 1
  <2>1. j \in 2..u /\ j \in 1..Len(ops)
    BY <1>2, <1>6 DEF u
  <2> HIDE DEF j
  <2>2. IsKey(ops[j])
    BY <1>2, <2>1 DEF KeysEnd, u
  <2>3. PICK p \in Nat : OpFacts(s, p, ops[j])
    BY <1>1, <2>1, TraceOps
  <2>4. ops[j].data \in Seq(Octets)
    BY <2>3 DEF OpFacts
  <2> QED
    BY <2>2, <2>4 DEF IsKey, j
<1>12. keys \in Seq(Seq(Octets)) /\ Len(keys) = n /\ \A i \in 1..n : keys[i] = ops[i + 1].data
  <2>1. keys \in [1..n -> Seq(Octets)]
    BY <1>11
  <2> QED
    BY <1>2, <2>1, FunctionIsSeq
<1> HIDE DEF keys
<1>13. KeyList(keys)
  BY <1>11, <1>12 DEF KeyList
<1>14. MofN(m, keys)
  <2>1. m \in 1..n
    BY <1>3, <1>5, <1>10
  <2> QED
    BY <1>10, <1>12, <1>13, <2>1, Zenon DEF MofN
<1>15. MultiOps(ops, m, keys)
  BY <1>12, Zenon DEF MultiOps, n, m, a
<1>16. KeysRead(ops, keys, n, q)
  <2>1. n < Len(ops)
    BY <1>2, <1>6
  <2> QED
    BY <1>7, <1>11, <1>12, <2>1 DEF KeysRead, u, q
<1>17. KeysLie(s, ops, keys, n)
  <2>1. ops[1].pc = 1 /\ Len(s) >= 1
    BY <1>0, <1>4 DEF a, L
  <2>2. KeysRead(ops, keys, Len(keys), q)
    BY <1>12, <1>16
  <2>3. \A i \in 0..Len(keys) : KeysLie(s, ops, keys, i)
    BY <1>1, <1>13, <2>1, <2>2, ReadIsPushed
  <2>4. n \in 0..Len(keys)
    BY <1>2, <1>12
  <2> QED
    BY <2>3, <2>4
<1>18. MultiShape(s, m, keys)
  <2>1. SubSeq(s, 2, q) \in KeysUpTo(keys)[n]
    BY <1>17 DEF KeysLie, q, u
  <2>2. q + 1 = L - 1 /\ s[L] = 174
    BY <1>0, <1>10, SmallOps
  <2> QED
    BY <1>5, <1>10, <1>12, <2>1, <2>2, Zenon DEF MultiShape, L
<1> QED
  BY <1>14, <1>15, <1>18

-----------------------------------------------------------------------------
(* Solver *)

\* The other scripts, byte by byte.
PubkeyShape(s, k) ==
    Len(s) = Len(k) + 2 /\ s[1] = Len(k) /\ SubSeq(s, 2, Len(k) + 1) = k /\ s[Len(k) + 2] = OP_CHECKSIG
PubkeyHashShape(s, k) ==
    /\ Len(s) = 25 /\ s[1] = OP_DUP /\ s[2] = OP_HASH160 /\ s[3] = 20
    /\ SubSeq(s, 4, 23) = k /\ s[24] = OP_EQUALVERIFY /\ s[25] = OP_CHECKSIG
ScriptHashShape(s, k) ==
    Len(s) = 23 /\ s[1] = OP_HASH160 /\ s[2] = 20 /\ SubSeq(s, 3, 22) = k /\ s[23] = OP_EQUAL
ProgramShape(s, c, k) ==
    Len(s) = Len(k) + 2 /\ s[1] = c /\ s[2] = Len(k) /\ SubSeq(s, 3, Len(k) + 2) = k

\* The opcodes of the templates.
LEMMA OpCodes ==
    /\ OP_DUP = 118 /\ OP_HASH160 = 169 /\ OP_EQUAL = 135 /\ OP_EQUALVERIFY = 136 /\ OP_CHECKSIG = 172
    /\ OP_RETURN = 106 /\ OP_0 = 0
  BY DEF OP_DUP, OP_HASH160, OP_EQUAL, OP_EQUALVERIFY, OP_CHECKSIG, OP_RETURN, OP_0

\* A script that pays to a key has that shape.
LEMMA PubkeyShapes ==
    ASSUME NEW s \in Seq(Octets), NEW k \in Seq(Octets), NEW n \in Octets, n = Len(k)
    PROVE  s = <<Len(k)>> \o k \o <<OP_CHECKSIG>> <=> PubkeyShape(s, k)
<1> DEFINE h == <<n>>
           t == <<OP_CHECKSIG>>
<1>0. n \in Nat
  BY DEF Octets
<1>1. OP_CHECKSIG \in Octets
  BY OpCodes DEF Octets
<1>2. h \in Seq(Octets) /\ Len(h) = 1 /\ h[1] = n /\ t \in Seq(Octets) /\ Len(t) = 1 /\ t[1] = OP_CHECKSIG
  BY <1>1
<1> HIDE DEF h, t
<1>3. s = h \o k \o t <=> FormFramed(s, h, k, t)
  BY <1>2, FramedSo
<1>4. FormFramed(s, h, k, t) <=> PubkeyShape(s, k)
  <2>1. 1 + n + 1 = n + 2 /\ 1 + n = n + 1 /\ 1 + 1 = 2 /\ 1..1 = {1}
    BY <1>0
  <2>2. FormFramed(s, h, k, t) <=>
           Len(s) = 1 + n + 1 /\ (\A i \in 1..1 : s[i] = h[i]) /\ SubSeq(s, 1 + 1, 1 + n) = k
           /\ \A i \in 1..1 : s[1 + n + i] = t[i]
    BY <1>2, Zenon DEF FormFramed
  <2> QED
    BY <1>2, <2>1, <2>2, Zenon DEF PubkeyShape
<1> QED
  BY <1>3, <1>4 DEF h, t

\* So has one that pays to the hash of a key,
LEMMA PubkeyHashShapes ==
    ASSUME NEW s \in Seq(Octets), NEW k \in Seq(Octets), Len(k) = 20
    PROVE  s = <<OP_DUP, OP_HASH160, 20>> \o k \o <<OP_EQUALVERIFY, OP_CHECKSIG>> <=> PubkeyHashShape(s, k)
<1> DEFINE h == <<OP_DUP, OP_HASH160, 20>>
           t == <<OP_EQUALVERIFY, OP_CHECKSIG>>
<1>1. OP_DUP \in Octets /\ OP_HASH160 \in Octets /\ 20 \in Octets /\ OP_EQUALVERIFY \in Octets /\ OP_CHECKSIG \in Octets
  BY OpCodes DEF Octets
<1>2. h \in Seq(Octets) /\ Len(h) = 3 /\ h[1] = OP_DUP /\ h[2] = OP_HASH160 /\ h[3] = 20
      /\ t \in Seq(Octets) /\ Len(t) = 2 /\ t[1] = OP_EQUALVERIFY /\ t[2] = OP_CHECKSIG
  BY <1>1
<1> HIDE DEF h, t
<1>3. s = h \o k \o t <=> FormFramed(s, h, k, t)
  BY <1>2, FramedSo
<1>4. FormFramed(s, h, k, t) <=> PubkeyHashShape(s, k)
  <2>1. 3 + 20 + 2 = 25 /\ 3 + 20 = 23 /\ 3 + 1 = 4 /\ 23 + 1 = 24 /\ 23 + 2 = 25 /\ 1..3 = {1, 2, 3} /\ 1..2 = {1, 2}
    OBVIOUS
  <2>2. FormFramed(s, h, k, t) <=>
           Len(s) = 3 + 20 + 2 /\ (\A i \in 1..3 : s[i] = h[i]) /\ SubSeq(s, 3 + 1, 3 + 20) = k
           /\ \A i \in 1..2 : s[3 + 20 + i] = t[i]
    BY <1>2, Zenon DEF FormFramed
  <2>3. (\A i \in 1..3 : s[i] = h[i]) <=> s[1] = OP_DUP /\ s[2] = OP_HASH160 /\ s[3] = 20
    BY <1>2
  <2>4. (\A i \in 1..2 : s[3 + 20 + i] = t[i]) <=> s[24] = OP_EQUALVERIFY /\ s[25] = OP_CHECKSIG
    BY <1>2
  <2> QED
    BY <2>1, <2>2, <2>3, <2>4, Zenon DEF PubkeyHashShape
<1> QED
  BY <1>3, <1>4 DEF h, t

\* one that pays to the hash of a script,
LEMMA ScriptHashShapes ==
    ASSUME NEW s \in Seq(Octets), NEW k \in Seq(Octets), Len(k) = 20
    PROVE  s = <<OP_HASH160, 20>> \o k \o <<OP_EQUAL>> <=> ScriptHashShape(s, k)
<1> DEFINE h == <<OP_HASH160, 20>>
           t == <<OP_EQUAL>>
<1>1. OP_HASH160 \in Octets /\ 20 \in Octets /\ OP_EQUAL \in Octets
  BY OpCodes DEF Octets
<1>2. h \in Seq(Octets) /\ Len(h) = 2 /\ h[1] = OP_HASH160 /\ h[2] = 20
      /\ t \in Seq(Octets) /\ Len(t) = 1 /\ t[1] = OP_EQUAL
  BY <1>1
<1> HIDE DEF h, t
<1>3. s = h \o k \o t <=> FormFramed(s, h, k, t)
  BY <1>2, FramedSo
<1>4. FormFramed(s, h, k, t) <=> ScriptHashShape(s, k)
  <2>1. 2 + 20 + 1 = 23 /\ 2 + 20 = 22 /\ 2 + 1 = 3
    OBVIOUS
  <2>2. FormFramed(s, h, k, t) <=>
           Len(s) = 2 + 20 + 1 /\ (\A i \in 1..2 : s[i] = h[i]) /\ SubSeq(s, 2 + 1, 2 + 20) = k
           /\ \A i \in 1..1 : s[2 + 20 + i] = t[i]
    BY <1>2, Zenon DEF FormFramed
  <2>3. (\A i \in 1..2 : s[i] = h[i]) <=> s[1] = OP_HASH160 /\ s[2] = 20
    BY <1>2
  <2>4. (\A i \in 1..1 : s[2 + 20 + i] = t[i]) <=> s[23] = OP_EQUAL
    BY <1>2
  <2> QED
    BY <2>1, <2>2, <2>3, <2>4, Zenon DEF ScriptHashShape
<1> QED
  BY <1>3, <1>4 DEF h, t

\* and one of a witness program.
LEMMA ProgramShapes ==
    ASSUME NEW s \in Seq(Octets), NEW k \in Seq(Octets), NEW n \in Octets, n = Len(k), NEW c \in Octets
    PROVE  s = <<c, Len(k)>> \o k <=> ProgramShape(s, c, k)
<1> DEFINE h == <<c, n>>
<1>0. n \in Nat
  BY DEF Octets
<1>1. h \in Seq(Octets) /\ Len(h) = 2 /\ h[1] = c /\ h[2] = n
  OBVIOUS
<1> HIDE DEF h
<1>2. s = h \o k <=> Splits(s, h, k)
  BY <1>1, SplitsSo
<1>3. Splits(s, h, k) <=> ProgramShape(s, c, k)
  <2>1. 2 + n = n + 2 /\ 2 + 1 = 3
    BY <1>0
  <2>2. Splits(s, h, k) <=> Len(s) = 2 + n /\ (\A i \in 1..2 : s[i] = h[i]) /\ SubSeq(s, 2 + 1, Len(s)) = k
    BY <1>1, Zenon DEF Splits
  <2>3. (\A i \in 1..2 : s[i] = h[i]) <=> s[1] = c /\ s[2] = n
    BY <1>1
  <2> QED
    BY <2>1, <2>2, <2>3, Zenon DEF ProgramShape
<1> QED
  BY <1>2, <1>3 DEF h

\* What Solver returns, case by case.
IsNullData(s) == Len(s) >= 1 /\ Byte(s, 0) = OP_RETURN /\ IsPushOnly(s, 1)
Nonstandard == Solved("NONSTANDARD", <<>>)
MultiSol(ops, n) ==
    <<<<DecodeOP_N(ops[1].opcode)>>>> \o [i \in 1..n |-> ops[i + 1].data] \o <<<<n>>>>
WitnessGives(version, program, w) ==
    /\ version = 0 /\ Len(program) = 20 => w = Solved("WITNESS_V0_KEYHASH", <<program>>)
    /\ version = 0 /\ Len(program) = 32 => w = Solved("WITNESS_V0_SCRIPTHASH", <<program>>)
    /\ version # 0 => w = Solved("WITNESS_UNKNOWN", <<<<version>>, program>>)
    /\ version = 0 /\ Len(program) # 20 /\ Len(program) # 32 => w = Nonstandard

ScriptHashGives(s, w) == IsPayToScriptHash(s) => w = Solved("SCRIPTHASH", <<Slice(s, 2, 22)>>)
ProgramGives(s, w) ==
    ~IsPayToScriptHash(s) /\ IsWitnessProgram(s) =>
        WitnessGives(DecodeOP_N(Byte(s, 0)), Slice(s, 2, Len(s)), w)
OtherScript(s) == ~IsPayToScriptHash(s) /\ ~IsWitnessProgram(s)
OtherGives(s, w) ==
    /\ IsNullData(s) => w = Solved("NULL_DATA", <<>>)
    /\ ~IsNullData(s) /\ MatchPayToPubkey(s) => w = Solved("PUBKEY", <<PubkeyOf(s)>>)
    /\ ~IsNullData(s) /\ ~MatchPayToPubkey(s) /\ MatchPayToPubkeyHash(s) =>
         w = Solved("PUBKEYHASH", <<Slice(s, 3, 23)>>)
    /\ ~IsNullData(s) /\ ~MatchPayToPubkey(s) /\ ~MatchPayToPubkeyHash(s) =>
         /\ MatchMultisig(s) => w = Solved("MULTISIG", MultiSol(Ops(s, 0), KeysIn(Ops(s, 0))))
         /\ ~MatchMultisig(s) => w = Nonstandard

\* Solver, branch by branch.
LEMMA SolverIs ==
    \A s : ScriptHashGives(s, Solver(s)) /\ ProgramGives(s, Solver(s)) /\ (OtherScript(s) => OtherGives(s, Solver(s)))
<1> TAKE s
<1> DEFINE w == Solver(s)
<1>1. ScriptHashGives(s, w)
  BY Zenon DEF Solver, ScriptHashGives
<1>2. ProgramGives(s, w)
  <2> SUFFICES ASSUME ~IsPayToScriptHash(s), IsWitnessProgram(s)
               PROVE  WitnessGives(DecodeOP_N(Byte(s, 0)), Slice(s, 2, Len(s)), w)
    BY Zenon DEF ProgramGives
  <2> DEFINE v == DecodeOP_N(Byte(s, 0))
             p == Slice(s, 2, Len(s))
  <2>1. w = IF v = 0 /\ Len(p) = 20 THEN Solved("WITNESS_V0_KEYHASH", <<p>>)
            ELSE IF v = 0 /\ Len(p) = 32 THEN Solved("WITNESS_V0_SCRIPTHASH", <<p>>)
            ELSE IF v # 0 THEN Solved("WITNESS_UNKNOWN", <<<<v>>, p>>)
            ELSE Nonstandard
    BY Zenon DEF Solver, Nonstandard
  <2> HIDE DEF v, p, w
  <2>2. WitnessGives(v, p, w)
    BY <2>1 DEF WitnessGives
  <2> QED
    BY <2>2 DEF v, p
<1>3. ASSUME OtherScript(s) PROVE OtherGives(s, w)
  <2>1. ~IsPayToScriptHash(s) /\ ~IsWitnessProgram(s)
    BY <1>3 DEF OtherScript
  <2>2. w = IF IsNullData(s) THEN Solved("NULL_DATA", <<>>)
            ELSE IF MatchPayToPubkey(s) THEN Solved("PUBKEY", <<PubkeyOf(s)>>)
            ELSE IF MatchPayToPubkeyHash(s) THEN Solved("PUBKEYHASH", <<Slice(s, 3, 23)>>)
            ELSE IF MatchMultisig(s) THEN Solved("MULTISIG", MultiSol(Ops(s, 0), KeysIn(Ops(s, 0))))
            ELSE Nonstandard
    BY <2>1, Zenon DEF Solver, Nonstandard, IsNullData, MultiSol
  <2> HIDE DEF w
  <2> QED
    BY <2>2, Zenon DEF OtherGives
<1> QED
  BY <1>1, <1>2, <1>3

\* The data of a multisig output: how many must sign, the keys, their number.
SolOf(m, keys) == <<<<m>>>> \o keys \o <<<<Len(keys)>>>>
SolIs(sol, m, keys) ==
    /\ Len(sol) = Len(keys) + 2 /\ sol[1] = <<m>> /\ SubSeq(sol, 2, Len(sol) - 1) = keys
    /\ sol[Len(sol)] = <<Len(keys)>> /\ \A i \in 1..Len(keys) : sol[i + 1] = keys[i]

\* Its items, one by one.
LEMMA SolForm ==
    ASSUME NEW m \in Octets, NEW keys \in Seq(Seq(Octets)), Len(keys) \in Octets
    PROVE  SolOf(m, keys) \in Seq(Seq(Octets)) /\ SolIs(SolOf(m, keys), m, keys)
<1> DEFINE D == Seq(Octets)
           n == Len(keys)
           h == <<<<m>>>>
           t == <<<<n>>>>
           s == SolOf(m, keys)
<1>0. n \in Nat
  OBVIOUS
<1>1. h \in Seq(D) /\ Len(h) = 1 /\ h[1] = <<m>> /\ t \in Seq(D) /\ Len(t) = 1 /\ t[1] = <<n>>
  <2>1. <<m>> \in D /\ <<n>> \in D
    OBVIOUS
  <2> HIDE DEF D
  <2> QED
    BY <2>1
<1>2. keys \in Seq(D) /\ s = h \o keys \o t
  BY DEF SolOf
<1> HIDE DEF h, t, s, D
<1>3. s \in Seq(D)
  <2>1. h \o keys \in Seq(D)
    BY <1>1, <1>2, ConcatProperties
  <2> DEFINE u == h \o keys
  <2>2. u \in Seq(D) /\ s = u \o t
    BY <1>2, <2>1
  <2> HIDE DEF u
  <2> QED
    BY <1>1, <2>2, ConcatProperties
<1>4. FormFramed(s, h, keys, t)
  <2>1. s = h \o keys \o t <=> FormFramed(s, h, keys, t)
    BY <1>1, <1>2, <1>3, FramedSo
  <2> QED
    BY <1>2, <2>1
<1>5. Len(s) = 1 + n + 1 /\ s[1] = <<m>> /\ SubSeq(s, 1 + 1, 1 + n) = keys /\ s[1 + n + 1] = <<n>>
  <2>1. Len(s) = 1 + n + 1 /\ (\A i \in 1..1 : s[i] = h[i]) /\ SubSeq(s, 1 + 1, 1 + n) = keys
        /\ \A i \in 1..1 : s[1 + n + i] = t[i]
    BY <1>1, <1>4, Zenon DEF FormFramed
  <2> HIDE DEF n
  <2> QED
    BY <1>1, <2>1
<1>6. 1 + n + 1 = n + 2 /\ 1 + 1 = 2 /\ 1 + n = Len(s) - 1 /\ 1 + n + 1 = Len(s)
  BY <1>0, <1>5
<1>7. SubSeq(s, 2, Len(s) - 1) = keys
  BY <1>5, <1>6, Zenon
<1>8. ASSUME NEW i \in 1..n PROVE s[i + 1] = keys[i]
  <2>1. Piece(D, s, 1, n, SubSeq(s, 1 + 1, 1 + n))
    <3>1. 1 + n <= Len(s) /\ 1 \in Nat
      BY <1>0, <1>5
    <3> HIDE DEF n
    <3> QED
      BY <1>0, <1>3, <3>1, SubPiece
  <2>2. keys[i] = s[1 + i]
    BY <1>5, <2>1 DEF Piece
  <2>3. 1 + i = i + 1
    OBVIOUS
  <2> QED
    BY <2>2, <2>3
<1>9. SolIs(s, m, keys)
  <2>1. \A i \in 1..n : s[i + 1] = keys[i]
    BY <1>8
  <2> QED
    BY <1>5, <1>6, <1>7, <2>1, Zenon DEF SolIs, n
<1> QED
  BY <1>3, <1>9 DEF s, D

\* The data of a multisig output, made and taken apart.
TakesMulti(sol) ==
    /\ Len(sol) \in 3..18 /\ Len(sol[1]) = 1 /\ sol[1][1] \in 1..(Len(sol) - 2)
    /\ sol[Len(sol)] = <<Len(sol) - 2>> /\ \A i \in 2..(Len(sol) - 1) : ValidSize(sol[i])

\* Takes, for a multisig output.
LEMMA TakesIs == \A sol : Takes("MULTISIG", sol) <=> sol \in Seq(Seq(Octets)) /\ TakesMulti(sol)
  BY DEF Takes, TakesMulti, Octets

\* The data made of some keys is taken, and its templates are the scripts of the keys.
LEMMA MultiTemplates ==
    ASSUME NEW keys, NEW m, MofN(m, keys), NEW sol, sol = SolOf(m, keys)
    PROVE  Takes("MULTISIG", sol) /\ Templates("MULTISIG", sol) = MultiScripts(m, keys)
<1> DEFINE n == Len(keys)
           L == Len(sol)
<1>0. n \in 1..16 /\ m \in 1..n /\ keys \in Seq(Seq(Octets)) /\ \A i \in 1..n : ValidSize(keys[i])
  BY DEF MofN, KeyList
<1>1. m \in Octets /\ n \in Octets
  <2> HIDE DEF n
  <2> QED
    BY <1>0 DEF Octets
<1>2. sol \in Seq(Seq(Octets)) /\ SolIs(sol, m, keys)
  BY <1>0, <1>1, SolForm
<1>3. L = n + 2 /\ sol[1] = <<m>> /\ SubSeq(sol, 2, L - 1) = keys /\ sol[L] = <<n>>
      /\ \A i \in 1..n : sol[i + 1] = keys[i]
  BY <1>2, Zenon DEF SolIs
<1> HIDE DEF n
<1>4. L - 2 = n /\ L \in 3..18 /\ Len(<<m>>) = 1 /\ <<m>>[1] = m
  BY <1>0, <1>3
<1> HIDE DEF L
<1>5. Len(sol[1]) = 1 /\ sol[1][1] = m
  BY <1>3, <1>4, Zenon
<1>6. TakesMulti(sol)
  <2>1. ASSUME NEW i \in 2..(L - 1) PROVE ValidSize(sol[i])
    <3> DEFINE j == i - 1
    <3>1. j \in 1..n /\ j + 1 = i
      BY <1>0, <1>3, <1>4
    <3> HIDE DEF j
    <3>2. sol[i] = keys[j]
      BY <1>3, <3>1
    <3> QED
      BY <1>0, <3>1, <3>2
  <2>2. sol[1][1] \in 1..(L - 2) /\ sol[L] = <<L - 2>>
    <3>1. m \in 1..(L - 2) /\ <<n>> = <<L - 2>>
      BY <1>0, <1>4, Zenon
    <3> QED
      BY <1>3, <1>5, <3>1, Zenon
  <2> QED
    BY <1>4, <1>5, <2>1, <2>2, Zenon DEF TakesMulti, L
<1>7. Templates("MULTISIG", sol) = MultiScripts(m, keys)
  <2>1. Len(sol) - 2 = Len(keys) /\ SubSeq(sol, 2, Len(sol) - 1) = keys
    BY <1>3, <1>4, Zenon DEF L, n
  <2>2. Templates("MULTISIG", sol) =
           {<<EncodeOP_N(sol[1][1])>> \o k \o <<EncodeOP_N(Len(sol) - 2), OP_CHECKMULTISIG>> :
              k \in KeyPushes(SubSeq(sol, 2, Len(sol) - 1))}
    BY DEF Templates
  <2> QED
    BY <1>5, <2>1, <2>2, Zenon DEF MultiScripts
<1> QED
  BY <1>2, <1>6, <1>7, TakesIs

\* Data that is taken is made of keys.
LEMMA MultiTaken ==
    ASSUME NEW sol, Takes("MULTISIG", sol)
    PROVE  \E keys, m : MofN(m, keys) /\ sol = SolOf(m, keys)
<1> DEFINE L == Len(sol)
           n == L - 2
           m == sol[1][1]
           keys == SubSeq(sol, 2, L - 1)
           D == Seq(Octets)
<1>0. sol \in Seq(D) /\ TakesMulti(sol)
  BY TakesIs
<1>1. /\ L \in 3..18 /\ Len(sol[1]) = 1 /\ m \in 1..n /\ sol[L] = <<n>>
      /\ \A i \in 2..(L - 1) : ValidSize(sol[i])
  BY <1>0, Zenon DEF TakesMulti
<1>2. n \in 1..16 /\ n \in Nat /\ 1 + n = L - 1 /\ 1 + 1 = 2 /\ 1 + n <= L /\ 1 \in Nat
  BY <1>1
<1> HIDE DEF L, n, m
<1>3. sol[1] \in D
  <2>1. 1 \in 1..Len(sol)
    BY <1>1 DEF L
  <2> HIDE DEF D
  <2> QED
    BY <1>0, <2>1
<1>4. sol[1] = <<m>>
  <2> DEFINE u == sol[1]
  <2>1. u \in Seq(Octets) /\ Len(u) = 1 /\ m = u[1]
    BY <1>1, <1>3 DEF m
  <2> HIDE DEF u
  <2>2. u = <<m>>
    BY <2>1
  <2> QED
    BY <2>2 DEF u
<1> HIDE DEF D
<1>5. Piece(D, sol, 1, n, keys)
  <2>1. Piece(D, sol, 1, n, SubSeq(sol, 1 + 1, 1 + n))
    BY <1>0, <1>2, SubPiece DEF L
  <2> QED
    BY <1>2, <2>1, Zenon
<1> HIDE DEF keys
<1>6. keys \in Seq(D) /\ Len(keys) = n /\ \A i \in 1..n : keys[i] = sol[1 + i]
  BY <1>5 DEF Piece
<1>7. ASSUME NEW i \in 1..n PROVE ValidSize(keys[i])
  <2>1. 1 + i \in 2..(L - 1)
    BY <1>1, <1>2
  <2> QED
    BY <1>1, <1>6, <2>1
<1>8. MofN(m, keys)
  BY <1>1, <1>2, <1>6, <1>7 DEF MofN, KeyList, D
<1>9. sol = SolOf(m, keys)
  <2> DEFINE h == <<<<m>>>>
             t == <<<<n>>>>
  <2>1. m \in Octets /\ n \in Octets
    BY <1>1, <1>2 DEF Octets
  <2>2. h \in Seq(D) /\ Len(h) = 1 /\ h[1] = <<m>> /\ t \in Seq(D) /\ Len(t) = 1 /\ t[1] = <<n>>
    <3>1. <<m>> \in D /\ <<n>> \in D
      BY <2>1 DEF D
    <3> QED
      BY <3>1
  <2> HIDE DEF h, t
  <2>3. FormFramed(sol, h, keys, t)
    <3>1. Len(sol) = 1 + n + 1 /\ 1 + n + 1 = L
      BY <1>1, <1>2 DEF L
    <3>2. \A i \in 1..1 : sol[i] = h[i]
      BY <1>4, <2>2
    <3>3. SubSeq(sol, 1 + 1, 1 + n) = keys
      BY <1>2, Zenon DEF keys
    <3>4. \A i \in 1..1 : sol[1 + n + i] = t[i]
      BY <1>1, <2>2, <3>1
    <3> QED
      BY <1>6, <2>2, <3>1, <3>2, <3>3, <3>4, Zenon DEF FormFramed
  <2>4. sol = h \o keys \o t <=> FormFramed(sol, h, keys, t)
    BY <1>0, <1>6, <2>2, FramedSo
  <2> QED
    BY <1>6, <2>3, <2>4, Zenon DEF SolOf, h, t
<1> QED
  BY <1>8, <1>9

\* What decides between the branches of Solver is in the first bytes.
LEMMA Branches ==
    ASSUME NEW s \in Seq(Octets), Len(s) >= 1
    PROVE  /\ IsPayToScriptHash(s) => s[1] = 169
           /\ IsWitnessProgram(s) => (s[1] = 0 \/ s[1] \in 81..96) /\ s[2] + 2 = Len(s) /\ Len(s) <= 42
           /\ IsNullData(s) => s[1] = 106
           /\ MatchPayToPubkey(s) => s[1] \in {33, 65}
           /\ MatchPayToPubkeyHash(s) => s[1] = 118
<1>0. Byte(s, 0) = s[1] /\ Byte(s, 1) = s[2]
  <2>1. 0 + 1 = 1 /\ 1 + 1 = 2
    OBVIOUS
  <2> QED
    BY <2>1, Zenon DEF Byte
<1>1. IsPayToScriptHash(s) => s[1] = 169
  BY <1>0, OpCodes, Zenon DEF IsPayToScriptHash
<1>2. IsWitnessProgram(s) => (s[1] = 0 \/ s[1] \in 81..96) /\ s[2] + 2 = Len(s) /\ Len(s) <= 42
  <2>1. IsWitnessProgram(s) => (s[1] = OP_0 \/ IsSmallInteger(s[1])) /\ s[2] + 2 = Len(s) /\ Len(s) <= 42
    BY <1>0, Zenon DEF IsWitnessProgram
  <2>2. s[1] \in Octets
    OBVIOUS
  <2> QED
    BY <2>1, <2>2, SmallOps, OpCodes
<1>3. IsNullData(s) => s[1] = 106
  BY <1>0, OpCodes, Zenon DEF IsNullData
<1>4. MatchPayToPubkey(s) => s[1] \in {33, 65}
  <2>1. MatchPayToPubkey(s) => Len(s) \in {67, 35} /\ s[1] = Len(s) - 2
    BY <1>0 DEF MatchPayToPubkey, PUBLIC_KEY_SIZE, COMPRESSED_PUBLIC_KEY_SIZE
  <2>2. \A x, n : n \in {67, 35} /\ x = n - 2 => x \in {33, 65}
    OBVIOUS
  <2> QED
    BY <2>1, <2>2, Zenon
<1>5. MatchPayToPubkeyHash(s) => s[1] = 118
  BY <1>0, OpCodes, Zenon DEF MatchPayToPubkeyHash
<1> QED
  BY <1>1, <1>2, <1>3, <1>4, <1>5

\* A script that pays to the hash of a script, byte by byte.
LEMMA ScriptHashMatch ==
    ASSUME NEW s
    PROVE  IsPayToScriptHash(s) <=> Len(s) = 23 /\ s[1] = OP_HASH160 /\ s[2] = 20 /\ s[23] = OP_EQUAL
  BY DEF IsPayToScriptHash, Byte

\* A script that pays to the hash of a key, byte by byte.
LEMMA PubkeyHashMatch ==
    ASSUME NEW s
    PROVE  MatchPayToPubkeyHash(s) <=>
             /\ Len(s) = 25 /\ s[1] = OP_DUP /\ s[2] = OP_HASH160 /\ s[3] = 20
             /\ s[24] = OP_EQUALVERIFY /\ s[25] = OP_CHECKSIG
  BY DEF MatchPayToPubkeyHash, Byte

\* A script hash.
LEMMA ScriptHashRead ==
    ASSUME NEW s \in Seq(Octets), NEW k, ScriptHashShape(s, k)
    PROVE  Solver(s) = Solved("SCRIPTHASH", <<k>>)
<1>1. IsPayToScriptHash(s) /\ SubSeq(s, 3, 22) = k
  BY ScriptHashMatch DEF ScriptHashShape
<1>2. Slice(s, 2, 22) = SubSeq(s, 3, 22)
  BY DEF Slice
<1> QED
  BY <1>1, <1>2, SolverIs, Zenon DEF ScriptHashGives

\* A witness program.
LEMMA ProgramRead ==
    ASSUME NEW s \in Seq(Octets), NEW k \in Seq(Octets), Len(k) \in 2..40, NEW c, c = 0 \/ c \in 81..96,
           ProgramShape(s, c, k)
    PROVE  WitnessGives(DecodeOP_N(c), k, Solver(s))
<1>1. Len(s) = Len(k) + 2 /\ s[1] = c /\ s[2] = Len(k) /\ SubSeq(s, 3, Len(k) + 2) = k
  BY DEF ProgramShape
<1>2. Len(s) >= 4 /\ Len(s) <= 42 /\ s[2] + 2 = Len(s) /\ c # 169
  <2> DEFINE n == Len(k)
             L == Len(s)
  <2>1. L = n + 2 /\ n \in 2..40 /\ s[2] = n
    BY <1>1
  <2>3. \A x : x = 0 \/ x \in 81..96 => x # 169
    BY SMTT(60)
  <2>4. c # 169
    BY <2>3
  <2> HIDE DEF n, L
  <2>2. L >= 4 /\ L <= 42 /\ s[2] + 2 = L
    BY <2>1
  <2> QED
    BY <2>1, <2>2, <2>4 DEF L
<1>3. Byte(s, 0) = c /\ Byte(s, 1) = s[2] /\ Slice(s, 2, Len(s)) = k
  <2>1. 0 + 1 = 1 /\ 1 + 1 = 2 /\ 2 + 1 = 3
    OBVIOUS
  <2> QED
    BY <1>1, <2>1, Zenon DEF Byte, Slice
<1>4. IsWitnessProgram(s)
  <2>1. c = OP_0 \/ IsSmallInteger(c)
    BY OpCodes DEF IsSmallInteger, OP_1, OP_16
  <2> QED
    BY <1>2, <1>3, <2>1, Zenon DEF IsWitnessProgram
<1>5. ~IsPayToScriptHash(s)
  BY <1>1, <1>2, Branches
<1> QED
  BY <1>3, <1>4, <1>5, SolverIs, Zenon DEF ProgramGives

\* A key.
LEMMA PubkeyRead ==
    ASSUME NEW s \in Seq(Octets), NEW k \in Seq(Octets), ValidSize(k), PubkeyShape(s, k)
    PROVE  Solver(s) = Solved("PUBKEY", <<k>>)
<1>1. Len(s) = Len(k) + 2 /\ s[1] = Len(k) /\ SubSeq(s, 2, Len(k) + 1) = k /\ s[Len(k) + 2] = OP_CHECKSIG
  BY DEF PubkeyShape
<1>2. Len(k) \in {33, 65}
  BY KeySizes
<1>3. Len(s) \in {67, 35} /\ Len(s) >= 1 /\ s[1] = Len(s) - 2 /\ s[Len(s)] = OP_CHECKSIG /\ Len(s) - 1 = Len(k) + 1
  <2>1. \A n, L : n \in {33, 65} /\ L = n + 2 =>
           L \in {67, 35} /\ L >= 1 /\ n = L - 2 /\ n + 2 = L /\ L - 1 = n + 1
    OBVIOUS
  <2> QED
    BY <1>1, <1>2, <2>1, ZenonT(60)
<1>4. Byte(s, 0) = s[1] /\ PubkeyOf(s) = k
  <2>1. 0 + 1 = 1 /\ 1 + 1 = 2
    OBVIOUS
  <2> QED
    BY <1>1, <1>3, <2>1, Zenon DEF Byte, PubkeyOf, Slice
<1>5. MatchPayToPubkey(s)
  <2>1. PUBLIC_KEY_SIZE + 2 = 67 /\ COMPRESSED_PUBLIC_KEY_SIZE + 2 = 35
    BY DEF PUBLIC_KEY_SIZE, COMPRESSED_PUBLIC_KEY_SIZE
  <2>2. Len(s) \in {PUBLIC_KEY_SIZE + 2, COMPRESSED_PUBLIC_KEY_SIZE + 2}
    BY <1>3, <2>1, Zenon
  <2>3. ValidSize(PubkeyOf(s))
    BY <1>4
  <2> QED
    BY <1>3, <1>4, <2>2, <2>3, Zenon DEF MatchPayToPubkey, Back
<1>6. s[1] # 169 /\ s[1] # 0 /\ s[1] \notin 81..96 /\ s[1] # 106
  <2> DEFINE a == s[1]
  <2>1. a \in {33, 65}
    BY <1>1, <1>2, Zenon
  <2> HIDE DEF a
  <2>2. a # 169 /\ a # 0 /\ a \notin 81..96 /\ a # 106
    BY <2>1
  <2> QED
    BY <2>2 DEF a
<1>7. OtherScript(s) /\ ~IsNullData(s)
  BY <1>3, <1>6, Branches, ZenonT(60) DEF OtherScript
<1> QED
  BY <1>4, <1>5, <1>7, SolverIs, Zenon DEF OtherGives

\* The hash of one.
LEMMA PubkeyHashRead ==
    ASSUME NEW s \in Seq(Octets), NEW k, PubkeyHashShape(s, k)
    PROVE  Solver(s) = Solved("PUBKEYHASH", <<k>>)
<1>1. MatchPayToPubkeyHash(s) /\ SubSeq(s, 4, 23) = k /\ Len(s) >= 1 /\ s[1] = 118
  <2>1. Len(s) = 25 /\ SubSeq(s, 4, 23) = k /\ s[1] = OP_DUP
    BY DEF PubkeyHashShape
  <2>2. MatchPayToPubkeyHash(s)
    BY PubkeyHashMatch, Zenon DEF PubkeyHashShape
  <2> QED
    BY <2>1, <2>2, OpCodes
<1>2. Slice(s, 3, 23) = SubSeq(s, 4, 23)
  BY DEF Slice
<1>3. s[1] # 169 /\ s[1] # 0 /\ s[1] \notin 81..96 /\ s[1] # 106 /\ s[1] \notin {33, 65}
  <2> DEFINE a == s[1]
  <2>1. a = 118
    BY <1>1, Zenon
  <2> HIDE DEF a
  <2>2. a # 169 /\ a # 0 /\ a \notin 81..96 /\ a # 106 /\ a \notin {33, 65}
    BY <2>1
  <2> QED
    BY <2>2 DEF a
<1>4. OtherScript(s) /\ ~IsNullData(s) /\ ~MatchPayToPubkey(s)
  <2>1. /\ IsPayToScriptHash(s) => s[1] = 169
        /\ IsWitnessProgram(s) => s[1] = 0 \/ s[1] \in 81..96
        /\ IsNullData(s) => s[1] = 106
        /\ MatchPayToPubkey(s) => s[1] \in {33, 65}
    <3>1. Len(s) >= 1
      BY <1>1
    <3> QED
      BY <3>1, Branches
  <2> QED
    BY <1>3, <2>1, Zenon DEF OtherScript
<1> QED
  BY <1>1, <1>2, <1>4, SolverIs, Zenon DEF OtherGives

\* Where the data lies that has been read.
LEMMA DataThere ==
    ASSUME NEW s \in Seq(Octets), NEW pc \in Nat, NEW op, op = GetScriptOp(s, pc), op.ok,
           NEW n \in Octets, n > 0, Len(op.data) = n
    PROVE  DataLies(s, pc, SizeBytes(s[pc + 1]), n, op.data, op.pc)
<1> DEFINE w == SizeBytes(s[pc + 1])
           data == op.data
           q == op.pc
<1>1. w = SizeBytes(s[pc + 1]) /\ Len(data) = n /\ op.data = data /\ op.pc = q
  OBVIOUS
<1> HIDE DEF w, data, q
<1>2. op.ok /\ op.data = data /\ op.pc = q <=> DataLies(s, pc, w, n, data, q)
  BY <1>1, DataRead, SMTT(60)
<1> QED
  BY <1>1, <1>2 DEF w, data, q

\* A multisig script is too long for the witness program that it begins like.
LEMMA MultiNoProgram ==
    ASSUME NEW s \in Seq(Octets), NEW keys, NEW m, MofN(m, keys), MultiShape(s, m, keys)
    PROVE  ~IsWitnessProgram(s)
<1> DEFINE ops == Ops(s, 0)
           n == Len(keys)
           L == Len(s)
<1>0. n \in 1..16 /\ KeyList(keys) /\ L \in Nat /\ L >= 1
  BY DEF MofN, MultiShape
<1>1. MatchMultisig(s) /\ MultiOps(ops, m, keys)
  BY MultiRead
<1>2. KeysIn(ops) = n /\ ops[1 + 1].data = keys[1]
  <2>1. 1 \in 1..Len(keys)
    <3>1. n \in 1..16
      BY <1>0
    <3> HIDE DEF n
    <3>2. 1 \in 1..n
      BY <3>1
    <3> QED
      BY <3>2 DEF n
  <2> HIDE DEF ops
  <2> QED
    BY <1>1, <2>1, Zenon DEF MultiOps
<1>3. MultisigOps(s, ops, n)
  BY <1>1, <1>2, MultisigIs, Zenon
<1>4. Trace(s, 0, ops) /\ Len(ops) \in Nat /\ Len(ops) >= 1 /\ ops[1] = GetScriptOp(s, 0)
  BY <1>0, FirstOp
<1> HIDE DEF ops
<1>5. KeysEnd(ops, n + 1)
  BY <1>2, <1>4, KeysFound, Zenon
<1>6. ops[1].ok /\ IsSmallInteger(ops[1].opcode) /\ Len(ops) >= n + 2 /\ IsSmallInteger(ops[n + 2].opcode)
  BY <1>3, Zenon DEF MultisigOps
<1> HIDE DEF n
<1>7. ops[1].pc = 1
  <2> DEFINE p == 0
             op == ops[1]
  <2>1. p \in Nat /\ op = GetScriptOp(s, p) /\ IsSmallInteger(op.opcode) /\ p + 1 = 1
    BY <1>4, <1>6
  <2> HIDE DEF p, op
  <2>2. op.pc = p + 1
    BY <2>1, SmallFirst
  <2> QED
    BY <2>1, <2>2 DEF op
<1>8. 1 \in 1..(Len(ops) - 1) /\ 2 \in 1..(Len(ops) - 1) /\ 3 \in 1..Len(ops) /\ 2 \in 2..(n + 1)
      /\ n + 2 \in 1..Len(ops) /\ 1 + 1 = 2 /\ 2 + 1 = 3 /\ (n = 1 \/ 3 \in 2..(n + 1)) /\ 1 + 2 = 3
  BY <1>0, <1>4, <1>6
<1> DEFINE a == ops[2]
           b == ops[3]
           q == a.pc
<1>9. a = GetScriptOp(s, 1) /\ b = GetScriptOp(s, q)
  <2>1. ops[1 + 1] = GetScriptOp(s, ops[1].pc) /\ ops[2 + 1] = GetScriptOp(s, ops[2].pc)
    BY <1>4, <1>8 DEF Trace
  <2> QED
    BY <1>7, <1>8, <2>1, Zenon
<1>10. a.ok /\ ValidSize(a.data)
  <2>1. IsKey(ops[2])
    BY <1>5, <1>8 DEF KeysEnd
  <2> QED
    BY <2>1, Zenon DEF IsKey
<1> HIDE DEF a
<1>11. q \in Nat
  <2>1. OpFacts(s, 1, a)
    BY <1>9, OpAlways
  <2> QED
    BY <2>1 DEF OpFacts
<1> HIDE DEF q, b
<1>12. q < Len(s)
  <2>1. CASE n = 1
    <3>1. IsSmallInteger(b.opcode)
      BY <1>6, <1>8, <2>1, Zenon DEF b
    <3> QED
      BY <1>9, <1>11, <3>1, SmallFirst
  <2>2. CASE n # 1
    <3>1. IsKey(ops[3])
      BY <1>5, <1>8, <2>2 DEF KeysEnd
    <3>2. b.ok
      BY <3>1 DEF IsKey, b
    <3>3. OpFacts(s, q, b)
      BY <1>9, <1>11, OpAlways
    <3> QED
      BY <3>2, <3>3 DEF OpFacts
  <2> QED
    BY <2>1, <2>2
<1> DEFINE k == Len(a.data)
           w == SizeBytes(s[1 + 1])
           o == 1
<1>13. k \in {33, 65}
  BY <1>10, KeySizes
<1>14. DataLies(s, o, w, k, a.data, q)
  <2>1. k \in Octets /\ k > 0 /\ o \in Nat /\ w = SizeBytes(s[o + 1]) /\ a = GetScriptOp(s, o)
    <3>1. o \in Nat /\ w = SizeBytes(s[o + 1]) /\ a = GetScriptOp(s, o)
      BY <1>9, Zenon
    <3> HIDE DEF k
    <3>2. k \in Octets /\ k > 0
      BY <1>13 DEF Octets
    <3> QED
      BY <3>1, <3>2
  <2>2. a.ok /\ Len(a.data) = k
    BY <1>10
  <2> HIDE DEF k
  <2>3. DataLies(s, o, SizeBytes(s[o + 1]), k, a.data, a.pc)
    <3> HIDE DEF o
    <3> QED
      BY <2>1, <2>2, DataThere
  <2> QED
    BY <2>1, <2>3 DEF q
<1>15. (w = 0 => s[2] = k) /\ q = 1 + 1 + w + k
  <2>1. Announces(s, o, w, k) /\ q = o + 1 + w + k
    BY <1>14, Zenon DEF DataLies
  <2> HIDE DEF w, k
  <2>2. w = 0 => s[o + 1] = k
    BY <2>1, Zenon DEF Announces
  <2> QED
    BY <1>8, <2>1, <2>2
<1>16. s[2] \in Nat /\ (w # 0 => s[2] >= 76)
  <2> DEFINE c == s[2]
  <2>1. c \in Octets
    <3>1. 2 \in 1..Len(s)
      BY <1>0, <1>13, <1>12, <1>15, SizeBytesIs
    <3> QED
      BY <3>1
  <2>2. w = SizeBytes(c)
    BY <1>8, Zenon
  <2> HIDE DEF c, w
  <2>3. c \in 0..(OP_PUSHDATA1 - 1) => w = 0
    BY <2>2, SizeBytesIs
  <2>4. OP_PUSHDATA1 = 76
    BY DEF OP_PUSHDATA1
  <2>5. c \in Nat /\ (w # 0 => c >= 76)
    BY <2>1, <2>3, <2>4 DEF Octets
  <2> QED
    BY <2>5 DEF c
<1> SUFFICES ASSUME IsWitnessProgram(s) PROVE FALSE
  OBVIOUS
<1>17. s[2] + 2 = L /\ L <= 42
  BY <1>0, Branches
<1> DEFINE c == s[2]
<1> HIDE DEF k, w, c
<1>18. c \in Nat /\ c + 2 = L /\ L <= 42 /\ (w # 0 => c >= 76) /\ (w = 0 => c = k) /\ q = 1 + 1 + w + k /\ q < L
  BY <1>12, <1>15, <1>16, <1>17 DEF c
<1> HIDE DEF L
<1>19. CASE w = 0
  <2>2. c = k /\ k + 2 = L /\ q = 1 + 1 + 0 + k
    BY <1>18, <1>19
  <2>3. k \in Nat
    BY <1>13
  <2>4. q = L
    BY <2>2, <2>3
  <2> QED
    BY <1>0, <1>18, <2>4
<1>20. CASE w # 0
  BY <1>0, <1>18, <1>20
<1> QED
  BY <1>19, <1>20

\* A multisig output.
LEMMA MultiSolved ==
    ASSUME NEW s \in Seq(Octets), NEW keys, NEW m, MofN(m, keys), MultiShape(s, m, keys)
    PROVE  Solver(s) = Solved("MULTISIG", SolOf(m, keys))
<1> DEFINE ops == Ops(s, 0)
           n == KeysIn(ops)
<1>1. MatchMultisig(s) /\ MultiOps(ops, m, keys)
  BY MultiRead
<1>2. MultiSol(ops, n) = SolOf(m, keys)
  <2>1. DecodeOP_N(ops[1].opcode) = m /\ n = Len(keys) /\ \A i \in 1..Len(keys) : ops[i + 1].data = keys[i]
    BY <1>1, Zenon DEF MultiOps
  <2> HIDE DEF ops, n
  <2>2. keys \in Seq(Seq(Octets))
    BY DEF MofN, KeyList
  <2>3. [i \in 1..n |-> ops[i + 1].data] = keys
    BY <2>1, <2>2
  <2> QED
    BY <2>1, <2>3, Zenon DEF MultiSol, SolOf
<1>3. Len(s) >= 1 /\ s[1] = 80 + m /\ m \in 1..16
  <2>1. Len(s) >= 3 /\ s[1] = 80 + m /\ m \in 1..Len(keys) /\ Len(keys) \in 1..16 /\ Len(s) \in Nat
    BY DEF MultiShape, MofN
  <2> DEFINE k == Len(keys)
  <2> HIDE DEF k
  <2>2. m \in 1..k /\ k \in 1..16
    BY <2>1 DEF k
  <2> QED
    BY <2>1, <2>2
<1>4. s[1] # 169 /\ s[1] # 106 /\ s[1] \notin {33, 65} /\ s[1] # 118
  <2> DEFINE a == s[1]
  <2>1. a = 80 + m
    BY <1>3
  <2> HIDE DEF a
  <2>2. a # 169 /\ a # 106 /\ a \notin {33, 65} /\ a # 118
    BY <1>3, <2>1
  <2> QED
    BY <2>2 DEF a
<1>5. /\ IsPayToScriptHash(s) => s[1] = 169
      /\ IsNullData(s) => s[1] = 106
      /\ MatchPayToPubkey(s) => s[1] \in {33, 65}
      /\ MatchPayToPubkeyHash(s) => s[1] = 118
  <2>1. Len(s) >= 1
    BY <1>3
  <2> QED
    BY <2>1, Branches
<1>6. OtherScript(s) /\ ~IsNullData(s) /\ ~MatchPayToPubkey(s) /\ ~MatchPayToPubkeyHash(s)
  BY <1>4, <1>5, MultiNoProgram, Zenon DEF OtherScript
<1>7. Solver(s) = Solved("MULTISIG", MultiSol(Ops(s, 0), KeysIn(Ops(s, 0))))
  BY <1>1, <1>6, SolverIs, Zenon DEF OtherGives
<1> QED
  BY <1>2, <1>7

-----------------------------------------------------------------------------
(* Templates *)

\* The data that a type takes, type by type.
PaysKey(sol, k)      == sol = <<k>> /\ k \in Seq(Octets) /\ ValidSize(k)
PaysHash(sol, k, n)  == sol = <<k>> /\ k \in Seq(Octets) /\ Len(k) = n
PaysProgram(sol, v, k) == sol = <<<<v>>, k>> /\ v \in 1..16 /\ k \in Seq(Octets) /\ Len(k) \in 2..40
PaysMulti(sol, m, keys) == sol = SolOf(m, keys) /\ MofN(m, keys)

Pays(type, sol) ==
    \/ type = "PUBKEY" /\ \E k : PaysKey(sol, k)
    \/ type \in {"PUBKEYHASH", "SCRIPTHASH", "WITNESS_V0_KEYHASH"} /\ \E k : PaysHash(sol, k, 20)
    \/ type = "WITNESS_V0_SCRIPTHASH" /\ \E k : PaysHash(sol, k, 32)
    \/ type = "WITNESS_UNKNOWN" /\ \E v, k : PaysProgram(sol, v, k)
    \/ type = "MULTISIG" /\ \E m, keys : PaysMulti(sol, m, keys)

\* A sequence of one item.
LEMMA OneItem ==
    ASSUME NEW D, NEW sol \in Seq(D), Len(sol) = 1
    PROVE  sol = <<sol[1]>> /\ sol[1] \in D
  OBVIOUS

\* A sequence of two.
LEMMA TwoItems ==
    ASSUME NEW D, NEW sol \in Seq(D), Len(sol) = 2
    PROVE  sol = <<sol[1], sol[2]>> /\ sol[1] \in D /\ sol[2] \in D
<1> DEFINE a == sol[1]
           b == sol[2]
           t == <<a, b>>
<1>1. a \in D /\ b \in D
  <2>1. 1 \in 1..Len(sol) /\ 2 \in 1..Len(sol)
    OBVIOUS
  <2> QED
    BY <2>1
<1> HIDE DEF a, b
<1>2. t \in Seq(D) /\ Len(t) = 2 /\ t[1] = a /\ t[2] = b
  BY <1>1
<1> HIDE DEF t
<1>3. \A i \in 1..2 : sol[i] = t[i]
  BY <1>2 DEF a, b
<1>4. sol = t
  BY <1>2, <1>3, SeqEqual
<1> QED
  BY <1>1, <1>4 DEF a, b, t

\* Data that is taken is what its type pays to.
LEMMA TakesPays == ASSUME NEW type, NEW sol, Takes(type, sol) PROVE Pays(type, sol)
<1> DEFINE D == Seq(Octets)
<1>0. sol \in Seq(D)
  BY DEF Takes, Octets
<1> DEFINE k == sol[1]
<1>1. CASE type = "PUBKEY"
  <2>1. Len(sol) = 1 /\ ValidSize(k)
    BY <1>1 DEF Takes
  <2> HIDE DEF D
  <2>2. sol = <<k>> /\ k \in D
    BY <1>0, <2>1, OneItem
  <2>3. PaysKey(sol, k)
    BY <2>1, <2>2 DEF PaysKey, D
  <2> HIDE DEF k
  <2> QED
    BY <1>1, <2>3 DEF Pays
<1>2. CASE type \in {"PUBKEYHASH", "SCRIPTHASH", "WITNESS_V0_KEYHASH"}
  <2>1. Len(sol) = 1 /\ Len(k) = 20
    BY <1>2 DEF Takes
  <2> HIDE DEF D
  <2>2. sol = <<k>> /\ k \in D
    BY <1>0, <2>1, OneItem
  <2>3. PaysHash(sol, k, 20)
    BY <2>1, <2>2 DEF PaysHash, D
  <2> HIDE DEF k
  <2> QED
    BY <1>2, <2>3 DEF Pays
<1>3. CASE type = "WITNESS_V0_SCRIPTHASH"
  <2>1. Len(sol) = 1 /\ Len(k) = 32
    BY <1>3 DEF Takes
  <2> HIDE DEF D
  <2>2. sol = <<k>> /\ k \in D
    BY <1>0, <2>1, OneItem
  <2>3. PaysHash(sol, k, 32)
    BY <2>1, <2>2 DEF PaysHash, D
  <2> HIDE DEF k
  <2> QED
    BY <1>3, <2>3 DEF Pays
<1>4. CASE type = "WITNESS_UNKNOWN"
  <2> DEFINE v == k[1]
             p == sol[2]
  <2>1. Len(sol) = 2 /\ Len(k) = 1 /\ v \in 1..16 /\ Len(p) \in 2..40
    BY <1>4 DEF Takes
  <2> HIDE DEF D
  <2>2. sol = <<k, p>> /\ k \in D /\ p \in D
    BY <1>0, <2>1, TwoItems
  <2>3. k = <<v>>
    <3>1. k \in Seq(Octets)
      BY <2>2 DEF D
    <3> HIDE DEF k
    <3> QED
      BY <2>1, <3>1, OneItem
  <2>4. PaysProgram(sol, v, p)
    BY <2>1, <2>2, <2>3, Zenon DEF PaysProgram, D
  <2> HIDE DEF v, p
  <2> QED
    BY <1>4, <2>4 DEF Pays
<1>5. CASE type = "MULTISIG"
  <2>1. \E keys, m : MofN(m, keys) /\ sol = SolOf(m, keys)
    BY <1>5, MultiTaken
  <2> QED
    BY <1>5, <2>1, Zenon DEF Pays, PaysMulti
<1>6. \/ type = "PUBKEY" \/ type \in {"PUBKEYHASH", "SCRIPTHASH", "WITNESS_V0_KEYHASH"}
      \/ type = "WITNESS_V0_SCRIPTHASH" \/ type = "WITNESS_UNKNOWN" \/ type = "MULTISIG"
  BY DEF Takes
<1> QED
  BY <1>1, <1>2, <1>3, <1>4, <1>5, <1>6

\* What a type pays to is taken.
LEMMA PaysTakes == ASSUME NEW type, NEW sol, Pays(type, sol) PROVE Takes(type, sol)
<1>1. CASE type = "PUBKEY" /\ \E k : PaysKey(sol, k)
  <2>1. PICK k : PaysKey(sol, k)
    BY <1>1
  <2>2. sol = <<k>> /\ k \in Seq(0..255) /\ ValidSize(k)
    BY <2>1 DEF PaysKey, Octets
  <2>3. sol \in Seq(Seq(0..255)) /\ Len(sol) = 1 /\ sol[1] = k
    BY <2>2
  <2> QED
    BY <1>1, <2>2, <2>3 DEF Takes
<1>2. CASE type \in {"PUBKEYHASH", "SCRIPTHASH", "WITNESS_V0_KEYHASH"} /\ \E k : PaysHash(sol, k, 20)
  <2>1. PICK k : PaysHash(sol, k, 20)
    BY <1>2
  <2>2. sol = <<k>> /\ k \in Seq(0..255) /\ Len(k) = 20
    BY <2>1 DEF PaysHash, Octets
  <2>3. sol \in Seq(Seq(0..255)) /\ Len(sol) = 1 /\ sol[1] = k
    BY <2>2
  <2> QED
    BY <1>2, <2>2, <2>3 DEF Takes
<1>3. CASE type = "WITNESS_V0_SCRIPTHASH" /\ \E k : PaysHash(sol, k, 32)
  <2>1. PICK k : PaysHash(sol, k, 32)
    BY <1>3
  <2>2. sol = <<k>> /\ k \in Seq(0..255) /\ Len(k) = 32
    BY <2>1 DEF PaysHash, Octets
  <2>3. sol \in Seq(Seq(0..255)) /\ Len(sol) = 1 /\ sol[1] = k
    BY <2>2
  <2> QED
    BY <1>3, <2>2, <2>3 DEF Takes
<1>4. CASE type = "WITNESS_UNKNOWN" /\ \E v, k : PaysProgram(sol, v, k)
  <2>1. PICK v, k : PaysProgram(sol, v, k)
    BY <1>4
  <2>2. sol = <<<<v>>, k>> /\ k \in Seq(0..255) /\ Len(k) \in 2..40 /\ v \in 1..16
    BY <2>1 DEF PaysProgram, Octets
  <2> DEFINE u == <<v>>
  <2>3. u \in Seq(0..255) /\ Len(u) = 1 /\ u[1] = v
    BY <2>2
  <2> HIDE DEF u
  <2>4. sol = <<u, k>>
    BY <2>2 DEF u
  <2>5. sol \in Seq(Seq(0..255)) /\ Len(sol) = 2 /\ sol[1] = u /\ sol[2] = k
    BY <2>2, <2>3, <2>4
  <2> QED
    BY <1>4, <2>2, <2>3, <2>5 DEF Takes
<1>5. CASE type = "MULTISIG" /\ \E m, keys : PaysMulti(sol, m, keys)
  <2>1. PICK m, keys : PaysMulti(sol, m, keys)
    BY <1>5
  <2>2. sol = SolOf(m, keys) /\ MofN(m, keys)
    BY <2>1 DEF PaysMulti
  <2> QED
    BY <1>5, <2>2, MultiTemplates
<1> QED
  BY <1>1, <1>2, <1>3, <1>4, <1>5, Zenon DEF Pays

\* The templates, type by type.
LEMMA TemplatesAre ==
    ASSUME NEW s, NEW sol
    PROVE  /\ s \in Templates("PUBKEY", sol) <=> s = <<Len(sol[1])>> \o sol[1] \o <<OP_CHECKSIG>>
           /\ s \in Templates("PUBKEYHASH", sol) <=>
                s = <<OP_DUP, OP_HASH160, 20>> \o sol[1] \o <<OP_EQUALVERIFY, OP_CHECKSIG>>
           /\ s \in Templates("SCRIPTHASH", sol) <=> s = <<OP_HASH160, 20>> \o sol[1] \o <<OP_EQUAL>>
           /\ s \in Templates("WITNESS_V0_KEYHASH", sol) <=> s = <<OP_0, Len(sol[1])>> \o sol[1]
           /\ s \in Templates("WITNESS_V0_SCRIPTHASH", sol) <=> s = <<OP_0, Len(sol[1])>> \o sol[1]
           /\ s \in Templates("WITNESS_UNKNOWN", sol) <=>
                s = <<EncodeOP_N(sol[1][1]), Len(sol[2])>> \o sol[2]
  BY DEF Templates

\* What a script of a type and data looks like.
Looks(s, type, sol) ==
    \/ type = "PUBKEY" /\ \E k : PaysKey(sol, k) /\ PubkeyShape(s, k)
    \/ type = "PUBKEYHASH" /\ \E k : PaysHash(sol, k, 20) /\ PubkeyHashShape(s, k)
    \/ type = "SCRIPTHASH" /\ \E k : PaysHash(sol, k, 20) /\ ScriptHashShape(s, k)
    \/ type = "WITNESS_V0_KEYHASH" /\ \E k : PaysHash(sol, k, 20) /\ ProgramShape(s, 0, k)
    \/ type = "WITNESS_V0_SCRIPTHASH" /\ \E k : PaysHash(sol, k, 32) /\ ProgramShape(s, 0, k)
    \/ type = "WITNESS_UNKNOWN" /\ \E v, k : PaysProgram(sol, v, k) /\ ProgramShape(s, 80 + v, k)
    \/ type = "MULTISIG" /\ \E m, keys : PaysMulti(sol, m, keys) /\ MultiShape(s, m, keys)

\* The shape of a script that pays to a key.
LEMMA KeyShape ==
    ASSUME NEW s \in Seq(Octets), NEW sol, NEW k, PaysKey(sol, k)
    PROVE  s \in Templates("PUBKEY", sol) <=> PubkeyShape(s, k)
<1>1. sol[1] = k /\ k \in Seq(Octets) /\ Len(k) \in Octets
  <2>1. sol = <<k>> /\ k \in Seq(Octets) /\ Len(k) \in {33, 65}
    BY KeySizes DEF PaysKey
  <2> QED
    BY <2>1 DEF Octets
<1> DEFINE n == Len(k)
<1>2. n \in Octets /\ n = Len(k)
  BY <1>1
<1> HIDE DEF n
<1>3. s = <<Len(k)>> \o k \o <<OP_CHECKSIG>> <=> PubkeyShape(s, k)
  BY <1>1, <1>2, PubkeyShapes
<1>4. s \in Templates("PUBKEY", sol) <=> s = <<Len(k)>> \o k \o <<OP_CHECKSIG>>
  BY <1>1, TemplatesAre
<1> QED
  BY <1>3, <1>4, Zenon

\* The shape of one that pays to a hash.
LEMMA HashShape ==
    ASSUME NEW s \in Seq(Octets), NEW sol, NEW n \in {20, 32}, NEW k, PaysHash(sol, k, n)
    PROVE  /\ n = 20 => (s \in Templates("PUBKEYHASH", sol) <=> PubkeyHashShape(s, k))
           /\ n = 20 => (s \in Templates("SCRIPTHASH", sol) <=> ScriptHashShape(s, k))
           /\ n = 20 => (s \in Templates("WITNESS_V0_KEYHASH", sol) <=> ProgramShape(s, 0, k))
           /\ n = 32 => (s \in Templates("WITNESS_V0_SCRIPTHASH", sol) <=> ProgramShape(s, 0, k))
<1>1. sol[1] = k /\ k \in Seq(Octets) /\ Len(k) = n /\ n \in Octets
  BY DEF PaysHash, Octets
<1> DEFINE z == 0
<1>2. z \in Octets /\ z = OP_0
  BY OpCodes DEF Octets
<1> HIDE DEF z
<1>3. s = <<z, Len(k)>> \o k <=> ProgramShape(s, z, k)
  <2>1. n = Len(k)
    BY <1>1
  <2> QED
    BY <1>1, <1>2, <2>1, ProgramShapes
<1>4. s = <<OP_0, Len(k)>> \o k <=> ProgramShape(s, 0, k)
  BY <1>2, <1>3 DEF z
<1>5. n = 20 => (s = <<OP_DUP, OP_HASH160, 20>> \o k \o <<OP_EQUALVERIFY, OP_CHECKSIG>> <=> PubkeyHashShape(s, k))
  BY <1>1, PubkeyHashShapes
<1>6. n = 20 => (s = <<OP_HASH160, 20>> \o k \o <<OP_EQUAL>> <=> ScriptHashShape(s, k))
  BY <1>1, ScriptHashShapes
<1>7. /\ s \in Templates("PUBKEYHASH", sol) <=>
           s = <<OP_DUP, OP_HASH160, 20>> \o k \o <<OP_EQUALVERIFY, OP_CHECKSIG>>
      /\ s \in Templates("SCRIPTHASH", sol) <=> s = <<OP_HASH160, 20>> \o k \o <<OP_EQUAL>>
      /\ s \in Templates("WITNESS_V0_KEYHASH", sol) <=> s = <<OP_0, Len(k)>> \o k
      /\ s \in Templates("WITNESS_V0_SCRIPTHASH", sol) <=> s = <<OP_0, Len(k)>> \o k
  BY <1>1, TemplatesAre
<1> QED
  BY <1>4, <1>5, <1>6, <1>7, Zenon

\* The shape of a witness program of a later version.
LEMMA UnknownShape ==
    ASSUME NEW s \in Seq(Octets), NEW sol, NEW v, NEW k, PaysProgram(sol, v, k)
    PROVE  s \in Templates("WITNESS_UNKNOWN", sol) <=> ProgramShape(s, 80 + v, k)
<1>1. sol[1] = <<v>> /\ sol[2] = k /\ k \in Seq(Octets) /\ v \in 1..16 /\ Len(k) \in 2..40
  BY DEF PaysProgram
<1>2. sol[1][1] = v
  BY <1>1
<1> DEFINE c == 80 + v
           n == Len(k)
<1>3. c \in Octets /\ EncodeOP_N(v) = c
  <2>1. v \in 1..16
    BY <1>1
  <2>2. EncodeOP_N(v) = 80 + v
    BY <2>1, SmallOps
  <2>3. 80 + v \in 0..255
    BY <2>1
  <2> QED
    BY <2>2, <2>3 DEF Octets
<1>4. n \in Octets /\ n = Len(k)
  <2>1. n \in 2..40
    BY <1>1
  <2> HIDE DEF n
  <2>2. n \in Octets
    BY <2>1 DEF Octets
  <2> QED
    BY <2>2 DEF n
<1> HIDE DEF n, c
<1>5. s = <<c, Len(k)>> \o k <=> ProgramShape(s, c, k)
  BY <1>1, <1>3, <1>4, ProgramShapes
<1>6. s \in Templates("WITNESS_UNKNOWN", sol) <=> s = <<EncodeOP_N(v), Len(k)>> \o k
  <2>1. s \in Templates("WITNESS_UNKNOWN", sol) <=>
                s = <<EncodeOP_N(sol[1][1]), Len(sol[2])>> \o sol[2]
    BY TemplatesAre
  <2> QED
    BY <1>1, <1>2, <2>1, Zenon
<1> QED
  BY <1>3, <1>5, <1>6, Zenon DEF c

\* The shape of a multisig script.
LEMMA MultiFits ==
    ASSUME NEW s \in Seq(Octets), NEW sol, NEW m, NEW keys, PaysMulti(sol, m, keys)
    PROVE  s \in Templates("MULTISIG", sol) <=> MultiShape(s, m, keys)
<1>1. sol = SolOf(m, keys) /\ MofN(m, keys)
  BY DEF PaysMulti
<1>2. Templates("MULTISIG", sol) = MultiScripts(m, keys)
  BY <1>1, MultiTemplates
<1> QED
  BY <1>1, <1>2, MultiShapes

\* A script that fits a template looks so, and one that looks so fits.
LEMMA FitsLooks ==
    ASSUME NEW s \in Seq(Octets), NEW type, NEW sol
    PROVE  Takes(type, sol) /\ s \in Templates(type, sol) <=> Looks(s, type, sol)
<1>h. 20 \in {20, 32} /\ 32 \in {20, 32} /\ 20 = 20 /\ 32 = 32
  OBVIOUS
<1>1. ASSUME Takes(type, sol), s \in Templates(type, sol) PROVE Looks(s, type, sol)
  <2>1. Pays(type, sol)
    BY <1>1, TakesPays
  <2>2. CASE type = "PUBKEY" /\ \E k : PaysKey(sol, k)
    <3>1. PICK k : PaysKey(sol, k)
      BY <2>2
    <3>2. PubkeyShape(s, k)
      BY <1>1, <2>2, <3>1, KeyShape
    <3> QED
      BY <2>2, <3>1, <3>2, Zenon DEF Looks
  <2>3. CASE type \in {"PUBKEYHASH", "SCRIPTHASH", "WITNESS_V0_KEYHASH"} /\ \E k : PaysHash(sol, k, 20)
    <3>1. PICK k : PaysHash(sol, k, 20)
      BY <2>3
    <3>2. /\ s \in Templates("PUBKEYHASH", sol) <=> PubkeyHashShape(s, k)
          /\ s \in Templates("SCRIPTHASH", sol) <=> ScriptHashShape(s, k)
          /\ s \in Templates("WITNESS_V0_KEYHASH", sol) <=> ProgramShape(s, 0, k)
      BY <1>h, <3>1, HashShape
    <3> QED
      BY <1>1, <2>3, <3>1, <3>2, Zenon DEF Looks
  <2>4. CASE type = "WITNESS_V0_SCRIPTHASH" /\ \E k : PaysHash(sol, k, 32)
    <3>1. PICK k : PaysHash(sol, k, 32)
      BY <2>4
    <3>2. s \in Templates("WITNESS_V0_SCRIPTHASH", sol) <=> ProgramShape(s, 0, k)
      BY <1>h, <3>1, HashShape
    <3> QED
      BY <1>1, <2>4, <3>1, <3>2, Zenon DEF Looks
  <2>5. CASE type = "WITNESS_UNKNOWN" /\ \E v, k : PaysProgram(sol, v, k)
    <3>1. PICK v, k : PaysProgram(sol, v, k)
      BY <2>5
    <3>2. ProgramShape(s, 80 + v, k)
      BY <1>1, <2>5, <3>1, UnknownShape
    <3> QED
      BY <2>5, <3>1, <3>2, Zenon DEF Looks
  <2>6. CASE type = "MULTISIG" /\ \E m, keys : PaysMulti(sol, m, keys)
    <3>1. PICK m, keys : PaysMulti(sol, m, keys)
      BY <2>6
    <3>2. MultiShape(s, m, keys)
      BY <1>1, <2>6, <3>1, MultiFits
    <3> QED
      BY <2>6, <3>1, <3>2, Zenon DEF Looks
  <2> QED
    BY <2>1, <2>2, <2>3, <2>4, <2>5, <2>6, Zenon DEF Pays
<1>2. ASSUME Looks(s, type, sol) PROVE Takes(type, sol) /\ s \in Templates(type, sol)
  <2>1. Pays(type, sol)
    BY <1>2 DEF Looks, Pays
  <2> SUFFICES s \in Templates(type, sol)
    BY <2>1, PaysTakes
  <2>2. CASE type = "PUBKEY" /\ \E k : PaysKey(sol, k) /\ PubkeyShape(s, k)
    BY <2>2, KeyShape
  <2>3. CASE type = "PUBKEYHASH" /\ \E k : PaysHash(sol, k, 20) /\ PubkeyHashShape(s, k)
    BY <1>h, <2>3, HashShape
  <2>4. CASE type = "SCRIPTHASH" /\ \E k : PaysHash(sol, k, 20) /\ ScriptHashShape(s, k)
    BY <1>h, <2>4, HashShape
  <2>5. CASE type = "WITNESS_V0_KEYHASH" /\ \E k : PaysHash(sol, k, 20) /\ ProgramShape(s, 0, k)
    BY <1>h, <2>5, HashShape
  <2>6. CASE type = "WITNESS_V0_SCRIPTHASH" /\ \E k : PaysHash(sol, k, 32) /\ ProgramShape(s, 0, k)
    BY <1>h, <2>6, HashShape
  <2>7. CASE type = "WITNESS_UNKNOWN" /\ \E v, k : PaysProgram(sol, v, k) /\ ProgramShape(s, 80 + v, k)
    BY <2>7, UnknownShape
  <2>8. CASE type = "MULTISIG" /\ \E m, keys : PaysMulti(sol, m, keys) /\ MultiShape(s, m, keys)
    BY <2>8, MultiFits
  <2> QED
    BY <1>2, <2>2, <2>3, <2>4, <2>5, <2>6, <2>7, <2>8, Zenon DEF Looks
<1> QED
  BY <1>1, <1>2

\* A script that looks like a type's is read as that.
LEMMA LooksSolved ==
    ASSUME NEW s \in Seq(Octets), NEW type, NEW sol, Looks(s, type, sol)
    PROVE  Solver(s) = Solved(type, sol)
<1>1. CASE type = "PUBKEY" /\ \E k : PaysKey(sol, k) /\ PubkeyShape(s, k)
  <2>1. PICK k : PaysKey(sol, k) /\ PubkeyShape(s, k)
    BY <1>1
  <2>2. sol = <<k>> /\ k \in Seq(Octets) /\ ValidSize(k)
    BY <2>1 DEF PaysKey
  <2> QED
    BY <1>1, <2>1, <2>2, PubkeyRead
<1>2. CASE type = "PUBKEYHASH" /\ \E k : PaysHash(sol, k, 20) /\ PubkeyHashShape(s, k)
  <2>1. PICK k : PaysHash(sol, k, 20) /\ PubkeyHashShape(s, k)
    BY <1>2
  <2>2. sol = <<k>>
    BY <2>1 DEF PaysHash
  <2> QED
    BY <1>2, <2>1, <2>2, PubkeyHashRead
<1>3. CASE type = "SCRIPTHASH" /\ \E k : PaysHash(sol, k, 20) /\ ScriptHashShape(s, k)
  <2>1. PICK k : PaysHash(sol, k, 20) /\ ScriptHashShape(s, k)
    BY <1>3
  <2>2. sol = <<k>>
    BY <2>1 DEF PaysHash
  <2> QED
    BY <1>3, <2>1, <2>2, ScriptHashRead
<1>4. CASE type = "WITNESS_V0_KEYHASH" /\ \E k : PaysHash(sol, k, 20) /\ ProgramShape(s, 0, k)
  <2>1. PICK k : PaysHash(sol, k, 20) /\ ProgramShape(s, 0, k)
    BY <1>4
  <2>2. sol = <<k>> /\ k \in Seq(Octets) /\ Len(k) = 20 /\ Len(k) \in 2..40
    BY <2>1 DEF PaysHash
  <2> DEFINE c == 0
  <2>3. (c = 0 \/ c \in 81..96) /\ ProgramShape(s, c, k) /\ DecodeOP_N(c) = 0
    BY <2>1 DEF DecodeOP_N, OP_0
  <2> HIDE DEF c
  <2>4. WitnessGives(DecodeOP_N(c), k, Solver(s))
    BY <2>2, <2>3, ProgramRead
  <2>5. Solver(s) = Solved("WITNESS_V0_KEYHASH", <<k>>)
    BY <2>2, <2>3, <2>4, Zenon DEF WitnessGives
  <2> QED
    BY <1>4, <2>2, <2>5
<1>5. CASE type = "WITNESS_V0_SCRIPTHASH" /\ \E k : PaysHash(sol, k, 32) /\ ProgramShape(s, 0, k)
  <2>1. PICK k : PaysHash(sol, k, 32) /\ ProgramShape(s, 0, k)
    BY <1>5
  <2>2. sol = <<k>> /\ k \in Seq(Octets) /\ Len(k) = 32 /\ Len(k) \in 2..40
    BY <2>1 DEF PaysHash
  <2> DEFINE c == 0
  <2>3. (c = 0 \/ c \in 81..96) /\ ProgramShape(s, c, k) /\ DecodeOP_N(c) = 0
    BY <2>1 DEF DecodeOP_N, OP_0
  <2> HIDE DEF c
  <2>4. WitnessGives(DecodeOP_N(c), k, Solver(s))
    BY <2>2, <2>3, ProgramRead
  <2>5. Solver(s) = Solved("WITNESS_V0_SCRIPTHASH", <<k>>)
    BY <2>2, <2>3, <2>4, Zenon DEF WitnessGives
  <2> QED
    BY <1>5, <2>2, <2>5
<1>6. CASE type = "WITNESS_UNKNOWN" /\ \E v, k : PaysProgram(sol, v, k) /\ ProgramShape(s, 80 + v, k)
  <2>1. PICK v, k : PaysProgram(sol, v, k) /\ ProgramShape(s, 80 + v, k)
    BY <1>6
  <2>2. sol = <<<<v>>, k>> /\ k \in Seq(Octets) /\ v \in 1..16 /\ Len(k) \in 2..40
    BY <2>1 DEF PaysProgram
  <2> DEFINE c == 80 + v
  <2>3. (c = 0 \/ c \in 81..96) /\ v # 0
    BY <2>2
  <2>4. ProgramShape(s, c, k) /\ DecodeOP_N(c) = v
    BY <2>1, <2>2, SmallOps
  <2> HIDE DEF c
  <2>5. WitnessGives(DecodeOP_N(c), k, Solver(s))
    BY <2>2, <2>3, <2>4, ProgramRead
  <2>6. Solver(s) = Solved("WITNESS_UNKNOWN", <<<<v>>, k>>)
    BY <2>3, <2>4, <2>5, Zenon DEF WitnessGives
  <2> QED
    BY <1>6, <2>2, <2>6
<1>7. CASE type = "MULTISIG" /\ \E m, keys : PaysMulti(sol, m, keys) /\ MultiShape(s, m, keys)
  <2>1. PICK m, keys : PaysMulti(sol, m, keys) /\ MultiShape(s, m, keys)
    BY <1>7
  <2>2. sol = SolOf(m, keys) /\ MofN(m, keys)
    BY <2>1 DEF PaysMulti
  <2> QED
    BY <1>7, <2>1, <2>2, MultiSolved
<1> QED
  BY <1>1, <1>2, <1>3, <1>4, <1>5, <1>6, <1>7, Zenon DEF Looks

Unread == {"NONSTANDARD", "NULL_DATA"}

\* A witness program is one of a type.
LEMMA ProgramLooks ==
    ASSUME NEW s \in Seq(Octets), ~IsPayToScriptHash(s), IsWitnessProgram(s), NEW w, w = Solver(s)
    PROVE  w.type \in Unread \/ Looks(s, w.type, w.sol)
<1> DEFINE c == s[1]
           L == Len(s)
           k == Slice(s, 2, L)
           v == DecodeOP_N(c)
           n == L - 2
<1>0. L \in Nat
  OBVIOUS
<1>1. L >= 4 /\ L <= 42 /\ (c = 0 \/ IsSmallInteger(c)) /\ s[2] + 2 = L /\ Byte(s, 0) = c
  <2>1. Byte(s, 0) = s[1] /\ Byte(s, 1) = s[2]
    BY DEF Byte
  <2> QED
    BY <2>1, OpCodes, Zenon DEF IsWitnessProgram
<1>2. WitnessGives(v, k, w)
  <2>1. ProgramGives(s, w)
    BY SolverIs
  <2> QED
    BY <1>1, <2>1, Zenon DEF ProgramGives
<1>3. c \in Octets /\ s[2] \in Octets
  <2>1. 1 \in 1..Len(s) /\ 2 \in 1..Len(s)
    BY <1>0, <1>1
  <2> QED
    BY <2>1
<1> HIDE DEF L, k, n, c
<1>4. n \in 2..40 /\ n \in Nat /\ 2 + n = L /\ n + 2 = L /\ s[2] = n
  <2>1. s[2] \in 0..255
    BY <1>3 DEF Octets
  <2> DEFINE x == s[2]
  <2>2. x \in 0..255 /\ x + 2 = L
    BY <1>1, <2>1
  <2> HIDE DEF x
  <2>3. n \in 2..40 /\ n \in Nat /\ 2 + n = L /\ n + 2 = L /\ x = n
    BY <1>0, <1>1, <2>2 DEF n
  <2> QED
    BY <2>3 DEF x
<1>5. k \in Seq(Octets) /\ Len(k) = n
  <2>1. Piece(Octets, s, 2, n, SubSeq(s, 2 + 1, 2 + n))
    BY <1>4, SubPiece DEF L
  <2>2. SubSeq(s, 2 + 1, 2 + n) = k
    BY <1>4, Zenon DEF k, Slice
  <2> QED
    BY <2>1, <2>2 DEF Piece
<1>6. ProgramShape(s, c, k)
  <2>1. 2 + 1 = 3 /\ n + 2 = L
    BY <1>4
  <2>2. SubSeq(s, 3, n + 2) = k
    BY <2>1, Zenon DEF k, Slice
  <2> QED
    BY <1>4, <1>5, <2>2, Zenon DEF ProgramShape, L, c
<1>7. CASE c = 0
  <2>1. v = 0
    BY <1>7 DEF DecodeOP_N, OP_0
  <2>2. CASE n = 20
    <3>1. w = Solved("WITNESS_V0_KEYHASH", <<k>>)
      BY <1>2, <1>5, <2>1, <2>2, Zenon DEF WitnessGives
    <3> DEFINE u == <<k>>
    <3>2. PaysHash(u, k, 20)
      BY <1>5, <2>2 DEF PaysHash
    <3> HIDE DEF u
    <3>3. w.type = "WITNESS_V0_KEYHASH" /\ w.sol = u
      BY <3>1 DEF Solved, u
    <3> QED
      BY <1>6, <1>7, <3>2, <3>3 DEF Looks
  <2>3. CASE n = 32
    <3>1. 32 # 20
      OBVIOUS
    <3>2. w = Solved("WITNESS_V0_SCRIPTHASH", <<k>>)
      BY <1>2, <1>5, <2>1, <2>3, Zenon DEF WitnessGives
    <3> DEFINE u == <<k>>
    <3>3. PaysHash(u, k, 32)
      BY <1>5, <2>3 DEF PaysHash
    <3> HIDE DEF u
    <3>4. w.type = "WITNESS_V0_SCRIPTHASH" /\ w.sol = u
      BY <3>2 DEF Solved, u
    <3> QED
      BY <1>6, <1>7, <3>3, <3>4 DEF Looks
  <2>4. CASE n # 20 /\ n # 32
    <3>1. w = Nonstandard
      BY <1>2, <1>5, <2>1, <2>4, Zenon DEF WitnessGives
    <3> QED
      BY <3>1 DEF Nonstandard, Solved, Unread
  <2> QED
    BY <2>2, <2>3, <2>4
<1>8. CASE IsSmallInteger(c)
  <2>1. v \in 1..16 /\ c = 80 + v
    BY <1>3, <1>8, SmallOps
  <2> HIDE DEF v
  <2>2. v # 0
    BY <2>1
  <2>3. w = Solved("WITNESS_UNKNOWN", <<<<v>>, k>>)
    BY <1>2, <2>2, Zenon DEF WitnessGives
  <2> DEFINE u == <<<<v>>, k>>
  <2>4. PaysProgram(u, v, k)
    BY <1>4, <1>5, <2>1 DEF PaysProgram
  <2> HIDE DEF u
  <2>5. w.type = "WITNESS_UNKNOWN" /\ w.sol = u
    BY <2>3 DEF Solved, u
  <2>6. ProgramShape(s, 80 + v, k)
    BY <1>6, <2>1
  <2> QED
    BY <2>4, <2>5, <2>6 DEF Looks
<1> QED
  BY <1>1, <1>7, <1>8

\* A script that matches the hash of a script looks like one.
LEMMA ScriptHashLooks ==
    ASSUME NEW s \in Seq(Octets), IsPayToScriptHash(s), NEW w, w = Solver(s)
    PROVE  Looks(s, w.type, w.sol)
<1> DEFINE k == SubSeq(s, 3, 22)
<1>1. w = Solved("SCRIPTHASH", <<k>>)
  <2>1. Slice(s, 2, 22) = k
    BY DEF Slice
  <2> QED
    BY <2>1, SolverIs, Zenon DEF ScriptHashGives
<1>2. Len(s) = 23 /\ s[1] = OP_HASH160 /\ s[2] = 20 /\ s[23] = OP_EQUAL
  BY ScriptHashMatch
<1>3. k \in Seq(Octets) /\ Len(k) = 20
  <2>1. 2 \in Nat /\ 20 \in Nat /\ 2 + 20 <= Len(s) /\ 2 + 1 = 3 /\ 2 + 20 = 22
    BY <1>2
  <2>2. Piece(Octets, s, 2, 20, SubSeq(s, 2 + 1, 2 + 20))
    <3> DEFINE a == 2
               n == 20
    <3>1. a \in Nat /\ n \in Nat /\ a + n <= Len(s)
      BY <2>1
    <3> HIDE DEF a, n
    <3>2. Piece(Octets, s, a, n, SubSeq(s, a + 1, a + n))
      BY <3>1, SubPiece
    <3> QED
      BY <3>2 DEF a, n
  <2> QED
    BY <2>1, <2>2, Zenon DEF Piece
<1>4. ScriptHashShape(s, k)
  BY <1>2, Zenon DEF ScriptHashShape
<1> HIDE DEF k
<1> DEFINE u == <<k>>
<1>5. PaysHash(u, k, 20)
  BY <1>3 DEF PaysHash
<1> HIDE DEF u
<1>6. w.type = "SCRIPTHASH" /\ w.sol = u
  BY <1>1 DEF Solved, u
<1> QED
  BY <1>4, <1>5, <1>6 DEF Looks

\* A script that matches a key.
LEMMA PubkeyLooks ==
    ASSUME NEW s \in Seq(Octets), MatchPayToPubkey(s), NEW w, w = Solved("PUBKEY", <<PubkeyOf(s)>>)
    PROVE  Looks(s, w.type, w.sol)
<1> DEFINE L == Len(s)
           k == PubkeyOf(s)
           n == L - 2
<1>1. L \in {67, 35} /\ s[1] = n /\ s[L] = OP_CHECKSIG /\ ValidSize(k)
  BY DEF MatchPayToPubkey, PUBLIC_KEY_SIZE, COMPRESSED_PUBLIC_KEY_SIZE, Byte, Back
<1> HIDE DEF k
<1>2. n \in Nat /\ 1 + n = L - 1 /\ n + 1 = L - 1 /\ n + 2 = L /\ 1 + n <= L /\ 1 + 1 = 2 /\ 1 \in Nat
  <2>1. \A x : x \in {67, 35} => /\ x - 2 \in Nat /\ 1 + (x - 2) = x - 1 /\ (x - 2) + 1 = x - 1
                                 /\ (x - 2) + 2 = x /\ 1 + (x - 2) <= x
    OBVIOUS
  <2>2. 1 + 1 = 2 /\ 1 \in Nat
    OBVIOUS
  <2> QED
    BY <1>1, <2>1, <2>2, Zenon
<1> HIDE DEF n, L
<1>3. SubSeq(s, 1 + 1, 1 + n) = k
  BY <1>2, Zenon DEF k, PubkeyOf, Slice, L
<1>4. Piece(Octets, s, 1, n, SubSeq(s, 1 + 1, 1 + n))
  <2> DEFINE a == 1
  <2>1. a \in Nat /\ n \in Nat /\ a + n <= Len(s)
    BY <1>2 DEF L
  <2> HIDE DEF a
  <2>2. Piece(Octets, s, a, n, SubSeq(s, a + 1, a + n))
    BY <2>1, SubPiece
  <2> QED
    BY <2>2 DEF a
<1>5. k \in Seq(Octets) /\ Len(k) = n
  BY <1>3, <1>4, Zenon DEF Piece
<1>6. PubkeyShape(s, k)
  BY <1>1, <1>2, <1>3, <1>5, Zenon DEF PubkeyShape, L
<1> DEFINE u == <<k>>
<1>7. PaysKey(u, k)
  BY <1>1, <1>5 DEF PaysKey
<1>8. w.type = "PUBKEY" /\ w.sol = u
  BY DEF Solved, k
<1> HIDE DEF u
<1> QED
  BY <1>6, <1>7, <1>8 DEF Looks

\* A script that matches the hash of a key.
LEMMA PubkeyHashLooks ==
    ASSUME NEW s \in Seq(Octets), MatchPayToPubkeyHash(s), NEW w, w = Solved("PUBKEYHASH", <<Slice(s, 3, 23)>>)
    PROVE  Looks(s, w.type, w.sol)
<1> DEFINE k == SubSeq(s, 4, 23)
<1>1. w = Solved("PUBKEYHASH", <<k>>)
  <2>1. Slice(s, 3, 23) = k
    BY DEF Slice
  <2> QED
    BY <2>1
<1>2. Len(s) = 25 /\ s[1] = OP_DUP /\ s[2] = OP_HASH160 /\ s[3] = 20 /\ s[24] = OP_EQUALVERIFY /\ s[25] = OP_CHECKSIG
  BY PubkeyHashMatch
<1>3. k \in Seq(Octets) /\ Len(k) = 20
  <2> DEFINE a == 3
             n == 20
  <2>1. a \in Nat /\ n \in Nat /\ a + n <= Len(s) /\ a + 1 = 4 /\ a + n = 23
    BY <1>2
  <2> HIDE DEF a, n
  <2>2. Piece(Octets, s, a, n, SubSeq(s, a + 1, a + n))
    BY <2>1, SubPiece
  <2> QED
    BY <2>1, <2>2, Zenon DEF Piece, n
<1>4. PubkeyHashShape(s, k)
  BY <1>2, Zenon DEF PubkeyHashShape
<1> HIDE DEF k
<1> DEFINE u == <<k>>
<1>5. PaysHash(u, k, 20)
  BY <1>3 DEF PaysHash
<1> HIDE DEF u
<1>6. w.type = "PUBKEYHASH" /\ w.sol = u
  BY <1>1 DEF Solved, u
<1> QED
  BY <1>4, <1>5, <1>6 DEF Looks

\* A script that matches keys.
LEMMA MultiLooks ==
    ASSUME NEW s \in Seq(Octets), MatchMultisig(s), NEW w,
           w = Solved("MULTISIG", MultiSol(Ops(s, 0), KeysIn(Ops(s, 0))))
    PROVE  Looks(s, w.type, w.sol)
<1> DEFINE ops == Ops(s, 0)
           n == KeysIn(ops)
<1>1. PICK keys, m : MofN(m, keys) /\ MultiShape(s, m, keys) /\ MultiOps(ops, m, keys)
  BY MultiKnown
<1>2. MultiSol(ops, n) = SolOf(m, keys)
  <2>1. DecodeOP_N(ops[1].opcode) = m /\ n = Len(keys) /\ \A i \in 1..Len(keys) : ops[i + 1].data = keys[i]
    BY <1>1, Zenon DEF MultiOps
  <2> HIDE DEF ops, n
  <2>2. keys \in Seq(Seq(Octets))
    BY <1>1 DEF MofN, KeyList
  <2>3. [i \in 1..n |-> ops[i + 1].data] = keys
    BY <2>1, <2>2
  <2> QED
    BY <2>1, <2>3, Zenon DEF MultiSol, SolOf
<1> DEFINE u == SolOf(m, keys)
<1>3. w.type = "MULTISIG" /\ w.sol = u
  BY <1>2 DEF Solved
<1>4. PaysMulti(u, m, keys)
  BY <1>1 DEF PaysMulti
<1> HIDE DEF u
<1> QED
  BY <1>1, <1>3, <1>4 DEF Looks

\* What Solver takes for a script of a type looks like one.
LEMMA SolvedLooks ==
    ASSUME NEW s \in Seq(Octets), NEW w, w = Solver(s)
    PROVE  w.type \in Unread \/ Looks(s, w.type, w.sol)
<1>1. CASE IsPayToScriptHash(s)
  BY <1>1, ScriptHashLooks
<1>2. CASE ~IsPayToScriptHash(s) /\ IsWitnessProgram(s)
  BY <1>2, ProgramLooks
<1>3. CASE OtherScript(s)
  <2>1. OtherGives(s, w)
    BY <1>3, SolverIs
  <2>2. CASE IsNullData(s)
    <3>1. w = Solved("NULL_DATA", <<>>)
      BY <2>1, <2>2, Zenon DEF OtherGives
    <3> QED
      BY <3>1 DEF Solved, Unread
  <2>3. CASE ~IsNullData(s) /\ MatchPayToPubkey(s)
    <3>1. w = Solved("PUBKEY", <<PubkeyOf(s)>>)
      BY <2>1, <2>3, Zenon DEF OtherGives
    <3> QED
      BY <2>3, <3>1, PubkeyLooks
  <2>4. CASE ~IsNullData(s) /\ ~MatchPayToPubkey(s) /\ MatchPayToPubkeyHash(s)
    <3>1. w = Solved("PUBKEYHASH", <<Slice(s, 3, 23)>>)
      BY <2>1, <2>4, Zenon DEF OtherGives
    <3> QED
      BY <2>4, <3>1, PubkeyHashLooks
  <2>5. CASE ~IsNullData(s) /\ ~MatchPayToPubkey(s) /\ ~MatchPayToPubkeyHash(s)
    <3>1. CASE MatchMultisig(s)
      <4>1. w = Solved("MULTISIG", MultiSol(Ops(s, 0), KeysIn(Ops(s, 0))))
        BY <2>1, <2>5, <3>1, Zenon DEF OtherGives
      <4> QED
        BY <3>1, <4>1, MultiLooks
    <3>2. CASE ~MatchMultisig(s)
      <4>1. w = Nonstandard
        BY <2>1, <2>5, <3>2, Zenon DEF OtherGives
      <4> QED
        BY <4>1 DEF Nonstandard, Solved, Unread
    <3> QED
      BY <3>1, <3>2
  <2> QED
    BY <2>2, <2>3, <2>4, <2>5
<1> QED
  BY <1>1, <1>2, <1>3 DEF OtherScript

\* Nothing is taken for data only but what cannot be spent.
LEMMA DataUnspendable ==
    ASSUME NEW s \in Seq(Octets), Solver(s).type = "NULL_DATA"
    PROVE  IsUnspendable(s)
<1> DEFINE w == Solver(s)
<1>1. ~IsPayToScriptHash(s)
  <2> SUFFICES ASSUME IsPayToScriptHash(s) PROVE FALSE
    OBVIOUS
  <2>1. w = Solved("SCRIPTHASH", <<Slice(s, 2, 22)>>)
    BY SolverIs, Zenon DEF ScriptHashGives
  <2> QED
    BY <2>1 DEF Solved
<1>2. ~IsWitnessProgram(s)
  <2> SUFFICES ASSUME IsWitnessProgram(s) PROVE FALSE
    OBVIOUS
  <2> DEFINE v == DecodeOP_N(Byte(s, 0))
             p == Slice(s, 2, Len(s))
  <2>1. WitnessGives(v, p, w)
    BY <1>1, SolverIs, Zenon DEF ProgramGives
  <2> HIDE DEF v, p, w
  <2>2. w.type # "NULL_DATA"
    BY <2>1 DEF WitnessGives, Solved, Nonstandard
  <2> QED
    BY <2>2 DEF w
<1>3. OtherGives(s, w)
  BY <1>1, <1>2, SolverIs DEF OtherScript
<1>6. IsNullData(s) => IsUnspendable(s)
  <2> SUFFICES ASSUME IsNullData(s) PROVE IsUnspendable(s)
    OBVIOUS
  <2>1. Len(s) >= 1 /\ Byte(s, 0) = OP_RETURN
    BY Zenon DEF IsNullData
  <2>2. Len(s) > 0
    BY <2>1
  <2> HIDE DEF w
  <2> QED
    BY <2>1, <2>2 DEF IsUnspendable
<1> SUFFICES ASSUME ~IsNullData(s) PROVE FALSE
  BY <1>6, Zenon
<1> HIDE DEF w
<1>4. \/ w = Solved("PUBKEY", <<PubkeyOf(s)>>) \/ w = Solved("PUBKEYHASH", <<Slice(s, 3, 23)>>)
      \/ w = Solved("MULTISIG", MultiSol(Ops(s, 0), KeysIn(Ops(s, 0)))) \/ w = Nonstandard
  BY <1>3, Zenon DEF OtherGives
<1>5. w.type # "NULL_DATA"
  BY <1>4 DEF Solved, Nonstandard
<1> QED
  BY <1>5 DEF w

-----------------------------------------------------------------------------
(* Addresses *)

\* A destination with an address that holds all of its data, and all of a script's.
Addressed(d) ==
    LET a == EncodeDestination(d) IN
    /\ a # <<>>
    /\ a[1] = "bc" => LET bytes == ConvertBits(Tail(a[2]), 5, 8, FALSE) IN
                      bytes.ok /\ bytes.out = d.data /\ Len(bytes.out) \in 2..40
AllAddressed(d) ==
    d.ok /\ d.nRequired \in 1..Len(d.dests) /\ \A i \in DOMAIN d.dests : Addressed(d.dests[i])

\* A hash has a Base58 address.
LEMMA HashAddressed ==
    ASSUME NEW h, NEW d, d = CKeyID(h) \/ d = Dest("CScriptID", h)
    PROVE  Addressed(d)
<1>1. PICK v : EncodeDestination(d) = <<"base58", v>>
  <2>1. CASE d = CKeyID(h)
    <3>1. d.type = "CKeyID"
      BY <2>1 DEF CKeyID, Dest
    <3> QED
      BY <3>1 DEF EncodeDestination, Base58Check
  <2>2. CASE d = Dest("CScriptID", h)
    <3>1. d.type = "CScriptID"
      BY <2>2 DEF Dest
    <3> QED
      BY <3>1 DEF EncodeDestination, Base58Check
  <2> QED
    BY <2>1, <2>2
<1> DEFINE a == EncodeDestination(d)
<1>2. a # <<>> /\ a[1] # "bc"
  BY <1>1
<1> QED
  BY <1>2, Zenon DEF Addressed

\* A program's Bech32 address gives it back.
LEMMA ProgramAddressed ==
    ASSUME NEW k \in Seq(Octets), Len(k) \in 2..40, NEW v, NEW d, d.data = k,
           EncodeDestination(d) = Bech32(v, k)
    PROVE  Addressed(d)
<1> DEFINE o == Padding(k, 8, 5)
           a == EncodeDestination(d)
           t == <<v>> \o o
<1>1. o \in Seq(Bits(5)) /\ Cutting(o, 5, 8) = [ok |-> TRUE, out |-> k]
  <2>1. k \in Seq(Bits(8))
    <3>1. 5 \in {5, 6}
      OBVIOUS
    <3>2. Bits(8) = Octets
      BY <3>1, BaseDigits, Zenon DEF Octets
    <3> QED
      BY <3>2
  <2> DEFINE m == 8
             n == 5
  <2>2. m \in Nat /\ n \in Nat /\ n > 0 /\ n <= m
    OBVIOUS
  <2>3. k \in Seq(Bits(m)) /\ o = Padding(k, m, n)
    BY <2>1
  <2> HIDE DEF m, n, o
  <2>4. o \in Seq(Bits(n)) /\ Cutting(o, n, m) = [ok |-> TRUE, out |-> k]
    BY <2>2, <2>3, BitsBack
  <2> QED
    BY <2>4, Zenon DEF m, n
<1>2. a = <<"bc", t>>
  BY Zenon DEF Bech32, Padding
<1> HIDE DEF o, a
<1>3. Tail(t) = o
  <2>1. o \in Seq(Nat)
    BY <1>1, BitsAreNumbers
  <2> DEFINE D == Nat \cup {v}
             h == <<v>>
  <2>2. o \in Seq(D) /\ h \in Seq(D) /\ Len(h) = 1
    BY <2>1
  <2> HIDE DEF D, h
  <2>3. JoinOf(D, h \o o, h, o)
    BY <2>2, Joining
  <2> DEFINE u == h \o o
  <2>4. u \in Seq(D) /\ Len(u) = 1 + Len(o) /\ \A i \in 1..Len(o) : u[1 + i] = o[i]
    BY <2>2, <2>3 DEF JoinOf
  <2> HIDE DEF u
  <2>5. Tail(u) = o
    BY <2>2, <2>4
  <2> QED
    BY <2>5 DEF u, h
<1> HIDE DEF t
<1>4. a # <<>> /\ a[2] = t
  BY <1>2
<1> DEFINE bytes == ConvertBits(Tail(a[2]), 5, 8, FALSE)
<1>5. bytes = [ok |-> TRUE, out |-> k]
  BY <1>1, <1>3, <1>4, Zenon DEF Cutting
<1> HIDE DEF bytes
<1>6. bytes.ok /\ bytes.out = d.data /\ Len(bytes.out) \in 2..40
  BY <1>5
<1> QED
  BY <1>4, <1>6, Zenon DEF Addressed, a, bytes

\* A destination of its own.
LEMMA OneAddressed ==
    ASSUME NEW type, NEW sol, type \notin {"NONSTANDARD", "NULL_DATA", "MULTISIG"},
           NEW e, e = ExtractDestination(Solved(type, sol)), Addressed(e)
    PROVE  AllAddressed(ExtractDestinations(Solved(type, sol)))
<1> DEFINE w == Solved(type, sol)
           d == ExtractDestinations(w)
<1>1. w.type = type
  BY DEF Solved
<1> HIDE DEF w
<1>2. d = [ok |-> TRUE, nRequired |-> 1, dests |-> <<e>>]
  BY <1>1 DEF ExtractDestinations, w
<1> HIDE DEF d
<1>3. d.ok /\ d.nRequired = 1 /\ d.dests = <<e>>
  BY <1>2
<1> DEFINE l == d.dests
<1>4. Len(l) = 1 /\ DOMAIN l = 1..1 /\ l[1] = e
  BY <1>3
<1> HIDE DEF l
<1>5. \A i \in DOMAIN l : l[i] = e
  BY <1>4
<1>6. 1 \in 1..Len(l)
  BY <1>4
<1>7. d.nRequired \in 1..Len(l)
  BY <1>3, <1>6
<1> QED
  BY <1>3, <1>5, <1>7 DEF AllAddressed, d, w, l

\* The destinations of every type that has one have addresses: a key,
LEMMA KeyAddressed ==
    ASSUME NEW sol, NEW k, PaysKey(sol, k)
    PROVE  AllAddressed(ExtractDestinations(Solved("PUBKEY", sol)))
<1> DEFINE w == Solved("PUBKEY", sol)
           e == ExtractDestination(w)
<1>1. w.type = "PUBKEY"
  BY DEF Solved
<1> HIDE DEF w
<1>2. e = CKeyID(Hash160(w.sol[1]))
  BY <1>1 DEF ExtractDestination
<1>3. Addressed(e)
  BY <1>2, HashAddressed
<1>4. "PUBKEY" \notin {"NONSTANDARD", "NULL_DATA", "MULTISIG"}
  OBVIOUS
<1> HIDE DEF e
<1>5. e = ExtractDestination(Solved("PUBKEY", sol))
  BY DEF e, w
<1> QED
  BY <1>3, <1>4, <1>5, OneAddressed

\* The hash of a key or of a script,
LEMMA HashesAddressed ==
    ASSUME NEW type \in {"PUBKEYHASH", "SCRIPTHASH"}, NEW sol, NEW k, PaysHash(sol, k, 20)
    PROVE  AllAddressed(ExtractDestinations(Solved(type, sol)))
<1> DEFINE w == Solved(type, sol)
           e == ExtractDestination(w)
<1>1. w.type = type
  BY DEF Solved
<1> HIDE DEF w
<1>2. e = CKeyID(w.sol[1]) \/ e = Dest("CScriptID", w.sol[1])
  BY <1>1 DEF ExtractDestination
<1>3. Addressed(e)
  BY <1>2, HashAddressed
<1>4. type \notin {"NONSTANDARD", "NULL_DATA", "MULTISIG"}
  OBVIOUS
<1> HIDE DEF e
<1>5. e = ExtractDestination(Solved(type, sol))
  BY DEF e, w
<1> QED
  BY <1>3, <1>4, <1>5, OneAddressed

\* a witness program of version 0,
LEMMA WitnessAddressed ==
    ASSUME NEW type \in {"WITNESS_V0_KEYHASH", "WITNESS_V0_SCRIPTHASH"}, NEW sol, NEW k, NEW n \in {20, 32},
           PaysHash(sol, k, n)
    PROVE  AllAddressed(ExtractDestinations(Solved(type, sol)))
<1> DEFINE w == Solved(type, sol)
           e == ExtractDestination(w)
<1>1. w.type = type /\ w.sol = sol
  BY DEF Solved
<1>2. sol = <<k>> /\ k \in Seq(Octets) /\ Len(k) \in 2..40
  BY DEF PaysHash
<1>3. sol[1] = k
  BY <1>2
<1> HIDE DEF w
<1>4. e = Dest("WitnessV0KeyHash", k) \/ e = Dest("WitnessV0ScriptHash", k)
  BY <1>1, <1>3 DEF ExtractDestination
<1> HIDE DEF e
<1>5. e.data = k /\ EncodeDestination(e) = Bech32(0, k)
  <2>1. e.data = k /\ e.type \in {"WitnessV0KeyHash", "WitnessV0ScriptHash"}
    BY <1>4 DEF Dest
  <2> QED
    BY <2>1 DEF EncodeDestination
<1>6. Addressed(e)
  BY <1>2, <1>5, ProgramAddressed
<1>7. type \notin {"NONSTANDARD", "NULL_DATA", "MULTISIG"}
  OBVIOUS
<1>8. e = ExtractDestination(Solved(type, sol))
  BY DEF e, w
<1> QED
  BY <1>6, <1>7, <1>8, OneAddressed

\* one of a later version,
LEMMA FutureAddressed ==
    ASSUME NEW sol, NEW v, NEW k, PaysProgram(sol, v, k)
    PROVE  AllAddressed(ExtractDestinations(Solved("WITNESS_UNKNOWN", sol)))
<1> DEFINE w == Solved("WITNESS_UNKNOWN", sol)
           e == ExtractDestination(w)
           h == <<v>>
<1>1. w.type = "WITNESS_UNKNOWN" /\ w.sol = sol
  BY DEF Solved
<1>2. sol = <<h, k>> /\ k \in Seq(Octets) /\ Len(k) \in 2..40 /\ v \in 1..16 /\ h[1] = v
  BY DEF PaysProgram
<1> HIDE DEF h
<1>3. sol[1] = h /\ sol[2] = k
  BY <1>2
<1> HIDE DEF w
<1>4. e = [Dest("WitnessUnknown", k) EXCEPT !.version = v]
  BY <1>1, <1>2, <1>3 DEF ExtractDestination
<1> HIDE DEF e
<1>5. e.data = k /\ EncodeDestination(e) = Bech32(v, k)
  <2>1. e = [type |-> "WitnessUnknown", data |-> k, version |-> v]
    BY <1>4 DEF Dest
  <2>2. e.data = k /\ e.type = "WitnessUnknown" /\ e.version = v
    BY <2>1
  <2> QED
    BY <1>2, <2>2 DEF EncodeDestination
<1>6. Addressed(e)
  BY <1>2, <1>5, ProgramAddressed
<1>7. "WITNESS_UNKNOWN" \notin {"NONSTANDARD", "NULL_DATA", "MULTISIG"}
  OBVIOUS
<1>8. e = ExtractDestination(Solved("WITNESS_UNKNOWN", sol))
  BY DEF e, w
<1> QED
  BY <1>6, <1>7, <1>8, OneAddressed

\* and the keys of a multisig output.
LEMMA KeysAddressed ==
    ASSUME NEW sol, NEW m, NEW keys, PaysMulti(sol, m, keys)
    PROVE  AllAddressed(ExtractDestinations(Solved("MULTISIG", sol)))
<1> DEFINE w == Solved("MULTISIG", sol)
           d == ExtractDestinations(w)
           n == Len(keys)
           l == [i \in DOMAIN keys |-> CKeyID(Hash160(keys[i]))]
<1>1. w.type = "MULTISIG" /\ w.sol = sol
  BY DEF Solved
<1>2. keys \in Seq(Seq(Octets)) /\ n \in 1..16 /\ m \in 1..n /\ sol = SolOf(m, keys)
  BY DEF PaysMulti, MofN, KeyList
<1>3. SolIs(sol, m, keys)
  <2>1. m \in Octets /\ Len(keys) \in Octets
    <3>1. \A x, y : x \in 1..16 /\ y \in 1..x => x \in 0..255 /\ y \in 0..255
      OBVIOUS
    <3> QED
      BY <1>2, <3>1, ZenonT(60) DEF Octets
  <2> QED
    BY <1>2, <2>1, SolForm
<1>4. sol[1][1] = m /\ SubSeq(sol, 2, Len(sol) - 1) = keys
  BY <1>3 DEF SolIs
<1>5. keys # <<>>
  BY <1>2
<1> HIDE DEF w
<1>6. d = [ok |-> TRUE, nRequired |-> m, dests |-> l]
  BY <1>1, <1>4, <1>5 DEF ExtractDestinations
<1>7. DOMAIN l = 1..n /\ Len(l) = n /\ \A i \in DOMAIN l : l[i] = CKeyID(Hash160(keys[i]))
  BY <1>2
<1> HIDE DEF l, d
<1>8. ASSUME NEW i \in DOMAIN l PROVE Addressed(l[i])
  BY <1>7, HashAddressed
<1>9. d.ok = TRUE /\ d.nRequired = m /\ d.dests = l
  BY <1>6
<1> QED
  BY <1>2, <1>7, <1>8, <1>9, Zenon DEF AllAddressed, d, w, n

\* So for every type that pays to something.
LEMMA PaysAddressed ==
    ASSUME NEW type, NEW sol, Pays(type, sol)
    PROVE  type \notin Unread /\ AllAddressed(ExtractDestinations(Solved(type, sol)))
<1>1. CASE type = "PUBKEY" /\ \E k : PaysKey(sol, k)
  BY <1>1, KeyAddressed DEF Unread
<1>2. CASE type \in {"PUBKEYHASH", "SCRIPTHASH"} /\ \E k : PaysHash(sol, k, 20)
  BY <1>2, HashesAddressed DEF Unread
<1>3. CASE \/ type = "WITNESS_V0_KEYHASH" /\ \E k : PaysHash(sol, k, 20)
           \/ type = "WITNESS_V0_SCRIPTHASH" /\ \E k : PaysHash(sol, k, 32)
  BY <1>3, WitnessAddressed DEF Unread
<1>4. CASE type = "WITNESS_UNKNOWN" /\ \E v, k : PaysProgram(sol, v, k)
  BY <1>4, FutureAddressed DEF Unread
<1>5. CASE type = "MULTISIG" /\ \E m, keys : PaysMulti(sol, m, keys)
  BY <1>5, KeysAddressed DEF Unread
<1> QED
  BY <1>1, <1>2, <1>3, <1>4, <1>5 DEF Pays

\* The other types have no destination.
LEMMA UnreadNotAddressed ==
    ASSUME NEW w, w.type \in Unread
    PROVE  ~ExtractDestinations(w).ok
  BY DEF Unread, ExtractDestinations

\* What SolverExact says of a script, of what is solved of it and of its destinations.
Exactly(s, w, d) ==
    /\ \A o \in Outputs : o.script = s => w.type = o.type /\ w.sol = o.sol
    /\ w.type \notin Unread <=> d.ok
    /\ w.type = "NULL_DATA" => IsUnspendable(s)
    /\ d.ok => s \in Templates(w.type, w.sol) /\ AllAddressed(d)

\* A script of an output is solved.
LEMMA OutputsSolved ==
    ASSUME NEW s \in Seq(Octets), NEW o \in Outputs, o.script = s
    PROVE  Solver(s).type = o.type /\ Solver(s).sol = o.sol
<1>1. Takes(o.type, o.sol) /\ s \in Templates(o.type, o.sol)
  BY OutputsAssumption, Zenon
<1> DEFINE type == o.type
           sol == o.sol
<1>2. Takes(type, sol) /\ s \in Templates(type, sol)
  BY <1>1
<1> HIDE DEF type, sol
<1>3. Looks(s, type, sol)
  BY <1>2, FitsLooks, Zenon
<1>4. Solver(s) = Solved(type, sol)
  BY <1>3, LooksSolved
<1> QED
  BY <1>4 DEF Solved, type, sol

\* Solver and ExtractDestinations are exact about every script.
LEMMA ScriptSolved ==
    ASSUME NEW s \in Seq(Octets)
    PROVE  Exactly(s, Solver(s), ExtractDestinations(Solver(s)))
<1> DEFINE w == Solver(s)
           d == ExtractDestinations(w)
<1>1. \A o \in Outputs : o.script = s => w.type = o.type /\ w.sol = o.sol
  BY OutputsSolved
<1>2. w.type = "NULL_DATA" => IsUnspendable(s)
  BY DataUnspendable
<1>3. w.type \in Unread \/ Looks(s, w.type, w.sol)
  BY SolvedLooks
<1>4. CASE w.type \in Unread
  <2>1. ~d.ok
    BY <1>4, UnreadNotAddressed
  <2> HIDE DEF w, d
  <2>2. Exactly(s, w, d)
    BY <1>1, <1>2, <1>4, <2>1, Zenon DEF Exactly
  <2> QED
    BY <2>2 DEF w, d
<1>5. CASE Looks(s, w.type, w.sol)
  <2> DEFINE type == w.type
             sol == w.sol
  <2>1. Looks(s, type, sol)
    BY <1>5
  <2>2. w = Solved(type, sol)
    <3> HIDE DEF w, type, sol
    <3> QED
      BY <2>1, LooksSolved DEF w
  <2> HIDE DEF w, type, sol
  <2>3. Takes(type, sol) /\ s \in Templates(type, sol)
    BY <2>1, FitsLooks, Zenon
  <2>4. Pays(type, sol)
    BY <2>3, TakesPays
  <2>5. type \notin Unread /\ AllAddressed(ExtractDestinations(Solved(type, sol)))
    BY <2>4, PaysAddressed
  <2>6. AllAddressed(d)
    BY <2>2, <2>5, Zenon
  <2> HIDE DEF d
  <2>7. d.ok
    BY <2>6, Zenon DEF AllAddressed
  <2>8. Exactly(s, w, d)
    BY <1>1, <1>2, <2>3, <2>5, <2>6, <2>7, Zenon DEF Exactly, type, sol
  <2> QED
    BY <2>8 DEF w, d
<1> QED
  BY <1>3, <1>4, <1>5

\* The property, by its parts.
LEMMA SolverForm == SolverExact <=> (out.op = "script" => Exactly(out.in, out.solved, out.dests))
  BY Zenon DEF SolverExact, Exactly, AllAddressed, Addressed, Unread

\* Only one action is about scripts.
LEMMA OnlyScripts == ASSUME CodecNext PROVE SolveScript \/ out'.op # "script"
<1>1. EncodeInt => out'.op = "int"
  BY DEF EncodeInt, Run
<1>2. DecodeInt => out'.op = "bytes"
  BY DEF DecodeInt, Run
<1>3. EncodeContainers => out'.op = "containers"
  BY DEF EncodeContainers, Run
<1>4. DecodeTx => out'.op = "txbytes"
  BY DEF DecodeTx, Run
<1>5. EncodeBlock => out'.op = "block"
  BY DEF EncodeBlock, Run
<1>6. EncodeTx => out'.op = "tx"
  BY DEF EncodeTx, Run
<1>7. EncodeText => out'.op = "binary"
  BY DEF EncodeText, Run
<1>8. DecodeText => out'.op = "text"
  BY DEF DecodeText, Run
<1>9. ParseNumber => out'.op = "number"
  BY DEF ParseNumber, Run
<1>10. \/ EncodeInt \/ DecodeInt \/ EncodeContainers \/ EncodeTx \/ DecodeTx
       \/ EncodeBlock \/ SolveScript \/ EncodeText \/ DecodeText \/ ParseNumber
  BY Zenon DEF CodecNext
<1> QED
  BY <1>1, <1>2, <1>3, <1>4, <1>5, <1>6, <1>7, <1>8, <1>9, <1>10

\* Solver reads a type and its data out of a script exactly when the script is that
\* type's template filled with the data, and the destinations in it have addresses
\* that hold all of the data (Solver and ExtractDestinations of script.cpp,
\* EncodeDestination of key_io.cpp), for every script.
THEOREM SolverExactHolds == CodecSpec => []SolverExact
<1>1. CodecInit => SolverExact
  <2> SUFFICES ASSUME CodecInit PROVE SolverExact
    OBVIOUS
  <2>1. out.op = "none"
    BY DEF CodecInit, Idle
  <2> QED
    BY <2>1, SolverForm
<1>2. SolverExact /\ [CodecNext]_out => SolverExact'
  <2> SUFFICES ASSUME SolverExact, [CodecNext]_out PROVE SolverExact'
    OBVIOUS
  <2>0. SolverExact' <=> (out'.op = "script" => Exactly(out'.in, out'.solved, out'.dests))
    BY Zenon DEF SolverExact, Exactly, AllAddressed, Addressed, Unread
  <2>1. CASE SolveScript
    <3>1. PICK s \in Scripts \cup {o.script : o \in Outputs} :
             out' = [op |-> "script", in |-> s, solved |-> Solver(s),
                     dests |-> ExtractDestinations(Solver(s))]
      BY <2>1 DEF SolveScript, Run
    <3>2. s \in Seq(Octets)
      BY OutputsAssumption, Zenon DEF Octets
    <3> DEFINE w == Solver(s)
               d == ExtractDestinations(w)
    <3>3. Exactly(s, w, d)
      BY <3>2, ScriptSolved
    <3>4. out' = [op |-> "script", in |-> s, solved |-> w, dests |-> d]
      BY <3>1
    <3> HIDE DEF w, d
    <3>5. out'.in = s /\ out'.solved = w /\ out'.dests = d
      BY <3>4
    <3> QED
      BY <2>0, <3>3, <3>5, Zenon
  <2>2. CASE CodecNext /\ ~SolveScript
    <3>1. out'.op # "script"
      BY <2>2, OnlyScripts
    <3> QED
      BY <2>0, <3>1
  <2>3. CASE out' = out
    BY <2>0, <2>3, SolverForm
  <2> QED
    BY <2>1, <2>2, <2>3
<1> QED
  BY <1>1, <1>2, PTL DEF CodecSpec
=============================================================================
