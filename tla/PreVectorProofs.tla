-------------------------- MODULE PreVectorProofs --------------------------
(***************************************************************************)
(* Proofs about PreVector, for every number N of elements in the object,   *)
(* every set of values and every size: the layout of the object and of its *)
(* heap block is kept by every method, the elements are those of two       *)
(* std::vectors, erase keeps the capacity, and the comparisons are a total *)
(* order that agrees with the contents.                                    *)
(*                                                                         *)
(* A method is proved about on its own, as a function from a good memory m *)
(* to a good memory r that leaves the blocks of others alone; the calls    *)
(* then follow from the methods.                                           *)
(***************************************************************************)
EXTENDS PreVector, WellFoundedInduction, FiniteSetTheorems, TLAPS

-----------------------------------------------------------------------------
(* Good memories *)

\* The fields of a memory.
Names == {"size", "direct", "capacity", "indirect", "heap"}

IsRecord(m) == m = [i \in Names |-> m[i]]

\* The block an object owns, and the blocks of others.
Own(m)  == IF is_direct(m) THEN {} ELSE {m.indirect}
Rest(m) == DOMAIN m.heap \ Own(m)

\* The layout of one object, in a heap that has room for one block more than the
\* others use.
Good(m) ==
    /\ IsRecord(m) /\ m.heap = [b \in DOMAIN m.heap |-> m.heap[b]]
    /\ m.size \in Nat /\ m.direct \in Cells(N)
    /\ ~is_direct(m) =>
         /\ m.capacity \in Nat /\ m.capacity > N /\ size(m) <= m.capacity
         /\ m.indirect \in DOMAIN m.heap /\ m.heap[m.indirect] \in Cells(m.capacity)
    /\ \A i \in 0..(size(m) - 1) : items(m)[i] \in Val
    /\ DOMAIN m.heap \subseteq Blocks /\ Rest(m) # Blocks

\* From m to r the blocks of others are left alone.
Same(m, r) == Rest(r) = Rest(m) /\ \A b \in Rest(m) : r.heap[b] = m.heap[b]

\* r is m with the array c for its items and s for its size.
Holds(r, m, c, s) ==
    /\ IsRecord(r)
    /\ r.capacity = m.capacity /\ r.indirect = m.indirect
    /\ IF is_direct(m)
       THEN r.size = s /\ r.direct = c /\ r.heap = m.heap
       ELSE /\ r.size = s + N + 1 /\ r.direct = m.direct
            /\ r.heap = [m.heap EXCEPT ![m.indirect] = c]

LEMMA Sizes == N \in Nat /\ N > 0 /\ Val \subseteq Nat /\ Zero \in Val /\ MaxSize \in Nat /\ MaxVals \in Nat
BY PreVectorAssumption

LEMMA GoodFacts ==
  ASSUME NEW m, Good(m)
  PROVE  /\ size(m) \in Nat /\ capacity(m) \in Nat /\ capacity(m) >= N /\ size(m) <= capacity(m)
         /\ items(m) \in Cells(capacity(m))
         /\ is_direct(m) <=> capacity(m) = N
BY Sizes DEF Good, size, capacity, items, is_direct

LEMMA HoldsGood ==
  ASSUME NEW m, Good(m), NEW r, NEW c \in Cells(capacity(m)), NEW s \in Nat,
         s <= capacity(m), \A i \in 0..(s - 1) : c[i] \in Val, Holds(r, m, c, s)
  PROVE  /\ Good(r) /\ Same(m, r) /\ size(r) = s /\ items(r) = c /\ capacity(r) = capacity(m)
<1>1. CASE is_direct(m)
  BY <1>1, Sizes DEF Good, Same, Holds, size, capacity, items, is_direct, Own, Rest
<1>2. CASE ~is_direct(m)
  <2>1. ~is_direct(r) /\ size(r) = s /\ r.size \in Nat
    BY <1>2, Sizes DEF Holds, size, is_direct
  <2>2. r.heap = [m.heap EXCEPT ![m.indirect] = c] /\ r.indirect = m.indirect /\ r.capacity = m.capacity
        /\ r.direct = m.direct
    BY <1>2 DEF Holds
  <2>3. DOMAIN r.heap = DOMAIN m.heap /\ r.heap[m.indirect] = c
        /\ \A b \in DOMAIN m.heap : b # m.indirect => r.heap[b] = m.heap[b]
    BY <1>2, <2>2 DEF Good
  <2>4. Own(r) = Own(m) /\ Rest(r) = Rest(m) /\ items(r) = c /\ capacity(r) = capacity(m)
    BY <1>2, <2>1, <2>2, <2>3 DEF Own, Rest, items, capacity
  <2>5. Same(m, r)
    BY <1>2, <2>3, <2>4 DEF Same, Rest, Own
  <2>6. r.heap = [b \in DOMAIN r.heap |-> r.heap[b]]
    BY <2>2
  <2>7. Good(r)
    BY <1>2, <2>1, <2>2, <2>3, <2>4, <2>6, Sizes DEF Good, Holds, capacity
  <2> QED
    BY <2>1, <2>4, <2>5, <2>7
<1> QED
  BY <1>1, <1>2

\* Write and a change of _size, in whichever order.
LEMMA WriteFields ==
  ASSUME NEW m, IsRecord(m), NEW c, NEW h, m.heap = h, h = [b \in DOMAIN h |-> h[b]]
  PROVE  /\ IsRecord(Write(m, c))
         /\ Write(m, c).size = m.size /\ Write(m, c).capacity = m.capacity
         /\ Write(m, c).indirect = m.indirect
         /\ is_direct(m) => Write(m, c).direct = c /\ Write(m, c).heap = m.heap
         /\ ~is_direct(m) => Write(m, c).direct = m.direct /\ Write(m, c).heap = [m.heap EXCEPT ![m.indirect] = c]
BY DEF Write, IsRecord, Names

LEMMA SizeFields ==
  ASSUME NEW m, IsRecord(m), NEW k
  PROVE  /\ IsRecord([m EXCEPT !.size = k])
         /\ [m EXCEPT !.size = k].size = k /\ [m EXCEPT !.size = k].capacity = m.capacity
         /\ [m EXCEPT !.size = k].indirect = m.indirect
         /\ [m EXCEPT !.size = k].direct = m.direct /\ [m EXCEPT !.size = k].heap = m.heap
BY DEF IsRecord, Names
-----------------------------------------------------------------------------
(* Arrays *)

LEMMA CopiedFacts ==
  ASSUME NEW a \in Nat, NEW c \in Cells(a), NEW n \in Nat, NEW k \in Nat, k <= n, k <= a
  PROVE  Copied(c, k, n) \in Cells(n) /\ \A i \in 0..(k - 1) : Copied(c, k, n)[i] = c[i]
BY DEF Copied, Cells

LEMMA FilledFacts ==
  ASSUME NEW n \in Nat, NEW c \in Cells(n), NEW vals \in Seq(Val), NEW d \in Nat, d + Len(vals) <= n
  PROVE  /\ Filled(c, d, vals) \in Cells(n)
         /\ \A i \in 0..(n - 1) : Filled(c, d, vals)[i] =
              IF i \in d..(d + Len(vals) - 1) THEN vals[i - d + 1] ELSE c[i]
BY DEF Filled, Cells

LEMMA MovedFacts ==
  ASSUME NEW n \in Nat, NEW c \in Cells(n), NEW d \in Nat, NEW s \in Nat, NEW k \in Nat,
         d + k <= n, s + k <= n
  PROVE  /\ Moved(c, d, s, k) \in Cells(n)
         /\ \A i \in 0..(n - 1) : Moved(c, d, s, k)[i] =
              IF i \in d..(d + k - 1) THEN c[s + i - d] ELSE c[i]
BY DEF Moved, Cells

-----------------------------------------------------------------------------
(* change_capacity *)

\* From m to r the elements are left alone.
Kept(m, r) == size(r) = size(m) /\ \A i \in 0..(size(m) - 1) : items(r)[i] = items(m)[i]

LEMMA ChangeCapacity ==
  ASSUME NEW m, Good(m), NEW n \in Nat, size(m) <= n
  PROVE  /\ Good(change_capacity(m, n)) /\ Same(m, change_capacity(m, n))
         /\ Kept(m, change_capacity(m, n))
         /\ capacity(change_capacity(m, n)) = IF n <= N THEN N ELSE n
<1> DEFINE r == change_capacity(m, n)
<1>m. /\ m = [i \in Names |-> m[i]] /\ m.heap = [b \in DOMAIN m.heap |-> m.heap[b]]
      /\ m.size \in Nat /\ DOMAIN m.heap \subseteq Blocks /\ Rest(m) # Blocks
      /\ m.direct \in Cells(N) /\ \A i \in 0..(size(m) - 1) : items(m)[i] \in Val
  BY DEF Good, IsRecord
<1>i. /\ size(m) \in Nat /\ capacity(m) \in Nat /\ size(m) <= capacity(m)
      /\ items(m) \in Cells(capacity(m))
  BY GoodFacts
<1>c. \A k \in Nat : size(m) <= k =>
        /\ Copied(items(m), size(m), k) \in Cells(k)
        /\ \A i \in 0..(size(m) - 1) : Copied(items(m), size(m), k)[i] = items(m)[i]
  <2> HIDE DEF r
  <2> QED
    BY <1>i, CopiedFacts, ZenonT(60)
<1> USE Sizes
<1>1. CASE n <= N /\ is_direct(m)
  BY <1>1 DEF change_capacity, Same, Kept, capacity
<1>2. CASE n <= N /\ ~is_direct(m)
  <2> DEFINE c == Copied(m.heap[m.indirect], size(m), N)
  <2>1. /\ r = [m EXCEPT !.direct = c, !.heap = free(m.heap, m.indirect),
                         !.capacity = 0, !.indirect = 0, !.size = m.size - (N + 1)]
    BY <1>2 DEF change_capacity
  <2>2. IsRecord(r) /\ r.direct = c /\ r.heap = free(m.heap, m.indirect) /\ r.size = m.size - (N + 1)
    BY <2>1, <1>m DEF IsRecord, Names
  <2>3. c \in Cells(N) /\ \A i \in 0..(size(m) - 1) : c[i] = items(m)[i]
    <3>1. items(m) = m.heap[m.indirect]
      BY <1>2 DEF items
    <3> QED
      BY <3>1, <1>i, <1>2, <1>c
  <2>4. is_direct(r) /\ size(r) = size(m) /\ items(r) = c /\ capacity(r) = N /\ Own(r) = {} /\ r.size \in Nat
    BY <1>2, <2>2, <1>m DEF is_direct, size, items, capacity, Own
  <2>5. /\ DOMAIN r.heap = DOMAIN m.heap \ {m.indirect}
        /\ \A b \in DOMAIN m.heap \ {m.indirect} : r.heap[b] = m.heap[b]
        /\ r.heap = [b \in DOMAIN r.heap |-> r.heap[b]]
    BY <2>2 DEF free
  <2>6. Same(m, r)
    BY <1>2, <2>4, <2>5 DEF Same, Rest, Own
  <2>7. Good(r)
    BY <1>m, <2>2, <2>3, <2>4, <2>5, <2>6 DEF Good, Same
  <2> QED
    BY <1>2, <2>3, <2>4, <2>6, <2>7 DEF Kept
<1>3. CASE ~(n <= N) /\ is_direct(m)
  <2> DEFINE b0 == malloc(m.heap)
             c == Copied(m.direct, size(m), n)
             h == [i \in DOMAIN m.heap \cup {b0} |-> IF i = b0 THEN c ELSE m.heap[i]]
  <2>1. b0 \in Blocks /\ b0 \notin DOMAIN m.heap
    <3>1. \E b \in Blocks : b \notin DOMAIN m.heap
      BY <1>m, <1>3 DEF Rest, Own
    <3> QED
      BY <3>1, Zenon DEF malloc
  <2>2. r = [m EXCEPT !.heap = h, !.direct = JunkCells(N), !.capacity = n, !.indirect = b0,
                      !.size = m.size + N + 1]
    BY <1>3 DEF change_capacity
  <2> HIDE DEF b0
  <2>3. /\ IsRecord(r) /\ r.heap = h /\ r.direct = JunkCells(N) /\ r.capacity = n
        /\ r.indirect = b0 /\ r.size = m.size + N + 1
    <3> HIDE DEF h
    <3> QED
      BY <2>2, <1>m DEF IsRecord, Names
  <2>4. c \in Cells(n) /\ \A i \in 0..(size(m) - 1) : c[i] = items(m)[i]
    BY <1>3, <1>i, CopiedFacts, SMTT(60) DEF items
  <2>5. JunkCells(N) \in Cells(N)
    BY DEF JunkCells, Cells
  <2> HIDE DEF c
  <2>6. ~is_direct(r) /\ size(r) = size(m) /\ capacity(r) = n /\ Own(r) = {b0} /\ r.size \in Nat
    BY <1>3, <2>3, <1>m DEF is_direct, size, capacity, Own
  <2>7. /\ DOMAIN r.heap = DOMAIN m.heap \cup {b0} /\ r.heap[b0] = c
        /\ \A b \in DOMAIN m.heap : r.heap[b] = m.heap[b]
        /\ r.heap = [b \in DOMAIN r.heap |-> r.heap[b]]
    BY <2>1, <2>3
  <2>8. Same(m, r)
    BY <1>3, <2>1, <2>6, <2>7 DEF Same, Rest, Own
  <2>9. items(r) = c
    BY <2>3, <2>6, <2>7 DEF items
  <2>10. Good(r)
    BY <1>3, <1>m, <2>1, <2>3, <2>4, <2>5, <2>6, <2>7, <2>8, <2>9 DEF Good, Same
  <2> QED
    BY <1>3, <2>4, <2>6, <2>8, <2>9, <2>10 DEF Kept
<1>4. CASE ~(n <= N) /\ ~is_direct(m)
  <2> DEFINE c == Copied(items(m), size(m), n)
             h == [m.heap EXCEPT ![m.indirect] = c]
  <2>1. items(m) = m.heap[m.indirect]
    BY <1>4 DEF items
  <2>2. /\ IsRecord(r) /\ r.heap = h /\ r.direct = m.direct /\ r.capacity = n
        /\ r.indirect = m.indirect /\ r.size = m.size
    <3>1. r = [m EXCEPT !.heap = h, !.capacity = n]
      BY <1>4 DEF change_capacity
    <3> HIDE DEF h
    <3> QED
      BY <3>1, <1>m DEF IsRecord, Names
  <2>3. c \in Cells(n) /\ \A i \in 0..(size(m) - 1) : c[i] = items(m)[i]
    BY <1>c
  <2> HIDE DEF c
  <2>4. m.indirect \in DOMAIN m.heap
    BY <1>4 DEF Good
  <2>5. /\ DOMAIN r.heap = DOMAIN m.heap /\ r.heap[m.indirect] = c
        /\ \A b \in DOMAIN m.heap : b # m.indirect => r.heap[b] = m.heap[b]
        /\ r.heap = [b \in DOMAIN r.heap |-> r.heap[b]]
    BY <1>m, <2>2, <2>4
  <2>6. ~is_direct(r) /\ size(r) = size(m) /\ capacity(r) = n /\ items(r) = c /\ Own(r) = Own(m)
    BY <1>4, <2>2, <2>5 DEF is_direct, size, capacity, items, Own
  <2>7. Same(m, r)
    BY <1>4, <2>5, <2>6 DEF Same, Rest, Own
  <2>8. Good(r)
    BY <1>4, <1>m, <2>2, <2>3, <2>4, <2>5, <2>6, <2>7 DEF Good, Same
  <2> QED
    BY <1>4, <2>3, <2>6, <2>7, <2>8 DEF Kept
<1> QED
  BY <1>1, <1>2, <1>3, <1>4
-----------------------------------------------------------------------------
(* Writes *)

LEMMA SameTrans ==
  ASSUME NEW m, NEW g, NEW r, Same(m, g), Same(g, r)
  PROVE  Same(m, r)
BY DEF Same

\* The cells are written, then _size.
LEMMA WriteThenSize ==
  ASSUME NEW m, Good(m), NEW c, NEW s \in Int, NEW r,
         r = [Write(m, c) EXCEPT !.size = IF is_direct(m) THEN s ELSE s + N + 1]
  PROVE  Holds(r, m, c, s)
<1>1. IsRecord(m) /\ m.heap = [b \in DOMAIN m.heap |-> m.heap[b]]
  BY DEF Good
<1> DEFINE w == Write(m, c)
           z == IF is_direct(m) THEN s ELSE s + N + 1
<1>2. /\ IsRecord(w) /\ w.size = m.size /\ w.capacity = m.capacity /\ w.indirect = m.indirect
      /\ is_direct(m) => w.direct = c /\ w.heap = m.heap
      /\ ~is_direct(m) => w.direct = m.direct /\ w.heap = [m.heap EXCEPT ![m.indirect] = c]
  BY <1>1, WriteFields
<1>3. r = [w EXCEPT !.size = z]
  OBVIOUS
<1>4. is_direct(m) => z = s
  OBVIOUS
<1>5. ~is_direct(m) => z = s + N + 1
  OBVIOUS
<1> HIDE DEF w, z
<1>6. /\ IsRecord(r) /\ r.size = z /\ r.capacity = w.capacity /\ r.indirect = w.indirect
      /\ r.direct = w.direct /\ r.heap = w.heap
  <2>1. /\ IsRecord([w EXCEPT !.size = z]) /\ [w EXCEPT !.size = z].size = z
        /\ [w EXCEPT !.size = z].capacity = w.capacity /\ [w EXCEPT !.size = z].indirect = w.indirect
        /\ [w EXCEPT !.size = z].direct = w.direct /\ [w EXCEPT !.size = z].heap = w.heap
    BY <1>2 DEF IsRecord, Names
  <2> QED
    BY <1>3, <2>1, Zenon
<1> QED
  BY <1>2, <1>4, <1>5, <1>6 DEF Holds

\* The cells are written, then _size, then the cells once more.
LEMMA WriteSizeWrite ==
  ASSUME NEW m, Good(m), NEW c, NEW d, NEW k \in Nat, size(m) + k <= capacity(m)
  PROVE  /\ items(Write(m, c)) = c
         /\ Holds(Write([Write(m, c) EXCEPT !.size = @ + k], d), m, d, size(m) + k)
<1> DEFINE w == Write(m, c)
           z == [w EXCEPT !.size = @ + k]
           r == Write(z, d)
<1>1. IsRecord(m) /\ m.heap = [b \in DOMAIN m.heap |-> m.heap[b]] /\ m.size \in Nat
      /\ (~is_direct(m) => m.indirect \in DOMAIN m.heap)
  BY DEF Good
<1>2. /\ IsRecord(w) /\ w.size = m.size /\ w.capacity = m.capacity /\ w.indirect = m.indirect
      /\ is_direct(m) => w.direct = c /\ w.heap = m.heap
      /\ ~is_direct(m) => w.direct = m.direct /\ w.heap = [m.heap EXCEPT ![m.indirect] = c]
  BY <1>1, WriteFields
<1> HIDE DEF w
<1>3. is_direct(w) <=> is_direct(m)
  BY <1>2 DEF is_direct
<1>4. items(w) = c
  BY <1>1, <1>2, <1>3 DEF items
<1>5. /\ IsRecord(z) /\ z.size = m.size + k /\ z.capacity = m.capacity /\ z.indirect = m.indirect
      /\ z.direct = w.direct /\ z.heap = w.heap
  BY <1>2, SizeFields
<1> HIDE DEF z
<1>6. is_direct(z) <=> is_direct(m)
  BY <1>1, <1>5, Sizes DEF is_direct, size, capacity
<1>7. z.heap = [b \in DOMAIN z.heap |-> z.heap[b]]
  BY <1>1, <1>2, <1>5
<1>8. /\ IsRecord(r) /\ r.size = z.size /\ r.capacity = z.capacity /\ r.indirect = z.indirect
      /\ is_direct(z) => r.direct = d /\ r.heap = z.heap
      /\ ~is_direct(z) => r.direct = z.direct /\ r.heap = [z.heap EXCEPT ![z.indirect] = d]
  BY <1>5, <1>7, WriteFields
<1> HIDE DEF r
<1>9. ~is_direct(m) => r.heap = [m.heap EXCEPT ![m.indirect] = d]
  BY <1>1, <1>2, <1>5, <1>6, <1>8
<1>10. Holds(r, m, d, size(m) + k)
  BY <1>1, <1>2, <1>5, <1>6, <1>8, <1>9, Sizes DEF Holds, size, is_direct
<1> QED
  BY <1>4, <1>10 DEF r, z, w

\* _size is written, then the cells.
LEMMA SizeThenWrite ==
  ASSUME NEW m, Good(m), NEW c, NEW k \in Nat, size(m) + k <= capacity(m)
  PROVE  /\ items([m EXCEPT !.size = @ + k]) = items(m)
         /\ Holds(Write([m EXCEPT !.size = @ + k], c), m, c, size(m) + k)
<1> DEFINE z == [m EXCEPT !.size = @ + k]
           r == Write(z, c)
<1>1. IsRecord(m) /\ m.heap = [b \in DOMAIN m.heap |-> m.heap[b]] /\ m.size \in Nat
  BY DEF Good
<1>5. /\ IsRecord(z) /\ z.size = m.size + k /\ z.capacity = m.capacity /\ z.indirect = m.indirect
      /\ z.direct = m.direct /\ z.heap = m.heap
  BY <1>1, SizeFields
<1> HIDE DEF z
<1>6. is_direct(z) <=> is_direct(m)
  BY <1>1, <1>5, Sizes DEF is_direct, size, capacity
<1>7. items(z) = items(m)
  BY <1>5, <1>6 DEF items
<1>8. /\ IsRecord(r) /\ r.size = z.size /\ r.capacity = z.capacity /\ r.indirect = z.indirect
      /\ is_direct(z) => r.direct = c /\ r.heap = z.heap
      /\ ~is_direct(z) => r.direct = z.direct /\ r.heap = [z.heap EXCEPT ![z.indirect] = c]
  BY <1>1, <1>5, WriteFields
<1> HIDE DEF r
<1>10. Holds(r, m, c, size(m) + k)
  BY <1>1, <1>5, <1>6, <1>8, Sizes DEF Holds, size, is_direct
<1> QED
  BY <1>7, <1>10 DEF r, z

-----------------------------------------------------------------------------
(* Methods *)

LEMMA GrownFacts ==
  ASSUME NEW m, Good(m), NEW n \in Nat
  PROVE  /\ Good(Grown(m, n)) /\ Same(m, Grown(m, n)) /\ Kept(m, Grown(m, n))
         /\ capacity(Grown(m, n)) >= n /\ capacity(Grown(m, n)) >= capacity(m)
<1>1. size(m) \in Nat /\ capacity(m) \in Nat /\ size(m) <= capacity(m) /\ capacity(m) >= N
  BY GoodFacts
<1>2. CASE capacity(m) < n
  <2> DEFINE k == n + (n \div 2)
  <2>1. k \in Nat /\ k >= n
    OBVIOUS
  <2> HIDE DEF k
  <2>2. size(m) <= k /\ ~(k <= N)
    BY <1>1, <1>2, <2>1, Sizes
  <2>3. Grown(m, n) = change_capacity(m, k)
    BY <1>2 DEF Grown, k
  <2> QED
    BY <1>1, <1>2, <2>1, <2>2, <2>3, ChangeCapacity, Sizes
<1>3. CASE ~(capacity(m) < n)
  BY <1>1, <1>3 DEF Grown, Same, Kept
<1> QED
  BY <1>2, <1>3

LEMMA InsertFacts ==
  ASSUME NEW m, Good(m), NEW vals \in Seq(Val), NEW p \in 0..size(m)
  PROVE  /\ Good(insert(m, p, vals)) /\ Same(m, insert(m, p, vals))
         /\ size(insert(m, p, vals)) = size(m) + Len(vals)
         /\ \A i \in 0..(size(m) + Len(vals) - 1) : items(insert(m, p, vals))[i] =
              IF i < p THEN items(m)[i]
              ELSE IF i < p + Len(vals) THEN vals[i - p + 1] ELSE items(m)[i - Len(vals)]
         /\ capacity(insert(m, p, vals)) >= capacity(m)
<1> DEFINE k == Len(vals)
           g == Grown(m, size(m) + k)
           c == Moved(items(g), p + k, p, size(g) - p)
           w == Write(g, c)
           d == Filled(items(w), p, vals)
           r == Write([w EXCEPT !.size = @ + k], d)
<1>1. size(m) \in Nat /\ capacity(m) \in Nat /\ size(m) <= capacity(m) /\ k \in Nat /\ p \in Nat /\ p <= size(m)
      /\ size(m) + k \in Nat /\ (\A i \in 0..(size(m) - 1) : items(m)[i] \in Val)
      /\ (\A i \in 1..k : vals[i] \in Val)
  BY GoodFacts DEF Good
<1>2. /\ Good(g) /\ Same(m, g) /\ Kept(m, g) /\ capacity(g) >= size(m) + k
      /\ capacity(g) >= capacity(m)
  BY <1>1, GrownFacts
<1>3. insert(m, p, vals) = r
  BY DEF insert
<1> HIDE DEF g
<1>4. /\ size(g) = size(m) /\ \A i \in 0..(size(m) - 1) : items(g)[i] = items(m)[i]
  BY <1>2 DEF Kept
<1>5. capacity(g) \in Nat /\ items(g) \in Cells(capacity(g))
  BY <1>2, GoodFacts
<1>6. /\ c \in Cells(capacity(g))
      /\ \A i \in 0..(capacity(g) - 1) : c[i] =
           IF i \in (p + k)..(p + k + (size(g) - p) - 1) THEN items(g)[p + i - (p + k)] ELSE items(g)[i]
  <2>1. p + k \in Nat /\ size(g) - p \in Nat /\ p + k + (size(g) - p) <= capacity(g) /\ p + (size(g) - p) <= capacity(g)
    BY <1>1, <1>2, <1>4, <1>5
  <2> DEFINE q == size(g) - p
             e == p + k
  <2> HIDE DEF q, e
  <2>2. /\ Moved(items(g), e, p, q) \in Cells(capacity(g))
        /\ \A i \in 0..(capacity(g) - 1) : Moved(items(g), e, p, q)[i] =
             IF i \in e..(e + q - 1) THEN items(g)[p + i - e] ELSE items(g)[i]
    <3>1. e \in Nat /\ q \in Nat /\ e + q <= capacity(g) /\ p + q <= capacity(g) /\ p \in Nat
      BY <1>1, <2>1 DEF q, e
    <3> QED
      BY <1>5, <3>1, MovedFacts
  <2> QED
    BY <2>2 DEF e, q
<1> HIDE DEF c
<1>7. items(w) = c /\ Holds(r, g, d, size(g) + k)
  BY <1>1, <1>2, <1>4, WriteSizeWrite
<1> HIDE DEF w, r
<1>8. /\ d \in Cells(capacity(g))
      /\ \A i \in 0..(capacity(g) - 1) : d[i] = IF i \in p..(p + k - 1) THEN vals[i - p + 1] ELSE c[i]
  BY <1>1, <1>2, <1>5, <1>6, <1>7, FilledFacts
<1> HIDE DEF d, k
<1>9. ASSUME NEW i \in 0..(size(m) + k - 1)
      PROVE  d[i] = IF i < p THEN items(m)[i] ELSE IF i < p + k THEN vals[i - p + 1] ELSE items(m)[i - k]
  <2>1. i \in 0..(capacity(g) - 1) /\ i \in Nat
    BY <1>1, <1>2, <1>5
  <2>2. CASE i < p
    <3>1. d[i] = c[i] /\ c[i] = items(g)[i] /\ i \in 0..(size(m) - 1)
      BY <1>1, <1>4, <1>6, <1>8, <2>1, <2>2
    <3> QED
      BY <3>1, <1>4, <2>2
  <2>3. CASE ~(i < p) /\ i < p + k
    BY <1>1, <1>8, <2>1, <2>3
  <2>4. CASE ~(i < p + k)
    <3>1. ~(i < p) /\ i - k \in 0..(size(m) - 1) /\ p + i - (p + k) = i - k
          /\ i \in (p + k)..(p + k + (size(g) - p) - 1) /\ i \notin p..(p + k - 1)
      BY <1>1, <1>4, <2>1, <2>4, SMTT(60)
    <3>2. d[i] = c[i] /\ c[i] = items(g)[i - k]
      BY <1>6, <1>8, <2>1, <3>1
    <3> QED
      BY <3>1, <3>2, <1>4, <2>4
  <2> QED
    BY <1>1, <2>1, <2>2, <2>3, <2>4
<1>10. \A i \in 0..(size(m) + k - 1) : d[i] \in Val
  <2> TAKE i \in 0..(size(m) + k - 1)
  <2>1. CASE i < p
    <3>1. i \in 0..(size(m) - 1)
      BY <1>1, <2>1
    <3>2. d[i] = items(m)[i]
      BY <1>9, <2>1
    <3> QED
      BY <1>1, <3>1, <3>2
  <2>2. CASE ~(i < p) /\ i < p + k
    <3>1. i - p + 1 \in 1..k /\ d[i] = vals[i - p + 1]
      BY <1>1, <1>9, <2>2
    <3> QED
      BY <1>1, <3>1
  <2>3. CASE ~(i < p + k)
    <3>1. ~(i < p) /\ i - k \in 0..(size(m) - 1)
      BY <1>1, <2>3
    <3> QED
      BY <1>1, <1>9, <2>3, <3>1
  <2> QED
    BY <1>1, <2>1, <2>2, <2>3
<1>11. Good(r) /\ Same(g, r) /\ size(r) = size(m) + k /\ items(r) = d /\ capacity(r) = capacity(g)
  <2> DEFINE s == size(m) + k
  <2>1. s \in Nat /\ s <= capacity(g) /\ Holds(r, g, d, s) /\ \A i \in 0..(s - 1) : d[i] \in Val
    BY <1>1, <1>2, <1>4, <1>7, <1>10
  <2> HIDE DEF s
  <2> QED
    BY <1>2, <1>8, <2>1, HoldsGood DEF s
<1> QED
  BY <1>2, <1>3, <1>9, <1>11, SameTrans DEF k

LEMMA SizeShift ==
  ASSUME NEW m, m.size \in Nat, NEW k \in Int
  PROVE  m.size + k = IF is_direct(m) THEN size(m) + k ELSE size(m) + k + N + 1
BY Sizes DEF is_direct, size

\* A value stored right behind the last one.
LEMMA AddedFacts ==
  ASSUME NEW g, Good(g), NEW vals \in Seq(Val), size(g) + Len(vals) <= capacity(g),
         NEW r, r = [Write(g, Filled(items(g), size(g), vals)) EXCEPT !.size = @ + Len(vals)]
  PROVE  /\ Good(r) /\ Same(g, r) /\ size(r) = size(g) + Len(vals) /\ capacity(r) = capacity(g)
         /\ \A i \in 0..(size(g) + Len(vals) - 1) :
              items(r)[i] = IF i < size(g) THEN items(g)[i] ELSE vals[i - size(g) + 1]
<1> DEFINE k == Len(vals)
           d == Filled(items(g), size(g), vals)
           s == size(g) + k
<1>1. /\ size(g) \in Nat /\ capacity(g) \in Nat /\ items(g) \in Cells(capacity(g)) /\ k \in Nat
      /\ s \in Nat /\ s <= capacity(g)
      /\ (\A i \in 0..(size(g) - 1) : items(g)[i] \in Val) /\ \A i \in 1..k : vals[i] \in Val
  BY GoodFacts DEF Good
<1>r. g.size \in Nat /\ IsRecord(g) /\ g.heap = [b \in DOMAIN g.heap |-> g.heap[b]]
  BY DEF Good
<1>2. /\ d \in Cells(capacity(g))
      /\ \A i \in 0..(capacity(g) - 1) : d[i] =
           IF i \in size(g)..(size(g) + k - 1) THEN vals[i - size(g) + 1] ELSE items(g)[i]
  BY <1>1, FilledFacts
<1>k. k \in Nat /\ size(g) \in Nat /\ g.size \in Nat
  BY <1>1, <1>r
<1>3. Write(g, d).size = g.size
  BY <1>r, WriteFields
<1>4. r = [Write(g, d) EXCEPT !.size = g.size + k]
  BY <1>3
<1> HIDE DEF d, k
<1>5. g.size + k = IF is_direct(g) THEN s ELSE s + N + 1
  BY <1>k, SizeShift
<1>6. Holds(r, g, d, s)
  <2>1. s \in Int
    BY <1>1
  <2>2. r = [Write(g, d) EXCEPT !.size = IF is_direct(g) THEN s ELSE s + N + 1]
    BY <1>4, <1>5, Zenon
  <2> HIDE DEF s
  <2> QED
    BY <2>1, <2>2, WriteThenSize
<1>7. ASSUME NEW i \in 0..(s - 1)
      PROVE  d[i] = (IF i < size(g) THEN items(g)[i] ELSE vals[i - size(g) + 1]) /\ d[i] \in Val
  <2>1. i \in 0..(capacity(g) - 1) /\ i \in Nat
    BY <1>1
  <2>2. CASE i < size(g)
    <3>1. d[i] = items(g)[i] /\ i \in 0..(size(g) - 1)
      BY <1>1, <1>2, <2>1, <2>2
    <3> QED
      BY <1>1, <2>2, <3>1
  <2>3. CASE ~(i < size(g))
    <3>1. i \in size(g)..(size(g) + k - 1) /\ i - size(g) + 1 \in 1..k
      BY <1>1, <2>1, <2>3, SMTT(60)
    <3>2. d[i] = vals[i - size(g) + 1]
      BY <1>2, <2>1, <3>1
    <3> QED
      BY <1>1, <2>3, <3>1, <3>2
  <2> QED
    BY <2>2, <2>3
<1> HIDE DEF s
<1>8. Good(r) /\ Same(g, r) /\ size(r) = s /\ items(r) = d /\ capacity(r) = capacity(g)
  BY <1>1, <1>2, <1>6, <1>7, HoldsGood
<1> QED
  <2>1. s = size(g) + Len(vals)
    BY DEF s, k
  <2>2. \A i \in 0..(size(g) + Len(vals) - 1) :
          items(r)[i] = IF i < size(g) THEN items(g)[i] ELSE vals[i - size(g) + 1]
    <3> TAKE i \in 0..(size(g) + Len(vals) - 1)
    <3>1. i \in 0..(s - 1)
      BY <2>1, <1>1
    <3>2. items(r)[i] = d[i]
      BY <1>8, Zenon
    <3> QED
      BY <1>7, <3>1, <3>2, Zenon
  <2>3. Good(r) /\ Same(g, r) /\ size(r) = size(g) + Len(vals) /\ capacity(r) = capacity(g)
    BY <1>8, <2>1, Zenon
  <2> QED
    BY <2>2, <2>3, Zenon

LEMMA PushBackFacts ==
  ASSUME NEW m, Good(m), NEW v \in Val
  PROVE  /\ Good(push_back(m, v)) /\ Same(m, push_back(m, v)) /\ size(push_back(m, v)) = size(m) + 1
         /\ \A i \in 0..size(m) : items(push_back(m, v))[i] = IF i < size(m) THEN items(m)[i] ELSE v
         /\ capacity(push_back(m, v)) >= capacity(m)
<1> DEFINE g == Grown(m, size(m) + 1)
           r == push_back(m, v)
<1>1. size(m) \in Nat /\ size(m) + 1 \in Nat /\ capacity(m) \in Nat
  BY GoodFacts
<1>2. /\ Good(g) /\ Same(m, g) /\ Kept(m, g) /\ capacity(g) >= size(m) + 1 /\ capacity(g) >= capacity(m)
  BY <1>1, GrownFacts
<1>3. r = [Write(g, Filled(items(g), size(g), <<v>>)) EXCEPT !.size = @ + 1]
  BY DEF push_back
<1> HIDE DEF g, r
<1>4. <<v>> \in Seq(Val) /\ Len(<<v>>) = 1 /\ <<v>>[1] = v
  OBVIOUS
<1>5. size(g) = size(m) /\ \A i \in 0..(size(m) - 1) : items(g)[i] = items(m)[i]
  BY <1>2 DEF Kept
<1>6. /\ Good(r) /\ Same(g, r) /\ size(r) = size(g) + Len(<<v>>) /\ capacity(r) = capacity(g)
      /\ \A i \in 0..(size(g) + Len(<<v>>) - 1) :
           items(r)[i] = IF i < size(g) THEN items(g)[i] ELSE <<v>>[i - size(g) + 1]
  <2>1. size(g) + Len(<<v>>) <= capacity(g)
    BY <1>2, <1>4, <1>5
  <2>2. r = [Write(g, Filled(items(g), size(g), <<v>>)) EXCEPT !.size = @ + Len(<<v>>)]
    BY <1>3, <1>4
  <2>3. <<v>> \in Seq(Val)
    BY <1>4
  <2> DEFINE vs == <<v>>
  <2> HIDE DEF vs
  <2> QED
    BY <1>2, <2>1, <2>2, <2>3, AddedFacts, ZenonT(60) DEF vs
<1>7. \A i \in 0..size(m) : items(r)[i] = IF i < size(m) THEN items(m)[i] ELSE v
  BY <1>1, <1>4, <1>5, <1>6
<1> QED
  BY <1>2, <1>4, <1>5, <1>6, <1>7, SameTrans DEF r

LEMMA EraseFacts ==
  ASSUME NEW m, Good(m), NEW q \in 0..size(m), NEW p \in 0..q
  PROVE  /\ Good(erase(m, p, q)) /\ Same(m, erase(m, p, q))
         /\ size(erase(m, p, q)) = size(m) - (q - p)
         /\ \A i \in 0..(size(m) - (q - p) - 1) : items(erase(m, p, q))[i] =
              IF i < p THEN items(m)[i] ELSE items(m)[i + (q - p)]
         /\ capacity(erase(m, p, q)) = capacity(m)
<1> DEFINE k == size(m) - (q - p)
           t == size(m) - q
           c == Moved(items(m), p, q, t)
           d == Copied(c, k, capacity(m))
           r == erase(m, p, q)
<1>1. /\ size(m) \in Nat /\ capacity(m) \in Nat /\ items(m) \in Cells(capacity(m)) /\ size(m) <= capacity(m)
      /\ \A i \in 0..(size(m) - 1) : items(m)[i] \in Val
  BY GoodFacts DEF Good
<1>r. m.size \in Nat /\ IsRecord(m) /\ m.heap = [b \in DOMAIN m.heap |-> m.heap[b]]
  BY DEF Good
<1>2. p \in Nat /\ q \in Nat /\ p <= q /\ q <= size(m)
  BY <1>1
<1>3. /\ k \in Nat /\ k <= capacity(m) /\ t \in Nat /\ p + t <= capacity(m) /\ q + t <= capacity(m) /\ k = p + t
  BY <1>1, <1>2
<1>4. r = [Write(m, d) EXCEPT !.size = @ - (q - p)]
  BY DEF erase
<1> HIDE DEF t, r, k
<1>5. /\ c \in Cells(capacity(m))
      /\ \A i \in 0..(capacity(m) - 1) : c[i] = IF i \in p..(p + t - 1) THEN items(m)[q + i - p] ELSE items(m)[i]
  BY <1>1, <1>2, <1>3, MovedFacts, SMTT(60)
<1> HIDE DEF c
<1>6. /\ d \in Cells(capacity(m)) /\ \A i \in 0..(k - 1) : d[i] = c[i]
  <2>1. capacity(m) \in Nat /\ c \in Cells(capacity(m)) /\ k \in Nat /\ k <= capacity(m)
    BY <1>1, <1>3, <1>5
  <2> QED
    BY <2>1, CopiedFacts
<1> HIDE DEF d
<1>7. Write(m, d).size = m.size
  BY <1>r, WriteFields
<1>8. m.size - (q - p) = IF is_direct(m) THEN k ELSE k + N + 1
  BY <1>r, <1>2, Sizes DEF size, is_direct, k
<1>9. Holds(r, m, d, k)
  <2>1. r = [Write(m, d) EXCEPT !.size = m.size - (q - p)]
    BY <1>4, <1>7
  <2>2. r = [Write(m, d) EXCEPT !.size = IF is_direct(m) THEN k ELSE k + N + 1]
    BY <2>1, <1>8, Zenon
  <2>3. k \in Int
    BY <1>3
  <2> HIDE DEF k
  <2> QED
    BY <2>2, <2>3, WriteThenSize
<1>10. ASSUME NEW i \in 0..(k - 1)
       PROVE  d[i] = (IF i < p THEN items(m)[i] ELSE items(m)[i + (q - p)]) /\ d[i] \in Val
  <2>1. i \in Nat /\ i \in 0..(capacity(m) - 1) /\ d[i] = c[i]
    BY <1>1, <1>3, <1>6
  <2>2. CASE i < p
    <3>1. i \in 0..(size(m) - 1) /\ c[i] = items(m)[i]
      BY <1>1, <1>2, <1>5, <2>1, <2>2
    <3> QED
      BY <1>1, <2>1, <2>2, <3>1
  <2>3. CASE ~(i < p)
    <3>1. i \in p..(p + t - 1) /\ q + i - p = i + (q - p) /\ i + (q - p) \in 0..(size(m) - 1)
      <4>1. i < p + t /\ q + t = size(m) /\ size(m) \in Nat /\ t \in Nat
        BY <1>1, <1>2, <1>3 DEF t
      <4> QED
        BY <1>2, <2>1, <2>3, <4>1
    <3>2. c[i] = items(m)[i + (q - p)]
      BY <1>5, <2>1, <3>1
    <3> QED
      BY <1>1, <2>1, <2>3, <3>1, <3>2
  <2> QED
    BY <2>2, <2>3
<1>11. Good(r) /\ Same(m, r) /\ size(r) = k /\ items(r) = d /\ capacity(r) = capacity(m)
  <2> HIDE DEF k
  <2> QED
    BY <1>3, <1>6, <1>9, <1>10, HoldsGood
<1> QED
  BY <1>10, <1>11 DEF r, k

LEMMA ReserveFacts ==
  ASSUME NEW m, Good(m), NEW n \in Nat
  PROVE  /\ Good(reserve(m, n)) /\ Same(m, reserve(m, n)) /\ Kept(m, reserve(m, n))
         /\ capacity(reserve(m, n)) >= n /\ capacity(reserve(m, n)) >= capacity(m)
<1>1. size(m) \in Nat /\ capacity(m) \in Nat /\ size(m) <= capacity(m) /\ capacity(m) >= N
  BY GoodFacts
<1>2. CASE n > capacity(m)
  <2>1. reserve(m, n) = change_capacity(m, n) /\ size(m) <= n /\ ~(n <= N)
    BY <1>1, <1>2, Sizes DEF reserve
  <2> QED
    BY <1>1, <1>2, <2>1, ChangeCapacity
<1>3. CASE ~(n > capacity(m))
  BY <1>1, <1>3 DEF reserve, Same, Kept
<1> QED
  BY <1>2, <1>3

LEMMA ResizeFacts ==
  ASSUME NEW m, Good(m), NEW n \in Nat
  PROVE  /\ Good(resize(m, n)) /\ Same(m, resize(m, n)) /\ size(resize(m, n)) = n
         /\ \A i \in 0..(n - 1) : items(resize(m, n))[i] = IF i < size(m) THEN items(m)[i] ELSE Zero
         /\ capacity(resize(m, n)) >= capacity(m)
<1> DEFINE r == resize(m, n)
<1>1. size(m) \in Nat /\ capacity(m) \in Nat /\ size(m) <= capacity(m)
  BY GoodFacts
<1>2. CASE n <= size(m)
  <2>1. r = erase(m, n, size(m)) /\ size(m) \in 0..size(m) /\ n \in 0..size(m) /\ size(m) - (size(m) - n) = n
    BY <1>1, <1>2 DEF resize
  <2>2. /\ Good(r) /\ Same(m, r) /\ size(r) = size(m) - (size(m) - n)
        /\ \A i \in 0..(size(m) - (size(m) - n) - 1) : items(r)[i] =
             IF i < n THEN items(m)[i] ELSE items(m)[i + (size(m) - n)]
        /\ capacity(r) = capacity(m)
    <3> DEFINE q == size(m)
    <3>1. q \in 0..size(m) /\ n \in 0..q /\ r = erase(m, n, q)
      BY <2>1
    <3> HIDE DEF q, r
    <3> QED
      BY <3>1, EraseFacts DEF q
  <2> HIDE DEF r
  <2>3. \A i \in 0..(n - 1) : items(r)[i] = IF i < size(m) THEN items(m)[i] ELSE Zero
    BY <1>1, <1>2, <2>1, <2>2
  <2> QED
    BY <1>1, <2>1, <2>2, <2>3 DEF r
<1>3. CASE ~(n <= size(m))
  <2> DEFINE k == n - size(m)
             vals == [i \in 1..k |-> Zero]
             g == reserve(m, n)
  <2>1. k \in Nat /\ vals \in Seq(Val) /\ Len(vals) = k /\ \A i \in 1..k : vals[i] = Zero
    BY <1>1, <1>3, Sizes
  <2>2. /\ Good(g) /\ Same(m, g) /\ Kept(m, g) /\ capacity(g) >= n /\ capacity(g) >= capacity(m)
    BY ReserveFacts
  <2>3. r = [Write(g, Filled(items(g), size(g), vals)) EXCEPT !.size = @ + k]
    BY <1>3 DEF resize, reserve
  <2> HIDE DEF g, vals, r
  <2>4. size(g) = size(m) /\ \A i \in 0..(size(m) - 1) : items(g)[i] = items(m)[i]
    BY <2>2 DEF Kept
  <2>5. size(g) + Len(vals) <= capacity(g) /\ size(g) + Len(vals) = n /\ capacity(g) \in Nat
    BY <1>1, <1>3, <2>1, <2>2, <2>4, GoodFacts
  <2>6. r = [Write(g, Filled(items(g), size(g), vals)) EXCEPT !.size = @ + Len(vals)]
    BY <2>1, <2>3, Zenon
  <2> HIDE DEF k
  <2>7. /\ Good(r) /\ Same(g, r) /\ size(r) = size(g) + Len(vals) /\ capacity(r) = capacity(g)
        /\ \A i \in 0..(size(g) + Len(vals) - 1) :
              items(r)[i] = IF i < size(g) THEN items(g)[i] ELSE vals[i - size(g) + 1]
    BY <2>1, <2>2, <2>5, <2>6, AddedFacts
  <2>8. ASSUME NEW i \in 0..(n - 1)
        PROVE  items(r)[i] = IF i < size(m) THEN items(m)[i] ELSE Zero
    <3>1. items(r)[i] = IF i < size(m) THEN items(g)[i] ELSE vals[i - size(m) + 1]
      <4>1. i \in 0..(size(g) + Len(vals) - 1)
        BY <1>1, <2>1, <2>4, <2>5
      <4>2. items(r)[i] = IF i < size(g) THEN items(g)[i] ELSE vals[i - size(g) + 1]
        BY <2>7, <4>1, Zenon
      <4> QED
        BY <2>4, <4>2, Zenon
    <3>2. i >= size(m) => i - size(m) + 1 \in 1..k
      BY <1>1, <1>3 DEF k
    <3>3. i < size(m) => i \in 0..(size(m) - 1)
      BY <1>1
    <3> QED
      BY <1>1, <2>1, <2>4, <3>1, <3>2, <3>3
  <2> QED
    BY <1>1, <2>2, <2>5, <2>7, <2>8, SameTrans DEF r
<1> QED
  BY <1>2, <1>3

LEMMA ShrinkFacts ==
  ASSUME NEW m, Good(m)
  PROVE  /\ Good(shrink_to_fit(m)) /\ Same(m, shrink_to_fit(m)) /\ Kept(m, shrink_to_fit(m))
<1>1. size(m) \in Nat /\ size(m) <= size(m)
  BY GoodFacts
<1> QED
  BY <1>1, ChangeCapacity DEF shrink_to_fit

LEMMA ClearFacts ==
  ASSUME NEW m, Good(m)
  PROVE  Good(clear(m)) /\ Same(m, clear(m)) /\ size(clear(m)) = 0 /\ capacity(clear(m)) >= capacity(m)
BY ResizeFacts DEF clear

LEMMA AddAndFillFacts ==
  ASSUME NEW m, Good(m), size(m) = 0, NEW vals \in Seq(Val), Len(vals) <= capacity(m)
  PROVE  /\ Good(AddAndFill(m, vals)) /\ Same(m, AddAndFill(m, vals))
         /\ size(AddAndFill(m, vals)) = Len(vals)
         /\ \A i \in 0..(Len(vals) - 1) : items(AddAndFill(m, vals))[i] = vals[i + 1]
         /\ capacity(AddAndFill(m, vals)) = capacity(m)
<1> DEFINE k == Len(vals)
           g == [m EXCEPT !.size = @ + k]
           c == Filled(items(m), 0, vals)
           r == AddAndFill(m, vals)
<1>1. /\ capacity(m) \in Nat /\ items(m) \in Cells(capacity(m)) /\ k \in Nat /\ k <= capacity(m)
      /\ 0 + k <= capacity(m) /\ \A i \in 1..k : vals[i] \in Val
  BY GoodFacts
<1>2. /\ c \in Cells(capacity(m))
      /\ \A i \in 0..(capacity(m) - 1) : c[i] =
           IF i \in 0..(0 + k - 1) THEN vals[i - 0 + 1] ELSE items(m)[i]
  <2> DEFINE z == 0
  <2>1. z \in Nat /\ z + k <= capacity(m)
    BY <1>1
  <2> HIDE DEF z
  <2> QED
    BY <1>1, <2>1, FilledFacts DEF z
<1>3. \A i \in 0..(k - 1) : c[i] = vals[i + 1] /\ c[i] \in Val
  <2> TAKE i \in 0..(k - 1)
  <2>1. i \in 0..(capacity(m) - 1) /\ i \in 0..(0 + k - 1) /\ i - 0 + 1 = i + 1 /\ i + 1 \in 1..k
    BY <1>1
  <2> QED
    BY <1>1, <1>2, <2>1
<1>4. items(g) = items(m) /\ Holds(Write(g, c), m, c, k)
  <2>1. size(m) + k <= capacity(m) /\ size(m) + k = k
    BY <1>1
  <2> HIDE DEF c, k
  <2> QED
    BY <1>1, <2>1, SizeThenWrite
<1>5. r = Write(g, c)
  BY <1>4 DEF AddAndFill
<1> HIDE DEF r, g, c, k
<1>6. Good(r) /\ Same(m, r) /\ size(r) = k /\ items(r) = c /\ capacity(r) = capacity(m)
  BY <1>1, <1>2, <1>3, <1>4, <1>5, HoldsGood
<1> QED
  BY <1>3, <1>6 DEF r, k

LEMMA AssignFacts ==
  ASSUME NEW m, Good(m), NEW vals \in Seq(Val)
  PROVE  /\ Good(assign(m, vals)) /\ Same(m, assign(m, vals)) /\ size(assign(m, vals)) = Len(vals)
         /\ \A i \in 0..(Len(vals) - 1) : items(assign(m, vals))[i] = vals[i + 1]
         /\ capacity(assign(m, vals)) >= capacity(m)
<1> DEFINE c == clear(m)
           g == reserve(c, Len(vals))
           r == AddAndFill(g, vals)
<1>1. Good(c) /\ Same(m, c) /\ size(c) = 0 /\ capacity(c) >= capacity(m)
  BY ClearFacts
<1>2. Len(vals) \in Nat /\ capacity(m) \in Nat /\ capacity(c) \in Nat
  BY <1>1, GoodFacts
<1>3. assign(m, vals) = r
  BY <1>2 DEF assign, reserve
<1> HIDE DEF c
<1>4. Good(g) /\ Same(c, g) /\ Kept(c, g) /\ capacity(g) >= Len(vals) /\ capacity(g) >= capacity(c)
  BY <1>1, <1>2, ReserveFacts
<1> HIDE DEF g
<1>5. size(g) = 0 /\ Len(vals) <= capacity(g) /\ capacity(g) \in Nat
  BY <1>1, <1>2, <1>4, GoodFacts DEF Kept
<1>6. /\ Good(r) /\ Same(g, r) /\ size(r) = Len(vals)
      /\ \A i \in 0..(Len(vals) - 1) : items(r)[i] = vals[i + 1]
      /\ capacity(r) = capacity(g)
  BY <1>4, <1>5, AddAndFillFacts
<1> HIDE DEF r
<1>7. Same(m, r)
  BY <1>1, <1>4, <1>6, SameTrans
<1>8. capacity(r) >= capacity(m)
  BY <1>1, <1>2, <1>4, <1>5, <1>6
<1> QED
  BY <1>3, <1>6, <1>7, <1>8

\* A constructed object sees the heap that is left of the destroyed one.
LEMMA ConstructFacts ==
  ASSUME NEW m, Good(m), NEW vals \in Seq(Val), NEW r, r = construct(destroy(m), vals)
  PROVE  /\ Good(r) /\ Same(m, r) /\ size(r) = Len(vals)
         /\ \A i \in 0..(Len(vals) - 1) : items(r)[i] = vals[i + 1]
<1> DEFINE h == destroy(m)
           e == Empty(h)
           g == change_capacity(e, Len(vals))
<1>1. h = [b \in Rest(m) |-> m.heap[b]]
  <2>1. CASE is_direct(m)
    <3>1. Rest(m) = DOMAIN m.heap /\ h = m.heap /\ m.heap = [b \in DOMAIN m.heap |-> m.heap[b]]
      BY <2>1 DEF destroy, Rest, Own, Good
    <3> QED
      BY <3>1, Zenon
  <2>2. CASE ~is_direct(m)
    BY <2>2 DEF destroy, free, Rest, Own
  <2> QED
    BY <2>1, <2>2
<1>2. Rest(m) \subseteq Blocks /\ Rest(m) # Blocks
  BY DEF Good, Rest
<1>3. r = AddAndFill(g, vals)
  BY DEF construct
<1> HIDE DEF h
<1>4. /\ IsRecord(e) /\ e.size = 0 /\ e.direct = JunkCells(N) /\ e.heap = h
  BY DEF Empty, IsRecord, Names
<1> HIDE DEF e
<1>5. is_direct(e) /\ size(e) = 0 /\ capacity(e) = N
  BY <1>4, Sizes DEF is_direct, size, capacity
<1>6. DOMAIN e.heap = Rest(m) /\ Rest(e) = Rest(m) /\ (\A b \in Rest(m) : e.heap[b] = m.heap[b])
      /\ e.heap = [b \in DOMAIN e.heap |-> e.heap[b]]
  BY <1>1, <1>4, <1>5 DEF Rest, Own
<1>7. e.direct \in Cells(N)
  BY <1>4 DEF JunkCells, Cells
<1>8. Good(e) /\ Same(m, e)
  BY <1>2, <1>4, <1>5, <1>6, <1>7 DEF Good, Same
<1>9. Len(vals) \in Nat /\ size(e) <= Len(vals)
  BY <1>5
<1>10. Good(g) /\ Same(e, g) /\ Kept(e, g) /\ capacity(g) = IF Len(vals) <= N THEN N ELSE Len(vals)
  BY <1>8, <1>9, ChangeCapacity
<1> HIDE DEF g
<1>11. size(g) = 0 /\ Len(vals) <= capacity(g)
  BY <1>5, <1>9, <1>10, Sizes DEF Kept
<1>12. Good(r) /\ Same(g, r) /\ size(r) = Len(vals) /\ \A i \in 0..(Len(vals) - 1) : items(r)[i] = vals[i + 1]
  BY <1>3, <1>10, <1>11, AddAndFillFacts
<1> QED
  BY <1>8, <1>10, <1>12, SameTrans

-----------------------------------------------------------------------------
(* The two vectors *)

\* The inductive invariant: the layout, and that malloc's addresses are Blocks.
IInv ==
    /\ LayoutOK
    /\ obj = [x \in Vec |-> obj[x]] /\ heap = [b \in DOMAIN heap |-> heap[b]]
    /\ DOMAIN heap \subseteq Blocks

LEMMA Two ==
  ASSUME NEW x \in Vec
  PROVE  Other(x) \in Vec /\ Other(x) # x /\ Other(Other(x)) = x /\ Vec = {x, Other(x)}
BY DEF Vec, Other

LEMMA MemFields ==
  ASSUME NEW x
  PROVE  /\ Mem(x).size = obj[x].size /\ Mem(x).direct = obj[x].direct /\ Mem(x).heap = heap
         /\ Mem(x).capacity = obj[x].capacity /\ Mem(x).indirect = obj[x].indirect
         /\ IsRecord(Mem(x))
BY DEF Mem, IsRecord, Names

LEMMA OwnsIsOwn == ASSUME NEW x PROVE Owns(x) = Own(Mem(x))
BY MemFields DEF Owns, Own

LEMMA Apart ==
  ASSUME IInv, NEW x \in Vec
  PROVE  Own(Mem(x)) \cap Own(Mem(Other(x))) = {} /\ DOMAIN heap = Own(Mem(x)) \cup Own(Mem(Other(x)))
BY OwnsIsOwn DEF IInv, LayoutOK, Vec, Other

LEMMA MemGood ==
  ASSUME IInv, NEW x \in Vec
  PROVE  Good(Mem(x)) /\ Rest(Mem(x)) = Own(Mem(Other(x)))
<1> DEFINE m == Mem(x)
           n == Mem(Other(x))
<1>1. /\ m.size \in Nat /\ m.direct \in Cells(N)
      /\ ~is_direct(m) =>
           /\ m.capacity \in Nat /\ m.capacity > N /\ size(m) <= m.capacity
           /\ m.indirect \in DOMAIN m.heap /\ m.heap[m.indirect] \in Cells(m.capacity)
      /\ \A i \in 0..(size(m) - 1) : items(m)[i] \in Val
  BY MemFields DEF IInv, LayoutOK
<1>2. Own(m) \cap Own(n) = {} /\ DOMAIN m.heap = Own(m) \cup Own(n)
  BY Apart, MemFields
<1>3. IsRecord(m) /\ m.heap = [b \in DOMAIN m.heap |-> m.heap[b]] /\ DOMAIN m.heap \subseteq Blocks
  BY MemFields DEF IInv
<1> HIDE DEF m, n
<1>4. Rest(m) = Own(n)
  BY <1>2 DEF Rest
<1>5. Own(n) # Blocks
  BY DEF Own, Blocks
<1> QED
  BY <1>1, <1>3, <1>4, <1>5 DEF Good, m, n

\* A call leaves the vector it is made on as the method does, the other one and
\* the layout of both alone.
LEMMA DoStep ==
  ASSUME IInv, NEW x \in Vec, NEW op, NEW p, NEW q, NEW vals, NEW r, Good(r), Same(Mem(x), r),
         Do(op, x, p, q, vals, r)
  PROVE  /\ IInv' /\ Mem(x)' = r
         /\ Contents(Mem(Other(x)))' = Contents(Mem(Other(x)))
<1> DEFINE y == Other(x)
           m == Mem(x)
           n == Mem(y)
           k == Mem(y)'
<1>1. obj' = [obj EXCEPT ![x] = Fields(r)] /\ heap' = r.heap
  BY DEF Do
<1>2. obj'[x] = Fields(r) /\ obj'[y] = obj[y] /\ obj' = [z \in Vec |-> obj'[z]]
  BY <1>1, Two DEF IInv
<1>3. Mem(x)' = r
  BY <1>1, <1>2 DEF Mem, Fields, Good, IsRecord, Names
<1>4. /\ k.size = n.size /\ k.direct = n.direct /\ k.capacity = n.capacity /\ k.indirect = n.indirect
      /\ k.heap = r.heap /\ IsRecord(k)
  BY <1>1, <1>2 DEF Mem, IsRecord, Names
<1>5. Good(m) /\ Rest(m) = Own(n) /\ Good(n)
  BY MemGood, Two
<1> HIDE DEF k, n, m
<1>6. (is_direct(k) <=> is_direct(n)) /\ Own(k) = Own(n) /\ size(k) = size(n)
  BY <1>4 DEF is_direct, Own, size
<1>7. /\ Rest(r) = Own(n) /\ \A b \in Own(n) : r.heap[b] = m.heap[b]
  BY <1>5 DEF Same, m
<1>8. items(k) = items(n)
  <2>1. m.heap = n.heap
    BY MemFields DEF m, n
  <2> QED
    BY <1>4, <1>6, <1>7, <2>1 DEF items, Own
<1>9. Contents(k) = Contents(n)
  BY <1>6, <1>8 DEF Contents
<1>10. Own(r) \subseteq DOMAIN r.heap
  BY DEF Good, Own
<1>11. DOMAIN r.heap = Own(r) \cup Own(k) /\ Own(r) \cap Own(k) = {}
  BY <1>6, <1>7, <1>10 DEF Rest
<1>12. DOMAIN heap' = Owns("a")' \cup Owns("b")' /\ Owns("a")' \cap Owns("b")' = {}
  <2>1. Owns(x)' = Own(r)
    BY <1>3 DEF Owns, Own, Mem
  <2>2. Owns(y)' = Own(k)
    BY DEF Owns, Own, Mem, k
  <2> QED
    BY <1>1, <1>11, <2>1, <2>2 DEF Vec, Other
<1>13. /\ n.size \in Nat /\ n.direct \in Cells(N)
       /\ ~is_direct(n) =>
            /\ n.capacity \in Nat /\ n.capacity > N /\ size(n) <= n.capacity
            /\ items(n) \in Cells(n.capacity)
       /\ \A i \in 0..(size(n) - 1) : items(n)[i] \in Val
  BY <1>5 DEF Good, items
<1>14. ~is_direct(k) => k.indirect \in DOMAIN r.heap /\ r.heap[k.indirect] = items(k)
  BY <1>4, <1>11 DEF items, Own
<1>15. /\ k.size \in Nat /\ k.direct \in Cells(N)
       /\ ~is_direct(k) =>
            /\ k.capacity \in Nat /\ k.capacity > N /\ size(k) <= k.capacity
            /\ k.indirect \in DOMAIN heap' /\ heap'[k.indirect] \in Cells(k.capacity)
       /\ \A i \in 0..(size(k) - 1) : items(k)[i] \in Val
  <2>1. k.size \in Nat /\ k.direct \in Cells(N)
    BY <1>4, <1>5, <1>13, Zenon
  <2>2. ASSUME ~is_direct(k)
        PROVE  /\ k.capacity \in Nat /\ k.capacity > N /\ size(k) <= k.capacity
               /\ k.indirect \in DOMAIN heap' /\ heap'[k.indirect] \in Cells(k.capacity)
    <3>1. ~is_direct(n)
      BY <1>6, <2>2
    <3>2. n.capacity \in Nat /\ n.capacity > N /\ size(n) <= n.capacity /\ items(n) \in Cells(n.capacity)
      BY <1>5, <1>13, <3>1
    <3>3. k.indirect \in DOMAIN heap' /\ heap'[k.indirect] = items(n)
      BY <1>1, <1>8, <1>14, <2>2, Zenon
    <3> QED
      BY <1>4, <1>6, <3>2, <3>3, Zenon
  <2>3. \A i \in 0..(size(k) - 1) : items(k)[i] \in Val
    BY <1>5, <1>6, <1>8, <1>13, Zenon
  <2> QED
    BY <2>1, <2>2, <2>3
<1>16. /\ r.size \in Nat /\ r.direct \in Cells(N)
       /\ ~is_direct(r) =>
            /\ r.capacity \in Nat /\ r.capacity > N /\ size(r) <= r.capacity
            /\ r.indirect \in DOMAIN heap' /\ heap'[r.indirect] \in Cells(r.capacity)
       /\ \A i \in 0..(size(r) - 1) : items(r)[i] \in Val
  BY <1>1 DEF Good
<1>17. LayoutOK'
  <2>1. Mem(x)' = r /\ Mem(y)' = k /\ \A z \in Vec : z = x \/ z = y
    BY <1>3, Two DEF k
  <2>2. \A z \in Vec :
         /\ Mem(z)'.size \in Nat /\ Mem(z)'.direct \in Cells(N)
         /\ ~is_direct(Mem(z)') =>
              /\ Mem(z)'.capacity \in Nat /\ Mem(z)'.capacity > N /\ size(Mem(z)') <= Mem(z)'.capacity
              /\ Mem(z)'.indirect \in DOMAIN heap' /\ heap'[Mem(z)'.indirect] \in Cells(Mem(z)'.capacity)
         /\ \A i \in 0..(size(Mem(z)') - 1) : items(Mem(z)')[i] \in Val
    BY <1>15, <1>16, <2>1, Zenon
  <2> QED
    BY <1>12, <2>2 DEF LayoutOK
<1>18. DOMAIN heap' \subseteq Blocks /\ heap' = [b \in DOMAIN heap' |-> heap'[b]]
  BY <1>1 DEF Good
<1> QED
  BY <1>2, <1>3, <1>9, <1>17, <1>18 DEF IInv, k, n

-----------------------------------------------------------------------------
(* Contents *)

LEMMA PrefixFacts ==
  ASSUME NEW S, NEW s \in Seq(S), NEW n \in 0..Len(s)
  PROVE  /\ SubSeq(s, 1, n) \in Seq(S) /\ Len(SubSeq(s, 1, n)) = n
         /\ \A m \in 1..n : SubSeq(s, 1, n)[m] = s[m]
OBVIOUS

LEMMA SuffixFacts ==
  ASSUME NEW S, NEW s \in Seq(S), NEW n \in 0..Len(s)
  PROVE  /\ SubSeq(s, n + 1, Len(s)) \in Seq(S) /\ Len(SubSeq(s, n + 1, Len(s))) = Len(s) - n
         /\ \A m \in 1..(Len(s) - n) : SubSeq(s, n + 1, Len(s))[m] = s[m + n]
OBVIOUS

LEMMA ConcatFacts ==
  ASSUME NEW S, NEW s \in Seq(S), NEW t \in Seq(S)
  PROVE  /\ s \o t \in Seq(S) /\ Len(s \o t) = Len(s) + Len(t)
         /\ \A n \in 1..(Len(s) + Len(t)) : (s \o t)[n] = IF n <= Len(s) THEN s[n] ELSE t[n - Len(s)]
OBVIOUS

LEMMA ConcatEmpty == ASSUME NEW S, NEW s \in Seq(S) PROVE s \o <<>> = s
OBVIOUS

LEMMA ContentsFacts ==
  ASSUME NEW m, Good(m)
  PROVE  /\ Contents(m) \in Seq(Val) /\ Len(Contents(m)) = size(m) /\ size(m) \in Nat
         /\ \A i \in 1..size(m) : Contents(m)[i] = items(m)[i - 1]
         /\ \A i \in 0..(size(m) - 1) : items(m)[i] = Contents(m)[i + 1]
<1>1. size(m) \in Nat /\ \A i \in 0..(size(m) - 1) : items(m)[i] \in Val
  BY GoodFacts DEF Good
<1>2. \A i \in 1..size(m) : items(m)[i - 1] \in Val
  BY <1>1
<1>3. Contents(m) \in [1..size(m) -> Val]
  BY <1>2 DEF Contents
<1>4. \A i \in 1..size(m) : Contents(m)[i] = items(m)[i - 1]
  BY DEF Contents
<1>5. \A i \in 0..(size(m) - 1) : i + 1 \in 1..size(m) /\ (i + 1) - 1 = i
  BY <1>1
<1>6. \A i \in 0..(size(m) - 1) : items(m)[i] = Contents(m)[i + 1]
  BY <1>4, <1>5
<1>7. Contents(m) \in Seq(Val) /\ Len(Contents(m)) = size(m)
  BY <1>1, <1>3
<1> QED
  BY <1>1, <1>4, <1>6, <1>7

LEMMA ContentsAre ==
  ASSUME NEW m, NEW s \in Seq(Val), size(m) = Len(s), \A i \in 1..Len(s) : items(m)[i - 1] = s[i]
  PROVE  Contents(m) = s
<1>1. s = [i \in 1..Len(s) |-> s[i]]
  OBVIOUS
<1>2. Contents(m) = [i \in 1..Len(s) |-> items(m)[i - 1]]
  BY Zenon DEF Contents
<1> QED
  BY <1>1, <1>2

LEMMA KeptContents ==
  ASSUME NEW m, NEW r, Kept(m, r), Good(m)
  PROVE  Contents(r) = Contents(m)
<1>1. /\ Contents(m) \in Seq(Val) /\ Len(Contents(m)) = size(m) /\ size(m) \in Nat
      /\ \A i \in 1..size(m) : Contents(m)[i] = items(m)[i - 1]
  BY ContentsFacts
<1>2. \A i \in 1..size(m) : items(r)[i - 1] = items(m)[i - 1]
  BY <1>1 DEF Kept
<1>3. size(r) = Len(Contents(m)) /\ \A i \in 1..Len(Contents(m)) : items(r)[i - 1] = Contents(m)[i]
  BY <1>1, <1>2 DEF Kept
<1> QED
  BY <1>1, <1>3, ContentsAre

\* The values v between the first p of c and the rest.
Splice(c, p, v) == SubSeq(c, 1, p) \o v \o SubSeq(c, p + 1, Len(c))

LEMMA SpliceFacts ==
  ASSUME NEW S, NEW c \in Seq(S), NEW v \in Seq(S), NEW p \in 0..Len(c)
  PROVE  /\ Splice(c, p, v) \in Seq(S) /\ Len(Splice(c, p, v)) = Len(c) + Len(v)
         /\ \A i \in 1..(Len(c) + Len(v)) : Splice(c, p, v)[i] =
              IF i <= p THEN c[i] ELSE IF i <= p + Len(v) THEN v[i - p] ELSE c[i - Len(v)]
<1> DEFINE a == SubSeq(c, 1, p)
           z == SubSeq(c, p + 1, Len(c))
           b == a \o v
           s == Splice(c, p, v)
<1>1. a \in Seq(S) /\ Len(a) = p /\ \A m \in 1..p : a[m] = c[m]
  BY PrefixFacts
<1>2. z \in Seq(S) /\ Len(z) = Len(c) - p /\ \A m \in 1..(Len(c) - p) : z[m] = c[m + p]
  BY SuffixFacts
<1>0. s = b \o z
  BY DEF Splice
<1>l. Len(c) \in Nat /\ Len(v) \in Nat /\ p \in Nat /\ p <= Len(c)
  OBVIOUS
<1> HIDE DEF a, z, s
<1>3. /\ b \in Seq(S) /\ Len(b) = p + Len(v)
      /\ \A n \in 1..(p + Len(v)) : b[n] = IF n <= p THEN a[n] ELSE v[n - p]
  BY <1>1, ConcatFacts
<1> HIDE DEF b
<1>4. /\ s \in Seq(S) /\ Len(s) = (p + Len(v)) + (Len(c) - p)
      /\ \A n \in 1..((p + Len(v)) + (Len(c) - p)) : s[n] = IF n <= p + Len(v) THEN b[n] ELSE z[n - (p + Len(v))]
  <2>1. /\ b \o z \in Seq(S) /\ Len(b \o z) = Len(b) + Len(z)
        /\ \A n \in 1..(Len(b) + Len(z)) : (b \o z)[n] = IF n <= Len(b) THEN b[n] ELSE z[n - Len(b)]
    <3>1. b \in Seq(S) /\ z \in Seq(S)
      BY <1>2, <1>3
    <3> QED
      BY <3>1, ConcatFacts
  <2>2. Len(b) = p + Len(v) /\ Len(z) = Len(c) - p
    BY <1>2, <1>3
  <2> QED
    BY <1>0, <2>1, <2>2
<1>5. ASSUME NEW i \in 1..(Len(c) + Len(v))
      PROVE  s[i] = IF i <= p THEN c[i] ELSE IF i <= p + Len(v) THEN v[i - p] ELSE c[i - Len(v)]
  <2>1. i \in 1..((p + Len(v)) + (Len(c) - p)) /\ i \in Nat
    BY <1>l
  <2>2. s[i] = IF i <= p + Len(v) THEN b[i] ELSE z[i - (p + Len(v))]
    BY <1>4, <2>1
  <2>3. CASE i <= p + Len(v)
    <3>1. i \in 1..(p + Len(v))
      BY <1>l, <2>3
    <3>2. b[i] = IF i <= p THEN a[i] ELSE v[i - p]
      BY <1>3, <3>1
    <3>3. i <= p => a[i] = c[i]
      BY <1>1, <1>l, <2>1
    <3> QED
      BY <2>2, <2>3, <3>2, <3>3
  <2>4. CASE ~(i <= p + Len(v))
    <3>1. i - (p + Len(v)) \in 1..(Len(c) - p) /\ (i - (p + Len(v))) + p = i - Len(v) /\ ~(i <= p)
      BY <1>l, <2>1, <2>4
    <3>2. z[i - (p + Len(v))] = c[i - Len(v)]
      BY <1>2, <3>1
    <3> QED
      BY <2>2, <2>4, <3>1, <3>2
  <2> QED
    BY <2>3, <2>4
<1>6. Len(s) = Len(c) + Len(v)
  BY <1>4, <1>l
<1> QED
  BY <1>4, <1>5, <1>6 DEF s

-----------------------------------------------------------------------------
(* The calls *)

\* What a call on x does: to the invariant, to the contents, to the capacity.
Does(x) ==
    /\ IInv' /\ call'.on = x /\ call'.op # "swap"
    /\ Contents(Mem(x)') = Vectors!Effect(call', Zero, Contents(Mem(x)), Contents(Mem(Other(x))))
    /\ Contents(Mem(Other(x))') = Contents(Mem(Other(x)))
    /\ call'.op \in {"erase", "pop_back", "resize", "reserve", "assign", "copy"}
         => capacity(Mem(x)') >= capacity(Mem(x))
    /\ call'.op \in {"erase", "pop_back"} => capacity(Mem(x)') = capacity(Mem(x))

LEMMA DoesIt ==
  ASSUME IInv, NEW x \in Vec, NEW op, op # "swap", NEW p, NEW q, NEW vals, NEW r, Good(r),
         Same(Mem(x), r), Do(op, x, p, q, vals, r),
         op \in {"erase", "pop_back", "resize", "reserve", "assign", "copy"}
           => capacity(r) >= capacity(Mem(x)),
         op \in {"erase", "pop_back"} => capacity(r) = capacity(Mem(x)),
         Contents(r) = Vectors!Effect([op |-> op, on |-> x, p |-> p, q |-> q, vals |-> vals],
                                      Zero, Contents(Mem(x)), Contents(Mem(Other(x))))
  PROVE  Does(x)
<1>1. IInv' /\ Mem(x)' = r /\ Contents(Mem(Other(x))') = Contents(Mem(Other(x)))
  BY DoStep
<1>2. call' = [op |-> op, on |-> x, p |-> p, q |-> q, vals |-> vals]
  BY DEF Do
<1>3. call'.on = x /\ call'.op = op
  BY <1>2
<1>4. Contents(Mem(x)') = Vectors!Effect(call', Zero, Contents(Mem(x)), Contents(Mem(Other(x))))
  BY <1>1, <1>2, Zenon
<1> QED
  BY <1>1, <1>3, <1>4 DEF Does

LEMMA ValuesAre == ASSUME NEW v \in Values PROVE v \in Seq(Val)
BY DEF Values

LEMMA InsertStep == ASSUME IInv, NEW x \in Vec, Insert(x) PROVE Does(x)
<1> DEFINE m == Mem(x)
<1>1. PICK p \in 0..size(m), vals \in Values : Do("insert", x, p, 0, vals, insert(m, p, vals))
  BY DEF Insert
<1>2. Good(m) /\ vals \in Seq(Val)
  BY MemGood, ValuesAre
<1> DEFINE r == insert(m, p, vals)
           s == Contents(m)
           e == Splice(s, p, vals)
<1> HIDE DEF m
<1>3. /\ Good(r) /\ Same(m, r) /\ size(r) = size(m) + Len(vals)
      /\ \A i \in 0..(size(m) + Len(vals) - 1) : items(r)[i] =
           IF i < p THEN items(m)[i]
           ELSE IF i < p + Len(vals) THEN vals[i - p + 1] ELSE items(m)[i - Len(vals)]
  BY <1>2, InsertFacts
<1>4. /\ s \in Seq(Val) /\ Len(s) = size(m) /\ size(m) \in Nat
      /\ \A i \in 0..(size(m) - 1) : items(m)[i] = s[i + 1]
  BY <1>2, ContentsFacts
<1> HIDE DEF r, s
<1>5. /\ e \in Seq(Val) /\ Len(e) = size(m) + Len(vals)
      /\ \A i \in 1..(size(m) + Len(vals)) : e[i] =
           IF i <= p THEN s[i] ELSE IF i <= p + Len(vals) THEN vals[i - p] ELSE s[i - Len(vals)]
  <2>1. p \in 0..Len(s)
    BY <1>4
  <2>2. /\ e \in Seq(Val) /\ Len(e) = Len(s) + Len(vals)
        /\ \A i \in 1..(Len(s) + Len(vals)) : e[i] =
             IF i <= p THEN s[i] ELSE IF i <= p + Len(vals) THEN vals[i - p] ELSE s[i - Len(vals)]
    BY <1>2, <1>4, <2>1, SpliceFacts, ZenonT(60)
  <2> HIDE DEF e
  <2> QED
    BY <1>4, <2>2
<1> HIDE DEF e
<1>6. ASSUME NEW i \in 1..(size(m) + Len(vals))
      PROVE  items(r)[i - 1] = e[i]
  <2>0. Len(vals) \in Nat /\ p \in Nat /\ i \in Nat /\ p <= size(m)
    BY <1>2, <1>4
  <2> DEFINE j == i - 1
  <2>1. j \in 0..(size(m) + Len(vals) - 1) /\ (j < p <=> i <= p) /\ (j < p + Len(vals) <=> i <= p + Len(vals))
        /\ j - p + 1 = i - p /\ j + 1 = i
    BY <1>4, <2>0
  <2>2. items(r)[j] = IF j < p THEN items(m)[j]
                      ELSE IF j < p + Len(vals) THEN vals[j - p + 1] ELSE items(m)[j - Len(vals)]
    BY <1>3, <2>1
  <2>3. e[i] = IF i <= p THEN s[i] ELSE IF i <= p + Len(vals) THEN vals[i - p] ELSE s[i - Len(vals)]
    BY <1>5
  <2>4. i <= p => items(m)[j] = s[i]
    BY <1>4, <2>0, <2>1, SMTT(60)
  <2>5. ~(i <= p + Len(vals)) => items(m)[j - Len(vals)] = s[i - Len(vals)]
    <3>1. SUFFICES ASSUME ~(i <= p + Len(vals)) PROVE items(m)[j - Len(vals)] = s[i - Len(vals)]
      OBVIOUS
    <3>2. j - Len(vals) \in 0..(size(m) - 1) /\ (j - Len(vals)) + 1 = i - Len(vals)
      BY <1>4, <2>0, <3>1
    <3> QED
      BY <1>4, <3>2
  <2> HIDE DEF j
  <2>6. items(r)[j] = e[i]
    BY <2>1, <2>2, <2>3, <2>4, <2>5
  <2> QED
    BY <2>6 DEF j
<1>7. Contents(r) = e
  BY <1>3, <1>5, <1>6, ContentsAre
<1>8. Contents(r) = Vectors!Effect([op |-> "insert", on |-> x, p |-> p, q |-> 0, vals |-> vals],
                                   Zero, Contents(m), Contents(Mem(Other(x))))
  BY <1>7 DEF Vectors!Effect, e, s, Splice
<1> QED
  BY <1>1, <1>3, <1>8, DoesIt DEF m, r

LEMMA PushBackStep == ASSUME IInv, NEW x \in Vec, PushBack(x) PROVE Does(x)
<1> DEFINE m == Mem(x)
           s == Contents(m)
<1>1. PICK v \in Val : Do("push_back", x, 0, 0, <<v>>, push_back(m, v))
  BY DEF PushBack
<1>2. Good(m)
  BY MemGood
<1> DEFINE r == push_back(m, v)
           vs == <<v>>
           e == s \o vs
<1> HIDE DEF m
<1>3. /\ Good(r) /\ Same(m, r) /\ size(r) = size(m) + 1
      /\ \A i \in 0..size(m) : items(r)[i] = IF i < size(m) THEN items(m)[i] ELSE v
  BY <1>2, PushBackFacts
<1>4. /\ s \in Seq(Val) /\ Len(s) = size(m) /\ size(m) \in Nat
      /\ \A i \in 1..size(m) : s[i] = items(m)[i - 1]
  BY <1>2, ContentsFacts
<1>5. vs \in Seq(Val) /\ Len(vs) = 1 /\ vs[1] = v
  OBVIOUS
<1> HIDE DEF r, s, vs
<1>6. /\ e \in Seq(Val) /\ Len(e) = Len(s) + Len(vs)
      /\ \A n \in 1..(Len(s) + Len(vs)) : e[n] = IF n <= Len(s) THEN s[n] ELSE vs[n - Len(s)]
  BY <1>4, <1>5, ConcatFacts
<1> HIDE DEF e
<1>7. ASSUME NEW i \in 1..Len(e)
      PROVE  items(r)[i - 1] = e[i]
  <2>1. i - 1 \in 0..size(m) /\ (i - 1 < size(m) <=> i <= size(m)) /\ i \in 1..(Len(s) + Len(vs)) /\ i \in Nat
    BY <1>4, <1>5, <1>6
  <2>2. items(r)[i - 1] = IF i <= size(m) THEN items(m)[i - 1] ELSE v
    BY <1>3, <2>1
  <2>3. e[i] = IF i <= size(m) THEN s[i] ELSE vs[i - size(m)]
    BY <1>4, <1>6, <2>1
  <2>4. CASE i <= size(m)
    BY <1>4, <2>1, <2>2, <2>3, <2>4
  <2>5. CASE ~(i <= size(m))
    <3>1. i - size(m) = 1
      BY <1>4, <1>5, <2>1, <2>5
    <3> QED
      BY <1>5, <2>2, <2>3, <2>5, <3>1
  <2> QED
    BY <2>4, <2>5
<1>8. size(r) = Len(e)
  BY <1>3, <1>4, <1>5, <1>6
<1>9. Contents(r) = e
  BY <1>6, <1>7, <1>8, ContentsAre
<1>10. Contents(r) = Vectors!Effect([op |-> "push_back", on |-> x, p |-> 0, q |-> 0, vals |-> vs],
                                    Zero, Contents(m), Contents(Mem(Other(x))))
  BY <1>9 DEF Vectors!Effect, e, s
<1> QED
  BY <1>1, <1>3, <1>10, DoesIt DEF m, r, vs

\* The contents after an erase of the elements from p to before q.
LEMMA ErasedContents ==
  ASSUME NEW m, Good(m), NEW q \in 0..size(m), NEW p \in 0..q
  PROVE  Contents(erase(m, p, q)) = SubSeq(Contents(m), 1, p) \o SubSeq(Contents(m), q + 1, Len(Contents(m)))
<1> DEFINE r == erase(m, p, q)
           s == Contents(m)
           a == SubSeq(s, 1, p)
           b == SubSeq(s, q + 1, Len(s))
           e == a \o b
<1>1. /\ size(r) = size(m) - (q - p)
      /\ \A i \in 0..(size(m) - (q - p) - 1) : items(r)[i] =
           IF i < p THEN items(m)[i] ELSE items(m)[i + (q - p)]
  BY EraseFacts
<1>2. /\ s \in Seq(Val) /\ Len(s) = size(m) /\ size(m) \in Nat
      /\ \A i \in 0..(size(m) - 1) : items(m)[i] = s[i + 1]
  BY ContentsFacts
<1> HIDE DEF r, s
<1>3. p \in Nat /\ q \in Nat /\ p <= q /\ q <= size(m) /\ p \in 0..Len(s) /\ q \in 0..Len(s)
  BY <1>2
<1>4. a \in Seq(Val) /\ Len(a) = p /\ \A i \in 1..p : a[i] = s[i]
  BY <1>2, <1>3, PrefixFacts
<1>5. b \in Seq(Val) /\ Len(b) = Len(s) - q /\ \A i \in 1..(Len(s) - q) : b[i] = s[i + q]
  BY <1>2, <1>3, SuffixFacts
<1> HIDE DEF a, b
<1>6. /\ e \in Seq(Val) /\ Len(e) = Len(a) + Len(b)
      /\ \A n \in 1..(Len(a) + Len(b)) : e[n] = IF n <= Len(a) THEN a[n] ELSE b[n - Len(a)]
  BY <1>4, <1>5, ConcatFacts
<1> HIDE DEF e
<1>7. size(r) = Len(e)
  BY <1>1, <1>2, <1>3, <1>4, <1>5, <1>6
<1>8. ASSUME NEW i \in 1..Len(e)
      PROVE  items(r)[i - 1] = e[i]
  <2>1. /\ i - 1 \in 0..(size(m) - (q - p) - 1) /\ (i - 1 < p <=> i <= p) /\ i \in Nat
        /\ i \in 1..(Len(a) + Len(b))
    BY <1>2, <1>3, <1>4, <1>5, <1>6
  <2>2. items(r)[i - 1] = IF i <= p THEN items(m)[i - 1] ELSE items(m)[(i - 1) + (q - p)]
    BY <1>1, <2>1
  <2>3. e[i] = IF i <= p THEN a[i] ELSE b[i - p]
    BY <1>4, <1>6, <2>1
  <2>4. CASE i <= p
    <3>1. i - 1 \in 0..(size(m) - 1) /\ (i - 1) + 1 = i /\ i \in 1..p
      BY <1>2, <1>3, <2>1, <2>4
    <3>2. items(m)[i - 1] = s[(i - 1) + 1] /\ a[i] = s[i]
      BY <1>2, <1>4, <3>1
    <3> QED
      BY <2>2, <2>3, <2>4, <3>1, <3>2
  <2>5. CASE ~(i <= p)
    <3> DEFINE j == (i - 1) + (q - p)
               k == i - p
    <3>1. j \in 0..(size(m) - 1) /\ j + 1 = k + q /\ k \in 1..(Len(s) - q)
      BY <1>2, <1>3, <1>4, <1>5, <2>1, <2>5, SMTT(60)
    <3>2. items(r)[i - 1] = items(m)[j] /\ e[i] = b[k]
      BY <2>2, <2>3, <2>5
    <3> HIDE DEF j, k
    <3>3. items(m)[j] = s[j + 1] /\ b[k] = s[k + q]
      BY <1>2, <1>5, <3>1
    <3> QED
      BY <3>1, <3>2, <3>3
  <2> QED
    BY <2>4, <2>5
<1>9. Contents(r) = e
  BY <1>6, <1>7, <1>8, ContentsAre
<1> QED
  BY <1>9 DEF r, e, a, b, s

LEMMA EraseStep == ASSUME IInv, NEW x \in Vec, Erase(x) PROVE Does(x)
<1> DEFINE m == Mem(x)
<1>1. PICK q \in 0..size(m) : \E p \in 0..q : Do("erase", x, p, q, <<>>, erase(m, p, q))
  BY DEF Erase
<1>2. PICK p \in 0..q : Do("erase", x, p, q, <<>>, erase(m, p, q))
  BY <1>1
<1>3. Good(m)
  BY MemGood
<1> DEFINE r == erase(m, p, q)
<1> HIDE DEF m
<1>4. Good(r) /\ Same(m, r) /\ capacity(r) = capacity(m) /\ capacity(m) \in Nat
  BY <1>3, EraseFacts, GoodFacts
<1>5. Contents(r) = SubSeq(Contents(m), 1, p) \o SubSeq(Contents(m), q + 1, Len(Contents(m)))
  BY <1>3, ErasedContents
<1> HIDE DEF r
<1>6. Contents(r) = Vectors!Effect([op |-> "erase", on |-> x, p |-> p, q |-> q, vals |-> <<>>],
                                   Zero, Contents(m), Contents(Mem(Other(x))))
  BY <1>5 DEF Vectors!Effect
<1>7. capacity(r) >= capacity(m)
  BY <1>4
<1> QED
  BY <1>2, <1>4, <1>6, <1>7, DoesIt DEF m, r

LEMMA PopBackStep == ASSUME IInv, NEW x \in Vec, PopBack(x) PROVE Does(x)
<1> DEFINE m == Mem(x)
           s == Contents(m)
           p == size(m) - 1
           q == size(m)
<1>1. Do("pop_back", x, 0, 0, <<>>, pop_back(m)) /\ size(m) > 0
  BY DEF PopBack
<1>2. Good(m)
  BY MemGood
<1> DEFINE r == pop_back(m)
<1> HIDE DEF m
<1>3. s \in Seq(Val) /\ Len(s) = q /\ q \in Nat
  BY <1>2, ContentsFacts
<1>4. r = erase(m, p, q)
  BY DEF pop_back
<1>5. q \in 0..size(m) /\ p \in 0..q /\ p \in 0..Len(s)
  BY <1>1, <1>3
<1> HIDE DEF r, p, s
<1>6. Good(r) /\ Same(m, r) /\ capacity(r) = capacity(m) /\ capacity(m) \in Nat
  BY <1>2, <1>4, <1>5, EraseFacts, GoodFacts
<1>7. Contents(r) = SubSeq(s, 1, p) \o SubSeq(s, q + 1, Len(s))
  BY <1>2, <1>4, <1>5, ErasedContents DEF s
<1>8. SubSeq(s, 1, p) \in Seq(Val) /\ SubSeq(s, q + 1, Len(s)) = <<>>
  BY <1>3, <1>5, PrefixFacts
<1>9. Contents(r) = SubSeq(s, 1, Len(s) - 1)
  <2>1. Contents(r) = SubSeq(s, 1, p)
    BY <1>7, <1>8, ConcatEmpty, Zenon
  <2> QED
    BY <1>3, <2>1 DEF p
<1>10. Contents(r) = Vectors!Effect([op |-> "pop_back", on |-> x, p |-> 0, q |-> 0, vals |-> <<>>],
                                    Zero, Contents(m), Contents(Mem(Other(x))))
  BY <1>9 DEF Vectors!Effect, s
<1>11. capacity(r) >= capacity(m)
  BY <1>6
<1> QED
  BY <1>1, <1>6, <1>10, <1>11, DoesIt DEF m, r

LEMMA ResizeStep == ASSUME IInv, NEW x \in Vec, Resize(x) PROVE Does(x)
<1> DEFINE m == Mem(x)
           s == Contents(m)
<1>1. PICK n \in 0..MaxSize : Do("resize", x, n, 0, <<>>, resize(m, n))
  BY DEF Resize
<1>2. Good(m) /\ n \in Nat
  BY MemGood, Sizes
<1> DEFINE r == resize(m, n)
           e == [i \in 1..n |-> IF i <= Len(s) THEN s[i] ELSE Zero]
<1> HIDE DEF m
<1>3. /\ Good(r) /\ Same(m, r) /\ size(r) = n /\ capacity(r) >= capacity(m)
      /\ \A i \in 0..(n - 1) : items(r)[i] = IF i < size(m) THEN items(m)[i] ELSE Zero
  BY <1>2, ResizeFacts
<1>4. /\ s \in Seq(Val) /\ Len(s) = size(m) /\ size(m) \in Nat
      /\ \A i \in 1..size(m) : s[i] = items(m)[i - 1]
  BY <1>2, ContentsFacts
<1> HIDE DEF r, s
<1>5. /\ e \in [1..n -> Val] /\ \A i \in 1..n : e[i] = IF i <= Len(s) THEN s[i] ELSE Zero
  BY <1>4, Sizes
<1>6. e \in Seq(Val) /\ Len(e) = n
  <2> HIDE DEF e
  <2> QED
    BY <1>2, <1>5
<1> HIDE DEF e
<1>7. ASSUME NEW i \in 1..n
      PROVE  items(r)[i - 1] = e[i]
  <2>1. i - 1 \in 0..(n - 1) /\ (i - 1 < size(m) <=> i <= size(m)) /\ i \in Nat
        /\ (i <= size(m) => i \in 1..size(m))
    BY <1>2, <1>4
  <2>2. items(r)[i - 1] = IF i <= size(m) THEN items(m)[i - 1] ELSE Zero
    BY <1>3, <2>1
  <2> QED
    BY <1>4, <1>5, <2>1, <2>2
<1>8. Contents(r) = e
  BY <1>3, <1>6, <1>7, ContentsAre, SMTT(60)
<1>9. Contents(r) = Vectors!Effect([op |-> "resize", on |-> x, p |-> n, q |-> 0, vals |-> <<>>],
                                   Zero, Contents(m), Contents(Mem(Other(x))))
  BY <1>8 DEF Vectors!Effect, s, e
<1> QED
  BY <1>1, <1>3, <1>9, DoesIt DEF m, r

LEMMA ReserveStep == ASSUME IInv, NEW x \in Vec, Reserve(x) PROVE Does(x)
<1> DEFINE m == Mem(x)
<1>1. PICK n \in 0..MaxSize : Do("reserve", x, n, 0, <<>>, reserve(m, n))
  BY DEF Reserve
<1>2. Good(m) /\ n \in Nat
  BY MemGood, Sizes
<1> DEFINE r == reserve(m, n)
<1> HIDE DEF m
<1>3. Good(r) /\ Same(m, r) /\ capacity(r) >= capacity(m) /\ Contents(r) = Contents(m)
  BY <1>2, ReserveFacts, KeptContents
<1> HIDE DEF r
<1>4. Contents(r) = Vectors!Effect([op |-> "reserve", on |-> x, p |-> n, q |-> 0, vals |-> <<>>],
                                   Zero, Contents(m), Contents(Mem(Other(x))))
  BY <1>3, SMTT(60) DEF Vectors!Effect
<1> QED
  BY <1>1, <1>3, <1>4, DoesIt DEF m, r

LEMMA ShrinkStep == ASSUME IInv, NEW x \in Vec, ShrinkToFit(x) PROVE Does(x)
<1> DEFINE m == Mem(x)
           r == shrink_to_fit(m)
<1>1. Do("shrink_to_fit", x, 0, 0, <<>>, r)
  BY DEF ShrinkToFit
<1>2. Good(m)
  BY MemGood
<1> HIDE DEF m
<1>3. Good(r) /\ Same(m, r) /\ Contents(r) = Contents(m)
  BY <1>2, ShrinkFacts, KeptContents
<1> HIDE DEF r
<1>4. Contents(r) = Vectors!Effect([op |-> "shrink_to_fit", on |-> x, p |-> 0, q |-> 0, vals |-> <<>>],
                                   Zero, Contents(m), Contents(Mem(Other(x))))
  BY <1>3 DEF Vectors!Effect
<1> QED
  BY <1>1, <1>3, <1>4, DoesIt DEF m

LEMMA NoContents == ASSUME NEW m, size(m) = 0 PROVE Contents(m) = <<>>
BY DEF Contents

LEMMA ClearStep == ASSUME IInv, NEW x \in Vec, Clear(x) PROVE Does(x)
<1> DEFINE m == Mem(x)
           r == clear(m)
<1>1. Do("clear", x, 0, 0, <<>>, r)
  BY DEF Clear
<1>2. Good(m)
  BY MemGood
<1> HIDE DEF m
<1>3. Good(r) /\ Same(m, r) /\ Contents(r) = <<>>
  BY <1>2, ClearFacts, NoContents
<1> HIDE DEF r
<1>4. Contents(r) = Vectors!Effect([op |-> "clear", on |-> x, p |-> 0, q |-> 0, vals |-> <<>>],
                                   Zero, Contents(m), Contents(Mem(Other(x))))
  BY <1>3 DEF Vectors!Effect
<1> QED
  BY <1>1, <1>3, <1>4, DoesIt DEF m

LEMMA ScriptClearStep == ASSUME IInv, NEW x \in Vec, ScriptClear(x) PROVE Does(x)
<1> DEFINE m == Mem(x)
           c == clear(m)
           r == shrink_to_fit(c)
<1>1. Do("clear", x, 1, 0, <<>>, r)
  BY DEF ScriptClear
<1>2. Good(m)
  BY MemGood
<1> HIDE DEF m
<1>3. Good(c) /\ Same(m, c) /\ size(c) = 0
  BY <1>2, ClearFacts
<1> HIDE DEF c
<1>4. Good(r) /\ Same(c, r) /\ Kept(c, r)
  BY <1>3, ShrinkFacts
<1> HIDE DEF r
<1>5. Same(m, r) /\ Contents(r) = <<>>
  BY <1>3, <1>4, SameTrans, NoContents DEF Kept
<1>6. Contents(r) = Vectors!Effect([op |-> "clear", on |-> x, p |-> 1, q |-> 0, vals |-> <<>>],
                                   Zero, Contents(m), Contents(Mem(Other(x))))
  BY <1>5 DEF Vectors!Effect
<1> QED
  BY <1>1, <1>4, <1>5, <1>6, DoesIt DEF m

LEMMA ValuesGiven ==
  ASSUME NEW r, NEW vals \in Seq(Val), size(r) = Len(vals),
         \A i \in 0..(Len(vals) - 1) : items(r)[i] = vals[i + 1]
  PROVE  Contents(r) = vals
<1>1. \A i \in 1..Len(vals) : i - 1 \in 0..(Len(vals) - 1) /\ (i - 1) + 1 = i
  OBVIOUS
<1>2. \A i \in 1..Len(vals) : items(r)[i - 1] = vals[i]
  BY <1>1
<1> QED
  BY <1>2, ContentsAre

LEMMA AssignStep == ASSUME IInv, NEW x \in Vec, Assign(x) PROVE Does(x)
<1> DEFINE m == Mem(x)
<1>1. PICK vals \in Values : Do("assign", x, 0, 0, vals, assign(m, vals))
  BY DEF Assign
<1>2. Good(m) /\ vals \in Seq(Val)
  BY MemGood, ValuesAre
<1> DEFINE r == assign(m, vals)
<1> HIDE DEF m
<1>3. Good(r) /\ Same(m, r) /\ capacity(r) >= capacity(m) /\ Contents(r) = vals
  BY <1>2, AssignFacts, ValuesGiven
<1> HIDE DEF r
<1>4. Contents(r) = Vectors!Effect([op |-> "assign", on |-> x, p |-> 0, q |-> 0, vals |-> vals],
                                   Zero, Contents(m), Contents(Mem(Other(x))))
  BY <1>3 DEF Vectors!Effect
<1> QED
  BY <1>1, <1>3, <1>4, DoesIt DEF m, r

LEMMA CopyStep == ASSUME IInv, NEW x \in Vec, Copy(x) PROVE Does(x)
<1> DEFINE m == Mem(x)
           vals == Contents(Mem(Other(x)))
           r == assign(m, vals)
<1>1. Do("copy", x, 0, 0, <<>>, r)
  BY DEF Copy
<1>2. Good(m) /\ vals \in Seq(Val)
  BY MemGood, Two, ContentsFacts
<1> HIDE DEF m, vals
<1>3. Good(r) /\ Same(m, r) /\ capacity(r) >= capacity(m) /\ Contents(r) = vals
  BY <1>2, AssignFacts, ValuesGiven
<1> HIDE DEF r
<1>4. Contents(r) = Vectors!Effect([op |-> "copy", on |-> x, p |-> 0, q |-> 0, vals |-> <<>>],
                                   Zero, Contents(m), Contents(Mem(Other(x))))
  BY <1>3 DEF Vectors!Effect, vals
<1> QED
  BY <1>1, <1>3, <1>4, DoesIt DEF m

LEMMA ConstructStep == ASSUME IInv, NEW x \in Vec, Construct(x) PROVE Does(x)
<1> DEFINE m == Mem(x)
<1>1. PICK vals \in Values : Do("construct", x, 0, 0, vals, construct(destroy(m), vals))
  BY DEF Construct
<1>2. Good(m) /\ vals \in Seq(Val)
  BY MemGood, ValuesAre
<1> DEFINE r == construct(destroy(m), vals)
<1> HIDE DEF m
<1>3. Good(r) /\ Same(m, r) /\ Contents(r) = vals
  BY <1>2, ConstructFacts, ValuesGiven
<1> HIDE DEF r
<1>4. Contents(r) = Vectors!Effect([op |-> "construct", on |-> x, p |-> 0, q |-> 0, vals |-> vals],
                                   Zero, Contents(m), Contents(Mem(Other(x))))
  BY <1>3 DEF Vectors!Effect
<1> QED
  BY <1>1, <1>3, <1>4, DoesIt DEF m, r

LEMMA SwapStep ==
  ASSUME IInv, Swap
  PROVE  /\ IInv' /\ \A x \in Vec : Mem(x)' = Mem(Other(x))
         /\ call'.op = "swap" /\ call'.on = "a"
<1>1. obj' = [x \in Vec |-> obj[Other(x)]] /\ heap' = heap /\ call'.op = "swap" /\ call'.on = "a"
  BY DEF Swap
<1>2. \A x \in Vec : Mem(x)' = Mem(Other(x))
  BY <1>1 DEF Mem
<1>3. Mem("a")' = Mem("b") /\ Mem("b")' = Mem("a")
  BY <1>2 DEF Vec, Other
<1>4. Owns("a")' = Owns("b") /\ Owns("b")' = Owns("a")
  BY <1>3, OwnsIsOwn DEF Owns, Own, Mem
<1>5. LayoutOK'
  <2>1. \A x \in Vec : LET m == Mem(x)' IN
         /\ m.size \in Nat /\ m.direct \in Cells(N)
         /\ ~is_direct(m) =>
              /\ m.capacity \in Nat /\ m.capacity > N /\ size(m) <= m.capacity
              /\ m.indirect \in DOMAIN heap' /\ heap'[m.indirect] \in Cells(m.capacity)
         /\ \A i \in 0..(size(m) - 1) : items(m)[i] \in Val
    BY <1>1, <1>2, Two DEF IInv, LayoutOK
  <2>2. Owns("a")' \cap Owns("b")' = {} /\ DOMAIN heap' = Owns("a")' \cup Owns("b")'
    BY <1>1, <1>4 DEF IInv, LayoutOK
  <2> QED
    BY <2>1, <2>2 DEF LayoutOK
<1> QED
  BY <1>1, <1>2, <1>5 DEF IInv

-----------------------------------------------------------------------------
(* Results *)

LEMMA InvInit == Init => IInv
<1> SUFFICES ASSUME Init PROVE IInv
  OBVIOUS
<1>1. obj = [x \in Vec |-> Fields(Empty(<<>>))] /\ heap = <<>>
  BY DEF Init
<1>2. \A x \in Vec : obj[x] = Fields(Empty(<<>>))
  BY <1>1
<1>3. \A x \in Vec : Mem(x).size = 0 /\ Mem(x).direct = JunkCells(N)
  BY <1>2, MemFields DEF Fields, Empty
<1>4. \A x \in Vec : is_direct(Mem(x)) /\ size(Mem(x)) = 0
  BY <1>3, Sizes DEF is_direct, size
<1>5. JunkCells(N) \in Cells(N)
  BY DEF JunkCells, Cells
<1>6. Owns("a") = {} /\ Owns("b") = {} /\ DOMAIN heap = {}
  BY <1>1, <1>4 DEF Owns, Vec
<1>7. LayoutOK
  BY <1>3, <1>4, <1>5, <1>6 DEF LayoutOK
<1>8. heap = [b \in DOMAIN heap |-> heap[b]]
  BY <1>1
<1>9. obj = [x \in Vec |-> obj[x]]
  BY <1>1
<1> QED
  BY <1>6, <1>7, <1>8, <1>9 DEF IInv

LEMMA CallStep ==
  ASSUME IInv, Next
  PROVE  (\E x \in Vec : Does(x)) \/ Swap
<1>1. CASE Swap
  BY <1>1
<1>2. ASSUME NEW x \in Vec,
             \/ Insert(x) \/ PushBack(x) \/ Erase(x) \/ PopBack(x) \/ Resize(x)
             \/ Reserve(x) \/ ShrinkToFit(x) \/ Clear(x) \/ ScriptClear(x)
             \/ Assign(x) \/ Copy(x) \/ Construct(x)
      PROVE  Does(x)
  BY <1>2, InsertStep, PushBackStep, EraseStep, PopBackStep, ResizeStep, ReserveStep, ShrinkStep,
     ClearStep, ScriptClearStep, AssignStep, CopyStep, ConstructStep
<1> QED
  BY <1>1, <1>2 DEF Next

LEMMA InvStep == IInv /\ [Next]_vars => IInv'
<1> SUFFICES ASSUME IInv, [Next]_vars PROVE IInv'
  OBVIOUS
<1>1. CASE Next
  BY <1>1, CallStep, SwapStep, SMTT(60) DEF Does
<1>2. CASE UNCHANGED vars
  <2>1. obj' = obj /\ heap' = heap
    BY <1>2 DEF vars
  <2> QED
    BY <2>1, ZenonT(60) DEF IInv, LayoutOK, Owns, Mem
<1> QED
  BY <1>1, <1>2

\* IInv is an invariant: every method keeps the layout.
THEOREM VectorInvariance == Spec => []IInv
<1>1. Init => IInv
  BY InvInit
<1>2. IInv /\ [Next]_vars => IInv'
  BY InvStep
<1> QED
  BY <1>1, <1>2, PTL DEF Spec

\* Whatever is called, an object holds at most N elements itself or owns a block
\* of exactly its capacity; blocks are neither shared, leaked nor freed twice
\* (change_capacity, insert, erase, assign, swap and the constructors of
\* prevector.h).
THEOREM LayoutOKHolds == Spec => []LayoutOK
<1>1. IInv => LayoutOK
  BY DEF IInv
<1> QED
  BY <1>1, VectorInvariance, PTL

\* erase and pop_back keep the capacity exactly, and resize, reserve and the
\* assignments never give it back (prevector.h:386).
THEOREM EraseKeepsCapacityHolds == Spec => EraseKeepsCapacity
<1> DEFINE A == \A x \in Vec :
         /\ call'.on = x /\ call'.op \in {"erase", "pop_back", "resize", "reserve", "assign", "copy"}
            => capacity(Mem(x)') >= capacity(Mem(x))
         /\ call'.on = x /\ call'.op \in {"erase", "pop_back"}
            => capacity(Mem(x)') = capacity(Mem(x))
<1>1. IInv /\ [Next]_vars => [A]_vars
  <2> SUFFICES ASSUME IInv, Next PROVE A
    BY DEF vars
  <2>1. CASE Swap
    BY <2>1, SwapStep
  <2>2. ASSUME NEW x \in Vec, Does(x) PROVE A
    BY <2>2 DEF Does
  <2> QED
    BY <2>1, <2>2, CallStep
<1> QED
  BY <1>1, VectorInvariance, PTL DEF Spec, EraseKeepsCapacity

\* A step is a step of the two std::vectors or leaves them alone.
LEMMA VectorsStep == IInv /\ [Next]_vars => [Vectors!Next]_<<[x \in Vec |-> Contents(Mem(x))], call>>
<1> SUFFICES ASSUME IInv, [Next]_vars
             PROVE  [Vectors!Next]_<<[x \in Vec |-> Contents(Mem(x))], call>>
  OBVIOUS
<1> DEFINE c == [x \in Vec |-> Contents(Mem(x))]
           d == [x \in Vec |-> Contents(Mem(x)')]
<1>0. c' = d
  OBVIOUS
<1>v. Vec = {"a", "b"} /\ \A x \in Vec : Vectors!Other(x) = Other(x) /\ Other(x) \in Vec
  BY DEF Vec, Other, Vectors!Other
<1>1. CASE UNCHANGED vars
  <2>1. obj' = obj /\ heap' = heap /\ call' = call
    BY <1>1 DEF vars
  <2>2. \A x \in Vec : Mem(x)' = Mem(x)
    BY <2>1 DEF Mem
  <2>3. c' = c
    BY <1>0, <2>2
  <2> QED
    BY <2>1, <2>3
<1>2. CASE Swap
  <2>1. (\A x \in Vec : Mem(x)' = Mem(Other(x))) /\ call'.op = "swap" /\ call'.on = "a"
    BY <1>2, SwapStep
  <2>2. \A x \in Vec : d[x] = c[Other(x)]
    BY <1>v, <2>1
  <2>3. \A x \in Vec : d[x] = IF x = call'.on
           THEN Vectors!Effect(call', Zero, c[x], c[Vectors!Other(x)])
           ELSE Vectors!SideEffect(call', c[Vectors!Other(x)], c[x])
    BY <1>v, <2>1, <2>2 DEF Vectors!Effect, Vectors!SideEffect
  <2> HIDE DEF c
  <2>4. d = [x \in {"a", "b"} |-> IF x = call'.on
           THEN Vectors!Effect(call', Zero, c[x], c[Vectors!Other(x)])
           ELSE Vectors!SideEffect(call', c[Vectors!Other(x)], c[x])]
    BY <1>v, <2>3
  <2> QED
    BY <1>0, <2>4 DEF Vectors!Next, c
<1>3. ASSUME NEW x \in Vec, Does(x) PROVE Vectors!Next
  <2>1. /\ call'.on = x /\ call'.op # "swap"
        /\ d[x] = Vectors!Effect(call', Zero, c[x], c[Other(x)])
        /\ d[Other(x)] = c[Other(x)]
    BY <1>3, <1>v DEF Does
  <2>2. \A y \in Vec : y = x \/ y = Other(x)
    BY Two
  <2> HIDE DEF c
  <2>3. \A y \in Vec : d[y] = IF y = call'.on
           THEN Vectors!Effect(call', Zero, c[y], c[Vectors!Other(y)])
           ELSE Vectors!SideEffect(call', c[Vectors!Other(y)], c[y])
    <3> TAKE y \in Vec
    <3>1. CASE y = x
      BY <2>1, <3>1, <1>v
    <3>2. CASE y # x
      <4>1. y = Other(x)
        BY <2>2, <3>2
      <4>2. Vectors!SideEffect(call', c[Vectors!Other(y)], c[y]) = c[y]
        BY <2>1 DEF Vectors!SideEffect
      <4> QED
        BY <2>1, <3>2, <4>1, <4>2, Zenon
    <3> QED
      BY <3>1, <3>2
  <2>4. d = [y \in {"a", "b"} |-> IF y = call'.on
           THEN Vectors!Effect(call', Zero, c[y], c[Vectors!Other(y)])
           ELSE Vectors!SideEffect(call', c[Vectors!Other(y)], c[y])]
    BY <1>v, <2>3
  <2> QED
    BY <1>0, <2>4 DEF Vectors!Next, c
<1> QED
  BY <1>1, <1>2, <1>3, CallStep

\* prevector is "a drop-in replacement for std::vector" (prevector.h:19): whichever
\* layout the methods choose, the elements are those of two std::vectors.
THEOREM VectorsRefined == Spec => ImplementsVectors
<1>1. Init => Vectors!Init
  <2> SUFFICES ASSUME Init PROVE Vectors!Init
    OBVIOUS
  <2>1. \A x \in Vec : Contents(Mem(x)) = <<>>
    <3>1. \A x \in Vec : obj[x] = Fields(Empty(<<>>))
      BY DEF Init
    <3>2. \A x \in Vec : Mem(x).size = 0
      BY <3>1, MemFields DEF Fields, Empty
    <3>3. \A x \in Vec : size(Mem(x)) = 0
      BY <3>2, Sizes DEF size, is_direct
    <3> QED
      BY <3>3, NoContents
  <2>2. call.op = "none"
    BY DEF Init
  <2> QED
    BY <2>1, <2>2 DEF Vectors!Init, Vec
<1>2. IInv /\ [Next]_vars => [Vectors!Next]_<<[x \in Vec |-> Contents(Mem(x))], call>>
  BY VectorsStep
<1> QED
  BY <1>1, <1>2, VectorInvariance, PTL DEF Spec, ImplementsVectors, Vectors!Spec

-----------------------------------------------------------------------------
(* Comparison *)

\* A set of numbers that is not empty has a least one.
LEMMA LeastNumber ==
  ASSUME NEW T, T \subseteq Nat, T # {}
  PROVE  \E x \in T : \A y \in T : ~(y < x)
<1> DEFINE R == OpToRel(<, Nat)
<1>1. IsWellFoundedOn(R, Nat)
  BY NatLessThanWellFounded
<1> HIDE DEF R
<1>2. \E x \in T : \A y \in T : ~(<<y, x>> \in R)
  BY <1>1, WFMin
<1> QED
  BY <1>2 DEF R, OpToRel

LEMMA EqualIsContents ==
  ASSUME NEW a, NEW b, Good(a), Good(b)
  PROVE  Equal(a, b) <=> Contents(a) = Contents(b)
<1>1. /\ Len(Contents(a)) = size(a) /\ size(a) \in Nat
      /\ \A i \in 0..(size(a) - 1) : items(a)[i] = Contents(a)[i + 1]
  BY ContentsFacts
<1>2. /\ Len(Contents(b)) = size(b)
      /\ \A i \in 0..(size(b) - 1) : items(b)[i] = Contents(b)[i + 1]
  BY ContentsFacts
<1>3. ASSUME Equal(a, b) PROVE Contents(a) = Contents(b)
  <2>1. size(a) = size(b) /\ \A i \in 0..(size(a) - 1) : items(a)[i] = items(b)[i]
    BY <1>3 DEF Equal
  <2>2. \A i \in 1..size(a) : i - 1 \in 0..(size(a) - 1)
    BY <1>1
  <2> QED
    BY <2>1, <2>2 DEF Contents
<1>4. ASSUME Contents(a) = Contents(b) PROVE Equal(a, b)
  BY <1>1, <1>2, <1>4 DEF Equal
<1> QED
  BY <1>3, <1>4

\* The first place where two vectors of one size differ decides.
LEMMA OneOfThree ==
  ASSUME NEW a, NEW b, Good(a), Good(b)
  PROVE  /\ Less(a, b) \/ Equal(a, b) \/ Less(b, a)
         /\ ~(Less(a, b) /\ Equal(a, b)) /\ ~(Less(b, a) /\ Equal(a, b))
         /\ ~(Less(a, b) /\ Less(b, a))
<1>1. size(a) \in Nat /\ size(b) \in Nat
  BY GoodFacts
<1>2. /\ \A i \in 0..(size(a) - 1) : items(a)[i] \in Nat
      /\ \A i \in 0..(size(b) - 1) : items(b)[i] \in Nat
  BY Sizes DEF Good
<1>3. CASE size(a) # size(b)
  BY <1>1, <1>3 DEF Less, Equal
<1>4. CASE size(a) = size(b)
  <2> DEFINE D == {i \in 0..(size(a) - 1) : items(a)[i] # items(b)[i]}
  <2>0. ~(size(a) < size(b)) /\ ~(size(b) < size(a))
    BY <1>1, <1>4
  <2>1. CASE D = {}
    <3>1. \A i \in 0..(size(a) - 1) : items(a)[i] = items(b)[i]
      BY <2>1
    <3>2. \A i \in 0..(size(a) - 1) : ~(items(a)[i] < items(b)[i]) /\ ~(items(b)[i] < items(a)[i])
      BY <1>2, <1>4, <3>1
    <3>3. Equal(a, b)
      BY <1>4, <3>1 DEF Equal
    <3>4. ~Less(a, b) /\ ~Less(b, a)
      BY <1>4, <2>0, <3>2 DEF Less
    <3> QED
      BY <3>3, <3>4
  <2>2. CASE D # {}
    <3>1. PICK k \in D : \A y \in D : ~(y < k)
      <4>1. D \subseteq Nat
        BY <1>1
      <4> HIDE DEF D
      <4> QED
        BY <2>2, <4>1, LeastNumber
    <3>2. k \in 0..(size(a) - 1) /\ items(a)[k] # items(b)[k] /\ items(a)[k] \in Nat /\ items(b)[k] \in Nat
      BY <1>2, <1>4
    <3>3. \A j \in 0..(k - 1) : items(a)[j] = items(b)[j]
      <4> TAKE j \in 0..(k - 1)
      <4>1. j \in 0..(size(a) - 1) /\ j < k
        BY <1>1, <3>2
      <4> QED
        BY <3>1, <4>1
    <3>4. ~Equal(a, b)
      BY <3>2 DEF Equal
    <3>5. Less(a, b) <=> items(a)[k] < items(b)[k]
      <4>1. ASSUME items(a)[k] < items(b)[k] PROVE Less(a, b)
        BY <1>4, <3>2, <3>3, <4>1 DEF Less
      <4>2. ASSUME Less(a, b) PROVE items(a)[k] < items(b)[k]
        <5>1. PICK i \in 0..(size(a) - 1) : /\ items(a)[i] < items(b)[i]
                                            /\ \A j \in 0..(i - 1) : items(a)[j] = items(b)[j]
          BY <1>4, <2>0, <4>2 DEF Less
        <5>2. ~(k < i)
          BY <3>2, <5>1
        <5>3. ~(i < k)
          BY <1>2, <1>4, <3>3, <5>1
        <5>4. i = k
          BY <3>2, <5>2, <5>3
        <5> QED
          BY <5>1, <5>4
      <4> QED
        BY <4>1, <4>2
    <3>6. Less(b, a) <=> items(b)[k] < items(a)[k]
      <4>1. ASSUME items(b)[k] < items(a)[k] PROVE Less(b, a)
        BY <1>4, <3>2, <3>3, <4>1 DEF Less
      <4>2. ASSUME Less(b, a) PROVE items(b)[k] < items(a)[k]
        <5>1. PICK i \in 0..(size(a) - 1) : /\ items(b)[i] < items(a)[i]
                                            /\ \A j \in 0..(i - 1) : items(b)[j] = items(a)[j]
          BY <1>4, <2>0, <4>2 DEF Less
        <5>2. ~(k < i)
          BY <3>2, <5>1
        <5>3. ~(i < k)
          BY <1>2, <1>4, <3>3, <5>1
        <5>4. i = k
          BY <3>2, <5>2, <5>3
        <5> QED
          BY <5>1, <5>4
      <4> QED
        BY <4>1, <4>2
    <3>7. \/ items(a)[k] < items(b)[k] /\ ~(items(b)[k] < items(a)[k])
          \/ items(b)[k] < items(a)[k] /\ ~(items(a)[k] < items(b)[k])
      BY <3>2
    <3> QED
      BY <3>4, <3>5, <3>6, <3>7
  <2> QED
    BY <2>1, <2>2
<1> QED
  BY <1>3, <1>4

\* operator== compares the contents, and of two scripts exactly one is less or
\* they are equal (operator== and operator< of prevector.h).
THEOREM OrderTotalHolds == Spec => []OrderTotal
<1>1. IInv => OrderTotal
  <2> SUFFICES ASSUME IInv PROVE OrderTotal
    OBVIOUS
  <2> DEFINE a == Mem("a")
             b == Mem("b")
             T == <<Less(a, b), Equal(a, b), Less(b, a)>>
             X == {i \in 1..3 : T[i]}
  <2>1. Good(a) /\ Good(b)
    BY MemGood DEF Vec
  <2>2. Equal(a, b) <=> Contents(a) = Contents(b)
    BY <2>1, EqualIsContents
  <2>3. /\ Less(a, b) \/ Equal(a, b) \/ Less(b, a)
        /\ ~(Less(a, b) /\ Equal(a, b)) /\ ~(Less(b, a) /\ Equal(a, b))
        /\ ~(Less(a, b) /\ Less(b, a))
    BY <2>1, OneOfThree
  <2>4. (T[1] <=> Less(a, b)) /\ (T[2] <=> Equal(a, b)) /\ (T[3] <=> Less(b, a))
    OBVIOUS
  <2> HIDE DEF T, a, b
  <2>5. \E i \in 1..3 : X = {i}
    <3>1. CASE Less(a, b)
      BY <2>3, <2>4, <3>1
    <3>2. CASE Equal(a, b)
      BY <2>3, <2>4, <3>2
    <3>3. CASE Less(b, a)
      BY <2>3, <2>4, <3>3
    <3> QED
      BY <2>3, <3>1, <3>2, <3>3
  <2>6. Cardinality(X) = 1
    BY <2>5, FS_Singleton
  <2> QED
    BY <2>2, <2>6 DEF OrderTotal, T, a, b
<1> QED
  BY <1>1, VectorInvariance, PTL
=============================================================================
