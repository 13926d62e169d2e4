----------------------------- MODULE WireProofs -----------------------------
(***************************************************************************)
(* Proofs about what is read from the wire (serialize.h, transaction.h,    *)
(* block.h).                                                               *)
(*                                                                         *)
(* CodecsProofs shows that what a writer wrote is read back.  Here it is   *)
(* shown, for every reader, that nothing else is accepted: the bytes it    *)
(* has used are those the writer writes for the value it returns (the      *)
(* ...Tell lemmas).  From the two follows that a reader does not depend on *)
(* the bytes behind those it used (the ...Grow lemmas), and from that that *)
(* no proper part of what was written is accepted (Restoring): it would be *)
(* accepted with the missing bytes behind it, too, and leave them.         *)
(***************************************************************************)
EXTENDS CodecsProofs, FiniteSetTheorems

-----------------------------------------------------------------------------
(* Streams that have thrown *)

\* Reading in chunks goes by its rule.
LEMMA ChunkStepsGo ==
    ASSUME NEW c, NEW n \in Nat
    PROVE  /\ ChunkSteps(c, n)[0] = Emptied(c)
           /\ \A k \in 1..ChunkCount(n) : ChunkSteps(c, n)[k] = Joined(ReadBytes(ChunkSteps(c, n)[k - 1], Blk(n, k)))
<1> DEFINE T == {m \in Nat : \E f : f = [k \in 0..m |-> ChunkRule(c, n, f, k)]}
<1>1. ASSUME NEW m \in Nat, \A j \in 0..(m - 1) : j \in T PROVE m \in T
  <2>1. CASE m = 0
    <3> DEFINE f == [k \in 0..m |-> Emptied(c)]
    <3>1. \A k \in 0..m : f[k] = ChunkRule(c, n, f, k)
      BY <2>1 DEF ChunkRule
    <3>2. f = [k \in 0..m |-> ChunkRule(c, n, f, k)]
      BY <3>1
    <3> QED
      BY <3>2
  <2>2. CASE m # 0
    <3>1. m - 1 \in 0..(m - 1) /\ m - 1 \in Nat
      BY <2>2
    <3>2. PICK h : h = [k \in 0..(m - 1) |-> ChunkRule(c, n, h, k)]
      BY <1>1, <3>1
    <3> DEFINE z == Joined(ReadBytes(h[m - 1], Blk(n, m)))
               f == [k \in 0..m |-> IF k < m THEN h[k] ELSE z]
    <3>3. \A k \in 0..m : f[k] = ChunkRule(c, n, f, k)
      <4> SUFFICES ASSUME NEW k \in 0..m PROVE f[k] = ChunkRule(c, n, f, k)
        OBVIOUS
      <4>1. CASE k = m
        <5>1. f[m] = z /\ f[m - 1] = h[m - 1]
          BY <2>2
        <5> HIDE DEF f
        <5> QED
          BY <2>2, <4>1, <5>1 DEF ChunkRule
      <4>2. CASE k # m
        <5>1. k \in 0..(m - 1) /\ k < m
          BY <4>2
        <5>2. f[k] = h[k] /\ h[k] = ChunkRule(c, n, h, k)
          BY <3>2, <5>1
        <5>3. CASE k = 0
          <6> HIDE DEF f, z
          <6> QED
            BY <5>2, <5>3 DEF ChunkRule
        <5>4. CASE k # 0
          <6>1. f[k - 1] = h[k - 1]
            BY <5>1, <5>4
          <6> HIDE DEF f, z
          <6> QED
            BY <5>2, <5>4, <6>1 DEF ChunkRule
        <5> QED
          BY <5>3, <5>4
      <4> QED
        BY <4>1, <4>2
    <3>4. f = [k \in 0..m |-> ChunkRule(c, n, f, k)]
      BY <3>3
    <3> QED
      BY <3>4
  <2> QED
    BY <2>1, <2>2
<1>2. \A m \in Nat : m \in T
  <2> HIDE DEF T
  <2> QED
    BY <1>1, Induct
<1>3. ChunkCount(n) \in Nat
  BY ChunkSizes
<1> DEFINE f == ChunkSteps(c, n)
<1>4. f = [k \in 0..ChunkCount(n) |-> ChunkRule(c, n, f, k)]
  BY <1>2, <1>3 DEF ChunkSteps
<1>5. \A k \in 0..ChunkCount(n) : f[k] = ChunkRule(c, n, f, k)
  BY <1>4
<1> HIDE DEF f
<1>6. f[0] = Emptied(c)
  <2>1. 0 \in 0..ChunkCount(n)
    BY <1>3
  <2> QED
    BY <1>5, <2>1 DEF ChunkRule
<1>7. \A k \in 1..ChunkCount(n) : f[k] = Joined(ReadBytes(f[k - 1], Blk(n, k)))
  <2> SUFFICES ASSUME NEW k \in 1..ChunkCount(n) PROVE f[k] = Joined(ReadBytes(f[k - 1], Blk(n, k)))
    OBVIOUS
  <2>1. k \in 0..ChunkCount(n) /\ k # 0
    BY <1>3
  <2> QED
    BY <1>5, <2>1 DEF ChunkRule
<1> QED
  BY <1>6, <1>7 DEF f

\* Reading inputs goes by its rule.
LEMMA InsStepsGo ==
    ASSUME NEW c, Top(c) \in Nat
    PROVE  /\ InsSteps(c)[0] = Emptied(c)
           /\ \A k \in 1..Top(c) : InsSteps(c)[k] = Appended(UnserializeTxIn(InsSteps(c)[k - 1]))
<1> DEFINE T == {m \in Nat : \E f : f = [k \in 0..m |-> InsRule(c, f, k)]}
<1>1. ASSUME NEW m \in Nat, \A j \in 0..(m - 1) : j \in T PROVE m \in T
  <2>1. CASE m = 0
    <3> DEFINE f == [k \in 0..m |-> Emptied(c)]
    <3>1. \A k \in 0..m : f[k] = InsRule(c, f, k)
      BY <2>1 DEF InsRule
    <3>2. f = [k \in 0..m |-> InsRule(c, f, k)]
      BY <3>1
    <3> QED
      BY <3>2
  <2>2. CASE m # 0
    <3>1. m - 1 \in 0..(m - 1) /\ m - 1 \in Nat
      BY <2>2
    <3>2. PICK h : h = [k \in 0..(m - 1) |-> InsRule(c, h, k)]
      BY <1>1, <3>1
    <3> DEFINE z == Appended(UnserializeTxIn(h[m - 1]))
               f == [k \in 0..m |-> IF k < m THEN h[k] ELSE z]
    <3>3. \A k \in 0..m : f[k] = InsRule(c, f, k)
      <4> SUFFICES ASSUME NEW k \in 0..m PROVE f[k] = InsRule(c, f, k)
        OBVIOUS
      <4>1. CASE k = m
        <5>1. f[m] = z /\ f[m - 1] = h[m - 1]
          BY <2>2
        <5> HIDE DEF f
        <5> QED
          BY <2>2, <4>1, <5>1 DEF InsRule
      <4>2. CASE k # m
        <5>1. k \in 0..(m - 1) /\ k < m
          BY <4>2
        <5>2. f[k] = h[k] /\ h[k] = InsRule(c, h, k)
          BY <3>2, <5>1
        <5>3. CASE k = 0
          <6> HIDE DEF f, z
          <6> QED
            BY <5>2, <5>3 DEF InsRule
        <5>4. CASE k # 0
          <6>1. f[k - 1] = h[k - 1]
            BY <5>1, <5>4
          <6> HIDE DEF f, z
          <6> QED
            BY <5>2, <5>4, <6>1 DEF InsRule
        <5> QED
          BY <5>3, <5>4
      <4> QED
        BY <4>1, <4>2
    <3>4. f = [k \in 0..m |-> InsRule(c, f, k)]
      BY <3>3
    <3> QED
      BY <3>4
  <2> QED
    BY <2>1, <2>2
<1>2. \A m \in Nat : m \in T
  <2> HIDE DEF T
  <2> QED
    BY <1>1, Induct
<1>3. Top(c) \in Nat
  OBVIOUS
<1> DEFINE f == InsSteps(c)
<1>4. f = [k \in 0..Top(c) |-> InsRule(c, f, k)]
  BY <1>2, <1>3 DEF InsSteps
<1>5. \A k \in 0..Top(c) : f[k] = InsRule(c, f, k)
  BY <1>4
<1> HIDE DEF f
<1>6. f[0] = Emptied(c)
  <2>1. 0 \in 0..Top(c)
    BY <1>3
  <2> QED
    BY <1>5, <2>1 DEF InsRule
<1>7. \A k \in 1..Top(c) : f[k] = Appended(UnserializeTxIn(f[k - 1]))
  <2> SUFFICES ASSUME NEW k \in 1..Top(c) PROVE f[k] = Appended(UnserializeTxIn(f[k - 1]))
    OBVIOUS
  <2>1. k \in 0..Top(c) /\ k # 0
    BY <1>3
  <2> QED
    BY <1>5, <2>1 DEF InsRule
<1> QED
  BY <1>6, <1>7 DEF f

\* Reading outputs goes by its rule.
LEMMA OutsStepsGo ==
    ASSUME NEW c, Top(c) \in Nat
    PROVE  /\ OutsSteps(c)[0] = Emptied(c)
           /\ \A k \in 1..Top(c) : OutsSteps(c)[k] = Appended(UnserializeTxOut(OutsSteps(c)[k - 1]))
<1> DEFINE T == {m \in Nat : \E f : f = [k \in 0..m |-> OutsRule(c, f, k)]}
<1>1. ASSUME NEW m \in Nat, \A j \in 0..(m - 1) : j \in T PROVE m \in T
  <2>1. CASE m = 0
    <3> DEFINE f == [k \in 0..m |-> Emptied(c)]
    <3>1. \A k \in 0..m : f[k] = OutsRule(c, f, k)
      BY <2>1 DEF OutsRule
    <3>2. f = [k \in 0..m |-> OutsRule(c, f, k)]
      BY <3>1
    <3> QED
      BY <3>2
  <2>2. CASE m # 0
    <3>1. m - 1 \in 0..(m - 1) /\ m - 1 \in Nat
      BY <2>2
    <3>2. PICK h : h = [k \in 0..(m - 1) |-> OutsRule(c, h, k)]
      BY <1>1, <3>1
    <3> DEFINE z == Appended(UnserializeTxOut(h[m - 1]))
               f == [k \in 0..m |-> IF k < m THEN h[k] ELSE z]
    <3>3. \A k \in 0..m : f[k] = OutsRule(c, f, k)
      <4> SUFFICES ASSUME NEW k \in 0..m PROVE f[k] = OutsRule(c, f, k)
        OBVIOUS
      <4>1. CASE k = m
        <5>1. f[m] = z /\ f[m - 1] = h[m - 1]
          BY <2>2
        <5> HIDE DEF f
        <5> QED
          BY <2>2, <4>1, <5>1 DEF OutsRule
      <4>2. CASE k # m
        <5>1. k \in 0..(m - 1) /\ k < m
          BY <4>2
        <5>2. f[k] = h[k] /\ h[k] = OutsRule(c, h, k)
          BY <3>2, <5>1
        <5>3. CASE k = 0
          <6> HIDE DEF f, z
          <6> QED
            BY <5>2, <5>3 DEF OutsRule
        <5>4. CASE k # 0
          <6>1. f[k - 1] = h[k - 1]
            BY <5>1, <5>4
          <6> HIDE DEF f, z
          <6> QED
            BY <5>2, <5>4, <6>1 DEF OutsRule
        <5> QED
          BY <5>3, <5>4
      <4> QED
        BY <4>1, <4>2
    <3>4. f = [k \in 0..m |-> OutsRule(c, f, k)]
      BY <3>3
    <3> QED
      BY <3>4
  <2> QED
    BY <2>1, <2>2
<1>2. \A m \in Nat : m \in T
  <2> HIDE DEF T
  <2> QED
    BY <1>1, Induct
<1>3. Top(c) \in Nat
  OBVIOUS
<1> DEFINE f == OutsSteps(c)
<1>4. f = [k \in 0..Top(c) |-> OutsRule(c, f, k)]
  BY <1>2, <1>3 DEF OutsSteps
<1>5. \A k \in 0..Top(c) : f[k] = OutsRule(c, f, k)
  BY <1>4
<1> HIDE DEF f
<1>6. f[0] = Emptied(c)
  <2>1. 0 \in 0..Top(c)
    BY <1>3
  <2> QED
    BY <1>5, <2>1 DEF OutsRule
<1>7. \A k \in 1..Top(c) : f[k] = Appended(UnserializeTxOut(f[k - 1]))
  <2> SUFFICES ASSUME NEW k \in 1..Top(c) PROVE f[k] = Appended(UnserializeTxOut(f[k - 1]))
    OBVIOUS
  <2>1. k \in 0..Top(c) /\ k # 0
    BY <1>3
  <2> QED
    BY <1>5, <2>1 DEF OutsRule
<1> QED
  BY <1>6, <1>7 DEF f

\* Reading the items of a witness goes by its rule.
LEMMA StackStepsGo ==
    ASSUME NEW c, Top(c) \in Nat
    PROVE  /\ StackSteps(c)[0] = Emptied(c)
           /\ \A k \in 1..Top(c) : StackSteps(c)[k] = Appended(UnserializeBytes(StackSteps(c)[k - 1]))
<1> DEFINE T == {m \in Nat : \E f : f = [k \in 0..m |-> StackRule(c, f, k)]}
<1>1. ASSUME NEW m \in Nat, \A j \in 0..(m - 1) : j \in T PROVE m \in T
  <2>1. CASE m = 0
    <3> DEFINE f == [k \in 0..m |-> Emptied(c)]
    <3>1. \A k \in 0..m : f[k] = StackRule(c, f, k)
      BY <2>1 DEF StackRule
    <3>2. f = [k \in 0..m |-> StackRule(c, f, k)]
      BY <3>1
    <3> QED
      BY <3>2
  <2>2. CASE m # 0
    <3>1. m - 1 \in 0..(m - 1) /\ m - 1 \in Nat
      BY <2>2
    <3>2. PICK h : h = [k \in 0..(m - 1) |-> StackRule(c, h, k)]
      BY <1>1, <3>1
    <3> DEFINE z == Appended(UnserializeBytes(h[m - 1]))
               f == [k \in 0..m |-> IF k < m THEN h[k] ELSE z]
    <3>3. \A k \in 0..m : f[k] = StackRule(c, f, k)
      <4> SUFFICES ASSUME NEW k \in 0..m PROVE f[k] = StackRule(c, f, k)
        OBVIOUS
      <4>1. CASE k = m
        <5>1. f[m] = z /\ f[m - 1] = h[m - 1]
          BY <2>2
        <5> HIDE DEF f
        <5> QED
          BY <2>2, <4>1, <5>1 DEF StackRule
      <4>2. CASE k # m
        <5>1. k \in 0..(m - 1) /\ k < m
          BY <4>2
        <5>2. f[k] = h[k] /\ h[k] = StackRule(c, h, k)
          BY <3>2, <5>1
        <5>3. CASE k = 0
          <6> HIDE DEF f, z
          <6> QED
            BY <5>2, <5>3 DEF StackRule
        <5>4. CASE k # 0
          <6>1. f[k - 1] = h[k - 1]
            BY <5>1, <5>4
          <6> HIDE DEF f, z
          <6> QED
            BY <5>2, <5>4, <6>1 DEF StackRule
        <5> QED
          BY <5>3, <5>4
      <4> QED
        BY <4>1, <4>2
    <3>4. f = [k \in 0..m |-> StackRule(c, f, k)]
      BY <3>3
    <3> QED
      BY <3>4
  <2> QED
    BY <2>1, <2>2
<1>2. \A m \in Nat : m \in T
  <2> HIDE DEF T
  <2> QED
    BY <1>1, Induct
<1>3. Top(c) \in Nat
  OBVIOUS
<1> DEFINE f == StackSteps(c)
<1>4. f = [k \in 0..Top(c) |-> StackRule(c, f, k)]
  BY <1>2, <1>3 DEF StackSteps
<1>5. \A k \in 0..Top(c) : f[k] = StackRule(c, f, k)
  BY <1>4
<1> HIDE DEF f
<1>6. f[0] = Emptied(c)
  <2>1. 0 \in 0..Top(c)
    BY <1>3
  <2> QED
    BY <1>5, <2>1 DEF StackRule
<1>7. \A k \in 1..Top(c) : f[k] = Appended(UnserializeBytes(f[k - 1]))
  <2> SUFFICES ASSUME NEW k \in 1..Top(c) PROVE f[k] = Appended(UnserializeBytes(f[k - 1]))
    OBVIOUS
  <2>1. k \in 0..Top(c) /\ k # 0
    BY <1>3
  <2> QED
    BY <1>5, <2>1 DEF StackRule
<1> QED
  BY <1>6, <1>7 DEF f

\* Reading witnesses goes by its rule.
LEMMA WitStepsGo ==
    ASSUME NEW b, Len(Top(b).vin) \in Nat
    PROVE  /\ WitSteps(b)[0] = b
           /\ \A k \in 1..Len(Top(b).vin) : WitSteps(b)[k] = AsWitness(UnserializeStack(WitSteps(b)[k - 1]), k)
<1> DEFINE T == {m \in Nat : \E f : f = [k \in 0..m |-> WitRule(b, f, k)]}
<1>1. ASSUME NEW m \in Nat, \A j \in 0..(m - 1) : j \in T PROVE m \in T
  <2>1. CASE m = 0
    <3> DEFINE f == [k \in 0..m |-> b]
    <3>1. \A k \in 0..m : f[k] = WitRule(b, f, k)
      BY <2>1 DEF WitRule
    <3>2. f = [k \in 0..m |-> WitRule(b, f, k)]
      BY <3>1
    <3> QED
      BY <3>2
  <2>2. CASE m # 0
    <3>1. m - 1 \in 0..(m - 1) /\ m - 1 \in Nat
      BY <2>2
    <3>2. PICK h : h = [k \in 0..(m - 1) |-> WitRule(b, h, k)]
      BY <1>1, <3>1
    <3> DEFINE z == AsWitness(UnserializeStack(h[m - 1]), m)
               f == [k \in 0..m |-> IF k < m THEN h[k] ELSE z]
    <3>3. \A k \in 0..m : f[k] = WitRule(b, f, k)
      <4> SUFFICES ASSUME NEW k \in 0..m PROVE f[k] = WitRule(b, f, k)
        OBVIOUS
      <4>1. CASE k = m
        <5>1. f[m] = z /\ f[m - 1] = h[m - 1]
          BY <2>2
        <5> HIDE DEF f
        <5> QED
          BY <2>2, <4>1, <5>1 DEF WitRule
      <4>2. CASE k # m
        <5>1. k \in 0..(m - 1) /\ k < m
          BY <4>2
        <5>2. f[k] = h[k] /\ h[k] = WitRule(b, h, k)
          BY <3>2, <5>1
        <5>3. CASE k = 0
          <6> HIDE DEF f, z
          <6> QED
            BY <5>2, <5>3 DEF WitRule
        <5>4. CASE k # 0
          <6>1. f[k - 1] = h[k - 1]
            BY <5>1, <5>4
          <6> HIDE DEF f, z
          <6> QED
            BY <5>2, <5>4, <6>1 DEF WitRule
        <5> QED
          BY <5>3, <5>4
      <4> QED
        BY <4>1, <4>2
    <3>4. f = [k \in 0..m |-> WitRule(b, f, k)]
      BY <3>3
    <3> QED
      BY <3>4
  <2> QED
    BY <2>1, <2>2
<1>2. \A m \in Nat : m \in T
  <2> HIDE DEF T
  <2> QED
    BY <1>1, Induct
<1>3. Len(Top(b).vin) \in Nat
  OBVIOUS
<1> DEFINE f == WitSteps(b)
<1>4. f = [k \in 0..Len(Top(b).vin) |-> WitRule(b, f, k)]
  BY <1>2, <1>3 DEF WitSteps
<1>5. \A k \in 0..Len(Top(b).vin) : f[k] = WitRule(b, f, k)
  BY <1>4
<1> HIDE DEF f
<1>6. f[0] = b
  <2>1. 0 \in 0..Len(Top(b).vin)
    BY <1>3
  <2> QED
    BY <1>5, <2>1 DEF WitRule
<1>7. \A k \in 1..Len(Top(b).vin) : f[k] = AsWitness(UnserializeStack(f[k - 1]), k)
  <2> SUFFICES ASSUME NEW k \in 1..Len(Top(b).vin) PROVE f[k] = AsWitness(UnserializeStack(f[k - 1]), k)
    OBVIOUS
  <2>1. k \in 0..Len(Top(b).vin) /\ k # 0
    BY <1>3
  <2> QED
    BY <1>5, <2>1 DEF WitRule
<1> QED
  BY <1>6, <1>7 DEF f

\* A stream that has thrown stays so: what is made of the last values,
LEMMA MadeFails ==
    \A r : ~r.ok =>
        /\ Top(r) = 0
        /\ ~Emptied(r).ok /\ ~Joined(r).ok /\ ~Appended(r).ok /\ ~AsOutPoint(r).ok /\ ~AsTxIn(r).ok
        /\ ~AsTxOut(r).ok /\ ~AsNoBody(r).ok /\ ~AsBody(r).ok /\ ~AsExtended(r).ok /\ ~AsTx(r).ok
        /\ \A i : ~AsWitness(r, i).ok
<1> SUFFICES ASSUME NEW r, ~r.ok
             PROVE  /\ Top(r) = 0
                    /\ ~Emptied(r).ok /\ ~Joined(r).ok /\ ~Appended(r).ok /\ ~AsOutPoint(r).ok /\ ~AsTxIn(r).ok
                    /\ ~AsTxOut(r).ok /\ ~AsNoBody(r).ok /\ ~AsBody(r).ok /\ ~AsExtended(r).ok /\ ~AsTx(r).ok
                    /\ \A i : ~AsWitness(r, i).ok
  BY Zenon
<1>1. Top(r) = 0
  BY DEF Top
<1>2. Emptied(r) = r
  BY Zenon DEF Emptied, Made
<1>3. Joined(r) = r
  BY Zenon DEF Joined, Made
<1>4. Appended(r) = r
  BY Zenon DEF Appended, Made
<1>5. AsOutPoint(r) = r
  BY Zenon DEF AsOutPoint, Made
<1>6. AsTxIn(r) = r
  BY Zenon DEF AsTxIn, Made
<1>7. AsTxOut(r) = r
  BY Zenon DEF AsTxOut, Made
<1>8. AsNoBody(r) = r
  BY Zenon DEF AsNoBody, Made
<1>9. AsBody(r) = r
  BY Zenon DEF AsBody, Made
<1>10. AsExtended(r) = r
  BY Zenon DEF AsExtended, Made
<1>11. AsTx(r) = r
  BY Zenon DEF AsTx, Made
<1>12. \A i : AsWitness(r, i) = r
  BY Zenon DEF AsWitness, Made
<1> QED
  BY <1>1, <1>2, <1>3, <1>4, <1>5, <1>6, <1>7, <1>8, <1>9, <1>10, <1>11, <1>12, Zenon

\* bytes and sizes,
LEMMA SizeFails ==
    \A r : ~r.ok => ~ReadU(r).ok /\ ~ReadCompactSize(r).ok /\ \A n : ~ReadBytes(r, n).ok
<1> SUFFICES ASSUME NEW r, ~r.ok
             PROVE  ~ReadU(r).ok /\ ~ReadCompactSize(r).ok /\ \A n : ~ReadBytes(r, n).ok
  BY Zenon
<1>1. \A n : ReadBytes(r, n) = Thrown
  BY Zenon DEF ReadBytes
<1>2. ~Thrown.ok
  BY Stands
<1> DEFINE c == ser_readdata(r, 1)
           d == LongForm(c)
<1>3. c = Thrown
  <2> DEFINE q == ReadBytes(r, 1)
             x == Append(SubSeq(q.got, 1, Len(q.got) - 1), Value(SubSeq(q.got, Len(q.got) - 1 + 1, Len(q.got))[1]))
  <2>1. q = Thrown
    BY <1>1, Zenon
  <2>2. c = IF q.ok THEN [q EXCEPT !.got = x] ELSE q
    BY DEF ser_readdata, Made
  <2> HIDE DEF q, x
  <2> QED
    BY <1>2, <2>1, <2>2
<1> HIDE DEF c
<1>4. d = Thrown
  <2>1. Top(Thrown) = 0 /\ 0 < Base - 3
    BY Stands, Bases
  <2> QED
    BY <1>3, <2>1, Zenon DEF LongForm
<1> HIDE DEF d
<1>5. ~Limited(d, MAX_SIZE).ok
  BY <1>2, <1>4, Zenon DEF Limited
<1>6. ~ReadCompactSize(r).ok
  BY <1>5, Zenon DEF ReadCompactSize, d, c
<1> QED
  BY <1>1, <1>2, <1>3, <1>6, Zenon DEF ReadU, c

\* the chunks of a vector of bytes,
LEMMA ChunksFail ==
    \A c : ~c.ok => ~Chunks(c).ok
<1> SUFFICES ASSUME NEW c, ~c.ok PROVE ~Chunks(c).ok
  BY Zenon
<1>1. Top(c) = 0 /\ ~Emptied(c).ok
  BY MadeFails, Zenon
<1>2. ChunkSteps(c, 0)[0] = Emptied(c)
  BY ChunkStepsGo
<1>3. ChunkCount(0) = 0
  <2>1. Chunk \in Nat /\ Chunk > 0
    BY Bases
  <2>2. 0 + Chunk - 1 = Chunk * 0 + (Chunk - 1) /\ Chunk - 1 \in Nat /\ Chunk - 1 < Chunk
    BY <2>1
  <2>3. (Chunk * 0 + (Chunk - 1)) \div Chunk = 0
    BY <2>1, <2>2, Quotients
  <2> QED
    BY <2>2, <2>3 DEF ChunkCount
<1> QED
  BY <1>1, <1>2, <1>3, ChunksIs, Zenon

\* vectors,
LEMMA VectorFails ==
    \A r : ~r.ok => ~UnserializeBytes(r).ok /\ ~UnserializeIns(r).ok /\ ~UnserializeOuts(r).ok
                    /\ ~UnserializeStack(r).ok
<1> SUFFICES ASSUME NEW r, ~r.ok
             PROVE  ~UnserializeBytes(r).ok /\ ~UnserializeIns(r).ok /\ ~UnserializeOuts(r).ok
                    /\ ~UnserializeStack(r).ok
  BY Zenon
<1> DEFINE c == ReadCompactSize(r)
<1>1. ~c.ok
  BY SizeFails, Zenon
<1> HIDE DEF c
<1>2. Top(c) = 0 /\ ~Emptied(c).ok
  BY <1>1, MadeFails, Zenon
<1>3. Top(c) \in Nat
  BY <1>2
<1>4. InsSteps(c)[0] = Emptied(c) /\ OutsSteps(c)[0] = Emptied(c) /\ StackSteps(c)[0] = Emptied(c)
  BY <1>3, InsStepsGo, OutsStepsGo, StackStepsGo
<1>6. ~UnserializeIns(r).ok /\ ~UnserializeOuts(r).ok /\ ~UnserializeStack(r).ok
  BY <1>2, <1>4, InsStepsAre, OutsStepsAre, StackStepsAre, Zenon DEF c
<1>7. ~UnserializeBytes(r).ok
  BY <1>1, ChunksFail, Zenon DEF UnserializeBytes, c
<1> QED
  BY <1>6, <1>7

\* and the parts of a transaction.
LEMMA PartsFail ==
    \A r : ~r.ok => /\ ~UnserializeOutPoint(r).ok /\ ~UnserializeTxIn(r).ok /\ ~UnserializeTxOut(r).ok
                    /\ ~AfterFlags(r).ok /\ ~AfterBody(r).ok /\ \A b : ~AfterIns(r, b).ok
                    /\ \A b : ~UnserializeTransaction(r, b).ok
<1> SUFFICES ASSUME NEW r, ~r.ok
             PROVE  /\ ~UnserializeOutPoint(r).ok /\ ~UnserializeTxIn(r).ok /\ ~UnserializeTxOut(r).ok
                    /\ ~AfterFlags(r).ok /\ ~AfterBody(r).ok /\ \A b : ~AfterIns(r, b).ok
                    /\ \A b : ~UnserializeTransaction(r, b).ok
  BY Zenon
<1>1. \A q : ~q.ok => ~UnserializeOutPoint(q).ok
  BY SizeFails, MadeFails, ReadersAre, Zenon
<1>2. \A q : ~q.ok => ~UnserializeScript(q).ok
  BY VectorFails, Zenon DEF UnserializeScript
<1>3. ~UnserializeTxIn(r).ok /\ ~UnserializeTxOut(r).ok
  BY <1>1, <1>2, SizeFails, MadeFails, ReadersAre, Zenon
<1>4. ~AfterFlags(r).ok
  BY MadeFails, ReadersAre, Zenon
<1>5. \A q : ~q.ok => ~AfterBody(q).ok
  BY Zenon DEF AfterBody
<1>6. \A q, b : ~q.ok => ~AfterIns(q, b).ok
  BY VectorFails, MadeFails, ReadersAre, Zenon
<1>7. \A b : ~UnserializeTransaction(r, b).ok
  <2> SUFFICES ASSUME NEW b PROVE ~UnserializeTransaction(r, b).ok
    OBVIOUS
  <2>1. ~UnserializeIns(ReadU(r)).ok
    BY SizeFails, VectorFails, Zenon
  <2>2. ~AfterBody(AfterIns(UnserializeIns(ReadU(r)), b)).ok
    BY <1>5, <1>6, <2>1, Zenon
  <2> QED
    BY <2>2, SizeFails, MadeFails, ReadersAre, Zenon
<1> QED
  BY <1>1, <1>3, <1>4, <1>5, <1>6, <1>7, Zenon

-----------------------------------------------------------------------------
(* What is accepted *)

\* A size that is accepted was written as that size.
LEMMA SizeTells ==
    ASSUME NEW g, Kept(g), NEW s \in Seq(Digit), ReadCompactSize(Stand(g, s)).ok
    PROVE  \E n \in Nat, t \in Seq(Digit) :
             /\ n <= MAX_SIZE /\ s = WriteCompactSize(n) \o t
             /\ ReadCompactSize(Stand(g, s)) = Stand(Append(g, n), t)
<1>1. PICK S : g \in Seq(S)
  BY DEF Kept
<1> DEFINE T == S \cup (Nat \cup Seq(Digit))
<1>2. g \in Seq(T)
  BY <1>1
<1>3. Holds(T)
  BY DEF Holds
<1> HIDE DEF T
<1>4. PICK n \in Nat, t \in Seq(Digit) :
        /\ ReadCompactSize(Stand(g, s)) = Stand(Append(g, n), t)
        /\ n < Power[8] /\ n <= MAX_SIZE /\ WriteCompactSize(n) \o t = s
  BY <1>2, <1>3, CompactAccepts
<1> QED
  BY <1>4

\* A byte that is read was there.
LEMMA UTells ==
    ASSUME NEW g, Kept(g), NEW s \in Seq(Digit), ReadU(Stand(g, s)).ok
    PROVE  \E d \in Digit, t \in Seq(Digit) :
             s = U(d) \o t /\ ReadU(Stand(g, s)) = Stand(Append(g, d), t)
<1>1. PICK S : g \in Seq(S)
  BY DEF Kept
<1> DEFINE T == S \cup (Nat \cup Seq(Digit))
<1>2. g \in Seq(T)
  BY <1>1
<1>3. Holds(T)
  BY DEF Holds
<1> HIDE DEF T
<1>4. 1 <= Len(s)
  <2>1. 1 \in Nat
    OBVIOUS
  <2>2. ~(1 <= Len(s)) => ser_readdata(Stand(g, s), 1) = Thrown
    BY <1>2, <1>3, <2>1, ReadsData
  <2> QED
    BY <2>2, Stands DEF ReadU
<1> DEFINE d == s[1]
           t == SubSeq(s, 1 + 1, Len(s))
<1>5. d \in Digit /\ t \in Seq(Digit) /\ s = <<d>> \o t
  <2>1. /\ SubSeq(s, 1, 1) \in Seq(Digit) /\ Len(SubSeq(s, 1, 1)) = 1 /\ t \in Seq(Digit)
        /\ SubSeq(s, 1, 1) \o t = s /\ SubSeq(s, 1, 1)[1] = s[1]
    <3>1. 1 \in Nat
      OBVIOUS
    <3> HIDE DEF t
    <3> QED
      BY <1>4, <3>1, PartOf DEF t
  <2>2. SubSeq(s, 1, 1) = <<d>>
    <3> DEFINE p == SubSeq(s, 1, 1)
    <3>1. p \in Seq(Digit) /\ Len(p) = 1 /\ p[1] = d
      BY <2>1
    <3> HIDE DEF p
    <3>2. p = <<d>>
      BY <3>1
    <3> QED
      BY <3>2 DEF p
  <2>3. d \in Digit
    BY <1>4
  <2> QED
    BY <2>1, <2>2, <2>3
<1>6. ReadU(Stand(g, U(d) \o t)) = Stand(Append(g, d), t)
  <2> HIDE DEF d, t
  <2> QED
    BY <1>5, UReads
<1> HIDE DEF d, t
<1> QED
  BY <1>5, <1>6 DEF U

\* Reading n bytes in chunks takes n bytes.
LEMMA ChunksTake ==
    ASSUME NEW g, Kept(g), NEW n \in Nat, NEW s \in Seq(Digit), Chunks(Stand(Append(g, n), s)).ok
    PROVE  n <= Len(s)
<1> DEFINE c == Stand(Append(g, n), s)
           f == ChunkSteps(c, n)
           N == ChunkCount(n)
           fits(k) == \E x, t : /\ f[k] = Stand(Append(g, x), t) /\ t \in Seq(Digit)
                                /\ UpToChunk(n, k) + Len(t) = Len(s)
           T == {k \in Nat : k <= N /\ f[k].ok => fits(k)}
<1>1. Top(c) = n
  BY TopOf
<1>2. Chunks(c) = f[N]
  BY <1>1, ChunksIs, Zenon
<1>3. f[0] = Emptied(c) /\ \A k \in 1..N : f[k] = Joined(ReadBytes(f[k - 1], Blk(n, k)))
  <2> HIDE DEF c
  <2> QED
    BY ChunkStepsGo
<1>4. Emptied(c) = Stand(Append(g, <<>>), s)
  BY MadeNothing
<1>5. /\ N \in Nat /\ UpToChunk(n, 0) = 0 /\ UpToChunk(n, N) = n
      /\ \A k \in 1..N : /\ UpToChunk(n, k - 1) \in Nat /\ Blk(n, k) \in Nat
                         /\ UpToChunk(n, k) = UpToChunk(n, k - 1) + Blk(n, k) /\ UpToChunk(n, k) <= n
  BY ChunkSizes
<1> HIDE DEF c, f, N
<1>6. ASSUME NEW k \in Nat, \A m \in 0..(k - 1) : m \in T PROVE k \in T
  <2> SUFFICES ASSUME k <= N, f[k].ok PROVE fits(k)
    OBVIOUS
  <2>1. CASE k = 0
    <3>1. UpToChunk(n, 0) + Len(s) = Len(s)
      BY <1>5
    <3>2. f[0] = Stand(Append(g, <<>>), s)
      BY <1>3, <1>4
    <3> QED
      BY <2>1, <3>1, <3>2
  <2>2. CASE k # 0
    <3> DEFINE u == UpToChunk(n, k - 1)
               b == Blk(n, k)
    <3>1. k \in 1..N /\ k - 1 \in 0..(k - 1) /\ k - 1 <= N /\ k - 1 \in Nat
      BY <1>5, <2>2
    <3>2. f[k] = Joined(ReadBytes(f[k - 1], b))
      BY <1>3, <3>1
    <3>3. u \in Nat /\ b \in Nat /\ UpToChunk(n, k) = u + b
      BY <1>5, <3>1
    <3> HIDE DEF b
    <3>4. f[k - 1].ok
      <4> SUFFICES ASSUME ~f[k - 1].ok PROVE FALSE
        OBVIOUS
      <4>1. ~Joined(ReadBytes(f[k - 1], b)).ok
        BY SizeFails, MadeFails, Zenon
      <4> QED
        BY <3>2, <4>1
    <3>5. fits(k - 1)
      <4>1. k - 1 \in T
        BY <1>6, <3>1
      <4> QED
        BY <3>1, <3>4, <4>1
    <3>6. PICK x, t : f[k - 1] = Stand(Append(g, x), t) /\ t \in Seq(Digit) /\ u + Len(t) = Len(s)
      BY <3>5
    <3> HIDE DEF u
    <3>7. b <= Len(t)
      <4> SUFFICES ASSUME ~(b <= Len(t)) PROVE FALSE
        OBVIOUS
      <4>1. ReadBytes(f[k - 1], b) = Thrown
        BY <3>3, <3>6, ReadsBytes
      <4>2. ~Joined(Thrown).ok
        BY Stands, MadeFails, Zenon
      <4> QED
        BY <3>2, <4>1, <4>2
    <3> DEFINE y == SubSeq(t, 1, b)
               z == SubSeq(t, b + 1, Len(t))
    <3>8. ReadBytes(f[k - 1], b) = Stand(Append(Append(g, x), y), z)
      BY <3>3, <3>6, <3>7, ReadsBytes
    <3>9. z \in Seq(Digit) /\ Len(z) = Len(t) - b
      BY <3>3, <3>6, <3>7, PartOf
    <3> HIDE DEF y, z
    <3>10. Joined(Stand(Append(Append(g, x), y), z)) = Stand(Append(g, x \o y), z)
      BY MadeJoin
    <3>11. f[k] = Stand(Append(g, x \o y), z)
      BY <3>2, <3>8, <3>10
    <3>12. UpToChunk(n, k) + Len(z) = Len(s)
      <4>1. u \in Nat /\ b \in Nat /\ Len(t) \in Nat /\ u + Len(t) = Len(s) /\ Len(z) = Len(t) - b
        BY <3>3, <3>6, <3>9
      <4>2. (u + b) + (Len(t) - b) = u + Len(t)
        BY <4>1
      <4> QED
        BY <3>3, <4>1, <4>2
    <3> QED
      BY <3>9, <3>11, <3>12
  <2> QED
    BY <2>1, <2>2
<1>7. \A k \in Nat : k \in T
  <2> HIDE DEF T
  <2> QED
    BY <1>6, Induct
<1>8. f[N].ok
  BY <1>2 DEF c
<1>9. fits(N)
  BY <1>5, <1>7, <1>8
<1>10. PICK t : t \in Seq(Digit) /\ UpToChunk(n, N) + Len(t) = Len(s)
  BY <1>9
<1> QED
  BY <1>5, <1>10

\* Bytes that are accepted as a vector were written as one.
LEMMA BytesTell ==
    ASSUME NEW g, Kept(g), NEW s \in Seq(Digit), UnserializeBytes(Stand(g, s)).ok
    PROVE  \E v \in CScripts, t \in Seq(Digit) :
             /\ s = SerializeBytes(v) \o t
             /\ UnserializeBytes(Stand(g, s)) = Stand(Append(g, v), t)
<1> DEFINE c == ReadCompactSize(Stand(g, s))
<1>1. UnserializeBytes(Stand(g, s)) = Chunks(c)
  BY Zenon DEF UnserializeBytes
<1>2. c.ok
  BY <1>1, ChunksFail, Zenon
<1>3. PICK n \in Nat, u \in Seq(Digit) : n <= MAX_SIZE /\ s = WriteCompactSize(n) \o u /\ c = Stand(Append(g, n), u)
  BY <1>2, SizeTells
<1> HIDE DEF c
<1>4. n <= Len(u)
  BY <1>1, <1>3, ChunksTake
<1> DEFINE v == SubSeq(u, 1, n)
           t == SubSeq(u, n + 1, Len(u))
<1>5. v \in Seq(Digit) /\ Len(v) = n /\ t \in Seq(Digit) /\ v \o t = u
  BY <1>3, <1>4, PartOf
<1> HIDE DEF v, t
<1>6. v \in CScripts
  BY <1>3, <1>5 DEF CScripts, UpToMax
<1>7. s = SerializeBytes(v) \o t
  <2> DEFINE z == WriteCompactSize(n)
  <2>1. z \in Seq(Digit)
    BY CompactBytes
  <2>2. SerializeBytes(v) = z \o v
    BY <1>5 DEF SerializeBytes
  <2>3. s = z \o (v \o t)
    BY <1>3, <1>5
  <2> HIDE DEF z
  <2>4. Shifts(z, v, t)
    BY <1>5, <2>1, AllShift, Zenon
  <2> QED
    BY <2>2, <2>3, <2>4, Zenon DEF Shifts
<1>8. UnserializeBytes(Stand(g, SerializeBytes(v) \o t)) = Stand(Append(g, v), t)
  BY <1>5, <1>6, BytesRead
<1> QED
  BY <1>5, <1>6, <1>7, <1>8

\* The place of an output.
LEMMA OutPointTells ==
    ASSUME NEW g, Kept(g), NEW s \in Seq(Digit), UnserializeOutPoint(Stand(g, s)).ok
    PROVE  \E o \in COutPoints, t \in Seq(Digit) :
             /\ s = SerializeOutPoint(o) \o t
             /\ UnserializeOutPoint(Stand(g, s)) = Stand(Append(g, o), t)
<1> DEFINE r1 == ReadU(Stand(g, s))
           r2 == ReadU(r1)
<1>1. UnserializeOutPoint(Stand(g, s)) = AsOutPoint(r2)
  BY ReadersAre, Zenon
<1>2. r1.ok /\ r2.ok
  BY <1>1, SizeFails, MadeFails, Zenon
<1>3. PICK x \in Digit, s1 \in Seq(Digit) : s = U(x) \o s1 /\ r1 = Stand(Append(g, x), s1)
  BY <1>2, UTells
<1> HIDE DEF r1
<1>4. PICK y \in Digit, t \in Seq(Digit) : s1 = U(y) \o t
  <2> DEFINE g1 == Append(g, x)
  <2>1. Kept(g1) /\ ReadU(Stand(g1, s1)).ok
    BY <1>2, <1>3, KeptMore
  <2> HIDE DEF g1
  <2> QED
    BY <2>1, UTells
<1> DEFINE o == [hash |-> x, n |-> y]
<1>5. o \in COutPoints /\ SerializeOutPoint(o) = U(x) \o U(y)
  BY DEF COutPoints, SerializeOutPoint
<1>6. s = SerializeOutPoint(o) \o t
  <2>1. U(x) \in Seq(Digit) /\ U(y) \in Seq(Digit)
    BY UReads
  <2>2. Shifts(U(x), U(y), t)
    BY <2>1, AllShift, Zenon
  <2> HIDE DEF o
  <2> QED
    BY <1>3, <1>4, <1>5, <2>2, Zenon DEF Shifts
<1> HIDE DEF o
<1>7. UnserializeOutPoint(Stand(g, SerializeOutPoint(o) \o t)) = Stand(Append(g, o), t)
  BY <1>5, OutPointReads
<1> QED
  BY <1>5, <1>6, <1>7

\* Three pieces one after the other.
Regroups(a, b, c, t) == a \o (b \o (c \o t)) = ((a \o b) \o c) \o t

\* They may be put together first.
LEMMA ThreePieces ==
    \A a, b, c, t : a \in Seq(Digit) /\ b \in Seq(Digit) /\ c \in Seq(Digit) /\ t \in Seq(Digit) =>
        Regroups(a, b, c, t)
<1> SUFFICES ASSUME NEW a, NEW b, NEW c, NEW t,
                    a \in Seq(Digit), b \in Seq(Digit), c \in Seq(Digit), t \in Seq(Digit)
             PROVE  Regroups(a, b, c, t)
  BY Zenon
<1> DEFINE t1 == c \o t
           t2 == b \o t1
           a1 == a \o b
           a2 == a1 \o c
<1>1. a1 \in Seq(Digit) /\ t1 \in Seq(Digit)
  BY BytesAssociate, Zenon
<1> HIDE DEF a1, t1
<1>2. Shifts(a, b, t1) /\ Shifts(a1, c, t)
  BY <1>1, AllShift, Zenon
<1>3. a1 \o t1 = a \o t2
  BY <1>2, Zenon DEF Shifts, a1
<1>4. a2 \o t = a1 \o t1
  BY <1>2, Zenon DEF Shifts, t1
<1>5. a2 \o t = a \o t2
  BY <1>3, <1>4
<1> QED
  BY <1>5, Zenon DEF Regroups, a1, t1

\* The inputs without a witness.
BareIns == {i \in CTxIns : i.scriptWitness = <<>>}

\* They are read as they are written.
LEMMA BareInReads ==
    ASSUME NEW g, Kept(g), NEW i \in BareIns, NEW t \in Seq(Digit)
    PROVE  /\ SerializeTxIn(i) \in Seq(Digit)
           /\ UnserializeTxIn(Stand(g, SerializeTxIn(i) \o t)) = Stand(Append(g, i), t)
<1>1. i \in CTxIns /\ NoWitness(i) = i
  BY DEF BareIns, CTxIns, NoWitness
<1> QED
  BY <1>1, TxInReads

\* An input.
LEMMA TxInTells ==
    ASSUME NEW g, Kept(g), NEW s \in Seq(Digit), UnserializeTxIn(Stand(g, s)).ok
    PROVE  \E i \in BareIns, t \in Seq(Digit) :
             /\ s = SerializeTxIn(i) \o t
             /\ UnserializeTxIn(Stand(g, s)) = Stand(Append(g, i), t)
<1> DEFINE r1 == UnserializeOutPoint(Stand(g, s))
           r2 == UnserializeScript(r1)
           r3 == ReadU(r2)
<1>1. UnserializeTxIn(Stand(g, s)) = AsTxIn(r3)
  BY ReadersAre, Zenon
<1>2. r1.ok /\ r2.ok /\ r3.ok
  <2>1. r3.ok
    BY <1>1, MadeFails, Zenon
  <2>2. r2.ok
    BY <2>1, SizeFails, Zenon
  <2> QED
    BY <2>1, <2>2, VectorFails, Zenon DEF UnserializeScript
<1>3. PICK o \in COutPoints, s1 \in Seq(Digit) : s = SerializeOutPoint(o) \o s1 /\ r1 = Stand(Append(g, o), s1)
  BY <1>2, OutPointTells
<1> HIDE DEF r1
<1> DEFINE g1 == Append(g, o)
<1>4. Kept(g1)
  BY KeptMore
<1> HIDE DEF g1
<1>5. PICK v \in CScripts, s2 \in Seq(Digit) : s1 = SerializeBytes(v) \o s2 /\ r2 = Stand(Append(g1, v), s2)
  <2>1. r1 = Stand(g1, s1) /\ UnserializeBytes(Stand(g1, s1)).ok
    BY <1>2, <1>3 DEF g1, UnserializeScript
  <2>2. r2 = UnserializeBytes(Stand(g1, s1))
    BY <2>1 DEF UnserializeScript
  <2> HIDE DEF r2
  <2> QED
    BY <1>4, <2>1, <2>2, BytesTell
<1> HIDE DEF r2
<1>6. PICK n \in Digit, t \in Seq(Digit) : s2 = U(n) \o t
  <2> DEFINE g2 == Append(g1, v)
  <2>1. Kept(g2) /\ ReadU(Stand(g2, s2)).ok
    BY <1>2, <1>4, <1>5, KeptMore
  <2> HIDE DEF g2
  <2> QED
    BY <2>1, UTells
<1> DEFINE i == [prevout |-> o, scriptSig |-> v, nSequence |-> n, scriptWitness |-> <<>>]
<1>7. i \in BareIns
  <2>1. <<>> \in CTxWitnesses
    BY Bases DEF CTxWitnesses, UpToMax
  <2> QED
    BY <2>1 DEF BareIns, CTxIns
<1>8. SerializeTxIn(i) = (SerializeOutPoint(o) \o SerializeBytes(v)) \o U(n)
  BY DEF SerializeTxIn, SerializeScript
<1> HIDE DEF i
<1>9. s = SerializeTxIn(i) \o t
  <2>1. SerializeOutPoint(o) \in Seq(Digit) /\ SerializeBytes(v) \in Seq(Digit) /\ U(n) \in Seq(Digit)
    BY OutPointReads, BytesRead, UReads
  <2>2. SerializeOutPoint(o) \o (SerializeBytes(v) \o (U(n) \o t))
        = ((SerializeOutPoint(o) \o SerializeBytes(v)) \o U(n)) \o t
    <3>1. Regroups(SerializeOutPoint(o), SerializeBytes(v), U(n), t)
      BY <2>1, ThreePieces, Zenon
    <3> QED
      BY <3>1, Zenon DEF Regroups
  <2> QED
    BY <1>3, <1>5, <1>6, <1>8, <2>2, Zenon
<1>10. UnserializeTxIn(Stand(g, SerializeTxIn(i) \o t)) = Stand(Append(g, i), t)
  BY <1>7, BareInReads
<1> QED
  BY <1>7, <1>9, <1>10

\* An output.
LEMMA TxOutTells ==
    ASSUME NEW g, Kept(g), NEW s \in Seq(Digit), UnserializeTxOut(Stand(g, s)).ok
    PROVE  \E o \in CTxOuts, t \in Seq(Digit) :
             /\ s = SerializeTxOut(o) \o t
             /\ UnserializeTxOut(Stand(g, s)) = Stand(Append(g, o), t)
<1> DEFINE r1 == ReadU(Stand(g, s))
           r2 == UnserializeScript(r1)
<1>1. UnserializeTxOut(Stand(g, s)) = AsTxOut(r2)
  BY ReadersAre, Zenon
<1>2. r1.ok /\ r2.ok
  <2>1. r2.ok
    BY <1>1, MadeFails, Zenon
  <2> QED
    BY <2>1, VectorFails, Zenon DEF UnserializeScript
<1>3. PICK x \in Digit, s1 \in Seq(Digit) : s = U(x) \o s1 /\ r1 = Stand(Append(g, x), s1)
  BY <1>2, UTells
<1> HIDE DEF r1
<1>4. PICK v \in CScripts, t \in Seq(Digit) : s1 = SerializeBytes(v) \o t
  <2> DEFINE g1 == Append(g, x)
  <2>1. Kept(g1)
    BY KeptMore
  <2>2. UnserializeBytes(Stand(g1, s1)).ok
    BY <1>2, <1>3 DEF UnserializeScript
  <2> HIDE DEF g1
  <2> QED
    BY <2>1, <2>2, BytesTell
<1> DEFINE o == [nValue |-> x, scriptPubKey |-> v]
<1>5. o \in CTxOuts /\ SerializeTxOut(o) = U(x) \o SerializeBytes(v)
  BY DEF CTxOuts, SerializeTxOut, SerializeScript
<1> HIDE DEF o
<1>6. s = SerializeTxOut(o) \o t
  <2>1. U(x) \in Seq(Digit) /\ SerializeBytes(v) \in Seq(Digit)
    BY UReads, BytesRead
  <2>2. Shifts(U(x), SerializeBytes(v), t)
    BY <2>1, AllShift, Zenon
  <2> QED
    BY <1>3, <1>4, <1>5, <2>2, Zenon DEF Shifts
<1>7. UnserializeTxOut(Stand(g, SerializeTxOut(o) \o t)) = Stand(Append(g, o), t)
  BY <1>5, TxOutReads
<1> QED
  BY <1>5, <1>6, <1>7

-----------------------------------------------------------------------------
(* Vectors that are accepted *)

\* The parts put together from the first on.
Fronts(ps, F) ==
    /\ F \in [0..Len(ps) -> Seq(Digit)] /\ F[0] = <<>>
    /\ \A i \in 1..Len(ps) : F[i] = F[i - 1] \o ps[i]

\* There are such, for any parts.
LEMMA FrontsOf ==
    ASSUME NEW ps \in Seq(Seq(Digit))
    PROVE  \E F : Fronts(ps, F)
<1> DEFINE N == Len(ps)
           S == Seq(Digit)
           q(k) == IF k \in 1..N THEN ps[k] ELSE <<>>
           fwd == [k \in Nat |-> [x \in S |-> x \o q(k)]]
<1>0. N \in Nat /\ <<>> \in S /\ \A k \in 1..N : ps[k] \in S
  OBVIOUS
<1>1. \A k : q(k) \in S
  BY <1>0
<1>2. \A k : \A x \in S : x \o q(k) \in S
  <2> SUFFICES ASSUME NEW k, NEW x \in S PROVE x \o q(k) \in S
    OBVIOUS
  <2>1. q(k) \in S
    BY <1>1
  <2> HIDE DEF q
  <2> QED
    BY <2>1
<1>3. fwd \in [Nat -> [S -> S]]
  <2> HIDE DEF q, S
  <2> QED
    BY <1>2
<1>4. PICK F \in [0..N -> S] : Chain(F, N, <<>>, fwd)
  <2> HIDE DEF S, fwd, N
  <2> QED
    BY <1>0, <1>3, Chains
<1>5. \A i \in 1..N : F[i] = F[i - 1] \o ps[i]
  <2> SUFFICES ASSUME NEW i \in 1..N PROVE F[i] = F[i - 1] \o ps[i]
    OBVIOUS
  <2>1. i \in Nat /\ i - 1 \in 0..N
    BY <1>0
  <2> HIDE DEF N, S
  <2>2. F[i] = fwd[i][F[i - 1]] /\ F[i - 1] \in S
    BY <1>4, <2>1 DEF Chain
  <2>3. fwd[i][F[i - 1]] = F[i - 1] \o q(i)
    <3> HIDE DEF q
    <3> QED
      BY <2>1, <2>2
  <2>4. q(i) = ps[i]
    OBVIOUS
  <2> QED
    BY <2>2, <2>3, <2>4
<1>6. F[0] = <<>>
  BY <1>4 DEF Chain
<1> QED
  BY <1>4, <1>5, <1>6 DEF Fronts

\* They end with all of them.
LEMMA FrontsEnd ==
    ASSUME NEW ps \in Seq(Seq(Digit)), NEW F, Fronts(ps, F)
    PROVE  FlattenSeq(ps) = F[Len(ps)]
<1>1. CASE Len(ps) = 0
  <2>1. ps = <<>>
    BY <1>1, EmptySeq
  <2> QED
    BY <1>1, <2>1, FlattenIs DEF Fronts
<1>2. CASE Len(ps) # 0
  BY <1>2, FlatStepsAre DEF Fronts
<1> QED
  BY <1>1, <1>2

\* One part more.
LEMMA FlattenMore ==
    ASSUME NEW ps \in Seq(Seq(Digit)), NEW p \in Seq(Digit)
    PROVE  FlattenSeq(ps) \in Seq(Digit) /\ FlattenSeq(Append(ps, p)) = FlattenSeq(ps) \o p
<1> DEFINE qs == Append(ps, p)
           N == Len(ps)
           S == Seq(Digit)
<1>1. /\ N \in Nat /\ qs \in Seq(S) /\ Len(qs) = N + 1 /\ qs[N + 1] = p
      /\ \A i \in 1..N : qs[i] = ps[i]
  <2>1. ps \in Seq(S) /\ p \in S
    OBVIOUS
  <2> HIDE DEF S
  <2> QED
    BY <2>1
<1> HIDE DEF qs, N
<1>2. PICK F : Fronts(qs, F)
  BY <1>1, FrontsOf
<1> DEFINE G == [i \in 0..N |-> F[i]]
<1>3. F \in [0..(N + 1) -> S] /\ F[0] = <<>> /\ \A i \in 1..(N + 1) : F[i] = F[i - 1] \o qs[i]
  BY <1>1, <1>2 DEF Fronts
<1>4. Fronts(ps, G)
  <2> HIDE DEF S
  <2>1. G \in [0..N -> S] /\ G[0] = <<>>
    BY <1>1, <1>3
  <2>2. \A i \in 1..N : G[i] = G[i - 1] \o ps[i]
    <3> SUFFICES ASSUME NEW i \in 1..N PROVE G[i] = G[i - 1] \o ps[i]
      OBVIOUS
    <3>1. i \in 0..N /\ i - 1 \in 0..N /\ i \in 1..(N + 1)
      BY <1>1
    <3>2. G[i] = F[i] /\ G[i - 1] = F[i - 1]
      BY <3>1
    <3>3. F[i] = F[i - 1] \o qs[i] /\ qs[i] = ps[i]
      BY <1>1, <1>3, <3>1
    <3> HIDE DEF G
    <3> QED
      BY <3>2, <3>3
  <2> HIDE DEF G
  <2> QED
    BY <2>1, <2>2 DEF Fronts, N, S
<1>5. FlattenSeq(ps) = G[N]
  <2> HIDE DEF G
  <2> QED
    BY <1>4, FrontsEnd DEF N
<1>6. FlattenSeq(qs) = F[N + 1]
  BY <1>1, <1>2, FrontsEnd
<1>7. G[N] = F[N] /\ F[N] \in S /\ F[N + 1] = F[N] \o p
  <2>1. N \in 0..N /\ N \in 0..(N + 1) /\ N + 1 \in 1..(N + 1) /\ (N + 1) - 1 = N
    BY <1>1
  <2> HIDE DEF S
  <2> QED
    BY <1>1, <1>3, <2>1
<1> QED
  BY <1>5, <1>6, <1>7 DEF qs

\* The parts that ser writes the elements of v as.
PartsOf(ser, v) == [i \in DOMAIN v |-> ser[v[i]]]

\* The parts of one element more.
LEMMA PartsMore ==
    ASSUME NEW D, NEW ser \in [D -> Seq(Digit)], NEW v \in Seq(D), NEW x \in D
    PROVE  /\ PartsOf(ser, v) \in Seq(Seq(Digit)) /\ Len(PartsOf(ser, v)) = Len(v)
           /\ Append(v, x) \in Seq(D) /\ Len(Append(v, x)) = Len(v) + 1
           /\ PartsOf(ser, Append(v, x)) = Append(PartsOf(ser, v), ser[x])
<1> DEFINE S == Seq(Digit)
           N == Len(v)
           w == Append(v, x)
           ps == PartsOf(ser, v)
           qs == PartsOf(ser, w)
<1>1. ser \in [D -> S] /\ N \in Nat /\ DOMAIN v = 1..N /\ \A i \in 1..N : v[i] \in D
  OBVIOUS
<1>2. w \in Seq(D) /\ Len(w) = N + 1 /\ DOMAIN w = 1..(N + 1) /\ w[N + 1] = x /\ \A i \in 1..N : w[i] = v[i]
  OBVIOUS
<1> HIDE DEF S, N, w
<1>3. ps \in [1..N -> S] /\ \A i \in 1..N : ps[i] = ser[v[i]]
  BY <1>1 DEF PartsOf
<1> HIDE DEF ps
<1>4. ps \in Seq(S) /\ Len(ps) = N
  BY <1>1, <1>3, FunctionIsSeq
<1>5. qs = [i \in 1..(N + 1) |-> ser[w[i]]]
  BY <1>2 DEF PartsOf
<1>6. Append(ps, ser[x]) \in Seq(S) /\ Len(Append(ps, ser[x])) = N + 1
  BY <1>1, <1>4
<1>7. \A i \in 1..(N + 1) : Append(ps, ser[x])[i] = ser[w[i]]
  <2> SUFFICES ASSUME NEW i \in 1..(N + 1) PROVE Append(ps, ser[x])[i] = ser[w[i]]
    OBVIOUS
  <2>1. CASE i = N + 1
    BY <1>1, <1>2, <1>4, <2>1
  <2>2. CASE i # N + 1
    <3>1. i \in 1..N
      BY <1>1, <2>2
    <3> QED
      BY <1>1, <1>2, <1>3, <1>4, <3>1
  <2> QED
    BY <2>1, <2>2
<1>8. Append(ps, ser[x]) = [i \in 1..(N + 1) |-> ser[w[i]]]
  <2> DEFINE z == Append(ps, ser[x])
  <2>1. z \in Seq(S) /\ Len(z) = N + 1 /\ \A i \in 1..(N + 1) : z[i] = ser[w[i]]
    BY <1>6, <1>7
  <2> HIDE DEF z
  <2>2. z = [i \in 1..(N + 1) |-> z[i]]
    BY <2>1
  <2>3. z = [i \in 1..(N + 1) |-> ser[w[i]]]
    BY <2>1, <2>2
  <2> QED
    BY <2>3 DEF z
<1> QED
  BY <1>2, <1>4, <1>5, <1>8 DEF S, N, w, ps

\* The parts of one element more are those and that of the element.
OnePartMore(D, ser, v, x) ==
    /\ PartsOf(ser, v) \in Seq(Seq(Digit)) /\ Append(v, x) \in Seq(D)
    /\ Len(Append(v, x)) = Len(v) + 1
    /\ PartsOf(ser, Append(v, x)) = Append(PartsOf(ser, v), ser[x])

\* PartsMore, in a formula that can be cited for any elements.
LEMMA AllPartsMore ==
    \A D, ser, v, x :
        ser \in [D -> Seq(Digit)] /\ v \in Seq(D) /\ x \in D => OnePartMore(D, ser, v, x)
<1> SUFFICES ASSUME NEW D, NEW ser, NEW v, NEW x, ser \in [D -> Seq(Digit)], v \in Seq(D), x \in D
             PROVE  OnePartMore(D, ser, v, x)
  BY Zenon
<1> QED
  BY PartsMore, SMTT(60) DEF OnePartMore

\* The steps f go on reading elements of D, which ser writes, behind those they have.
ReadsOn(f, N, g, D, ser) ==
    \A i \in 1..N : \A v \in Seq(D), t \in Seq(Digit) :
        f[i - 1] = Stand(Append(g, v), t) /\ f[i].ok =>
            \E x \in D, u \in Seq(Digit) :
                f[i] = Stand(Append(g, Append(v, x)), u) /\ t = ser[x] \o u

\* They do not recover.
StaysDown(f, N) == \A i \in 1..N : f[i].ok => f[i - 1].ok

\* That the elements read by the steps f are those of a vector, of which s begins with
\* the parts.
ReadVector(g, D, ser, N, f, s) ==
    \E v \in Seq(D), t \in Seq(Digit) :
      /\ Len(v) = N /\ f[N] = Stand(Append(g, v), t)
      /\ s = FlattenSeq(PartsOf(ser, v)) \o t

\* What they have read is what ser writes.
LEMMA AllVectorsTell ==
    \A g, D, ser, N, f, s :
        /\ ser \in [D -> Seq(Digit)] /\ N \in Nat /\ s \in Seq(Digit)
        /\ f[0] = Stand(Append(g, <<>>), s)
        /\ ReadsOn(f, N, g, D, ser) /\ StaysDown(f, N) /\ f[N].ok
        => ReadVector(g, D, ser, N, f, s)
<1> SUFFICES ASSUME NEW g, NEW D, NEW ser, NEW N, NEW f, NEW s,
                    ser \in [D -> Seq(Digit)], N \in Nat, s \in Seq(Digit),
                    f[0] = Stand(Append(g, <<>>), s), ReadsOn(f, N, g, D, ser), StaysDown(f, N), f[N].ok
             PROVE  ReadVector(g, D, ser, N, f, s)
  BY ZenonT(60)
<1> DEFINE told(i) == \E v \in Seq(D), t \in Seq(Digit) :
                        /\ Len(v) = i /\ f[i] = Stand(Append(g, v), t)
                        /\ s = FlattenSeq(PartsOf(ser, v)) \o t
           T == {i \in Nat : i <= N /\ f[i].ok => told(i)}
<1>1. ASSUME NEW i \in Nat, \A m \in 0..(i - 1) : m \in T PROVE i \in T
  <2> SUFFICES ASSUME i <= N, f[i].ok PROVE told(i)
    OBVIOUS
  <2>1. CASE i = 0
    <3>1. PartsOf(ser, <<>>) = <<>>
      BY DEF PartsOf
    <3>2. FlattenSeq(<<>>) = <<>>
      BY FlattenIs
    <3>3. <<>> \o s = s /\ <<>> \in Seq(D) /\ Len(<<>>) = 0
      OBVIOUS
    <3>4. s = FlattenSeq(PartsOf(ser, <<>>)) \o s
      BY <3>1, <3>2, <3>3
    <3> QED
      BY <2>1, <3>3, <3>4
  <2>2. CASE i # 0
    <3>1. i \in 1..N /\ i - 1 \in 0..(i - 1) /\ i - 1 \in Nat /\ i - 1 <= N
      BY <2>2
    <3>2. f[i - 1].ok
      BY <3>1 DEF StaysDown
    <3>3. told(i - 1)
      <4>1. i - 1 \in T
        BY <1>1, <3>1
      <4> QED
        BY <3>1, <3>2, <4>1
    <3>4. PICK v \in Seq(D), t \in Seq(Digit) :
            /\ Len(v) = i - 1 /\ f[i - 1] = Stand(Append(g, v), t)
            /\ s = FlattenSeq(PartsOf(ser, v)) \o t
      BY <3>3
    <3>5. PICK x \in D, u \in Seq(Digit) : f[i] = Stand(Append(g, Append(v, x)), u) /\ t = ser[x] \o u
      BY <3>1, <3>4, Zenon DEF ReadsOn
    <3> DEFINE ps == PartsOf(ser, v)
               w == Append(v, x)
               p == ser[x]
               a == FlattenSeq(ps)
    <3>6. /\ ps \in Seq(Seq(Digit)) /\ w \in Seq(D) /\ Len(w) = Len(v) + 1
          /\ PartsOf(ser, w) = Append(ps, p)
      BY PartsMore, ZenonT(60)
    <3>7. p \in Seq(Digit)
      OBVIOUS
    <3>8. Len(w) = i
      BY <3>4, <3>6
    <3> HIDE DEF ps, w, p
    <3>9. a \in Seq(Digit) /\ FlattenSeq(PartsOf(ser, w)) = a \o p
      BY <3>6, <3>7, FlattenMore
    <3> HIDE DEF a
    <3>10. s = FlattenSeq(PartsOf(ser, w)) \o u
      <4>1. Shifts(a, p, u)
        BY <3>7, <3>9, AllShift, Zenon
      <4>2. s = a \o (p \o u)
        BY <3>4, <3>5, Zenon DEF a, p, ps
      <4> QED
        BY <3>9, <4>1, <4>2, Zenon DEF Shifts
    <3>11. f[i] = Stand(Append(g, w), u)
      BY <3>5 DEF w
    <3> QED
      BY <3>6, <3>8, <3>10, <3>11
  <2> QED
    BY <2>1, <2>2
<1>2. \A i \in Nat : i \in T
  <2> HIDE DEF T
  <2> QED
    BY <1>1, Induct
<1>3. told(N)
  <2>1. N \in T
    BY <1>2
  <2> HIDE DEF told
  <2> QED
    BY <2>1
<1> QED
  BY <1>3, Zenon DEF ReadVector

\* Nothing is kept at the start.
LEMMA EmptyKept == Kept(<<>>) /\ <<>> \in Seq(Digit)
<1>1. <<>> \in Seq(Digit)
  OBVIOUS
<1> QED
  BY <1>1 DEF Kept

\* The parts of a vector, one after the other.
LEMMA WholeParts ==
    ASSUME NEW D, NEW ser \in [D -> Seq(Digit)], NEW v \in Seq(D)
    PROVE  /\ PartsOf(ser, v) \in Seq(Seq(Digit)) /\ Len(PartsOf(ser, v)) = Len(v)
           /\ FlattenSeq(PartsOf(ser, v)) \in Seq(Digit)
<1> DEFINE S == Seq(Digit)
           N == Len(v)
           ps == PartsOf(ser, v)
<1>1. ser \in [D -> S] /\ N \in Nat /\ DOMAIN v = 1..N /\ \A i \in 1..N : v[i] \in D
  OBVIOUS
<1> HIDE DEF S, N
<1>2. ps \in [1..N -> S]
  BY <1>1 DEF PartsOf
<1> HIDE DEF ps
<1>3. ps \in Seq(S) /\ Len(ps) = N
  BY <1>1, <1>2, FunctionIsSeq
<1>4. <<>> \in Seq(Digit)
  OBVIOUS
<1>5. FlattenSeq(ps) \in Seq(Digit)
  BY <1>3, <1>4, FlattenMore DEF S
<1> QED
  BY <1>3, <1>5 DEF S, N, ps

\* The stack of a witness.
LEMMA StackTell ==
    ASSUME NEW g, Kept(g), NEW s \in Seq(Digit), UnserializeStack(Stand(g, s)).ok
    PROVE  \E v \in UpToMax(CScripts), t \in Seq(Digit) :
             /\ s = SerializeStack(v) \o t
             /\ UnserializeStack(Stand(g, s)) = Stand(Append(g, v), t)
<1> DEFINE c == ReadCompactSize(Stand(g, s))
           f == StackSteps(c)
           ser == [x \in CScripts |-> SerializeBytes(x)]
<1>1. UnserializeStack(Stand(g, s)) = f[Top(c)]
  BY StackStepsAre, Zenon
<1>2. c.ok
  <2> SUFFICES ASSUME ~c.ok PROVE FALSE
    OBVIOUS
  <2>1. Top(c) = 0 /\ ~Emptied(c).ok
    BY MadeFails, Zenon
  <2>2. f[0] = Emptied(c)
    <3>1. Top(c) \in Nat
      BY <2>1
    <3> HIDE DEF c
    <3> QED
      BY <3>1, StackStepsGo
  <2> QED
    BY <1>1, <2>1, <2>2, Zenon
<1>3. PICK n \in Nat, s1 \in Seq(Digit) :
        n <= MAX_SIZE /\ s = WriteCompactSize(n) \o s1 /\ c = Stand(Append(g, n), s1)
  BY <1>2, SizeTells
<1> HIDE DEF c
<1>4. Top(c) = n
  BY <1>3, TopOf
<1>5. f[0] = Emptied(c) /\ \A k \in 1..n : f[k] = Appended(UnserializeBytes(f[k - 1]))
  BY <1>4, StackStepsGo
<1>6. f[0] = Stand(Append(g, <<>>), s1)
  BY <1>3, <1>5, MadeNothing
<1> HIDE DEF f
<1>7. StaysDown(f, n)
  <2>1. \A q : ~q.ok => ~UnserializeBytes(q).ok
    BY VectorFails, Zenon
  <2>2. \A q : ~q.ok => ~Appended(UnserializeBytes(q)).ok
    BY <2>1, MadeFails, Zenon
  <2> QED
    BY <1>5, <2>2 DEF StaysDown
<1>8. ser \in [CScripts -> Seq(Digit)]
  <2>1. \A x \in CScripts : SerializeBytes(x) \in Seq(Digit)
    BY EmptyKept, BytesRead
  <2> QED
    BY <2>1
<1>9. \A x \in CScripts : ser[x] = SerializeBytes(x)
  OBVIOUS
<1> HIDE DEF ser
<1>10. ReadsOn(f, n, g, CScripts, ser)
  <2> SUFFICES ASSUME NEW i \in 1..n, NEW v \in Seq(CScripts), NEW t \in Seq(Digit),
                      f[i - 1] = Stand(Append(g, v), t), f[i].ok
               PROVE  \E x \in CScripts, u \in Seq(Digit) :
                        f[i] = Stand(Append(g, Append(v, x)), u) /\ t = ser[x] \o u
    BY DEF ReadsOn
  <2> DEFINE g1 == Append(g, v)
             r == UnserializeBytes(Stand(g1, t))
  <2>1. Kept(g1)
    BY KeptMore
  <2>2. f[i] = Appended(r)
    BY <1>5
  <2>3. r.ok
    BY <2>2, MadeFails, Zenon
  <2> HIDE DEF g1
  <2>4. PICK x \in CScripts, u \in Seq(Digit) : t = SerializeBytes(x) \o u /\ r = Stand(Append(g1, x), u)
    BY <2>1, <2>3, BytesTell
  <2> HIDE DEF r
  <2>5. Appended(Stand(Append(Append(g, v), x), u)) = Stand(Append(g, Append(v, x)), u)
    BY MadeAppend
  <2>6. f[i] = Stand(Append(g, Append(v, x)), u)
    BY <2>2, <2>4, <2>5, Zenon DEF g1
  <2> QED
    BY <1>9, <2>4, <2>6
<1>11. PICK v \in Seq(CScripts), t \in Seq(Digit) :
         Len(v) = n /\ f[n] = Stand(Append(g, v), t) /\ s1 = FlattenSeq(PartsOf(ser, v)) \o t
  <2>1. f[n].ok
    BY <1>1, <1>4, Zenon
  <2>2. ReadVector(g, CScripts, ser, n, f, s1)
    BY <1>6, <1>7, <1>8, <1>10, <2>1, AllVectorsTell, Zenon
  <2> QED
    BY <2>2, Zenon DEF ReadVector
<1> DEFINE ps == PartsOf(ser, v)
<1>12. ps = [i \in DOMAIN v |-> SerializeBytes(v[i])]
  <2>1. \A i \in DOMAIN v : ser[v[i]] = SerializeBytes(v[i])
    BY <1>9
  <2> QED
    BY <2>1 DEF PartsOf
<1>13. Len(ps) = n /\ FlattenSeq(ps) \in Seq(Digit)
  BY <1>8, <1>11, WholeParts
<1>14. SerializeStack(v) = WriteCompactSize(n) \o FlattenSeq(ps)
  <2> HIDE DEF ps
  <2>1. SerializeStack(v) = SerializeVector(ps)
    BY <1>12 DEF SerializeStack
  <2> QED
    BY <1>13, <2>1, Zenon DEF SerializeVector
<1> HIDE DEF ps
<1>15. s = SerializeStack(v) \o t
  <2>1. WriteCompactSize(n) \in Seq(Digit)
    BY CompactBytes
  <2>2. Shifts(WriteCompactSize(n), FlattenSeq(ps), t)
    BY <1>13, <2>1, AllShift, Zenon
  <2> QED
    BY <1>3, <1>11, <1>14, <2>2, Zenon DEF Shifts, ps
<1>16. v \in UpToMax(CScripts)
  BY <1>3, <1>11 DEF UpToMax
<1> QED
  BY <1>1, <1>4, <1>11, <1>15, <1>16

\* Inputs; their witnesses are not there.
LEMMA InsTell ==
    ASSUME NEW g, Kept(g), NEW s \in Seq(Digit), UnserializeIns(Stand(g, s)).ok
    PROVE  \E v \in UpToMax(BareIns), t \in Seq(Digit) :
             /\ s = SerializeIns(v) \o t
             /\ UnserializeIns(Stand(g, s)) = Stand(Append(g, v), t)
<1> DEFINE c == ReadCompactSize(Stand(g, s))
           f == InsSteps(c)
           ser == [x \in BareIns |-> SerializeTxIn(x)]
<1>1. UnserializeIns(Stand(g, s)) = f[Top(c)]
  BY InsStepsAre, Zenon
<1>2. c.ok
  <2> SUFFICES ASSUME ~c.ok PROVE FALSE
    OBVIOUS
  <2>1. Top(c) = 0 /\ ~Emptied(c).ok
    BY MadeFails, Zenon
  <2>2. f[0] = Emptied(c)
    <3>1. Top(c) \in Nat
      BY <2>1
    <3> HIDE DEF c
    <3> QED
      BY <3>1, InsStepsGo
  <2> QED
    BY <1>1, <2>1, <2>2, Zenon
<1>3. PICK n \in Nat, s1 \in Seq(Digit) :
        n <= MAX_SIZE /\ s = WriteCompactSize(n) \o s1 /\ c = Stand(Append(g, n), s1)
  BY <1>2, SizeTells
<1> HIDE DEF c
<1>4. Top(c) = n
  BY <1>3, TopOf
<1>5. f[0] = Emptied(c) /\ \A k \in 1..n : f[k] = Appended(UnserializeTxIn(f[k - 1]))
  BY <1>4, InsStepsGo
<1>6. f[0] = Stand(Append(g, <<>>), s1)
  BY <1>3, <1>5, MadeNothing
<1> HIDE DEF f
<1>7. StaysDown(f, n)
  <2>1. \A q : ~q.ok => ~UnserializeTxIn(q).ok
    BY PartsFail, Zenon
  <2>2. \A q : ~q.ok => ~Appended(UnserializeTxIn(q)).ok
    BY <2>1, MadeFails, Zenon
  <2> QED
    BY <1>5, <2>2 DEF StaysDown
<1>8. ser \in [BareIns -> Seq(Digit)]
  <2>1. \A x \in BareIns : SerializeTxIn(x) \in Seq(Digit)
    BY EmptyKept, BareInReads
  <2> QED
    BY <2>1
<1>9. \A x \in BareIns : ser[x] = SerializeTxIn(x)
  OBVIOUS
<1> HIDE DEF ser
<1>10. ReadsOn(f, n, g, BareIns, ser)
  <2> SUFFICES ASSUME NEW i \in 1..n, NEW v \in Seq(BareIns), NEW t \in Seq(Digit),
                      f[i - 1] = Stand(Append(g, v), t), f[i].ok
               PROVE  \E x \in BareIns, u \in Seq(Digit) :
                        f[i] = Stand(Append(g, Append(v, x)), u) /\ t = ser[x] \o u
    BY DEF ReadsOn
  <2> DEFINE g1 == Append(g, v)
             r == UnserializeTxIn(Stand(g1, t))
  <2>1. Kept(g1)
    BY KeptMore
  <2>2. f[i] = Appended(r)
    BY <1>5
  <2>3. r.ok
    BY <2>2, MadeFails, Zenon
  <2> HIDE DEF g1
  <2>4. PICK x \in BareIns, u \in Seq(Digit) : t = SerializeTxIn(x) \o u /\ r = Stand(Append(g1, x), u)
    BY <2>1, <2>3, TxInTells
  <2> HIDE DEF r
  <2>5. Appended(Stand(Append(Append(g, v), x), u)) = Stand(Append(g, Append(v, x)), u)
    BY MadeAppend
  <2>6. f[i] = Stand(Append(g, Append(v, x)), u)
    BY <2>2, <2>4, <2>5, Zenon DEF g1
  <2> QED
    BY <1>9, <2>4, <2>6
<1>11. PICK v \in Seq(BareIns), t \in Seq(Digit) :
         Len(v) = n /\ f[n] = Stand(Append(g, v), t) /\ s1 = FlattenSeq(PartsOf(ser, v)) \o t
  <2>1. f[n].ok
    BY <1>1, <1>4, Zenon
  <2>2. ReadVector(g, BareIns, ser, n, f, s1)
    BY <1>6, <1>7, <1>8, <1>10, <2>1, AllVectorsTell, Zenon
  <2> QED
    BY <2>2, Zenon DEF ReadVector
<1> DEFINE ps == PartsOf(ser, v)
<1>12. ps = [i \in DOMAIN v |-> SerializeTxIn(v[i])]
  <2>1. \A i \in DOMAIN v : ser[v[i]] = SerializeTxIn(v[i])
    BY <1>9
  <2> QED
    BY <2>1 DEF PartsOf
<1>13. Len(ps) = n /\ FlattenSeq(ps) \in Seq(Digit)
  BY <1>8, <1>11, WholeParts
<1>14. SerializeIns(v) = WriteCompactSize(n) \o FlattenSeq(ps)
  <2> HIDE DEF ps
  <2>1. SerializeIns(v) = SerializeVector(ps)
    BY <1>12 DEF SerializeIns
  <2> QED
    BY <1>13, <2>1, Zenon DEF SerializeVector
<1> HIDE DEF ps
<1>15. s = SerializeIns(v) \o t
  <2>1. WriteCompactSize(n) \in Seq(Digit)
    BY CompactBytes
  <2>2. Shifts(WriteCompactSize(n), FlattenSeq(ps), t)
    BY <1>13, <2>1, AllShift, Zenon
  <2> QED
    BY <1>3, <1>11, <1>14, <2>2, Zenon DEF Shifts, ps
<1>16. v \in UpToMax(BareIns)
  BY <1>3, <1>11 DEF UpToMax
<1> QED
  BY <1>1, <1>4, <1>11, <1>15, <1>16

\* Outputs.
LEMMA OutsTell ==
    ASSUME NEW g, Kept(g), NEW s \in Seq(Digit), UnserializeOuts(Stand(g, s)).ok
    PROVE  \E v \in UpToMax(CTxOuts), t \in Seq(Digit) :
             /\ s = SerializeOuts(v) \o t
             /\ UnserializeOuts(Stand(g, s)) = Stand(Append(g, v), t)
<1> DEFINE c == ReadCompactSize(Stand(g, s))
           f == OutsSteps(c)
           ser == [x \in CTxOuts |-> SerializeTxOut(x)]
<1>1. UnserializeOuts(Stand(g, s)) = f[Top(c)]
  BY OutsStepsAre, Zenon
<1>2. c.ok
  <2> SUFFICES ASSUME ~c.ok PROVE FALSE
    OBVIOUS
  <2>1. Top(c) = 0 /\ ~Emptied(c).ok
    BY MadeFails, Zenon
  <2>2. f[0] = Emptied(c)
    <3>1. Top(c) \in Nat
      BY <2>1
    <3> HIDE DEF c
    <3> QED
      BY <3>1, OutsStepsGo
  <2> QED
    BY <1>1, <2>1, <2>2, Zenon
<1>3. PICK n \in Nat, s1 \in Seq(Digit) :
        n <= MAX_SIZE /\ s = WriteCompactSize(n) \o s1 /\ c = Stand(Append(g, n), s1)
  BY <1>2, SizeTells
<1> HIDE DEF c
<1>4. Top(c) = n
  BY <1>3, TopOf
<1>5. f[0] = Emptied(c) /\ \A k \in 1..n : f[k] = Appended(UnserializeTxOut(f[k - 1]))
  BY <1>4, OutsStepsGo
<1>6. f[0] = Stand(Append(g, <<>>), s1)
  BY <1>3, <1>5, MadeNothing
<1> HIDE DEF f
<1>7. StaysDown(f, n)
  <2>1. \A q : ~q.ok => ~UnserializeTxOut(q).ok
    BY PartsFail, Zenon
  <2>2. \A q : ~q.ok => ~Appended(UnserializeTxOut(q)).ok
    BY <2>1, MadeFails, Zenon
  <2> QED
    BY <1>5, <2>2 DEF StaysDown
<1>8. ser \in [CTxOuts -> Seq(Digit)]
  <2>1. \A x \in CTxOuts : SerializeTxOut(x) \in Seq(Digit)
    BY EmptyKept, TxOutReads
  <2> QED
    BY <2>1
<1>9. \A x \in CTxOuts : ser[x] = SerializeTxOut(x)
  OBVIOUS
<1> HIDE DEF ser
<1>10. ReadsOn(f, n, g, CTxOuts, ser)
  <2> SUFFICES ASSUME NEW i \in 1..n, NEW v \in Seq(CTxOuts), NEW t \in Seq(Digit),
                      f[i - 1] = Stand(Append(g, v), t), f[i].ok
               PROVE  \E x \in CTxOuts, u \in Seq(Digit) :
                        f[i] = Stand(Append(g, Append(v, x)), u) /\ t = ser[x] \o u
    BY DEF ReadsOn
  <2> DEFINE g1 == Append(g, v)
             r == UnserializeTxOut(Stand(g1, t))
  <2>1. Kept(g1)
    BY KeptMore
  <2>2. f[i] = Appended(r)
    BY <1>5
  <2>3. r.ok
    BY <2>2, MadeFails, Zenon
  <2> HIDE DEF g1
  <2>4. PICK x \in CTxOuts, u \in Seq(Digit) : t = SerializeTxOut(x) \o u /\ r = Stand(Append(g1, x), u)
    BY <2>1, <2>3, TxOutTells
  <2> HIDE DEF r
  <2>5. Appended(Stand(Append(Append(g, v), x), u)) = Stand(Append(g, Append(v, x)), u)
    BY MadeAppend
  <2>6. f[i] = Stand(Append(g, Append(v, x)), u)
    BY <2>2, <2>4, <2>5, Zenon DEF g1
  <2> QED
    BY <1>9, <2>4, <2>6
<1>11. PICK v \in Seq(CTxOuts), t \in Seq(Digit) :
         Len(v) = n /\ f[n] = Stand(Append(g, v), t) /\ s1 = FlattenSeq(PartsOf(ser, v)) \o t
  <2>1. f[n].ok
    BY <1>1, <1>4, Zenon
  <2>2. ReadVector(g, CTxOuts, ser, n, f, s1)
    BY <1>6, <1>7, <1>8, <1>10, <2>1, AllVectorsTell, Zenon
  <2> QED
    BY <2>2, Zenon DEF ReadVector
<1> DEFINE ps == PartsOf(ser, v)
<1>12. ps = [i \in DOMAIN v |-> SerializeTxOut(v[i])]
  <2>1. \A i \in DOMAIN v : ser[v[i]] = SerializeTxOut(v[i])
    BY <1>9
  <2> QED
    BY <2>1 DEF PartsOf
<1>13. Len(ps) = n /\ FlattenSeq(ps) \in Seq(Digit)
  BY <1>8, <1>11, WholeParts
<1>14. SerializeOuts(v) = WriteCompactSize(n) \o FlattenSeq(ps)
  <2> HIDE DEF ps
  <2>1. SerializeOuts(v) = SerializeVector(ps)
    BY <1>12 DEF SerializeOuts
  <2> QED
    BY <1>13, <2>1, Zenon DEF SerializeVector
<1> HIDE DEF ps
<1>15. s = SerializeOuts(v) \o t
  <2>1. WriteCompactSize(n) \in Seq(Digit)
    BY CompactBytes
  <2>2. Shifts(WriteCompactSize(n), FlattenSeq(ps), t)
    BY <1>13, <2>1, AllShift, Zenon
  <2> QED
    BY <1>3, <1>11, <1>14, <2>2, Zenon DEF Shifts, ps
<1>16. v \in UpToMax(CTxOuts)
  BY <1>3, <1>11 DEF UpToMax
<1> QED
  BY <1>1, <1>4, <1>11, <1>15, <1>16

-----------------------------------------------------------------------------
(* Transactions that are accepted *)

\* An input with a witness, and inputs of which the first ones are given ws.
Witnessed(i, x) == [i EXCEPT !.scriptWitness = x]
Given(v, ws) == [k \in 1..Len(v) |-> IF k <= Len(ws) THEN Witnessed(v[k], ws[k]) ELSE v[k]]

\* One more is given.
LEMMA GivenMore ==
    ASSUME NEW v \in Seq(CTxIns), NEW ws \in Seq(CTxWitnesses), NEW x \in CTxWitnesses,
           NEW i \in 1..Len(v), Len(ws) = i - 1, NEW vout, NEW flags
    PROVE  WithWitness(Body(Given(v, ws), vout, flags), i, x) = Body(Given(v, Append(ws, x)), vout, flags)
<1> DEFINE N == Len(v)
           us == Append(ws, x)
           a == Given(v, ws)
           b == Given(v, us)
           d == [a[i] EXCEPT !.scriptWitness = x]
<1>1. N \in Nat /\ v[i] \in CTxIns /\ i \in 1..N
  OBVIOUS
<1>2. Len(us) = i /\ us[i] = x /\ \A k \in 1..(i - 1) : us[k] = ws[k]
  BY <1>1
<1> HIDE DEF us
<1>3. a = [k \in 1..N |-> IF k <= i - 1 THEN Witnessed(v[k], ws[k]) ELSE v[k]]
  BY DEF Given
<1>4. b = [k \in 1..N |-> IF k <= i THEN Witnessed(v[k], us[k]) ELSE v[k]]
  BY <1>2 DEF Given
<1> HIDE DEF N, a, b
<1>5. d = Witnessed(v[i], x)
  <2>1. a[i] = v[i]
    BY <1>1, <1>3
  <2> QED
    BY <2>1 DEF Witnessed
<1> HIDE DEF d
<1>6. [a EXCEPT ![i] = d] = b
  <2>1. ASSUME NEW k \in 1..N PROVE [a EXCEPT ![i] = d][k] = b[k]
    <3>1. CASE k = i
      BY <1>1, <1>2, <1>3, <1>4, <1>5, <3>1
    <3>2. CASE k # i
      <4>1. CASE k <= i - 1
        BY <1>1, <1>2, <1>3, <1>4, <3>2, <4>1
      <4>2. CASE ~(k <= i - 1)
        <5>1. ~(k <= i)
          BY <1>1, <3>2, <4>2
        <5> QED
          BY <1>1, <1>3, <1>4, <3>2, <4>2, <5>1
      <4> QED
        BY <4>1, <4>2
    <3> QED
      BY <3>1, <3>2
  <2> QED
    BY <1>1, <1>3, <1>4, <2>1
<1>7. [[vin |-> a, vout |-> vout, flags |-> flags] EXCEPT !.vin[i].scriptWitness = x]
        = [vin |-> [a EXCEPT ![i] = d], vout |-> vout, flags |-> flags]
  BY DEF d
<1>8. [[vin |-> a, vout |-> vout, flags |-> flags] EXCEPT !.vin[i].scriptWitness = x]
        = [vin |-> b, vout |-> vout, flags |-> flags]
  BY <1>6, <1>7
<1> QED
  BY <1>8, Zenon DEF Body, WithWitness, a, b, us

\* Inputs that are given a witness each.
LEMMA AllGiven ==
    ASSUME NEW v \in Seq(BareIns), NEW ws \in Seq(CTxWitnesses), Len(ws) = Len(v)
    PROVE  /\ Given(v, ws) \in Seq(CTxIns) /\ Len(Given(v, ws)) = Len(v)
           /\ WithoutWitnesses(Given(v, ws)) = v
           /\ DOMAIN Given(v, ws) = DOMAIN ws /\ \A i \in DOMAIN ws : Given(v, ws)[i].scriptWitness = ws[i]
<1> DEFINE N == Len(v)
           w == Given(v, ws)
<1>1. N \in Nat /\ DOMAIN v = 1..N /\ DOMAIN ws = 1..N
  OBVIOUS
<1>2. \A k \in 1..N : v[k] \in BareIns /\ ws[k] \in CTxWitnesses
  OBVIOUS
<1>3. w = [k \in 1..N |-> Witnessed(v[k], ws[k])]
  BY <1>1 DEF Given
<1>4. \A i \in BareIns, x \in CTxWitnesses :
        Witnessed(i, x) \in CTxIns /\ Witnessed(i, x).scriptWitness = x /\ NoWitness(Witnessed(i, x)) = i
  BY DEF BareIns, CTxIns, Witnessed, NoWitness
<1> HIDE DEF w
<1>5. w \in [1..N -> CTxIns] /\ \A k \in 1..N : w[k].scriptWitness = ws[k] /\ NoWitness(w[k]) = v[k]
  BY <1>2, <1>3, <1>4
<1>6. w \in Seq(CTxIns) /\ Len(w) = N
  BY <1>1, <1>5, FunctionIsSeq
<1>7. WithoutWitnesses(w) = [i \in 1..N |-> v[i]]
  BY <1>1, <1>5, <1>6 DEF WithoutWitnesses
<1>8. [i \in 1..N |-> v[i]] = v
  BY <1>1
<1> QED
  BY <1>1, <1>5, <1>6, <1>7, <1>8 DEF w

\* That the witnesses in s are those of inputs, v without them.
TellsWitnesses(g, v, vout, flags, s) ==
    \E w \in Seq(CTxIns), t \in Seq(Digit) :
      /\ Len(w) = Len(v) /\ WithoutWitnesses(w) = v /\ s = SerializeWitnesses(w) \o t
      /\ UnserializeWitnesses(Stand(Append(g, Body(v, vout, flags)), s))
           = Stand(Append(g, Body(w, vout, flags)), t)

\* Witnesses that are accepted, one for each input.
LEMMA WitnessesTell ==
    \A g, v, vout, flags, s :
        /\ Kept(g) /\ v \in Seq(BareIns) /\ s \in Seq(Digit)
        /\ UnserializeWitnesses(Stand(Append(g, Body(v, vout, flags)), s)).ok
        => TellsWitnesses(g, v, vout, flags, s)
<1> SUFFICES ASSUME NEW g, NEW v, NEW vout, NEW flags, NEW s, Kept(g), v \in Seq(BareIns), s \in Seq(Digit),
                    UnserializeWitnesses(Stand(Append(g, Body(v, vout, flags)), s)).ok
             PROVE  TellsWitnesses(g, v, vout, flags, s)
  BY Zenon
<1> DEFINE N == Len(v)
           b == Stand(Append(g, Body(v, vout, flags)), s)
           f == WitSteps(b)
           ser == [x \in CTxWitnesses |-> SerializeStack(x)]
           told(i) == \E ws \in Seq(CTxWitnesses), t \in Seq(Digit) :
                        /\ Len(ws) = i /\ f[i] = Stand(Append(g, Body(Given(v, ws), vout, flags)), t)
                        /\ s = FlattenSeq(PartsOf(ser, ws)) \o t
           T == {i \in Nat : i <= N /\ f[i].ok => told(i)}
<1>1. Top(b).vin = v
  <2>1. Top(b) = Body(v, vout, flags)
    BY TopOf
  <2> QED
    BY <2>1 DEF Body
<1>2. N \in Nat /\ v \in Seq(CTxIns)
  BY DEF BareIns
<1>3. UnserializeWitnesses(b) = f[N]
  BY <1>1, WitStepsAre, Zenon
<1>4. f[0] = b /\ \A k \in 1..N : f[k] = AsWitness(UnserializeStack(f[k - 1]), k)
  <2> HIDE DEF b
  <2>1. Len(Top(b).vin) \in Nat
    BY <1>1, <1>2
  <2> QED
    BY <1>1, <2>1, WitStepsGo
<1>5. \A x \in CTxWitnesses : ser[x] = SerializeStack(x)
  OBVIOUS
<1>6. ser \in [CTxWitnesses -> Seq(Digit)]
  <2>1. \A x \in CTxWitnesses : SerializeStack(x) \in Seq(Digit)
    BY EmptyKept, StackRead DEF CTxWitnesses
  <2> QED
    BY <2>1
<1> HIDE DEF f, ser
<1>7. ASSUME NEW i \in Nat, \A m \in 0..(i - 1) : m \in T PROVE i \in T
  <2> SUFFICES ASSUME i <= N, f[i].ok PROVE told(i)
    OBVIOUS
  <2>1. CASE i = 0
    <3>1. PartsOf(ser, <<>>) = <<>>
      BY DEF PartsOf
    <3>2. FlattenSeq(<<>>) = <<>>
      BY FlattenIs
    <3>3. <<>> \o s = s /\ <<>> \in Seq(CTxWitnesses) /\ Len(<<>>) = 0
      OBVIOUS
    <3>4. s = FlattenSeq(PartsOf(ser, <<>>)) \o s
      BY <3>1, <3>2, <3>3
    <3>5. Given(v, <<>>) = v
      <4>1. Given(v, <<>>) = [k \in 1..N |-> v[k]]
        BY <3>3 DEF Given
      <4> QED
        BY <1>2, <4>1
    <3>6. f[0] = Stand(Append(g, Body(Given(v, <<>>), vout, flags)), s)
      BY <1>4, <3>5
    <3> QED
      BY <2>1, <3>3, <3>4, <3>6
  <2>2. CASE i # 0
    <3>1. i \in 1..N /\ i - 1 \in 0..(i - 1) /\ i - 1 \in Nat /\ i - 1 <= N
      BY <2>2
    <3>2. f[i] = AsWitness(UnserializeStack(f[i - 1]), i)
      BY <1>4, <3>1
    <3>3. UnserializeStack(f[i - 1]).ok /\ f[i - 1].ok
      <4>1. UnserializeStack(f[i - 1]).ok
        BY <3>2, MadeFails, Zenon
      <4> QED
        BY <4>1, VectorFails, Zenon
    <3>4. told(i - 1)
      <4>1. i - 1 \in T
        BY <1>7, <3>1
      <4> QED
        BY <3>1, <3>3, <4>1
    <3>5. PICK ws \in Seq(CTxWitnesses), t \in Seq(Digit) :
            /\ Len(ws) = i - 1 /\ f[i - 1] = Stand(Append(g, Body(Given(v, ws), vout, flags)), t)
            /\ s = FlattenSeq(PartsOf(ser, ws)) \o t
      BY <3>4
    <3> DEFINE B == Body(Given(v, ws), vout, flags)
               g1 == Append(g, B)
               q == UnserializeStack(Stand(g1, t))
    <3>6. Kept(g1) /\ q.ok
      BY <3>3, <3>5, KeptMore
    <3> HIDE DEF B, g1
    <3>7. PICK x \in CTxWitnesses, u \in Seq(Digit) : t = SerializeStack(x) \o u /\ q = Stand(Append(g1, x), u)
      BY <3>6, StackTell DEF CTxWitnesses
    <3>8. q = UnserializeStack(f[i - 1])
      BY <3>5 DEF g1, B
    <3> HIDE DEF q
    <3> DEFINE us == Append(ws, x)
               ps == PartsOf(ser, ws)
               p == ser[x]
               a == FlattenSeq(ps)
    <3>9. f[i] = Stand(Append(g, Body(Given(v, us), vout, flags)), u)
      <4>1. AsWitness(Stand(Append(Append(g, B), x), u), i) = Stand(Append(g, WithWitness(B, i, x)), u)
        BY MadeWitness
      <4>2. WithWitness(B, i, x) = Body(Given(v, us), vout, flags)
        BY <1>2, <3>1, <3>5, GivenMore DEF B
      <4> QED
        BY <3>2, <3>7, <3>8, <4>1, <4>2, Zenon DEF g1
    <3>10. /\ ps \in Seq(Seq(Digit)) /\ us \in Seq(CTxWitnesses) /\ Len(us) = Len(ws) + 1
           /\ PartsOf(ser, us) = Append(ps, p)
      <4>1. OnePartMore(CTxWitnesses, ser, ws, x)
        BY <1>6, AllPartsMore, Zenon
      <4> QED
        BY <4>1, Zenon DEF OnePartMore
    <3>11. p \in Seq(Digit)
      BY <1>6
    <3>12. Len(us) = i
      BY <3>5, <3>10
    <3> HIDE DEF ps, us, p
    <3>13. a \in Seq(Digit) /\ FlattenSeq(PartsOf(ser, us)) = a \o p
      BY <3>10, <3>11, FlattenMore
    <3> HIDE DEF a
    <3>14. s = FlattenSeq(PartsOf(ser, us)) \o u
      <4>1. Shifts(a, p, u)
        BY <3>11, <3>13, AllShift, Zenon
      <4>2. s = a \o (p \o u)
        <5>1. p = SerializeStack(x)
          BY <1>5 DEF p
        <5> QED
          BY <3>5, <3>7, <5>1, Zenon DEF a, ps
      <4> QED
        BY <3>13, <4>1, <4>2, Zenon DEF Shifts
    <3> QED
      BY <3>9, <3>10, <3>12, <3>14
  <2> QED
    BY <2>1, <2>2
<1>8. \A i \in Nat : i \in T
  <2> HIDE DEF T
  <2> QED
    BY <1>7, Induct
<1>9. told(N)
  <2>1. N \in T
    BY <1>2, <1>8
  <2>2. f[N].ok
    BY <1>3, Zenon
  <2> HIDE DEF told
  <2> QED
    BY <1>2, <2>1, <2>2
<1>10. PICK ws \in Seq(CTxWitnesses), t \in Seq(Digit) :
         /\ Len(ws) = N /\ f[N] = Stand(Append(g, Body(Given(v, ws), vout, flags)), t)
         /\ s = FlattenSeq(PartsOf(ser, ws)) \o t
  BY <1>9
<1> DEFINE w == Given(v, ws)
<1>11. /\ w \in Seq(CTxIns) /\ Len(w) = N /\ WithoutWitnesses(w) = v
       /\ DOMAIN w = DOMAIN ws /\ \A i \in DOMAIN ws : w[i].scriptWitness = ws[i]
  BY <1>10, AllGiven
<1> HIDE DEF w
<1>12. SerializeWitnesses(w) = FlattenSeq(PartsOf(ser, ws))
  <2>1. \A i \in DOMAIN ws : SerializeStack(w[i].scriptWitness) = ser[ws[i]]
    BY <1>5, <1>11
  <2>2. [i \in DOMAIN w |-> SerializeStack(w[i].scriptWitness)] = PartsOf(ser, ws)
    BY <1>11, <2>1 DEF PartsOf
  <2> QED
    BY <2>2, Zenon DEF SerializeWitnesses
<1>13. f[N] = Stand(Append(g, Body(w, vout, flags)), t) /\ s = SerializeWitnesses(w) \o t
  BY <1>10, <1>12, Zenon DEF w
<1> QED
  BY <1>3, <1>11, <1>13, Zenon DEF TellsWitnesses, b, N

-----------------------------------------------------------------------------
(* Bytes accepted as a transaction *)

\* The two formats of a transaction.
PlainForm(tx) ==
    Frame(U(tx.nVersion), <<>>, SerializeIns(tx.vin), SerializeOuts(tx.vout), <<>>, U(tx.nLockTime))
ExtendedForm(tx) ==
    Frame(U(tx.nVersion), SerializeIns(<<>>) \o U(1), SerializeIns(tx.vin),
          SerializeOuts(tx.vout), SerializeWitnesses(tx.vin), U(tx.nLockTime))

\* An empty vector is one byte.
LEMMA EmptyVectors == SerializeIns(<<>>) = U(0) /\ SerializeOuts(<<>>) = U(0)
<1>1. WriteCompactSize(0) = U(0)
  <2>1. 0 \in Nat /\ 0 < Base - 3
    BY Bases
  <2> QED
    BY <2>1, CompactForm DEF U
<1>2. FlattenSeq(<<>>) = <<>> /\ Len(<<>>) = 0
  BY FlattenIs
<1>3. U(0) \o <<>> = U(0)
  BY DEF U
<1>4. SerializeVector(<<>>) = U(0)
  BY <1>1, <1>2, <1>3, Zenon DEF SerializeVector
<1>5. [i \in DOMAIN <<>> |-> SerializeTxIn(<<>>[i])] = <<>> /\ [i \in DOMAIN <<>> |-> SerializeTxOut(<<>>[i])] = <<>>
  OBVIOUS
<1> QED
  BY <1>4, <1>5, Zenon DEF SerializeIns, SerializeOuts

\* The parts of the format without witnesses are read one after the other.
InOrder(a, i, o, l, t) ==
    /\ Frame(a, <<>>, i, o, <<>>, l) \in Seq(Digit)
    /\ l \o t \in Seq(Digit) /\ o \o (l \o t) \in Seq(Digit) /\ i \o (o \o (l \o t)) \in Seq(Digit)
    /\ Frame(a, <<>>, i, o, <<>>, l) \o t = a \o (i \o (o \o (l \o t)))

\* The parts being bytes, they are.
LEMMA PlainOrder ==
    ASSUME NEW a \in Seq(Digit), NEW i \in Seq(Digit), NEW o \in Seq(Digit), NEW l \in Seq(Digit),
           NEW t \in Seq(Digit)
    PROVE  InOrder(a, i, o, l, t)
<1> DEFINE s == Frame(a, <<>>, i, o, <<>>, l)
<1>1. /\ s \in Seq(Digit) /\ l \o t \in Seq(Digit) /\ o \o (<<>> \o (l \o t)) \in Seq(Digit)
      /\ i \o (o \o (<<>> \o (l \o t))) \in Seq(Digit)
      /\ s \o t = a \o (<<>> \o (i \o (o \o (<<>> \o (l \o t)))))
  <2> DEFINE e == <<>>
  <2>1. e \in Seq(Digit)
    OBVIOUS
  <2> HIDE DEF e
  <2>2. OneByOne(a, e, i, o, e, l, t)
    BY <2>1, Framed
  <2> QED
    BY <2>2, Zenon DEF OneByOne, e
<1> HIDE DEF s
<1>2. \A x \in Seq(Digit) : <<>> \o x = x
  OBVIOUS
<1>3. <<>> \o (l \o t) = l \o t
  BY <1>1, <1>2, Zenon
<1>4. /\ o \o (l \o t) \in Seq(Digit) /\ i \o (o \o (l \o t)) \in Seq(Digit)
      /\ s \o t = a \o (<<>> \o (i \o (o \o (l \o t))))
  BY <1>1, <1>3, Zenon
<1>5. <<>> \o (i \o (o \o (l \o t))) = i \o (o \o (l \o t))
  BY <1>2, <1>4, Zenon
<1> QED
  BY <1>1, <1>4, <1>5, Zenon DEF InOrder, s

\* That the lock time ends a transaction, the record of its fields being made.
EndsTx(g, ver, vin, vout, flags, s) ==
    \E l \in Digit, t \in Seq(Digit) :
      /\ s = U(l) \o t
      /\ AsTx(ReadU(Stand(Append(Append(g, ver), Body(vin, vout, flags)), s)))
           = Stand(Append(g, [nVersion |-> ver, vin |-> vin, vout |-> vout, nLockTime |-> l]), t)

\* It does.
LEMMA EndTells ==
    \A g, ver, vin, vout, flags, s :
        /\ Kept(g) /\ s \in Seq(Digit)
        /\ ReadU(Stand(Append(Append(g, ver), Body(vin, vout, flags)), s)).ok
        => EndsTx(g, ver, vin, vout, flags, s)
<1> SUFFICES ASSUME NEW g, NEW ver, NEW vin, NEW vout, NEW flags, NEW s, Kept(g), s \in Seq(Digit),
                    ReadU(Stand(Append(Append(g, ver), Body(vin, vout, flags)), s)).ok
             PROVE  EndsTx(g, ver, vin, vout, flags, s)
  BY Zenon
<1> DEFINE y == Body(vin, vout, flags)
           h == Append(Append(g, ver), y)
           r == ReadU(Stand(h, s))
<1>1. Kept(h)
  <2> DEFINE g1 == Append(g, ver)
  <2>1. Kept(g1)
    BY KeptMore
  <2> HIDE DEF g1
  <2>2. Kept(Append(g1, y))
    BY <2>1, KeptMore
  <2> QED
    BY <2>2 DEF g1
<1>2. r.ok
  OBVIOUS
<1> HIDE DEF h
<1>3. PICK l \in Digit, t \in Seq(Digit) : s = U(l) \o t /\ r = Stand(Append(h, l), t)
  BY <1>1, <1>2, UTells
<1> HIDE DEF r
<1>4. AsTx(Stand(Append(Append(Append(g, ver), y), l), t))
      = Stand(Append(g, [nVersion |-> ver, vin |-> y.vin, vout |-> y.vout, nLockTime |-> l]), t)
  <2> HIDE DEF y
  <2> QED
    BY MadeTx
<1>5. y.vin = vin /\ y.vout = vout
  BY DEF Body
<1> HIDE DEF y
<1>6. AsTx(r) = Stand(Append(g, [nVersion |-> ver, vin |-> vin, vout |-> vout, nLockTime |-> l]), t)
  BY <1>3, <1>4, <1>5, Zenon DEF h
<1> QED
  BY <1>3, <1>6, Zenon DEF EndsTx, r, h, y

\* A transaction made of its fields.
LEMMA TxOf ==
    ASSUME NEW ver \in Digit, NEW vin \in UpToMax(CTxIns), NEW vout \in UpToMax(CTxOuts), NEW l \in Digit
    PROVE  LET tx == [nVersion |-> ver, vin |-> vin, vout |-> vout, nLockTime |-> l]
           IN /\ tx \in CTransactions
              /\ tx.nVersion = ver /\ tx.vin = vin /\ tx.vout = vout /\ tx.nLockTime = l
  BY DEF CTransactions

\* That the reader takes s for a transaction in one of the two formats, and leaves t.
TellsTx(g, s) ==
    \E tx \in CTransactions, t \in Seq(Digit) :
      /\ UnserializeTransaction(Stand(g, s), TRUE) = Stand(Append(g, tx), t)
      /\ \/ s = PlainForm(tx) \o t /\ ~HasWitness(tx) /\ Plain(tx)
         \/ s = ExtendedForm(tx) \o t

\* The format without witnesses, behind the version and the inputs.
LEMMA PlainTells ==
    ASSUME NEW g, Kept(g), NEW s \in Seq(Digit), NEW ver \in Digit, NEW v \in UpToMax(BareIns), v # <<>>,
           NEW s2 \in Seq(Digit), s = U(ver) \o (SerializeIns(v) \o s2),
           NEW r2, r2 = Stand(Append(Append(g, ver), v), s2),
           UnserializeTransaction(Stand(g, s), TRUE) = AsTx(ReadU(AfterBody(AfterIns(r2, TRUE)))),
           UnserializeTransaction(Stand(g, s), TRUE).ok
    PROVE  TellsTx(g, s)
<1> DEFINE g1 == Append(g, ver)
           g2 == Append(g1, v)
           r3 == AfterIns(r2, TRUE)
           r4 == AfterBody(r3)
           q == UnserializeOuts(r2)
<1>1. r3.ok /\ r4.ok /\ ReadU(r4).ok
  <2>1. ReadU(r4).ok
    BY MadeFails, Zenon
  <2>2. r4.ok
    BY <2>1, SizeFails, Zenon
  <2> QED
    BY <2>1, <2>2, PartsFail, Zenon
<1>2. Kept(g1) /\ Kept(g2)
  <2>1. Kept(g1)
    BY KeptMore
  <2> HIDE DEF g1
  <2> QED
    BY <2>1, KeptMore
<1>3. r2.ok /\ Top(r2) = v
  <2> HIDE DEF g1
  <2>1. r2 = Stand(Append(g1, v), s2)
    BY DEF g1
  <2> QED
    BY <1>2, <2>1, TopOf, Stands
<1>4. r3 = AsBody(q)
  BY <1>3, ReadersAre, Zenon
<1>5. q.ok
  BY <1>1, <1>4, MadeFails, Zenon
<1>6. PICK o \in UpToMax(CTxOuts), s3 \in Seq(Digit) : s2 = SerializeOuts(o) \o s3 /\ q = Stand(Append(g2, o), s3)
  <2>1. q = UnserializeOuts(Stand(g2, s2))
    BY Zenon
  <2> HIDE DEF g2, q
  <2> QED
    BY <1>2, <1>5, <2>1, OutsTell
<1> DEFINE y == Body(v, o, 0)
<1>7. AsBody(Stand(Append(Append(g1, v), o), s3)) = Stand(Append(g1, y), s3)
  <2> HIDE DEF g1
  <2> QED
    BY <1>2, MadeBody
<1>8. r3 = Stand(Append(g1, y), s3)
  <2> HIDE DEF q, r3, g1, y
  <2> QED
    BY <1>4, <1>6, <1>7, Zenon DEF g2
<1>9. r4 = r3
  <2> HIDE DEF g1, r3
  <2>1. Top(r3) = y
    <3> HIDE DEF y
    <3> QED
      BY <1>2, <1>8, TopOf
  <2>2. y.flags = 0
    BY DEF Body
  <2> HIDE DEF y
  <2> QED
    BY <2>1, <2>2, Zenon DEF AfterBody
<1>10. ReadU(Stand(Append(Append(g, ver), Body(v, o, 0)), s3)).ok
  <2> HIDE DEF r4, r3
  <2> QED
    BY <1>1, <1>8, <1>9, Zenon
<1>11. PICK l \in Digit, t \in Seq(Digit) :
        /\ s3 = U(l) \o t
        /\ AsTx(ReadU(Stand(Append(Append(g, ver), Body(v, o, 0)), s3)))
             = Stand(Append(g, [nVersion |-> ver, vin |-> v, vout |-> o, nLockTime |-> l]), t)
  <2>1. EndsTx(g, ver, v, o, 0, s3)
    BY <1>10, EndTells, Zenon
  <2> QED
    BY <2>1, Zenon DEF EndsTx
<1> DEFINE tx == [nVersion |-> ver, vin |-> v, vout |-> o, nLockTime |-> l]
<1>12. v \in UpToMax(CTxIns) /\ \A i \in DOMAIN v : v[i].scriptWitness = <<>>
  BY DEF UpToMax, BareIns
<1>13. /\ tx \in CTransactions
       /\ tx.nVersion = ver /\ tx.vin = v /\ tx.vout = o /\ tx.nLockTime = l
  BY <1>12, TxOf
<1> HIDE DEF tx
<1>14. ~HasWitness(tx) /\ Plain(tx)
  BY <1>12, <1>13 DEF HasWitness, Plain
<1>15. UnserializeTransaction(Stand(g, s), TRUE) = Stand(Append(g, tx), t)
  <2>1. UnserializeTransaction(Stand(g, s), TRUE) = AsTx(ReadU(r4))
    BY Zenon
  <2>2. r4 = Stand(Append(Append(g, ver), Body(v, o, 0)), s3)
    <3> HIDE DEF r3, r4
    <3> QED
      BY <1>8, <1>9, Zenon
  <2> HIDE DEF r4
  <2> QED
    BY <1>11, <2>1, <2>2, Zenon DEF tx
<1>16. s = PlainForm(tx) \o t
  <2> DEFINE a == U(ver)
             si == SerializeIns(v)
             so == SerializeOuts(o)
             sl == U(l)
  <2>1. a \in Seq(Digit) /\ si \in Seq(Digit) /\ so \in Seq(Digit) /\ sl \in Seq(Digit)
    BY <1>13, TxParts
  <2>2. PlainForm(tx) = Frame(a, <<>>, si, so, <<>>, sl)
    BY <1>13, Zenon DEF PlainForm
  <2>3. s = a \o (si \o (so \o (sl \o t)))
    BY <1>6, <1>11, Zenon
  <2> HIDE DEF a, si, so, sl
  <2>4. InOrder(a, si, so, sl, t)
    BY <2>1, PlainOrder
  <2> QED
    BY <2>2, <2>3, <2>4, Zenon DEF InOrder
<1> QED
  BY <1>13, <1>14, <1>15, <1>16, Zenon DEF TellsTx

\* Behind the dummy: a transaction without inputs and outputs.
LEMMA NothingTells ==
    ASSUME NEW g, Kept(g), NEW s \in Seq(Digit), NEW ver \in Digit,
           NEW s3 \in Seq(Digit), s = U(ver) \o (SerializeIns(<<>>) \o (U(0) \o s3)),
           NEW f, f = Stand(Append(Append(Append(g, ver), <<>>), 0), s3),
           UnserializeTransaction(Stand(g, s), TRUE) = AsTx(ReadU(AfterBody(AfterFlags(f)))),
           UnserializeTransaction(Stand(g, s), TRUE).ok
    PROVE  TellsTx(g, s)
<1> DEFINE g1 == Append(g, ver)
           g2 == Append(g1, <<>>)
           r3 == AfterFlags(f)
           r4 == AfterBody(r3)
           y == Body(<<>>, <<>>, 0)
<1>1. ReadU(r4).ok
  BY MadeFails, Zenon
<1>2. Kept(g1) /\ Kept(g2)
  <2>1. Kept(g1)
    BY KeptMore
  <2> HIDE DEF g1
  <2> QED
    BY <2>1, KeptMore
<1>3. Top(f) = 0
  <2> HIDE DEF g2
  <2>1. f = Stand(Append(g2, 0), s3)
    BY DEF g2
  <2> QED
    BY <1>2, <2>1, TopOf
<1>4. r3 = AsNoBody(f)
  BY <1>3, ReadersAre, Zenon
<1>5. AsNoBody(Stand(Append(Append(g1, <<>>), 0), s3)) = Stand(Append(g1, y), s3)
  <2> HIDE DEF g1
  <2> QED
    BY <1>2, MadeNoBody
<1>6. r3 = Stand(Append(g1, y), s3)
  <2> HIDE DEF y, r3
  <2> QED
    BY <1>4, <1>5, Zenon
<1>7. r4 = r3
  <2> HIDE DEF g1, r3
  <2>1. Top(r3) = y
    <3> HIDE DEF y
    <3> QED
      BY <1>2, <1>6, TopOf
  <2>2. y.flags = 0
    BY DEF Body
  <2> HIDE DEF y
  <2> QED
    BY <2>1, <2>2, Zenon DEF AfterBody
<1>8. ReadU(Stand(Append(Append(g, ver), Body(<<>>, <<>>, 0)), s3)).ok
  <2> HIDE DEF r4, r3
  <2> QED
    BY <1>1, <1>6, <1>7, Zenon
<1>9. PICK l \in Digit, t \in Seq(Digit) :
        /\ s3 = U(l) \o t
        /\ AsTx(ReadU(Stand(Append(Append(g, ver), Body(<<>>, <<>>, 0)), s3)))
             = Stand(Append(g, [nVersion |-> ver, vin |-> <<>>, vout |-> <<>>, nLockTime |-> l]), t)
  <2>1. EndsTx(g, ver, <<>>, <<>>, 0, s3)
    BY <1>8, EndTells, Zenon
  <2> QED
    BY <2>1, Zenon DEF EndsTx
<1> DEFINE tx == [nVersion |-> ver, vin |-> <<>>, vout |-> <<>>, nLockTime |-> l]
<1>10. <<>> \in UpToMax(CTxIns) /\ <<>> \in UpToMax(CTxOuts)
  BY Bases DEF UpToMax
<1>11. /\ tx \in CTransactions
       /\ tx.nVersion = ver /\ tx.vin = <<>> /\ tx.vout = <<>> /\ tx.nLockTime = l
  <2> DEFINE e == <<>>
             p == <<>>
  <2>1. e \in UpToMax(CTxIns) /\ p \in UpToMax(CTxOuts)
    BY <1>10
  <2> HIDE DEF e, p
  <2>2. LET z == [nVersion |-> ver, vin |-> e, vout |-> p, nLockTime |-> l]
        IN z \in CTransactions /\ z.nVersion = ver /\ z.vin = e /\ z.vout = p /\ z.nLockTime = l
    BY <2>1, TxOf
  <2> QED
    BY <2>2, Zenon DEF e, p
<1> HIDE DEF tx
<1>12. ~HasWitness(tx) /\ Plain(tx)
  BY <1>11 DEF HasWitness, Plain
<1>13. UnserializeTransaction(Stand(g, s), TRUE) = Stand(Append(g, tx), t)
  <2>1. UnserializeTransaction(Stand(g, s), TRUE) = AsTx(ReadU(r4))
    BY Zenon
  <2>2. r4 = Stand(Append(Append(g, ver), Body(<<>>, <<>>, 0)), s3)
    <3> HIDE DEF r3, r4
    <3> QED
      BY <1>6, <1>7, Zenon
  <2> HIDE DEF r4
  <2> QED
    BY <1>9, <2>1, <2>2, Zenon DEF tx
<1>14. s = PlainForm(tx) \o t
  <2> DEFINE a == U(ver)
             si == SerializeIns(<<>>)
             so == SerializeOuts(<<>>)
             sl == U(l)
  <2>1. a \in Seq(Digit) /\ si \in Seq(Digit) /\ so \in Seq(Digit) /\ sl \in Seq(Digit)
    <3>1. /\ U(tx.nVersion) \in Seq(Digit) /\ U(tx.nLockTime) \in Seq(Digit)
          /\ SerializeIns(tx.vin) \in Seq(Digit) /\ SerializeOuts(tx.vout) \in Seq(Digit)
      BY <1>11, TxParts
    <3> QED
      BY <1>11, <3>1, Zenon
  <2>2. PlainForm(tx) = Frame(a, <<>>, si, so, <<>>, sl)
    BY <1>11, Zenon DEF PlainForm
  <2>3. so = U(0)
    BY EmptyVectors
  <2>4. s = a \o (si \o (so \o (sl \o t)))
    BY <1>9, <2>3, Zenon
  <2> HIDE DEF a, si, so, sl
  <2>5. InOrder(a, si, so, sl, t)
    BY <2>1, PlainOrder
  <2> QED
    BY <2>2, <2>4, <2>5, Zenon DEF InOrder
<1> QED
  BY <1>11, <1>12, <1>13, <1>14, Zenon DEF TellsTx

\* Behind the dummy and flags: inputs, outputs and witnesses.
LEMMA ExtendedTells ==
    ASSUME NEW g, Kept(g), NEW s \in Seq(Digit), NEW ver \in Digit, NEW fl \in Digit, fl # 0,
           NEW s3 \in Seq(Digit), s = U(ver) \o (SerializeIns(<<>>) \o (U(fl) \o s3)),
           NEW f, f = Stand(Append(Append(Append(g, ver), <<>>), fl), s3),
           UnserializeTransaction(Stand(g, s), TRUE) = AsTx(ReadU(AfterBody(AfterFlags(f)))),
           UnserializeTransaction(Stand(g, s), TRUE).ok
    PROVE  TellsTx(g, s)
<1> DEFINE g1 == Append(g, ver)
           g2 == Append(g1, <<>>)
           g3 == Append(g2, fl)
           q1 == UnserializeIns(f)
           q2 == UnserializeOuts(q1)
           r3 == AfterFlags(f)
           r4 == AfterBody(r3)
<1>1. r3.ok /\ r4.ok /\ ReadU(r4).ok
  <2>1. ReadU(r4).ok
    BY MadeFails, Zenon
  <2>2. r4.ok
    BY <2>1, SizeFails, Zenon
  <2> QED
    BY <2>1, <2>2, PartsFail, Zenon
<1>2. Kept(g1) /\ Kept(g2) /\ Kept(g3)
  <2>1. Kept(g1)
    BY KeptMore
  <2>2. Kept(g2)
    <3> HIDE DEF g1
    <3> QED
      BY <2>1, KeptMore
  <2>3. Kept(g3)
    <3> HIDE DEF g2
    <3> QED
      BY <2>2, KeptMore
  <2> QED
    BY <2>1, <2>2, <2>3
<1>3. Top(f) = fl
  <2> HIDE DEF g2
  <2>1. f = Stand(Append(g2, fl), s3)
    BY DEF g2
  <2> QED
    BY <1>2, <2>1, TopOf
<1>4. r3 = AsExtended(q2)
  BY <1>3, ReadersAre, Zenon
<1>5. q1.ok /\ q2.ok
  <2>1. q2.ok
    BY <1>1, <1>4, MadeFails, Zenon
  <2> QED
    BY <2>1, VectorFails, Zenon
<1>6. PICK v \in UpToMax(BareIns), s4 \in Seq(Digit) : s3 = SerializeIns(v) \o s4 /\ q1 = Stand(Append(g3, v), s4)
  <2>1. q1 = UnserializeIns(Stand(g3, s3))
    BY Zenon
  <2> HIDE DEF g3, q1
  <2> QED
    BY <1>2, <1>5, <2>1, InsTell
<1> DEFINE g4 == Append(g3, v)
<1>7. Kept(g4)
  <2> HIDE DEF g3
  <2> QED
    BY <1>2, KeptMore
<1>8. PICK o \in UpToMax(CTxOuts), s5 \in Seq(Digit) : s4 = SerializeOuts(o) \o s5 /\ q2 = Stand(Append(g4, o), s5)
  <2> HIDE DEF q1
  <2>1. q2 = UnserializeOuts(Stand(g4, s4))
    BY <1>6, Zenon
  <2> HIDE DEF g4, q2
  <2> QED
    BY <1>5, <1>7, <2>1, OutsTell
<1> DEFINE y == Body(v, o, fl)
<1>9. r3 = Stand(Append(g1, y), s5)
  <2>1. AsExtended(Stand(Append(Append(Append(Append(g1, <<>>), fl), v), o), s5)) = Stand(Append(g1, y), s5)
    <3> HIDE DEF g1
    <3> QED
      BY <1>2, MadeExtended
  <2> HIDE DEF q2, r3, g1, y
  <2> QED
    BY <1>4, <1>8, <2>1, Zenon DEF g4, g3, g2
<1>10. fl = 1 /\ r4 = UnserializeWitnesses(r3)
  <2> HIDE DEF g1, r3
  <2>1. Top(r3) = y
    <3> HIDE DEF y
    <3> QED
      BY <1>2, <1>9, TopOf
  <2>2. y.flags = fl
    BY DEF Body
  <2> HIDE DEF y
  <2>3. ~Thrown.ok
    BY Stands
  <2> QED
    BY <1>1, <2>1, <2>2, <2>3, Zenon DEF AfterBody
<1>11. v \in Seq(BareIns)
  BY DEF UpToMax
<1>12. PICK w \in Seq(CTxIns), s6 \in Seq(Digit) :
         /\ Len(w) = Len(v) /\ WithoutWitnesses(w) = v /\ s5 = SerializeWitnesses(w) \o s6
         /\ r4 = Stand(Append(g1, Body(w, o, fl)), s6)
  <2> HIDE DEF r3, r4, g1
  <2>1. r4 = UnserializeWitnesses(Stand(Append(g1, Body(v, o, fl)), s5)) /\ r4.ok
    BY <1>1, <1>9, <1>10, Zenon
  <2>2. TellsWitnesses(g1, v, o, fl, s5)
    BY <1>2, <1>11, <2>1, WitnessesTell, Zenon
  <2> QED
    BY <2>1, <2>2, Zenon DEF TellsWitnesses
<1>13. ReadU(Stand(Append(Append(g, ver), Body(w, o, fl)), s6)).ok
  <2> HIDE DEF r4
  <2> QED
    BY <1>1, <1>12, Zenon
<1>14. PICK l \in Digit, t \in Seq(Digit) :
        /\ s6 = U(l) \o t
        /\ AsTx(ReadU(Stand(Append(Append(g, ver), Body(w, o, fl)), s6)))
             = Stand(Append(g, [nVersion |-> ver, vin |-> w, vout |-> o, nLockTime |-> l]), t)
  <2>1. EndsTx(g, ver, w, o, fl, s6)
    BY <1>13, EndTells, Zenon
  <2> QED
    BY <2>1, Zenon DEF EndsTx
<1> DEFINE tx == [nVersion |-> ver, vin |-> w, vout |-> o, nLockTime |-> l]
<1>15. w \in UpToMax(CTxIns)
  BY <1>12 DEF UpToMax
<1>16. /\ tx \in CTransactions
       /\ tx.nVersion = ver /\ tx.vin = w /\ tx.vout = o /\ tx.nLockTime = l
  BY <1>15, TxOf
<1> HIDE DEF tx
<1>17. UnserializeTransaction(Stand(g, s), TRUE) = Stand(Append(g, tx), t)
  <2>1. UnserializeTransaction(Stand(g, s), TRUE) = AsTx(ReadU(r4))
    BY Zenon
  <2> HIDE DEF r4
  <2> QED
    BY <1>12, <1>14, <2>1, Zenon DEF tx
<1>18. s = ExtendedForm(tx) \o t
  <2> DEFINE a == U(ver)
             d == SerializeIns(<<>>)
             u == U(1)
             x == d \o u
             si == SerializeIns(w)
             so == SerializeOuts(o)
             sw == SerializeWitnesses(w)
             sl == U(l)
             z == si \o (so \o (sw \o (sl \o t)))
  <2>1. a \in Seq(Digit) /\ si \in Seq(Digit) /\ so \in Seq(Digit) /\ sw \in Seq(Digit) /\ sl \in Seq(Digit)
    BY <1>16, TxParts
  <2>2. d \in Seq(Digit) /\ u \in Seq(Digit) /\ x \in Seq(Digit)
    <3>1. 0 \in Digit /\ 1 \in Digit
      BY Bases DEF Digit
    <3>2. d \in Seq(Digit) /\ u \in Seq(Digit)
      BY <3>1, EmptyVectors, EmptyKept, UReads
    <3> HIDE DEF d, u
    <3> QED
      BY <3>2, BytesAssociate
  <2>3. ExtendedForm(tx) = Frame(a, x, si, so, sw, sl)
    BY <1>16, Zenon DEF ExtendedForm
  <2>4. si = SerializeIns(v)
    BY <1>12, InsIgnoreWitnesses
  <2>5. s = a \o (d \o (u \o z))
    BY <1>6, <1>8, <1>10, <1>12, <1>14, <2>4, Zenon
  <2> HIDE DEF a, d, u, si, so, sw, sl
  <2>6. OneByOne(a, x, si, so, sw, sl, t)
    <3> HIDE DEF x
    <3> QED
      BY <2>1, <2>2, Framed
  <2>7. z \in Seq(Digit) /\ Frame(a, x, si, so, sw, sl) \o t = a \o (x \o z)
    BY <2>6, Zenon DEF OneByOne
  <2> HIDE DEF z
  <2>8. x \o z = d \o (u \o z)
    <3>1. Shifts(d, u, z)
      BY <2>2, <2>7, AllShift, Zenon
    <3> QED
      BY <3>1, Zenon DEF Shifts
  <2> QED
    BY <2>3, <2>5, <2>7, <2>8, Zenon
<1> QED
  BY <1>16, <1>17, <1>18, Zenon DEF TellsTx

\* What is taken for a transaction is one, in one of its formats.
LEMMA TxTells ==
    ASSUME NEW g, Kept(g), NEW s \in Seq(Digit), UnserializeTransaction(Stand(g, s), TRUE).ok
    PROVE  TellsTx(g, s)
<1> DEFINE r1 == ReadU(Stand(g, s))
           r2 == UnserializeIns(r1)
           r3 == AfterIns(r2, TRUE)
           r4 == AfterBody(r3)
<1>1. UnserializeTransaction(Stand(g, s), TRUE) = AsTx(ReadU(r4))
  BY ReadersAre, Zenon
<1>2. r1.ok /\ r2.ok /\ r3.ok
  <2>1. r4.ok
    BY <1>1, SizeFails, MadeFails, Zenon
  <2>2. r2.ok /\ r3.ok
    BY <2>1, PartsFail, Zenon
  <2> QED
    BY <2>2, VectorFails, Zenon
<1>3. PICK ver \in Digit, s1 \in Seq(Digit) : s = U(ver) \o s1 /\ r1 = Stand(Append(g, ver), s1)
  BY <1>2, UTells
<1> DEFINE g1 == Append(g, ver)
<1>4. Kept(g1)
  BY KeptMore
<1>5. PICK v \in UpToMax(BareIns), s2 \in Seq(Digit) : s1 = SerializeIns(v) \o s2 /\ r2 = Stand(Append(g1, v), s2)
  <2>1. r2 = UnserializeIns(Stand(g1, s1))
    BY <1>3, Zenon
  <2> HIDE DEF g1, r2
  <2> QED
    BY <1>2, <1>4, <2>1, InsTell
<1> HIDE DEF r1, r2
<1>6. s = U(ver) \o (SerializeIns(v) \o s2) /\ r2 = Stand(Append(Append(g, ver), v), s2)
  BY <1>3, <1>5, Zenon
<1>7. CASE v # <<>>
  <2>1. UnserializeTransaction(Stand(g, s), TRUE) = AsTx(ReadU(AfterBody(AfterIns(r2, TRUE))))
    BY <1>1
  <2> HIDE DEF g1, r3, r4
  <2> QED
    BY <1>6, <1>7, <2>1, PlainTells
<1>8. CASE v = <<>>
  <2> DEFINE f == ReadU(r2)
             g2 == Append(g1, v)
  <2>1. r3 = AfterFlags(f)
    <3>1. r2.ok /\ Top(r2) = <<>>
      <4> HIDE DEF g1
      <4> QED
        BY <1>2, <1>4, <1>5, <1>8, TopOf
    <3> QED
      BY <3>1, ReadersAre, Zenon
  <2>2. f.ok
    BY <1>2, <2>1, PartsFail, Zenon
  <2>3. Kept(g2)
    <3> HIDE DEF g1
    <3> QED
      BY <1>4, KeptMore
  <2>4. PICK fl \in Digit, s3 \in Seq(Digit) : s2 = U(fl) \o s3 /\ f = Stand(Append(g2, fl), s3)
    <3>1. f = ReadU(Stand(g2, s2))
      BY <1>5, Zenon
    <3> HIDE DEF g2, f
    <3> QED
      BY <2>2, <2>3, <3>1, UTells
  <2> HIDE DEF f
  <2>5. /\ s = U(ver) \o (SerializeIns(<<>>) \o (U(fl) \o s3))
        /\ f = Stand(Append(Append(Append(g, ver), <<>>), fl), s3)
    BY <1>6, <1>8, <2>4, Zenon
  <2>6. UnserializeTransaction(Stand(g, s), TRUE) = AsTx(ReadU(AfterBody(AfterFlags(f))))
    BY <1>1, <2>1, Zenon
  <2> HIDE DEF g1, g2, r3, r4
  <2>7. CASE fl = 0
    <3>1. /\ s = U(ver) \o (SerializeIns(<<>>) \o (U(0) \o s3))
          /\ f = Stand(Append(Append(Append(g, ver), <<>>), 0), s3)
      BY <2>5, <2>7, Zenon
    <3> QED
      BY <2>6, <3>1, NothingTells
  <2>8. CASE fl # 0
    BY <2>5, <2>6, <2>8, ExtendedTells
  <2> QED
    BY <2>7, <2>8
<1> QED
  BY <1>7, <1>8

\* The format without witnesses comes back when there are none to lose.
LEMMA PlainComesBack ==
    ASSUME NEW g, Kept(g), NEW tx \in CTransactions, ~HasWitness(tx), Plain(tx), NEW t \in Seq(Digit)
    PROVE  /\ PlainForm(tx) \in Seq(Digit)
           /\ UnserializeTransaction(Stand(g, PlainForm(tx) \o t), TRUE) = Stand(Append(g, tx), t)
<1>1. /\ tx.vin \in Seq(CTxIns)
      /\ tx = [nVersion |-> tx.nVersion, vin |-> tx.vin, vout |-> tx.vout, nLockTime |-> tx.nLockTime]
      /\ Stripped(tx) = [nVersion |-> tx.nVersion, vin |-> WithoutWitnesses(tx.vin),
                         vout |-> tx.vout, nLockTime |-> tx.nLockTime]
  BY TxParts
<1>2. CASE tx.vin # <<>>
  <2>1. WithoutWitnesses(tx.vin) = tx.vin
    <3>1. \A i \in DOMAIN tx.vin : tx.vin[i].scriptWitness = <<>> /\ tx.vin[i] \in CTxIns
      BY <1>1 DEF HasWitness
    <3>2. \A x \in CTxIns : x.scriptWitness = <<>> => NoWitness(x) = x
      BY DEF CTxIns, NoWitness
    <3>3. \A i \in DOMAIN tx.vin : NoWitness(tx.vin[i]) = tx.vin[i]
      BY <3>1, <3>2
    <3>4. WithoutWitnesses(tx.vin) = [i \in DOMAIN tx.vin |-> tx.vin[i]]
      BY <3>3 DEF WithoutWitnesses
    <3> QED
      BY <1>1, <3>4
  <2>2. Stripped(tx) = tx
    BY <1>1, <2>1, Zenon
  <2>3. ~(tx.vin = <<>> /\ TRUE) /\ TRUE \in BOOLEAN
    BY <1>2
  <2>4. /\ PlainForm(tx) \in Seq(Digit)
        /\ UnserializeTransaction(Stand(g, PlainForm(tx) \o t), TRUE) = Stand(Append(g, Stripped(tx)), t)
    BY <2>3, PlainReads DEF PlainForm
  <2> QED
    BY <2>2, <2>4
<1>3. CASE tx.vin = <<>> /\ tx.vout = <<>>
  <2> DEFINE a == U(tx.nVersion)
             i == SerializeIns(<<>>)
             o == U(0)
             l == U(tx.nLockTime)
             t1 == l \o t
             t2 == o \o t1
             t3 == i \o t2
             g1 == Append(g, tx.nVersion)
             g2 == Append(g1, <<>>)
             y == Body(<<>>, <<>>, 0)
             g3 == Append(g1, y)
  <2>1. tx.nVersion \in Digit /\ tx.nLockTime \in Digit /\ 0 \in Digit
    BY TxParts, Bases, SMTT(60) DEF Digit
  <2>2. a \in Seq(Digit) /\ i \in Seq(Digit) /\ o \in Seq(Digit) /\ l \in Seq(Digit)
    BY <2>1, EmptyKept, UReads, EmptyVectors
  <2>3. PlainForm(tx) = Frame(a, <<>>, i, o, <<>>, l)
    <3>1. SerializeOuts(<<>>) = o
      BY EmptyVectors
    <3> QED
      BY <1>3, <3>1, Zenon DEF PlainForm
  <2>4. /\ PlainForm(tx) \in Seq(Digit) /\ t1 \in Seq(Digit) /\ t2 \in Seq(Digit) /\ t3 \in Seq(Digit)
        /\ PlainForm(tx) \o t = a \o t3
    <3> HIDE DEF a, i, o, l
    <3>1. InOrder(a, i, o, l, t)
      BY <2>2, PlainOrder
    <3> QED
      BY <2>3, <3>1, Zenon DEF InOrder
  <2>5. Kept(g1) /\ Kept(g2) /\ Kept(g3)
    <3>1. Kept(g1)
      BY KeptMore
    <3> HIDE DEF g1
    <3> QED
      BY <3>1, KeptMore
  <2>6. ReadU(Stand(g, a \o t3)) = Stand(g1, t3)
    <3> HIDE DEF t3
    <3> QED
      BY <2>1, <2>4, UReads
  <2>7. UnserializeIns(Stand(g1, i \o t2)) = Stand(g2, t2)
    <3>1. <<>> \in UpToMax(CTxIns) /\ WithoutWitnesses(<<>>) = <<>>
      BY Bases DEF UpToMax, WithoutWitnesses
    <3> DEFINE e == <<>>
    <3>2. e \in UpToMax(CTxIns) /\ WithoutWitnesses(e) = e
      BY <3>1
    <3> HIDE DEF t2, g1, e
    <3>3. UnserializeIns(Stand(g1, SerializeIns(e) \o t2)) = Stand(Append(g1, WithoutWitnesses(e)), t2)
      BY <2>4, <2>5, <3>2, InsRead
    <3> QED
      BY <3>2, <3>3, Zenon DEF e
  <2>8. ReadU(Stand(g2, o \o t1)) = Stand(Append(g2, 0), t1)
    <3> HIDE DEF g2, t1
    <3> QED
      BY <2>1, <2>4, <2>5, UReads
  <2> DEFINE r2 == Stand(g2, t2)
             f == Stand(Append(g2, 0), t1)
  <2>9. AfterIns(r2, TRUE) = AfterFlags(f)
    <3>1. r2.ok /\ Top(r2) = <<>>
      <4> HIDE DEF g1, t2
      <4> QED
        BY <2>5, TopOf, Stands
    <3> HIDE DEF g2, t1
    <3> QED
      BY <2>8, <3>1, ReadersAre, Zenon
  <2>10. AfterFlags(f) = Stand(g3, t1)
    <3>1. Top(f) = 0
      <4> HIDE DEF g2, t1
      <4> QED
        BY <2>5, TopOf
    <3>2. AsNoBody(Stand(Append(Append(g1, <<>>), 0), t1)) = Stand(Append(g1, y), t1)
      <4> HIDE DEF g1, t1
      <4> QED
        BY <2>5, MadeNoBody
    <3> HIDE DEF y, t1
    <3> QED
      BY <3>1, <3>2, ReadersAre, Zenon
  <2>11. AfterBody(Stand(g3, t1)) = Stand(g3, t1)
    <3>1. Top(Stand(g3, t1)) = y
      <4> HIDE DEF g1, y, t1
      <4> QED
        BY <2>5, TopOf
    <3>2. y.flags = 0
      BY DEF Body
    <3> HIDE DEF y, g3, t1
    <3> QED
      BY <3>1, <3>2, Zenon DEF AfterBody
  <2>12. ReadU(Stand(g3, l \o t)) = Stand(Append(g3, tx.nLockTime), t)
    <3> HIDE DEF g3
    <3> QED
      BY <2>1, <2>5, UReads
  <2>13. AsTx(Stand(Append(g3, tx.nLockTime), t))
         = Stand(Append(g, [nVersion |-> tx.nVersion, vin |-> y.vin, vout |-> y.vout,
                            nLockTime |-> tx.nLockTime]), t)
    <3> HIDE DEF y
    <3> QED
      BY MadeTx
  <2>14. y.vin = tx.vin /\ y.vout = tx.vout
    BY <1>3 DEF Body
  <2>15. AsTx(Stand(Append(g3, tx.nLockTime), t)) = Stand(Append(g, tx), t)
    <3> HIDE DEF g3, y
    <3> QED
      BY <1>1, <2>13, <2>14, Zenon
  <2>16. UnserializeTransaction(Stand(g, a \o t3), TRUE) = Stand(Append(g, tx), t)
    <3> HIDE DEF g1, g2, g3, a, i, o, l
    <3> QED
      BY <2>6, <2>7, <2>9, <2>10, <2>11, <2>12, <2>15, ReadersAre, Zenon
  <2> HIDE DEF a, t3
  <2> QED
    BY <2>4, <2>16, Zenon
<1> QED
  BY <1>2, <1>3 DEF Plain

-----------------------------------------------------------------------------
(* Strings *)

\* The last of two values, one for one, and the pair.
AsLast(r)   == Made(r, 2, LAMBDA f : f[2])
AsPair(r)   == Made(r, 2, LAMBDA f : f)
AsMapOf(r)  == Made(r, 1, LAMBDA f : MapOf(f[1]))
ElementsOf(f) == {f[i] : i \in DOMAIN f}
AsSetOf(r)  == Made(r, 1, LAMBDA f : ElementsOf(f[1]))
AsBlock(r)  == Made(r, 2, LAMBDA f : [header |-> f[1], vtx |-> f[2]])

\* The last of the two is kept.
LEMMA MadeLast ==
    ASSUME NEW g, Kept(g), NEW a, NEW b, NEW t
    PROVE  AsLast(Stand(Append(Append(g, a), b), t)) = Stand(Append(g, b), t)
<1> DEFINE h == Append(Append(g, a), b)
           r == Stand(h, t)
<1>1. SubSeq(h, 1, Len(h) - 2) = g /\ SubSeq(h, Len(h) - 2 + 1, Len(h)) = <<a, b>>
  BY KeptTwo DEF Lasts
<1>2. r.ok /\ r.got = h /\ \A x : [r EXCEPT !.got = x] = Stand(x, t)
  BY Stands, StandsWith, Zenon
<1> HIDE DEF h, r
<1> DEFINE w == SubSeq(r.got, Len(r.got) - 2 + 1, Len(r.got))
<1>3. AsLast(r) = IF r.ok THEN [r EXCEPT !.got = Append(SubSeq(r.got, 1, Len(r.got) - 2), w[2])]
                 ELSE r
  BY Zenon DEF Made, AsLast
<1>4. <<a, b>>[1] = a /\ <<a, b>>[2] = b
  OBVIOUS
<1>5. AsLast(r) = Stand(Append(g, b), t)
  BY <1>1, <1>2, <1>3, <1>4, Zenon
<1> QED
  BY <1>5 DEF h, r

\* They make a pair.
LEMMA MadePair ==
    ASSUME NEW g, Kept(g), NEW a, NEW b, NEW t
    PROVE  AsPair(Stand(Append(Append(g, a), b), t)) = Stand(Append(g, <<a, b>>), t)
<1> DEFINE h == Append(Append(g, a), b)
           r == Stand(h, t)
<1>1. SubSeq(h, 1, Len(h) - 2) = g /\ SubSeq(h, Len(h) - 2 + 1, Len(h)) = <<a, b>>
  BY KeptTwo DEF Lasts
<1>2. r.ok /\ r.got = h /\ \A x : [r EXCEPT !.got = x] = Stand(x, t)
  BY Stands, StandsWith, Zenon
<1> HIDE DEF h, r
<1> DEFINE w == SubSeq(r.got, Len(r.got) - 2 + 1, Len(r.got))
<1>3. AsPair(r) = IF r.ok THEN [r EXCEPT !.got = Append(SubSeq(r.got, 1, Len(r.got) - 2), w)]
                 ELSE r
  BY Zenon DEF Made, AsPair
<1>4. <<a, b>>[1] = a /\ <<a, b>>[2] = b
  OBVIOUS
<1>5. AsPair(r) = Stand(Append(g, <<a, b>>), t)
  BY <1>1, <1>2, <1>3, <1>4, Zenon
<1> QED
  BY <1>5 DEF h, r

\* They make a block.
LEMMA MadeBlock ==
    ASSUME NEW g, Kept(g), NEW a, NEW b, NEW t
    PROVE  AsBlock(Stand(Append(Append(g, a), b), t)) = Stand(Append(g, [header |-> a, vtx |-> b]), t)
<1> DEFINE h == Append(Append(g, a), b)
           r == Stand(h, t)
<1>1. SubSeq(h, 1, Len(h) - 2) = g /\ SubSeq(h, Len(h) - 2 + 1, Len(h)) = <<a, b>>
  BY KeptTwo DEF Lasts
<1>2. r.ok /\ r.got = h /\ \A x : [r EXCEPT !.got = x] = Stand(x, t)
  BY Stands, StandsWith, Zenon
<1> HIDE DEF h, r
<1> DEFINE w == SubSeq(r.got, Len(r.got) - 2 + 1, Len(r.got))
<1>3. AsBlock(r) = IF r.ok THEN [r EXCEPT !.got = Append(SubSeq(r.got, 1, Len(r.got) - 2), [header |-> w[1], vtx |-> w[2]])]
                 ELSE r
  BY Zenon DEF Made, AsBlock
<1>4. <<a, b>>[1] = a /\ <<a, b>>[2] = b
  OBVIOUS
<1>5. AsBlock(r) = Stand(Append(g, [header |-> a, vtx |-> b]), t)
  BY <1>1, <1>2, <1>3, <1>4, ZenonT(60)
<1> QED
  BY <1>5 DEF h, r

\* Pairs make a map.
LEMMA MadeMap ==
    ASSUME NEW g, Kept(g), NEW a, NEW t
    PROVE  AsMapOf(Stand(Append(g, a), t)) = Stand(Append(g, MapOf(a)), t)
<1> DEFINE h == Append(g, a)
           r == Stand(h, t)
<1>1. SubSeq(h, 1, Len(h) - 1) = g /\ SubSeq(h, Len(h) - 1 + 1, Len(h)) = <<a>>
  BY KeptMore DEF Lasts
<1>2. r.ok /\ r.got = h /\ \A x : [r EXCEPT !.got = x] = Stand(x, t)
  BY Stands, StandsWith, Zenon
<1> HIDE DEF h, r
<1> DEFINE w == SubSeq(r.got, Len(r.got) - 1 + 1, Len(r.got))
<1>3. AsMapOf(r) = IF r.ok THEN [r EXCEPT !.got = Append(SubSeq(r.got, 1, Len(r.got) - 1), MapOf(w[1]))]
                 ELSE r
  BY Zenon DEF Made, AsMapOf
<1>4. <<a>>[1] = a
  OBVIOUS
<1>5. AsMapOf(r) = Stand(Append(g, MapOf(a)), t)
  BY <1>1, <1>2, <1>3, <1>4, Zenon
<1> QED
  BY <1>5 DEF h, r

\* Elements make a set.
LEMMA MadeSet ==
    ASSUME NEW g, Kept(g), NEW a, NEW t
    PROVE  AsSetOf(Stand(Append(g, a), t)) = Stand(Append(g, ElementsOf(a)), t)
<1> DEFINE h == Append(g, a)
           r == Stand(h, t)
<1>1. SubSeq(h, 1, Len(h) - 1) = g /\ SubSeq(h, Len(h) - 1 + 1, Len(h)) = <<a>>
  BY KeptMore DEF Lasts
<1>2. r.ok /\ r.got = h /\ \A x : [r EXCEPT !.got = x] = Stand(x, t)
  BY Stands, StandsWith, Zenon
<1> HIDE DEF h, r
<1> DEFINE w == SubSeq(r.got, Len(r.got) - 1 + 1, Len(r.got))
<1>3. AsSetOf(r) = IF r.ok THEN [r EXCEPT !.got = Append(SubSeq(r.got, 1, Len(r.got) - 1), ElementsOf(w[1]))]
                 ELSE r
  BY Zenon DEF Made, AsSetOf
<1>4. <<a>>[1] = a
  OBVIOUS
<1>5. AsSetOf(r) = Stand(Append(g, ElementsOf(a)), t)
  BY <1>1, <1>2, <1>3, <1>4, Zenon
<1> QED
  BY <1>5 DEF h, r

\* The readers in terms of these.
LEMMA ContainersAre ==
    /\ \A c : Characters(c) = AsLast(ReadBytes(c, Top(c)))
    /\ \A r : UnserializePair(r) = AsPair(ReadCompactSize(ReadCompactSize(r)))
    /\ \A r : UnserializeMap(r) = AsMapOf(UnserializePairs(r))
    /\ \A r : UnserializeSet(r) = AsSetOf(UnserializeSizes(r))
    /\ \A r : UnserializeBlock(r) = AsBlock(UnserializeTxs(ReadBytes(r, HeaderFields)))
<1>1. \A c : Characters(c) = AsLast(ReadBytes(c, Top(c)))
  BY Zenon DEF Characters, AsLast
<1>2. \A r : UnserializePair(r) = AsPair(ReadCompactSize(ReadCompactSize(r)))
  BY Zenon DEF UnserializePair, AsPair
<1>3. \A r : UnserializeMap(r) = AsMapOf(UnserializePairs(r))
  BY Zenon DEF UnserializeMap, AsMapOf
<1>4. \A r : UnserializeSet(r) = AsSetOf(UnserializeSizes(r))
  BY Zenon DEF UnserializeSet, AsSetOf, ElementsOf
<1>5. \A r : UnserializeBlock(r) = AsBlock(UnserializeTxs(ReadBytes(r, HeaderFields)))
  BY Zenon DEF UnserializeBlock, AsBlock
<1> QED
  BY <1>1, <1>2, <1>3, <1>4, <1>5

\* A stream that has thrown stays so.
LEMMA ContainersFail ==
    \A r : ~r.ok => /\ ~AsLast(r).ok /\ ~AsPair(r).ok /\ ~AsMapOf(r).ok /\ ~AsSetOf(r).ok /\ ~AsBlock(r).ok
                    /\ ~Characters(r).ok /\ ~UnserializePair(r).ok
<1>1. \A r : ~r.ok => /\ AsLast(r) = r /\ AsPair(r) = r /\ AsMapOf(r) = r /\ AsSetOf(r) = r /\ AsBlock(r) = r
  <2> SUFFICES ASSUME NEW r, ~r.ok
               PROVE  AsLast(r) = r /\ AsPair(r) = r /\ AsMapOf(r) = r /\ AsSetOf(r) = r /\ AsBlock(r) = r
    BY Zenon
  <2>1. AsLast(r) = r
    BY Zenon DEF AsLast, Made
  <2>2. AsPair(r) = r
    BY Zenon DEF AsPair, Made
  <2>3. AsMapOf(r) = r
    BY Zenon DEF AsMapOf, Made
  <2>4. AsSetOf(r) = r
    BY Zenon DEF AsSetOf, Made
  <2>5. AsBlock(r) = r
    BY Zenon DEF AsBlock, Made
  <2> QED
    BY <2>1, <2>2, <2>3, <2>4, <2>5, Zenon
<1>2. \A r : ~r.ok => /\ ~AsLast(r).ok /\ ~AsPair(r).ok /\ ~AsMapOf(r).ok /\ ~AsSetOf(r).ok /\ ~AsBlock(r).ok
  BY <1>1, Zenon
<1>3. \A r : ~r.ok => ~Characters(r).ok /\ ~UnserializePair(r).ok
  BY <1>2, SizeFails, ContainersAre, Zenon
<1> QED
  BY <1>2, <1>3, Zenon

\* The next n bytes.
LEMMA BytesNext ==
    ASSUME NEW g, Kept(g), NEW n \in Nat, NEW v \in Seq(Digit), Len(v) = n, NEW t \in Seq(Digit)
    PROVE  ReadBytes(Stand(g, v \o t), n) = Stand(Append(g, v), t)
<1>1. PICK S : g \in Seq(S)
  BY DEF Kept
<1> DEFINE T == S \cup (Nat \cup Seq(Digit))
           s == v \o t
<1>2. g \in Seq(T)
  BY <1>1
<1>3. Holds(T)
  BY DEF Holds
<1>4. /\ s \in Seq(Digit) /\ n <= Len(s) /\ SubSeq(s, 1, n) = v
      /\ SubSeq(s, n + 1, Len(s)) = t
  BY InFront
<1> HIDE DEF T, s
<1>5. ReadBytes(Stand(g, s), n) = Stand(Append(g, SubSeq(s, 1, n)), SubSeq(s, n + 1, Len(s)))
  BY <1>2, <1>3, <1>4, ReadsBytes
<1> QED
  BY <1>4, <1>5 DEF s

\* They were there, if they are read.
LEMMA BytesThere ==
    ASSUME NEW g, Kept(g), NEW n \in Nat, NEW s \in Seq(Digit), ReadBytes(Stand(g, s), n).ok
    PROVE  \E v \in Seq(Digit), t \in Seq(Digit) :
             Len(v) = n /\ s = v \o t /\ ReadBytes(Stand(g, s), n) = Stand(Append(g, v), t)
<1>1. PICK S : g \in Seq(S)
  BY DEF Kept
<1> DEFINE T == S \cup (Nat \cup Seq(Digit))
<1>2. g \in Seq(T)
  BY <1>1
<1>3. Holds(T)
  BY DEF Holds
<1> HIDE DEF T
<1>4. n <= Len(s)
  <2>1. ~(n <= Len(s)) => ReadBytes(Stand(g, s), n) = Thrown
    BY <1>2, <1>3, ReadsBytes
  <2> QED
    BY <2>1, Stands
<1> DEFINE v == SubSeq(s, 1, n)
           t == SubSeq(s, n + 1, Len(s))
<1>5. v \in Seq(Digit) /\ Len(v) = n /\ t \in Seq(Digit) /\ v \o t = s
  BY <1>4, PartOf
<1> HIDE DEF v, t
<1>6. ReadBytes(Stand(g, v \o t), n) = Stand(Append(g, v), t)
  BY <1>5, BytesNext
<1> QED
  BY <1>5, <1>6

\* A string comes back.
LEMMA StringRead ==
    ASSUME NEW g, Kept(g), NEW v \in CScripts, NEW t \in Seq(Digit)
    PROVE  /\ SerializeString(v) \in Seq(Digit)
           /\ ReadCompactSize(Stand(g, SerializeString(v) \o t)) = Stand(Append(g, Len(v)), v \o t)
           /\ Characters(Stand(Append(g, Len(v)), v \o t)) = Stand(Append(g, v), t)
           /\ UnserializeString(Stand(g, SerializeString(v) \o t)) = Stand(Append(g, v), t)
<1> DEFINE n == Len(v)
           w == WriteCompactSize(n)
           u == v \o t
<1>1. v \in Seq(Digit) /\ n \in Nat /\ n <= MAX_SIZE
  BY DEF CScripts, UpToMax
<1>2. w \in Seq(Digit) /\ u \in Seq(Digit)
  BY <1>1, CompactBytes, BytesAssociate
<1>3. SerializeString(v) = w \o v
  BY DEF SerializeString
<1> HIDE DEF w
<1>4. w \o v \in Seq(Digit) /\ (w \o v) \o t = w \o u
  BY <1>1, <1>2, BytesAssociate, SMTT(60)
<1> HIDE DEF n, u
<1>5. ReadCompactSize(Stand(g, w \o u)) = Stand(Append(g, n), u)
  BY <1>1, <1>2, SizeReads DEF w
<1> DEFINE c == Stand(Append(g, n), u)
<1>6. Top(c) = n
  BY TopOf
<1>7. ReadBytes(c, n) = Stand(Append(Append(g, n), v), t)
  <2> DEFINE g1 == Append(g, n)
  <2>1. Kept(g1)
    BY KeptMore
  <2> HIDE DEF g1
  <2>2. ReadBytes(Stand(g1, v \o t), n) = Stand(Append(g1, v), t)
    BY <1>1, <2>1, BytesNext DEF n
  <2> QED
    BY <2>2 DEF g1, u
<1>8. AsLast(Stand(Append(Append(g, n), v), t)) = Stand(Append(g, v), t)
  BY MadeLast
<1> HIDE DEF c
<1>9. Characters(c) = Stand(Append(g, v), t)
  BY <1>6, <1>7, <1>8, ContainersAre, Zenon
<1>10. UnserializeString(Stand(g, w \o u)) = Stand(Append(g, v), t)
  BY <1>5, <1>9, Zenon DEF UnserializeString, c
<1> QED
  BY <1>3, <1>4, <1>5, <1>9, <1>10, Zenon DEF c, n, u

\* What is accepted as a string was written as one.
LEMMA StringTell ==
    ASSUME NEW g, Kept(g), NEW s \in Seq(Digit), UnserializeString(Stand(g, s)).ok
    PROVE  \E v \in CScripts, t \in Seq(Digit) :
             /\ s = SerializeString(v) \o t
             /\ UnserializeString(Stand(g, s)) = Stand(Append(g, v), t)
<1> DEFINE c == ReadCompactSize(Stand(g, s))
<1>1. UnserializeString(Stand(g, s)) = Characters(c)
  BY Zenon DEF UnserializeString
<1>2. c.ok
  BY <1>1, ContainersFail, Zenon
<1>3. PICK n \in Nat, u \in Seq(Digit) : n <= MAX_SIZE /\ s = WriteCompactSize(n) \o u /\ c = Stand(Append(g, n), u)
  BY <1>2, SizeTells
<1> HIDE DEF c
<1>4. Top(c) = n
  BY <1>3, TopOf
<1>5. ReadBytes(c, n).ok
  BY <1>1, <1>4, ContainersAre, ContainersFail, Zenon
<1>6. PICK v \in Seq(Digit), t \in Seq(Digit) : Len(v) = n /\ u = v \o t
  <2> DEFINE g1 == Append(g, n)
  <2>1. Kept(g1) /\ ReadBytes(Stand(g1, u), n).ok
    BY <1>3, <1>5, KeptMore
  <2> HIDE DEF g1
  <2>2. \E v \in Seq(Digit), t \in Seq(Digit) :
          Len(v) = n /\ u = v \o t /\ ReadBytes(Stand(g1, u), n) = Stand(Append(g1, v), t)
    BY <2>1, BytesThere
  <2> QED
    BY <2>2, Zenon
<1>7. v \in CScripts
  BY <1>3, <1>6 DEF CScripts, UpToMax
<1>8. s = SerializeString(v) \o t
  <2> DEFINE z == WriteCompactSize(n)
  <2>1. z \in Seq(Digit)
    BY CompactBytes
  <2>2. SerializeString(v) = z \o v
    BY <1>6 DEF SerializeString
  <2>3. s = z \o (v \o t)
    BY <1>3, <1>6
  <2> HIDE DEF z
  <2>4. Shifts(z, v, t)
    BY <2>1, AllShift, Zenon
  <2> QED
    BY <2>2, <2>3, <2>4, Zenon DEF Shifts
<1>9. UnserializeString(Stand(g, SerializeString(v) \o t)) = Stand(Append(g, v), t)
  BY <1>7, StringRead
<1> QED
  BY <1>7, <1>8, <1>9

-----------------------------------------------------------------------------
(* Vectors of sizes, pairs and transactions *)

\* The sizes that are let through, and pairs of them.
SizeRange == 0..MAX_SIZE
SizePairs == SizeRange \X SizeRange

\* A size comes back.
LEMMA SizeComesBack ==
    ASSUME NEW g, Kept(g), NEW n \in SizeRange, NEW t \in Seq(Digit)
    PROVE  /\ WriteCompactSize(n) \in Seq(Digit)
           /\ ReadCompactSize(Stand(g, WriteCompactSize(n) \o t)) = Stand(Append(g, n), t)
<1>1. n \in Nat /\ n <= MAX_SIZE
  BY Bases DEF SizeRange
<1> QED
  BY <1>1, SizeReads, CompactBytes

\* A size that is accepted.
LEMMA SizeInTells ==
    ASSUME NEW g, Kept(g), NEW s \in Seq(Digit), ReadCompactSize(Stand(g, s)).ok
    PROVE  \E n \in SizeRange, t \in Seq(Digit) :
             /\ s = WriteCompactSize(n) \o t
             /\ ReadCompactSize(Stand(g, s)) = Stand(Append(g, n), t)
<1>1. PICK n \in Nat, t \in Seq(Digit) :
        /\ n <= MAX_SIZE /\ s = WriteCompactSize(n) \o t
        /\ ReadCompactSize(Stand(g, s)) = Stand(Append(g, n), t)
  BY SizeTells
<1>2. n \in SizeRange
  BY <1>1, Bases DEF SizeRange
<1> QED
  BY <1>1, <1>2

\* A pair comes back.
LEMMA PairComesBack ==
    ASSUME NEW g, Kept(g), NEW p \in SizePairs, NEW t \in Seq(Digit)
    PROVE  /\ SerializePair(p) \in Seq(Digit)
           /\ UnserializePair(Stand(g, SerializePair(p) \o t)) = Stand(Append(g, p), t)
<1> DEFINE x == p[1]
           y == p[2]
           a == WriteCompactSize(x)
           b == WriteCompactSize(y)
           g1 == Append(g, x)
           u == b \o t
<1>1. x \in SizeRange /\ y \in SizeRange /\ p = <<x, y>>
  BY DEF SizePairs
<1> HIDE DEF x, y
<1>2. a \in Seq(Digit) /\ b \in Seq(Digit)
  BY <1>1, EmptyKept, SizeComesBack
<1>3. SerializePair(p) = a \o b
  BY DEF SerializePair, x, y
<1>4. u \in Seq(Digit) /\ a \o b \in Seq(Digit) /\ (a \o b) \o t = a \o u
  <2> HIDE DEF a, b
  <2> QED
    BY <1>2, BytesAssociate
<1>5. Kept(g1)
  BY KeptMore
<1>6. ReadCompactSize(Stand(g, a \o u)) = Stand(g1, u)
  <2> HIDE DEF u
  <2> QED
    BY <1>1, <1>4, SizeComesBack
<1>7. ReadCompactSize(Stand(g1, b \o t)) = Stand(Append(g1, y), t)
  <2> HIDE DEF g1
  <2> QED
    BY <1>1, <1>5, SizeComesBack
<1>8. AsPair(Stand(Append(Append(g, x), y), t)) = Stand(Append(g, <<x, y>>), t)
  BY MadePair
<1> HIDE DEF a, b
<1>9. UnserializePair(Stand(g, a \o u)) = Stand(Append(g, p), t)
  BY <1>1, <1>6, <1>7, <1>8, ContainersAre, Zenon
<1> QED
  BY <1>3, <1>4, <1>9, Zenon

\* A pair that is accepted.
LEMMA PairTells ==
    ASSUME NEW g, Kept(g), NEW s \in Seq(Digit), UnserializePair(Stand(g, s)).ok
    PROVE  \E p \in SizePairs, t \in Seq(Digit) :
             /\ s = SerializePair(p) \o t
             /\ UnserializePair(Stand(g, s)) = Stand(Append(g, p), t)
<1> DEFINE r1 == ReadCompactSize(Stand(g, s))
           r2 == ReadCompactSize(r1)
<1>1. UnserializePair(Stand(g, s)) = AsPair(r2)
  BY ContainersAre, Zenon
<1>2. r1.ok /\ r2.ok
  BY <1>1, SizeFails, ContainersFail, Zenon
<1>3. PICK x \in SizeRange, s1 \in Seq(Digit) : s = WriteCompactSize(x) \o s1 /\ r1 = Stand(Append(g, x), s1)
  BY <1>2, SizeInTells
<1> HIDE DEF r1
<1>4. PICK y \in SizeRange, t \in Seq(Digit) : s1 = WriteCompactSize(y) \o t
  <2> DEFINE g1 == Append(g, x)
  <2>1. Kept(g1) /\ ReadCompactSize(Stand(g1, s1)).ok
    BY <1>2, <1>3, KeptMore
  <2> HIDE DEF g1
  <2> QED
    BY <2>1, SizeInTells
<1> DEFINE p == <<x, y>>
<1>5. p \in SizePairs /\ SerializePair(p) = WriteCompactSize(x) \o WriteCompactSize(y)
  BY DEF SizePairs, SerializePair
<1> HIDE DEF p
<1>6. s = SerializePair(p) \o t
  <2>1. WriteCompactSize(x) \in Seq(Digit) /\ WriteCompactSize(y) \in Seq(Digit)
    BY EmptyKept, SizeComesBack
  <2>2. Shifts(WriteCompactSize(x), WriteCompactSize(y), t)
    BY <2>1, AllShift, Zenon
  <2> QED
    BY <1>3, <1>4, <1>5, <2>2, Zenon DEF Shifts
<1>7. UnserializePair(Stand(g, SerializePair(p) \o t)) = Stand(Append(g, p), t)
  BY <1>5, PairComesBack
<1> QED
  BY <1>5, <1>6, <1>7

\* The transactions that come back, how they are written in a block, and read.
PlainTxs == {tx \in CTransactions : Plain(tx)}
WireTx(tx) == SerializeTransaction(tx, TRUE)
ReadTx(r) == UnserializeTransaction(r, TRUE)
SerializeTxs(v) == SerializeVector([i \in DOMAIN v |-> WireTx(v[i])])

\* They do come back.
LEMMA TxComesBack ==
    ASSUME NEW g, Kept(g), NEW tx \in PlainTxs, NEW t \in Seq(Digit)
    PROVE  /\ WireTx(tx) \in Seq(Digit)
           /\ ReadTx(Stand(g, WireTx(tx) \o t)) = Stand(Append(g, tx), t)
<1>0. tx \in CTransactions /\ Plain(tx)
  BY DEF PlainTxs
<1>1. CASE HasWitness(tx)
  <2>1. WireTx(tx) = ExtendedForm(tx)
    BY <1>1, TxWritten, Zenon DEF WireTx, ExtendedForm
  <2>2. /\ ExtendedForm(tx) \in Seq(Digit)
        /\ UnserializeTransaction(Stand(g, ExtendedForm(tx) \o t), TRUE) = Stand(Append(g, tx), t)
    BY <1>0, ExtendedReads DEF ExtendedForm
  <2> QED
    BY <2>1, <2>2, Zenon DEF ReadTx
<1>2. CASE ~HasWitness(tx)
  <2>1. WireTx(tx) = PlainForm(tx)
    BY <1>2, TxWritten, Zenon DEF WireTx, PlainForm
  <2>2. /\ PlainForm(tx) \in Seq(Digit)
        /\ UnserializeTransaction(Stand(g, PlainForm(tx) \o t), TRUE) = Stand(Append(g, tx), t)
    BY <1>0, <1>2, PlainComesBack
  <2> QED
    BY <2>1, <2>2, Zenon DEF ReadTx
<1> QED
  BY <1>1, <1>2

\* Reading sizes, step by step.
SizesRule(c, f, i) == IF i = 0 THEN Emptied(c) ELSE Appended(ReadCompactSize(f[i - 1]))
SizesSteps(c) == CHOOSE f : f = [i \in 0..Top(c) |-> SizesRule(c, f, i)]

\* It is the last of the steps.
LEMMA SizesStepsAre ==
    \A r : UnserializeSizes(r) = SizesSteps(ReadCompactSize(r))[Top(ReadCompactSize(r))]
  BY Zenon DEF UnserializeSizes, UnserializeVector, Elements, SizesSteps, SizesRule, Emptied, Appended

\* They come back.
LEMMA SizesRead ==
    ASSUME NEW g, Kept(g), NEW v \in UpToMax(SizeRange), NEW t \in Seq(Digit)
    PROVE  /\ SerializeSizes(v) \in Seq(Digit)
           /\ UnserializeSizes(Stand(g, SerializeSizes(v) \o t)) = Stand(Append(g, v), t)
<1> DEFINE N == Len(v)
           ps == [i \in DOMAIN v |-> WriteCompactSize(v[i])]
           w == v
<1>1. v \in Seq(SizeRange) /\ N \in Nat /\ N <= MAX_SIZE /\ \A i \in 1..N : v[i] \in SizeRange
  BY DEF UpToMax
<1>2. Kept(<<>>) /\ <<>> \in Seq(Digit)
  BY DEF Kept
<1>3. \A x \in SizeRange : WriteCompactSize(x) \in Seq(Digit)
  BY <1>2, SizeComesBack
<1>4. ps \in Seq(Seq(Digit)) /\ Len(ps) = N /\ \A i \in 1..N : ps[i] = WriteCompactSize(v[i])
  <2>1. DOMAIN v = 1..N
    BY <1>1
  <2>2. \A i \in 1..N : ps[i] = WriteCompactSize(v[i]) /\ WriteCompactSize(v[i]) \in Seq(Digit)
    BY <1>1, <1>3, <2>1
  <2>3. ps \in [1..N -> Seq(Digit)]
    BY <2>1, <2>2
  <2> HIDE DEF ps
  <2>4. ps \in Seq(Seq(Digit)) /\ Len(ps) = N
    <3> DEFINE D == Seq(Digit)
    <3>1. ps \in [1..N -> D]
      BY <2>3
    <3> HIDE DEF D
    <3>2. ps \in Seq(D) /\ Len(ps) = N
      BY <1>1, <3>1, FunctionIsSeq
    <3> QED
      BY <3>2 DEF D
  <2> QED
    BY <2>2, <2>4
<1>5. Kept(w) /\ Len(w) = N /\ \A i \in 1..N : w[i] = v[i]
  BY <1>1 DEF Kept
<1>6. SerializeSizes(v) = SerializeVector(ps)
  BY DEF SerializeSizes
<1> HIDE DEF N, ps, w
<1>7. PICK B : Behinds(ps, B)
  BY <1>4, Flattened
<1> DEFINE c == Stand(Append(g, N), B[0] \o t)
           h == [i \in 0..N |-> VecState(g, w, B, t, i)]
           f == SizesSteps(c)
<1>8. /\ SerializeVector(ps) \in Seq(Digit)
      /\ ReadCompactSize(Stand(g, SerializeVector(ps) \o t)) = c
      /\ VecState(g, w, B, t, 0) = Emptied(c)
      /\ VecState(g, w, B, t, N) = Stand(Append(g, w), t)
      /\ VecGoesOn(g, ps, w, B, t)
  BY <1>1, <1>4, <1>5, <1>7, Vectors
<1>9. Top(c) = N
  BY TopOf
<1> HIDE DEF c
<1>10. ASSUME NEW i \in 1..N
       PROVE  VecState(g, w, B, t, i) = Appended(ReadCompactSize(VecState(g, w, B, t, i - 1)))
  <2> DEFINE g1 == Append(g, SubSeq(w, 1, i - 1))
             t1 == B[i] \o t
  <2>1. /\ Kept(g1) /\ t1 \in Seq(Digit)
        /\ VecState(g, w, B, t, i - 1) = Stand(g1, ps[i] \o t1)
        /\ Appended(Stand(Append(g1, w[i]), t1)) = VecState(g, w, B, t, i)
    BY <1>4, <1>8, Zenon DEF VecGoesOn
  <2> HIDE DEF g1, t1
  <2>2. v[i] \in SizeRange /\ ps[i] = WriteCompactSize(v[i]) /\ w[i] = v[i]
    BY <1>1, <1>4, <1>5
  <2>3. ReadCompactSize(Stand(g1, WriteCompactSize(v[i]) \o t1)) = Stand(Append(g1, v[i]), t1)
    BY <2>1, <2>2, SizeComesBack
  <2> QED
    BY <2>1, <2>2, <2>3, Zenon
<1>11. \A i \in 0..N : h[i] = SizesRule(c, h, i)
  <2> SUFFICES ASSUME NEW i \in 0..N PROVE h[i] = SizesRule(c, h, i)
    OBVIOUS
  <2>1. h[i] = VecState(g, w, B, t, i)
    OBVIOUS
  <2>2. CASE i = 0
    BY <1>8, <2>1, <2>2 DEF SizesRule
  <2>3. CASE i # 0
    <3>1. i \in 1..N /\ i - 1 \in 0..N
      BY <1>1, <2>3
    <3>2. h[i - 1] = VecState(g, w, B, t, i - 1)
      BY <3>1
    <3> HIDE DEF h
    <3> QED
      BY <1>10, <2>1, <2>3, <3>1, <3>2 DEF SizesRule
  <2> QED
    BY <2>2, <2>3
<1>12. \A i \in 0..N : f[i] = SizesRule(c, f, i)
  <2>1. h = [i \in 0..N |-> SizesRule(c, h, i)]
    BY <1>11
  <2>2. \E x : x = [i \in 0..Top(c) |-> SizesRule(c, x, i)]
    BY <1>9, <2>1
  <2>3. f = [i \in 0..N |-> SizesRule(c, f, i)]
    BY <1>9, <2>2 DEF SizesSteps
  <2> QED
    BY <2>3
<1>13. h[N] = VecState(g, w, B, t, N) /\ N \in 0..N
  BY <1>1
<1> HIDE DEF f, h
<1>14. f[N] = h[N]
  <2>1. f[0] = h[0]
    <3>1. 0 \in 0..N
      BY <1>1
    <3> QED
      BY <1>11, <1>12, <3>1 DEF SizesRule
  <2>2. \A k \in 1..N : f[k - 1] = h[k - 1] => f[k] = h[k]
    <3> SUFFICES ASSUME NEW k \in 1..N, f[k - 1] = h[k - 1] PROVE f[k] = h[k]
      OBVIOUS
    <3>1. k \in 0..N /\ k # 0
      BY <1>1
    <3>2. SizesRule(c, f, k) = SizesRule(c, h, k)
      BY <3>1 DEF SizesRule
    <3> QED
      BY <1>11, <1>12, <3>1, <3>2
  <2>3. GoOnAlike(N, f, h)
    BY <2>1, <2>2 DEF GoOnAlike
  <2>4. \A x, y : GoOnAlike(N, x, y) => \A k \in 0..N : x[k] = y[k]
    BY <1>1, AllAlong
  <2> QED
    BY <1>13, <2>3, <2>4, Zenon
<1>15. UnserializeSizes(Stand(g, SerializeVector(ps) \o t)) = f[N]
  BY <1>8, <1>9, SizesStepsAre, Zenon DEF f
<1>16. UnserializeSizes(Stand(g, SerializeVector(ps) \o t)) = Stand(Append(g, w), t)
  BY <1>8, <1>13, <1>14, <1>15, Zenon
<1> QED
  BY <1>6, <1>8, <1>16 DEF w

\* It goes by its rule.
LEMMA SizesStepsGo ==
    ASSUME NEW c, Top(c) \in Nat
    PROVE  /\ SizesSteps(c)[0] = Emptied(c)
           /\ \A k \in 1..Top(c) : SizesSteps(c)[k] = Appended(ReadCompactSize(SizesSteps(c)[k - 1]))
<1> DEFINE T == {m \in Nat : \E f : f = [k \in 0..m |-> SizesRule(c, f, k)]}
<1>1. ASSUME NEW m \in Nat, \A j \in 0..(m - 1) : j \in T PROVE m \in T
  <2>1. CASE m = 0
    <3> DEFINE f == [k \in 0..m |-> Emptied(c)]
    <3>1. \A k \in 0..m : f[k] = SizesRule(c, f, k)
      BY <2>1 DEF SizesRule
    <3>2. f = [k \in 0..m |-> SizesRule(c, f, k)]
      BY <3>1
    <3> QED
      BY <3>2
  <2>2. CASE m # 0
    <3>1. m - 1 \in 0..(m - 1) /\ m - 1 \in Nat
      BY <2>2
    <3>2. PICK h : h = [k \in 0..(m - 1) |-> SizesRule(c, h, k)]
      BY <1>1, <3>1
    <3> DEFINE z == Appended(ReadCompactSize(h[m - 1]))
               f == [k \in 0..m |-> IF k < m THEN h[k] ELSE z]
    <3>3. \A k \in 0..m : f[k] = SizesRule(c, f, k)
      <4> SUFFICES ASSUME NEW k \in 0..m PROVE f[k] = SizesRule(c, f, k)
        OBVIOUS
      <4>1. CASE k = m
        <5>1. f[m] = z /\ f[m - 1] = h[m - 1]
          BY <2>2
        <5> HIDE DEF f
        <5> QED
          BY <2>2, <4>1, <5>1 DEF SizesRule
      <4>2. CASE k # m
        <5>1. k \in 0..(m - 1) /\ k < m
          BY <4>2
        <5>2. f[k] = h[k] /\ h[k] = SizesRule(c, h, k)
          BY <3>2, <5>1
        <5>3. CASE k = 0
          <6> HIDE DEF f, z
          <6> QED
            BY <5>2, <5>3 DEF SizesRule
        <5>4. CASE k # 0
          <6>1. f[k - 1] = h[k - 1]
            BY <5>1, <5>4
          <6> HIDE DEF f, z
          <6> QED
            BY <5>2, <5>4, <6>1 DEF SizesRule
        <5> QED
          BY <5>3, <5>4
      <4> QED
        BY <4>1, <4>2
    <3>4. f = [k \in 0..m |-> SizesRule(c, f, k)]
      BY <3>3
    <3> QED
      BY <3>4
  <2> QED
    BY <2>1, <2>2
<1>2. \A m \in Nat : m \in T
  <2> HIDE DEF T
  <2> QED
    BY <1>1, Induct
<1>3. Top(c) \in Nat
  OBVIOUS
<1> DEFINE f == SizesSteps(c)
<1>4. f = [k \in 0..Top(c) |-> SizesRule(c, f, k)]
  BY <1>2, <1>3 DEF SizesSteps
<1>5. \A k \in 0..Top(c) : f[k] = SizesRule(c, f, k)
  BY <1>4
<1> HIDE DEF f
<1>6. f[0] = Emptied(c)
  <2>1. 0 \in 0..Top(c)
    BY <1>3
  <2> QED
    BY <1>5, <2>1 DEF SizesRule
<1>7. \A k \in 1..Top(c) : f[k] = Appended(ReadCompactSize(f[k - 1]))
  <2> SUFFICES ASSUME NEW k \in 1..Top(c) PROVE f[k] = Appended(ReadCompactSize(f[k - 1]))
    OBVIOUS
  <2>1. k \in 0..Top(c) /\ k # 0
    BY <1>3
  <2> QED
    BY <1>5, <2>1 DEF SizesRule
<1> QED
  BY <1>6, <1>7 DEF f

\* Sizes that are accepted.
LEMMA SizesTell ==
    ASSUME NEW g, Kept(g), NEW s \in Seq(Digit), UnserializeSizes(Stand(g, s)).ok
    PROVE  \E v \in UpToMax(SizeRange), t \in Seq(Digit) :
             /\ s = SerializeSizes(v) \o t
             /\ UnserializeSizes(Stand(g, s)) = Stand(Append(g, v), t)
<1> DEFINE c == ReadCompactSize(Stand(g, s))
           f == SizesSteps(c)
           ser == [x \in SizeRange |-> WriteCompactSize(x)]
<1>1. UnserializeSizes(Stand(g, s)) = f[Top(c)]
  BY SizesStepsAre, Zenon
<1>2. c.ok
  <2> SUFFICES ASSUME ~c.ok PROVE FALSE
    OBVIOUS
  <2>1. Top(c) = 0 /\ ~Emptied(c).ok
    BY MadeFails, Zenon
  <2>2. f[0] = Emptied(c)
    <3>1. Top(c) \in Nat
      BY <2>1
    <3> HIDE DEF c
    <3> QED
      BY <3>1, SizesStepsGo
  <2> QED
    BY <1>1, <2>1, <2>2, Zenon
<1>3. PICK n \in Nat, s1 \in Seq(Digit) :
        n <= MAX_SIZE /\ s = WriteCompactSize(n) \o s1 /\ c = Stand(Append(g, n), s1)
  BY <1>2, SizeTells
<1> HIDE DEF c
<1>4. Top(c) = n
  BY <1>3, TopOf
<1>5. f[0] = Emptied(c) /\ \A k \in 1..n : f[k] = Appended(ReadCompactSize(f[k - 1]))
  BY <1>4, SizesStepsGo
<1>6. f[0] = Stand(Append(g, <<>>), s1)
  BY <1>3, <1>5, MadeNothing
<1> HIDE DEF f
<1>7. StaysDown(f, n)
  <2>1. \A q : ~q.ok => ~ReadCompactSize(q).ok
    BY SizeFails, Zenon
  <2>2. \A q : ~q.ok => ~Appended(ReadCompactSize(q)).ok
    BY <2>1, MadeFails, Zenon
  <2> QED
    BY <1>5, <2>2 DEF StaysDown
<1>8. ser \in [SizeRange -> Seq(Digit)]
  <2>1. \A x \in SizeRange : WriteCompactSize(x) \in Seq(Digit)
    BY EmptyKept, SizeComesBack
  <2> QED
    BY <2>1
<1>9. \A x \in SizeRange : ser[x] = WriteCompactSize(x)
  OBVIOUS
<1> HIDE DEF ser
<1>10. ReadsOn(f, n, g, SizeRange, ser)
  <2> SUFFICES ASSUME NEW i \in 1..n, NEW v \in Seq(SizeRange), NEW t \in Seq(Digit),
                      f[i - 1] = Stand(Append(g, v), t), f[i].ok
               PROVE  \E x \in SizeRange, u \in Seq(Digit) :
                        f[i] = Stand(Append(g, Append(v, x)), u) /\ t = ser[x] \o u
    BY DEF ReadsOn
  <2> DEFINE g1 == Append(g, v)
             r == ReadCompactSize(Stand(g1, t))
  <2>1. Kept(g1)
    BY KeptMore
  <2>2. f[i] = Appended(r)
    BY <1>5
  <2>3. r.ok
    BY <2>2, MadeFails, Zenon
  <2> HIDE DEF g1
  <2>4. PICK x \in SizeRange, u \in Seq(Digit) : t = WriteCompactSize(x) \o u /\ r = Stand(Append(g1, x), u)
    BY <2>1, <2>3, SizeInTells
  <2> HIDE DEF r
  <2>5. Appended(Stand(Append(Append(g, v), x), u)) = Stand(Append(g, Append(v, x)), u)
    BY MadeAppend
  <2>6. f[i] = Stand(Append(g, Append(v, x)), u)
    BY <2>2, <2>4, <2>5, Zenon DEF g1
  <2> QED
    BY <1>9, <2>4, <2>6
<1>11. PICK v \in Seq(SizeRange), t \in Seq(Digit) :
         Len(v) = n /\ f[n] = Stand(Append(g, v), t) /\ s1 = FlattenSeq(PartsOf(ser, v)) \o t
  <2>1. f[n].ok
    BY <1>1, <1>4, Zenon
  <2>2. ReadVector(g, SizeRange, ser, n, f, s1)
    BY <1>6, <1>7, <1>8, <1>10, <2>1, AllVectorsTell, Zenon
  <2> QED
    BY <2>2, Zenon DEF ReadVector
<1> DEFINE ps == PartsOf(ser, v)
<1>12. ps = [i \in DOMAIN v |-> WriteCompactSize(v[i])]
  <2>1. \A i \in DOMAIN v : ser[v[i]] = WriteCompactSize(v[i])
    BY <1>9
  <2> QED
    BY <2>1 DEF PartsOf
<1>13. Len(ps) = n /\ FlattenSeq(ps) \in Seq(Digit)
  BY <1>8, <1>11, WholeParts
<1>14. SerializeSizes(v) = WriteCompactSize(n) \o FlattenSeq(ps)
  <2> HIDE DEF ps
  <2>1. SerializeSizes(v) = SerializeVector(ps)
    BY <1>12 DEF SerializeSizes
  <2> QED
    BY <1>13, <2>1, Zenon DEF SerializeVector
<1> HIDE DEF ps
<1>15. s = SerializeSizes(v) \o t
  <2>1. WriteCompactSize(n) \in Seq(Digit)
    BY CompactBytes
  <2>2. Shifts(WriteCompactSize(n), FlattenSeq(ps), t)
    BY <1>13, <2>1, AllShift, Zenon
  <2> QED
    BY <1>3, <1>11, <1>14, <2>2, Zenon DEF Shifts, ps
<1>16. v \in UpToMax(SizeRange)
  BY <1>3, <1>11 DEF UpToMax
<1> QED
  BY <1>1, <1>4, <1>11, <1>15, <1>16

\* Reading pairs, step by step.
PairsRule(c, f, i) == IF i = 0 THEN Emptied(c) ELSE Appended(UnserializePair(f[i - 1]))
PairsSteps(c) == CHOOSE f : f = [i \in 0..Top(c) |-> PairsRule(c, f, i)]

\* It is the last of the steps.
LEMMA PairsStepsAre ==
    \A r : UnserializePairs(r) = PairsSteps(ReadCompactSize(r))[Top(ReadCompactSize(r))]
  BY Zenon DEF UnserializePairs, UnserializeVector, Elements, PairsSteps, PairsRule, Emptied, Appended

\* They come back.
LEMMA PairsRead ==
    ASSUME NEW g, Kept(g), NEW v \in UpToMax(SizePairs), NEW t \in Seq(Digit)
    PROVE  /\ SerializePairs(v) \in Seq(Digit)
           /\ UnserializePairs(Stand(g, SerializePairs(v) \o t)) = Stand(Append(g, v), t)
<1> DEFINE N == Len(v)
           ps == [i \in DOMAIN v |-> SerializePair(v[i])]
           w == v
<1>1. v \in Seq(SizePairs) /\ N \in Nat /\ N <= MAX_SIZE /\ \A i \in 1..N : v[i] \in SizePairs
  BY DEF UpToMax
<1>2. Kept(<<>>) /\ <<>> \in Seq(Digit)
  BY DEF Kept
<1>3. \A x \in SizePairs : SerializePair(x) \in Seq(Digit)
  BY <1>2, PairComesBack
<1>4. ps \in Seq(Seq(Digit)) /\ Len(ps) = N /\ \A i \in 1..N : ps[i] = SerializePair(v[i])
  <2>1. DOMAIN v = 1..N
    BY <1>1
  <2>2. \A i \in 1..N : ps[i] = SerializePair(v[i]) /\ SerializePair(v[i]) \in Seq(Digit)
    BY <1>1, <1>3, <2>1
  <2>3. ps \in [1..N -> Seq(Digit)]
    BY <2>1, <2>2
  <2> HIDE DEF ps
  <2>4. ps \in Seq(Seq(Digit)) /\ Len(ps) = N
    <3> DEFINE D == Seq(Digit)
    <3>1. ps \in [1..N -> D]
      BY <2>3
    <3> HIDE DEF D
    <3>2. ps \in Seq(D) /\ Len(ps) = N
      BY <1>1, <3>1, FunctionIsSeq
    <3> QED
      BY <3>2 DEF D
  <2> QED
    BY <2>2, <2>4
<1>5. Kept(w) /\ Len(w) = N /\ \A i \in 1..N : w[i] = v[i]
  BY <1>1 DEF Kept
<1>6. SerializePairs(v) = SerializeVector(ps)
  BY DEF SerializePairs
<1> HIDE DEF N, ps, w
<1>7. PICK B : Behinds(ps, B)
  BY <1>4, Flattened
<1> DEFINE c == Stand(Append(g, N), B[0] \o t)
           h == [i \in 0..N |-> VecState(g, w, B, t, i)]
           f == PairsSteps(c)
<1>8. /\ SerializeVector(ps) \in Seq(Digit)
      /\ ReadCompactSize(Stand(g, SerializeVector(ps) \o t)) = c
      /\ VecState(g, w, B, t, 0) = Emptied(c)
      /\ VecState(g, w, B, t, N) = Stand(Append(g, w), t)
      /\ VecGoesOn(g, ps, w, B, t)
  BY <1>1, <1>4, <1>5, <1>7, Vectors
<1>9. Top(c) = N
  BY TopOf
<1> HIDE DEF c
<1>10. ASSUME NEW i \in 1..N
       PROVE  VecState(g, w, B, t, i) = Appended(UnserializePair(VecState(g, w, B, t, i - 1)))
  <2> DEFINE g1 == Append(g, SubSeq(w, 1, i - 1))
             t1 == B[i] \o t
  <2>1. /\ Kept(g1) /\ t1 \in Seq(Digit)
        /\ VecState(g, w, B, t, i - 1) = Stand(g1, ps[i] \o t1)
        /\ Appended(Stand(Append(g1, w[i]), t1)) = VecState(g, w, B, t, i)
    BY <1>4, <1>8, Zenon DEF VecGoesOn
  <2> HIDE DEF g1, t1
  <2>2. v[i] \in SizePairs /\ ps[i] = SerializePair(v[i]) /\ w[i] = v[i]
    BY <1>1, <1>4, <1>5
  <2>3. UnserializePair(Stand(g1, SerializePair(v[i]) \o t1)) = Stand(Append(g1, v[i]), t1)
    BY <2>1, <2>2, PairComesBack
  <2> QED
    BY <2>1, <2>2, <2>3, Zenon
<1>11. \A i \in 0..N : h[i] = PairsRule(c, h, i)
  <2> SUFFICES ASSUME NEW i \in 0..N PROVE h[i] = PairsRule(c, h, i)
    OBVIOUS
  <2>1. h[i] = VecState(g, w, B, t, i)
    OBVIOUS
  <2>2. CASE i = 0
    BY <1>8, <2>1, <2>2 DEF PairsRule
  <2>3. CASE i # 0
    <3>1. i \in 1..N /\ i - 1 \in 0..N
      BY <1>1, <2>3
    <3>2. h[i - 1] = VecState(g, w, B, t, i - 1)
      BY <3>1
    <3> HIDE DEF h
    <3> QED
      BY <1>10, <2>1, <2>3, <3>1, <3>2 DEF PairsRule
  <2> QED
    BY <2>2, <2>3
<1>12. \A i \in 0..N : f[i] = PairsRule(c, f, i)
  <2>1. h = [i \in 0..N |-> PairsRule(c, h, i)]
    BY <1>11
  <2>2. \E x : x = [i \in 0..Top(c) |-> PairsRule(c, x, i)]
    BY <1>9, <2>1
  <2>3. f = [i \in 0..N |-> PairsRule(c, f, i)]
    BY <1>9, <2>2 DEF PairsSteps
  <2> QED
    BY <2>3
<1>13. h[N] = VecState(g, w, B, t, N) /\ N \in 0..N
  BY <1>1
<1> HIDE DEF f, h
<1>14. f[N] = h[N]
  <2>1. f[0] = h[0]
    <3>1. 0 \in 0..N
      BY <1>1
    <3> QED
      BY <1>11, <1>12, <3>1 DEF PairsRule
  <2>2. \A k \in 1..N : f[k - 1] = h[k - 1] => f[k] = h[k]
    <3> SUFFICES ASSUME NEW k \in 1..N, f[k - 1] = h[k - 1] PROVE f[k] = h[k]
      OBVIOUS
    <3>1. k \in 0..N /\ k # 0
      BY <1>1
    <3>2. PairsRule(c, f, k) = PairsRule(c, h, k)
      BY <3>1 DEF PairsRule
    <3> QED
      BY <1>11, <1>12, <3>1, <3>2
  <2>3. GoOnAlike(N, f, h)
    BY <2>1, <2>2 DEF GoOnAlike
  <2>4. \A x, y : GoOnAlike(N, x, y) => \A k \in 0..N : x[k] = y[k]
    BY <1>1, AllAlong
  <2> QED
    BY <1>13, <2>3, <2>4, Zenon
<1>15. UnserializePairs(Stand(g, SerializeVector(ps) \o t)) = f[N]
  BY <1>8, <1>9, PairsStepsAre, Zenon DEF f
<1>16. UnserializePairs(Stand(g, SerializeVector(ps) \o t)) = Stand(Append(g, w), t)
  BY <1>8, <1>13, <1>14, <1>15, Zenon
<1> QED
  BY <1>6, <1>8, <1>16 DEF w

\* It goes by its rule.
LEMMA PairsStepsGo ==
    ASSUME NEW c, Top(c) \in Nat
    PROVE  /\ PairsSteps(c)[0] = Emptied(c)
           /\ \A k \in 1..Top(c) : PairsSteps(c)[k] = Appended(UnserializePair(PairsSteps(c)[k - 1]))
<1> DEFINE T == {m \in Nat : \E f : f = [k \in 0..m |-> PairsRule(c, f, k)]}
<1>1. ASSUME NEW m \in Nat, \A j \in 0..(m - 1) : j \in T PROVE m \in T
  <2>1. CASE m = 0
    <3> DEFINE f == [k \in 0..m |-> Emptied(c)]
    <3>1. \A k \in 0..m : f[k] = PairsRule(c, f, k)
      BY <2>1 DEF PairsRule
    <3>2. f = [k \in 0..m |-> PairsRule(c, f, k)]
      BY <3>1
    <3> QED
      BY <3>2
  <2>2. CASE m # 0
    <3>1. m - 1 \in 0..(m - 1) /\ m - 1 \in Nat
      BY <2>2
    <3>2. PICK h : h = [k \in 0..(m - 1) |-> PairsRule(c, h, k)]
      BY <1>1, <3>1
    <3> DEFINE z == Appended(UnserializePair(h[m - 1]))
               f == [k \in 0..m |-> IF k < m THEN h[k] ELSE z]
    <3>3. \A k \in 0..m : f[k] = PairsRule(c, f, k)
      <4> SUFFICES ASSUME NEW k \in 0..m PROVE f[k] = PairsRule(c, f, k)
        OBVIOUS
      <4>1. CASE k = m
        <5>1. f[m] = z /\ f[m - 1] = h[m - 1]
          BY <2>2
        <5> HIDE DEF f
        <5> QED
          BY <2>2, <4>1, <5>1 DEF PairsRule
      <4>2. CASE k # m
        <5>1. k \in 0..(m - 1) /\ k < m
          BY <4>2
        <5>2. f[k] = h[k] /\ h[k] = PairsRule(c, h, k)
          BY <3>2, <5>1
        <5>3. CASE k = 0
          <6> HIDE DEF f, z
          <6> QED
            BY <5>2, <5>3 DEF PairsRule
        <5>4. CASE k # 0
          <6>1. f[k - 1] = h[k - 1]
            BY <5>1, <5>4
          <6> HIDE DEF f, z
          <6> QED
            BY <5>2, <5>4, <6>1 DEF PairsRule
        <5> QED
          BY <5>3, <5>4
      <4> QED
        BY <4>1, <4>2
    <3>4. f = [k \in 0..m |-> PairsRule(c, f, k)]
      BY <3>3
    <3> QED
      BY <3>4
  <2> QED
    BY <2>1, <2>2
<1>2. \A m \in Nat : m \in T
  <2> HIDE DEF T
  <2> QED
    BY <1>1, Induct
<1>3. Top(c) \in Nat
  OBVIOUS
<1> DEFINE f == PairsSteps(c)
<1>4. f = [k \in 0..Top(c) |-> PairsRule(c, f, k)]
  BY <1>2, <1>3 DEF PairsSteps
<1>5. \A k \in 0..Top(c) : f[k] = PairsRule(c, f, k)
  BY <1>4
<1> HIDE DEF f
<1>6. f[0] = Emptied(c)
  <2>1. 0 \in 0..Top(c)
    BY <1>3
  <2> QED
    BY <1>5, <2>1 DEF PairsRule
<1>7. \A k \in 1..Top(c) : f[k] = Appended(UnserializePair(f[k - 1]))
  <2> SUFFICES ASSUME NEW k \in 1..Top(c) PROVE f[k] = Appended(UnserializePair(f[k - 1]))
    OBVIOUS
  <2>1. k \in 0..Top(c) /\ k # 0
    BY <1>3
  <2> QED
    BY <1>5, <2>1 DEF PairsRule
<1> QED
  BY <1>6, <1>7 DEF f

\* Pairs that are accepted.
LEMMA PairsTell ==
    ASSUME NEW g, Kept(g), NEW s \in Seq(Digit), UnserializePairs(Stand(g, s)).ok
    PROVE  \E v \in UpToMax(SizePairs), t \in Seq(Digit) :
             /\ s = SerializePairs(v) \o t
             /\ UnserializePairs(Stand(g, s)) = Stand(Append(g, v), t)
<1> DEFINE c == ReadCompactSize(Stand(g, s))
           f == PairsSteps(c)
           ser == [x \in SizePairs |-> SerializePair(x)]
<1>1. UnserializePairs(Stand(g, s)) = f[Top(c)]
  BY PairsStepsAre, Zenon
<1>2. c.ok
  <2> SUFFICES ASSUME ~c.ok PROVE FALSE
    OBVIOUS
  <2>1. Top(c) = 0 /\ ~Emptied(c).ok
    BY MadeFails, Zenon
  <2>2. f[0] = Emptied(c)
    <3>1. Top(c) \in Nat
      BY <2>1
    <3> HIDE DEF c
    <3> QED
      BY <3>1, PairsStepsGo
  <2> QED
    BY <1>1, <2>1, <2>2, Zenon
<1>3. PICK n \in Nat, s1 \in Seq(Digit) :
        n <= MAX_SIZE /\ s = WriteCompactSize(n) \o s1 /\ c = Stand(Append(g, n), s1)
  BY <1>2, SizeTells
<1> HIDE DEF c
<1>4. Top(c) = n
  BY <1>3, TopOf
<1>5. f[0] = Emptied(c) /\ \A k \in 1..n : f[k] = Appended(UnserializePair(f[k - 1]))
  BY <1>4, PairsStepsGo
<1>6. f[0] = Stand(Append(g, <<>>), s1)
  BY <1>3, <1>5, MadeNothing
<1> HIDE DEF f
<1>7. StaysDown(f, n)
  <2>1. \A q : ~q.ok => ~UnserializePair(q).ok
    BY ContainersFail, Zenon
  <2>2. \A q : ~q.ok => ~Appended(UnserializePair(q)).ok
    BY <2>1, MadeFails, Zenon
  <2> QED
    BY <1>5, <2>2 DEF StaysDown
<1>8. ser \in [SizePairs -> Seq(Digit)]
  <2>1. \A x \in SizePairs : SerializePair(x) \in Seq(Digit)
    BY EmptyKept, PairComesBack
  <2> QED
    BY <2>1
<1>9. \A x \in SizePairs : ser[x] = SerializePair(x)
  OBVIOUS
<1> HIDE DEF ser
<1>10. ReadsOn(f, n, g, SizePairs, ser)
  <2> SUFFICES ASSUME NEW i \in 1..n, NEW v \in Seq(SizePairs), NEW t \in Seq(Digit),
                      f[i - 1] = Stand(Append(g, v), t), f[i].ok
               PROVE  \E x \in SizePairs, u \in Seq(Digit) :
                        f[i] = Stand(Append(g, Append(v, x)), u) /\ t = ser[x] \o u
    BY DEF ReadsOn
  <2> DEFINE g1 == Append(g, v)
             r == UnserializePair(Stand(g1, t))
  <2>1. Kept(g1)
    BY KeptMore
  <2>2. f[i] = Appended(r)
    BY <1>5
  <2>3. r.ok
    BY <2>2, MadeFails, Zenon
  <2> HIDE DEF g1
  <2>4. PICK x \in SizePairs, u \in Seq(Digit) : t = SerializePair(x) \o u /\ r = Stand(Append(g1, x), u)
    BY <2>1, <2>3, PairTells
  <2> HIDE DEF r
  <2>5. Appended(Stand(Append(Append(g, v), x), u)) = Stand(Append(g, Append(v, x)), u)
    BY MadeAppend
  <2>6. f[i] = Stand(Append(g, Append(v, x)), u)
    BY <2>2, <2>4, <2>5, Zenon DEF g1
  <2> QED
    BY <1>9, <2>4, <2>6
<1>11. PICK v \in Seq(SizePairs), t \in Seq(Digit) :
         Len(v) = n /\ f[n] = Stand(Append(g, v), t) /\ s1 = FlattenSeq(PartsOf(ser, v)) \o t
  <2>1. f[n].ok
    BY <1>1, <1>4, Zenon
  <2>2. ReadVector(g, SizePairs, ser, n, f, s1)
    BY <1>6, <1>7, <1>8, <1>10, <2>1, AllVectorsTell, Zenon
  <2> QED
    BY <2>2, Zenon DEF ReadVector
<1> DEFINE ps == PartsOf(ser, v)
<1>12. ps = [i \in DOMAIN v |-> SerializePair(v[i])]
  <2>1. \A i \in DOMAIN v : ser[v[i]] = SerializePair(v[i])
    BY <1>9
  <2> QED
    BY <2>1 DEF PartsOf
<1>13. Len(ps) = n /\ FlattenSeq(ps) \in Seq(Digit)
  BY <1>8, <1>11, WholeParts
<1>14. SerializePairs(v) = WriteCompactSize(n) \o FlattenSeq(ps)
  <2> HIDE DEF ps
  <2>1. SerializePairs(v) = SerializeVector(ps)
    BY <1>12 DEF SerializePairs
  <2> QED
    BY <1>13, <2>1, Zenon DEF SerializeVector
<1> HIDE DEF ps
<1>15. s = SerializePairs(v) \o t
  <2>1. WriteCompactSize(n) \in Seq(Digit)
    BY CompactBytes
  <2>2. Shifts(WriteCompactSize(n), FlattenSeq(ps), t)
    BY <1>13, <2>1, AllShift, Zenon
  <2> QED
    BY <1>3, <1>11, <1>14, <2>2, Zenon DEF Shifts, ps
<1>16. v \in UpToMax(SizePairs)
  BY <1>3, <1>11 DEF UpToMax
<1> QED
  BY <1>1, <1>4, <1>11, <1>15, <1>16

\* Reading the transactions of a block, step by step.
TxsRule(c, f, i) == IF i = 0 THEN Emptied(c) ELSE Appended(ReadTx(f[i - 1]))
TxsSteps(c) == CHOOSE f : f = [i \in 0..Top(c) |-> TxsRule(c, f, i)]

\* It is the last of the steps.
LEMMA TxsStepsAre ==
    \A r : UnserializeTxs(r) = TxsSteps(ReadCompactSize(r))[Top(ReadCompactSize(r))]
  BY Zenon DEF UnserializeTxs, UnserializeVector, Elements, TxsSteps, TxsRule, Emptied, Appended, ReadTx

\* They come back.
LEMMA TxsRead ==
    ASSUME NEW g, Kept(g), NEW v \in UpToMax(PlainTxs), NEW t \in Seq(Digit)
    PROVE  /\ SerializeTxs(v) \in Seq(Digit)
           /\ UnserializeTxs(Stand(g, SerializeTxs(v) \o t)) = Stand(Append(g, v), t)
<1> DEFINE N == Len(v)
           ps == [i \in DOMAIN v |-> WireTx(v[i])]
           w == v
<1>1. v \in Seq(PlainTxs) /\ N \in Nat /\ N <= MAX_SIZE /\ \A i \in 1..N : v[i] \in PlainTxs
  BY DEF UpToMax
<1>2. Kept(<<>>) /\ <<>> \in Seq(Digit)
  BY DEF Kept
<1>3. \A x \in PlainTxs : WireTx(x) \in Seq(Digit)
  BY <1>2, TxComesBack
<1>4. ps \in Seq(Seq(Digit)) /\ Len(ps) = N /\ \A i \in 1..N : ps[i] = WireTx(v[i])
  <2>1. DOMAIN v = 1..N
    BY <1>1
  <2>2. \A i \in 1..N : ps[i] = WireTx(v[i]) /\ WireTx(v[i]) \in Seq(Digit)
    BY <1>1, <1>3, <2>1
  <2>3. ps \in [1..N -> Seq(Digit)]
    BY <2>1, <2>2
  <2> HIDE DEF ps
  <2>4. ps \in Seq(Seq(Digit)) /\ Len(ps) = N
    <3> DEFINE D == Seq(Digit)
    <3>1. ps \in [1..N -> D]
      BY <2>3
    <3> HIDE DEF D
    <3>2. ps \in Seq(D) /\ Len(ps) = N
      BY <1>1, <3>1, FunctionIsSeq
    <3> QED
      BY <3>2 DEF D
  <2> QED
    BY <2>2, <2>4
<1>5. Kept(w) /\ Len(w) = N /\ \A i \in 1..N : w[i] = v[i]
  BY <1>1 DEF Kept
<1>6. SerializeTxs(v) = SerializeVector(ps)
  BY DEF SerializeTxs
<1> HIDE DEF N, ps, w
<1>7. PICK B : Behinds(ps, B)
  BY <1>4, Flattened
<1> DEFINE c == Stand(Append(g, N), B[0] \o t)
           h == [i \in 0..N |-> VecState(g, w, B, t, i)]
           f == TxsSteps(c)
<1>8. /\ SerializeVector(ps) \in Seq(Digit)
      /\ ReadCompactSize(Stand(g, SerializeVector(ps) \o t)) = c
      /\ VecState(g, w, B, t, 0) = Emptied(c)
      /\ VecState(g, w, B, t, N) = Stand(Append(g, w), t)
      /\ VecGoesOn(g, ps, w, B, t)
  BY <1>1, <1>4, <1>5, <1>7, Vectors
<1>9. Top(c) = N
  BY TopOf
<1> HIDE DEF c
<1>10. ASSUME NEW i \in 1..N
       PROVE  VecState(g, w, B, t, i) = Appended(ReadTx(VecState(g, w, B, t, i - 1)))
  <2> DEFINE g1 == Append(g, SubSeq(w, 1, i - 1))
             t1 == B[i] \o t
  <2>1. /\ Kept(g1) /\ t1 \in Seq(Digit)
        /\ VecState(g, w, B, t, i - 1) = Stand(g1, ps[i] \o t1)
        /\ Appended(Stand(Append(g1, w[i]), t1)) = VecState(g, w, B, t, i)
    BY <1>4, <1>8, Zenon DEF VecGoesOn
  <2> HIDE DEF g1, t1
  <2>2. v[i] \in PlainTxs /\ ps[i] = WireTx(v[i]) /\ w[i] = v[i]
    BY <1>1, <1>4, <1>5
  <2>3. ReadTx(Stand(g1, WireTx(v[i]) \o t1)) = Stand(Append(g1, v[i]), t1)
    BY <2>1, <2>2, TxComesBack
  <2> QED
    BY <2>1, <2>2, <2>3, Zenon
<1>11. \A i \in 0..N : h[i] = TxsRule(c, h, i)
  <2> SUFFICES ASSUME NEW i \in 0..N PROVE h[i] = TxsRule(c, h, i)
    OBVIOUS
  <2>1. h[i] = VecState(g, w, B, t, i)
    OBVIOUS
  <2>2. CASE i = 0
    BY <1>8, <2>1, <2>2 DEF TxsRule
  <2>3. CASE i # 0
    <3>1. i \in 1..N /\ i - 1 \in 0..N
      BY <1>1, <2>3
    <3>2. h[i - 1] = VecState(g, w, B, t, i - 1)
      BY <3>1
    <3> HIDE DEF h
    <3> QED
      BY <1>10, <2>1, <2>3, <3>1, <3>2 DEF TxsRule
  <2> QED
    BY <2>2, <2>3
<1>12. \A i \in 0..N : f[i] = TxsRule(c, f, i)
  <2>1. h = [i \in 0..N |-> TxsRule(c, h, i)]
    BY <1>11
  <2>2. \E x : x = [i \in 0..Top(c) |-> TxsRule(c, x, i)]
    BY <1>9, <2>1
  <2>3. f = [i \in 0..N |-> TxsRule(c, f, i)]
    BY <1>9, <2>2 DEF TxsSteps
  <2> QED
    BY <2>3
<1>13. h[N] = VecState(g, w, B, t, N) /\ N \in 0..N
  BY <1>1
<1> HIDE DEF f, h
<1>14. f[N] = h[N]
  <2>1. f[0] = h[0]
    <3>1. 0 \in 0..N
      BY <1>1
    <3> QED
      BY <1>11, <1>12, <3>1 DEF TxsRule
  <2>2. \A k \in 1..N : f[k - 1] = h[k - 1] => f[k] = h[k]
    <3> SUFFICES ASSUME NEW k \in 1..N, f[k - 1] = h[k - 1] PROVE f[k] = h[k]
      OBVIOUS
    <3>1. k \in 0..N /\ k # 0
      BY <1>1
    <3>2. TxsRule(c, f, k) = TxsRule(c, h, k)
      BY <3>1 DEF TxsRule
    <3> QED
      BY <1>11, <1>12, <3>1, <3>2
  <2>3. GoOnAlike(N, f, h)
    BY <2>1, <2>2 DEF GoOnAlike
  <2>4. \A x, y : GoOnAlike(N, x, y) => \A k \in 0..N : x[k] = y[k]
    BY <1>1, AllAlong
  <2> QED
    BY <1>13, <2>3, <2>4, Zenon
<1>15. UnserializeTxs(Stand(g, SerializeVector(ps) \o t)) = f[N]
  BY <1>8, <1>9, TxsStepsAre, Zenon DEF f
<1>16. UnserializeTxs(Stand(g, SerializeVector(ps) \o t)) = Stand(Append(g, w), t)
  BY <1>8, <1>13, <1>14, <1>15, Zenon
<1> QED
  BY <1>6, <1>8, <1>16 DEF w

\* It goes by its rule.
LEMMA TxsStepsGo ==
    ASSUME NEW c, Top(c) \in Nat
    PROVE  /\ TxsSteps(c)[0] = Emptied(c)
           /\ \A k \in 1..Top(c) : TxsSteps(c)[k] = Appended(ReadTx(TxsSteps(c)[k - 1]))
<1> DEFINE T == {m \in Nat : \E f : f = [k \in 0..m |-> TxsRule(c, f, k)]}
<1>1. ASSUME NEW m \in Nat, \A j \in 0..(m - 1) : j \in T PROVE m \in T
  <2>1. CASE m = 0
    <3> DEFINE f == [k \in 0..m |-> Emptied(c)]
    <3>1. \A k \in 0..m : f[k] = TxsRule(c, f, k)
      BY <2>1 DEF TxsRule
    <3>2. f = [k \in 0..m |-> TxsRule(c, f, k)]
      BY <3>1
    <3> QED
      BY <3>2
  <2>2. CASE m # 0
    <3>1. m - 1 \in 0..(m - 1) /\ m - 1 \in Nat
      BY <2>2
    <3>2. PICK h : h = [k \in 0..(m - 1) |-> TxsRule(c, h, k)]
      BY <1>1, <3>1
    <3> DEFINE z == Appended(ReadTx(h[m - 1]))
               f == [k \in 0..m |-> IF k < m THEN h[k] ELSE z]
    <3>3. \A k \in 0..m : f[k] = TxsRule(c, f, k)
      <4> SUFFICES ASSUME NEW k \in 0..m PROVE f[k] = TxsRule(c, f, k)
        OBVIOUS
      <4>1. CASE k = m
        <5>1. f[m] = z /\ f[m - 1] = h[m - 1]
          BY <2>2
        <5> HIDE DEF f
        <5> QED
          BY <2>2, <4>1, <5>1 DEF TxsRule
      <4>2. CASE k # m
        <5>1. k \in 0..(m - 1) /\ k < m
          BY <4>2
        <5>2. f[k] = h[k] /\ h[k] = TxsRule(c, h, k)
          BY <3>2, <5>1
        <5>3. CASE k = 0
          <6> HIDE DEF f, z
          <6> QED
            BY <5>2, <5>3 DEF TxsRule
        <5>4. CASE k # 0
          <6>1. f[k - 1] = h[k - 1]
            BY <5>1, <5>4
          <6> HIDE DEF f, z
          <6> QED
            BY <5>2, <5>4, <6>1 DEF TxsRule
        <5> QED
          BY <5>3, <5>4
      <4> QED
        BY <4>1, <4>2
    <3>4. f = [k \in 0..m |-> TxsRule(c, f, k)]
      BY <3>3
    <3> QED
      BY <3>4
  <2> QED
    BY <2>1, <2>2
<1>2. \A m \in Nat : m \in T
  <2> HIDE DEF T
  <2> QED
    BY <1>1, Induct
<1>3. Top(c) \in Nat
  OBVIOUS
<1> DEFINE f == TxsSteps(c)
<1>4. f = [k \in 0..Top(c) |-> TxsRule(c, f, k)]
  BY <1>2, <1>3 DEF TxsSteps
<1>5. \A k \in 0..Top(c) : f[k] = TxsRule(c, f, k)
  BY <1>4
<1> HIDE DEF f
<1>6. f[0] = Emptied(c)
  <2>1. 0 \in 0..Top(c)
    BY <1>3
  <2> QED
    BY <1>5, <2>1 DEF TxsRule
<1>7. \A k \in 1..Top(c) : f[k] = Appended(ReadTx(f[k - 1]))
  <2> SUFFICES ASSUME NEW k \in 1..Top(c) PROVE f[k] = Appended(ReadTx(f[k - 1]))
    OBVIOUS
  <2>1. k \in 0..Top(c) /\ k # 0
    BY <1>3
  <2> QED
    BY <1>5, <2>1 DEF TxsRule
<1> QED
  BY <1>6, <1>7 DEF f

-----------------------------------------------------------------------------
(* More bytes behind what is read *)

\* Of a stream with q at its end the same value is read, and q is left.
Grows(g, q, a, b) ==
    \E v, t : t \in Seq(Digit) /\ a = Stand(Append(g, v), t) /\ b = Stand(Append(g, v), t \o q)

\* A vector of bytes does not depend on what is behind it.
LEMMA BytesGrow ==
    ASSUME NEW g, Kept(g), NEW s \in Seq(Digit), UnserializeBytes(Stand(g, s)).ok, NEW q \in Seq(Digit)
    PROVE  Grows(g, q, UnserializeBytes(Stand(g, s)), UnserializeBytes(Stand(g, s \o q)))
<1>1. PICK v \in CScripts, t \in Seq(Digit) : s = SerializeBytes(v) \o t /\ UnserializeBytes(Stand(g, s)) = Stand(Append(g, v), t)
  BY BytesTell
<1> DEFINE u == t \o q
<1>2. u \in Seq(Digit)
  BY BytesAssociate
<1> HIDE DEF u
<1>3. SerializeBytes(v) \in Seq(Digit) /\ UnserializeBytes(Stand(g, SerializeBytes(v) \o u)) = Stand(Append(g, v), u)
  BY <1>2, BytesRead
<1>4. Shifts(SerializeBytes(v), t, q)
  BY <1>3, AllShift, Zenon
<1>5. s \o q = SerializeBytes(v) \o u
  BY <1>1, <1>4, Zenon DEF Shifts, u
<1> QED
  BY <1>1, <1>3, <1>5, Zenon DEF u, Grows

\* Nor does a string.
LEMMA StringGrow ==
    ASSUME NEW g, Kept(g), NEW s \in Seq(Digit), UnserializeString(Stand(g, s)).ok, NEW q \in Seq(Digit)
    PROVE  Grows(g, q, UnserializeString(Stand(g, s)), UnserializeString(Stand(g, s \o q)))
<1>1. PICK v \in CScripts, t \in Seq(Digit) : s = SerializeString(v) \o t /\ UnserializeString(Stand(g, s)) = Stand(Append(g, v), t)
  BY StringTell
<1> DEFINE u == t \o q
<1>2. u \in Seq(Digit)
  BY BytesAssociate
<1> HIDE DEF u
<1>3. SerializeString(v) \in Seq(Digit) /\ UnserializeString(Stand(g, SerializeString(v) \o u)) = Stand(Append(g, v), u)
  BY <1>2, StringRead
<1>4. Shifts(SerializeString(v), t, q)
  BY <1>3, AllShift, Zenon
<1>5. s \o q = SerializeString(v) \o u
  BY <1>1, <1>4, Zenon DEF Shifts, u
<1> QED
  BY <1>1, <1>3, <1>5, Zenon DEF u, Grows

\* Nor a size.
LEMMA SizeGrow ==
    ASSUME NEW g, Kept(g), NEW s \in Seq(Digit), ReadCompactSize(Stand(g, s)).ok, NEW q \in Seq(Digit)
    PROVE  Grows(g, q, ReadCompactSize(Stand(g, s)), ReadCompactSize(Stand(g, s \o q)))
<1>1. PICK v \in SizeRange, t \in Seq(Digit) : s = WriteCompactSize(v) \o t /\ ReadCompactSize(Stand(g, s)) = Stand(Append(g, v), t)
  BY SizeInTells
<1> DEFINE u == t \o q
<1>2. u \in Seq(Digit)
  BY BytesAssociate
<1> HIDE DEF u
<1>3. WriteCompactSize(v) \in Seq(Digit) /\ ReadCompactSize(Stand(g, WriteCompactSize(v) \o u)) = Stand(Append(g, v), u)
  BY <1>2, SizeComesBack
<1>4. Shifts(WriteCompactSize(v), t, q)
  BY <1>3, AllShift, Zenon
<1>5. s \o q = WriteCompactSize(v) \o u
  BY <1>1, <1>4, Zenon DEF Shifts, u
<1> QED
  BY <1>1, <1>3, <1>5, Zenon DEF u, Grows

\* Nor a vector of sizes.
LEMMA SizesGrow ==
    ASSUME NEW g, Kept(g), NEW s \in Seq(Digit), UnserializeSizes(Stand(g, s)).ok, NEW q \in Seq(Digit)
    PROVE  Grows(g, q, UnserializeSizes(Stand(g, s)), UnserializeSizes(Stand(g, s \o q)))
<1>1. PICK v \in UpToMax(SizeRange), t \in Seq(Digit) : s = SerializeSizes(v) \o t /\ UnserializeSizes(Stand(g, s)) = Stand(Append(g, v), t)
  BY SizesTell
<1> DEFINE u == t \o q
<1>2. u \in Seq(Digit)
  BY BytesAssociate
<1> HIDE DEF u
<1>3. SerializeSizes(v) \in Seq(Digit) /\ UnserializeSizes(Stand(g, SerializeSizes(v) \o u)) = Stand(Append(g, v), u)
  BY <1>2, SizesRead
<1>4. Shifts(SerializeSizes(v), t, q)
  BY <1>3, AllShift, Zenon
<1>5. s \o q = SerializeSizes(v) \o u
  BY <1>1, <1>4, Zenon DEF Shifts, u
<1> QED
  BY <1>1, <1>3, <1>5, Zenon DEF u, Grows

\* Nor a vector of pairs.
LEMMA PairsGrow ==
    ASSUME NEW g, Kept(g), NEW s \in Seq(Digit), UnserializePairs(Stand(g, s)).ok, NEW q \in Seq(Digit)
    PROVE  Grows(g, q, UnserializePairs(Stand(g, s)), UnserializePairs(Stand(g, s \o q)))
<1>1. PICK v \in UpToMax(SizePairs), t \in Seq(Digit) : s = SerializePairs(v) \o t /\ UnserializePairs(Stand(g, s)) = Stand(Append(g, v), t)
  BY PairsTell
<1> DEFINE u == t \o q
<1>2. u \in Seq(Digit)
  BY BytesAssociate
<1> HIDE DEF u
<1>3. SerializePairs(v) \in Seq(Digit) /\ UnserializePairs(Stand(g, SerializePairs(v) \o u)) = Stand(Append(g, v), u)
  BY <1>2, PairsRead
<1>4. Shifts(SerializePairs(v), t, q)
  BY <1>3, AllShift, Zenon
<1>5. s \o q = SerializePairs(v) \o u
  BY <1>1, <1>4, Zenon DEF Shifts, u
<1> QED
  BY <1>1, <1>3, <1>5, Zenon DEF u, Grows

\* Nor a transaction.
LEMMA TxGrow ==
    \A g, s, q : Kept(g) /\ s \in Seq(Digit) /\ q \in Seq(Digit) /\ ReadTx(Stand(g, s)).ok
                 => Grows(g, q, ReadTx(Stand(g, s)), ReadTx(Stand(g, s \o q)))
<1> SUFFICES ASSUME NEW g, NEW s, NEW q, Kept(g), s \in Seq(Digit), q \in Seq(Digit), ReadTx(Stand(g, s)).ok
             PROVE  Grows(g, q, ReadTx(Stand(g, s)), ReadTx(Stand(g, s \o q)))
  BY Zenon
<1>1. PICK tx \in CTransactions, t \in Seq(Digit) :
        /\ UnserializeTransaction(Stand(g, s), TRUE) = Stand(Append(g, tx), t)
        /\ \/ s = PlainForm(tx) \o t /\ ~HasWitness(tx) /\ Plain(tx)
           \/ s = ExtendedForm(tx) \o t
  <2>1. TellsTx(g, s)
    <3>1. UnserializeTransaction(Stand(g, s), TRUE).ok
      BY DEF ReadTx
    <3> QED
      BY <3>1, TxTells
  <2> QED
    BY <2>1, Zenon DEF TellsTx
<1> DEFINE u == t \o q
<1>2. u \in Seq(Digit)
  BY BytesAssociate
<1>3. CASE s = PlainForm(tx) \o t /\ ~HasWitness(tx) /\ Plain(tx)
  <2> HIDE DEF u
  <2>1. /\ PlainForm(tx) \in Seq(Digit)
        /\ UnserializeTransaction(Stand(g, PlainForm(tx) \o u), TRUE) = Stand(Append(g, tx), u)
    BY <1>2, <1>3, PlainComesBack
  <2>2. Shifts(PlainForm(tx), t, q)
    BY <2>1, AllShift, Zenon
  <2>3. s \o q = PlainForm(tx) \o u
    BY <1>3, <2>2, Zenon DEF Shifts, u
  <2> QED
    BY <1>1, <2>1, <2>3, Zenon DEF u, Grows, ReadTx
<1>4. CASE s = ExtendedForm(tx) \o t
  <2> HIDE DEF u
  <2>1. /\ ExtendedForm(tx) \in Seq(Digit)
        /\ UnserializeTransaction(Stand(g, ExtendedForm(tx) \o u), TRUE) = Stand(Append(g, tx), u)
    BY <1>2, ExtendedReads DEF ExtendedForm
  <2>2. Shifts(ExtendedForm(tx), t, q)
    BY <2>1, AllShift, Zenon
  <2>3. s \o q = ExtendedForm(tx) \o u
    BY <1>4, <2>2, Zenon DEF Shifts, u
  <2> QED
    BY <1>1, <2>1, <2>3, Zenon DEF u, Grows, ReadTx
<1> QED
  BY <1>1, <1>3, <1>4

\* What grows, grows by one more value.
LEMMA GrowsMore ==
    \A g, q, f, h : Kept(g) /\ q \in Seq(Digit) /\ Grows(g, q, f, h) /\ Appended(ReadTx(f)).ok
                     => Grows(g, q, Appended(ReadTx(f)), Appended(ReadTx(h)))
<1> SUFFICES ASSUME NEW g, NEW q, NEW f, NEW h, Kept(g), q \in Seq(Digit), Grows(g, q, f, h),
                    Appended(ReadTx(f)).ok
             PROVE  Grows(g, q, Appended(ReadTx(f)), Appended(ReadTx(h)))
  BY Zenon
<1>1. PICK v, t : t \in Seq(Digit) /\ f = Stand(Append(g, v), t) /\ h = Stand(Append(g, v), t \o q)
  BY Zenon DEF Grows
<1> DEFINE g1 == Append(g, v)
<1>2. Kept(g1)
  BY KeptMore
<1>3. ReadTx(f).ok
  BY MadeFails, Zenon
<1> HIDE DEF g1
<1>4. ReadTx(Stand(g1, t)).ok
  BY <1>1, <1>3, Zenon DEF g1
<1>5. Grows(g1, q, ReadTx(Stand(g1, t)), ReadTx(Stand(g1, t \o q)))
  BY <1>1, <1>2, <1>4, TxGrow, Zenon
<1>6. PICK tx, u : /\ u \in Seq(Digit)
                   /\ ReadTx(f) = Stand(Append(g1, tx), u) /\ ReadTx(h) = Stand(Append(g1, tx), u \o q)
  BY <1>1, <1>5, Zenon DEF Grows, g1
<1>7. \A z : Appended(Stand(Append(g1, tx), z)) = Stand(Append(g, Append(v, tx)), z)
  BY MadeAppend DEF g1
<1>8. /\ Appended(ReadTx(f)) = Stand(Append(g, Append(v, tx)), u)
      /\ Appended(ReadTx(h)) = Stand(Append(g, Append(v, tx)), u \o q)
  BY <1>6, <1>7, Zenon
<1> QED
  BY <1>6, <1>8, Zenon DEF Grows

\* A stream that has thrown gives no transactions.
LEMMA TxsFail == \A r : ~r.ok => ~UnserializeTxs(r).ok
<1> SUFFICES ASSUME NEW r, ~r.ok PROVE ~UnserializeTxs(r).ok
  BY Zenon
<1> DEFINE c == ReadCompactSize(r)
<1>1. ~c.ok
  BY SizeFails, Zenon
<1>2. Top(c) = 0 /\ ~Emptied(c).ok
  BY <1>1, MadeFails, Zenon
<1>3. UnserializeTxs(r) = TxsSteps(c)[Top(c)]
  BY TxsStepsAre, Zenon
<1> HIDE DEF c
<1>4. TxsSteps(c)[0] = Emptied(c)
  BY <1>2, TxsStepsGo
<1> QED
  BY <1>2, <1>3, <1>4, Zenon

\* A vector of transactions does not depend on what is behind it.
LEMMA TxsGrow ==
    ASSUME NEW g, Kept(g), NEW s \in Seq(Digit), UnserializeTxs(Stand(g, s)).ok, NEW q \in Seq(Digit)
    PROVE  Grows(g, q, UnserializeTxs(Stand(g, s)), UnserializeTxs(Stand(g, s \o q)))
<1> DEFINE c == ReadCompactSize(Stand(g, s))
           d == ReadCompactSize(Stand(g, s \o q))
           f == TxsSteps(c)
           h == TxsSteps(d)
<1>1. UnserializeTxs(Stand(g, s)) = f[Top(c)] /\ UnserializeTxs(Stand(g, s \o q)) = h[Top(d)]
  BY TxsStepsAre, Zenon
<1>2. c.ok
  <2> SUFFICES ASSUME ~c.ok PROVE FALSE
    OBVIOUS
  <2>1. Top(c) = 0 /\ ~Emptied(c).ok
    BY MadeFails, Zenon
  <2>2. f[0] = Emptied(c)
    <3>1. Top(c) \in Nat
      BY <2>1
    <3> HIDE DEF c
    <3> QED
      BY <3>1, TxsStepsGo
  <2> QED
    BY <1>1, <2>1, <2>2, Zenon
<1>3. PICK n \in SizeRange, t \in Seq(Digit) :
        s = WriteCompactSize(n) \o t /\ c = Stand(Append(g, n), t)
  BY <1>2, SizeInTells
<1>4. d = Stand(Append(g, n), t \o q)
  <2> DEFINE u == t \o q
  <2>1. u \in Seq(Digit)
    BY BytesAssociate
  <2> HIDE DEF u
  <2>2. WriteCompactSize(n) \in Seq(Digit) /\ ReadCompactSize(Stand(g, WriteCompactSize(n) \o u)) = Stand(Append(g, n), u)
    BY <2>1, SizeComesBack
  <2>3. Shifts(WriteCompactSize(n), t, q)
    BY <2>2, AllShift, Zenon
  <2>4. s \o q = WriteCompactSize(n) \o u
    BY <1>3, <2>3, Zenon DEF Shifts, u
  <2> QED
    BY <2>2, <2>4, Zenon DEF u
<1> HIDE DEF c, d
<1>5. Top(c) = n /\ Top(d) = n /\ n \in Nat
  BY <1>3, <1>4, TopOf, SerializeAssumption DEF SizeRange
<1>6. f[0] = Emptied(c) /\ \A k \in 1..n : f[k] = Appended(ReadTx(f[k - 1]))
  BY <1>5, TxsStepsGo
<1>7. h[0] = Emptied(d) /\ \A k \in 1..n : h[k] = Appended(ReadTx(h[k - 1]))
  BY <1>5, TxsStepsGo
<1> HIDE DEF f, h
<1>8. Grows(g, q, f[0], h[0])
  <2>1. f[0] = Stand(Append(g, <<>>), t) /\ h[0] = Stand(Append(g, <<>>), t \o q)
    BY <1>3, <1>4, <1>6, <1>7, MadeNothing
  <2> QED
    BY <2>1, Zenon DEF Grows
<1> DEFINE T == {i \in Nat : i <= n /\ f[i].ok => Grows(g, q, f[i], h[i])}
<1>9. ASSUME NEW i \in Nat, \A m \in 0..(i - 1) : m \in T PROVE i \in T
  <2> SUFFICES ASSUME i <= n, f[i].ok, i # 0 PROVE Grows(g, q, f[i], h[i])
    BY <1>8
  <2>1. i \in 1..n /\ i - 1 \in 0..(i - 1) /\ i - 1 \in Nat /\ i - 1 <= n
    BY <1>5
  <2>2. f[i] = Appended(ReadTx(f[i - 1])) /\ h[i] = Appended(ReadTx(h[i - 1]))
    BY <1>6, <1>7, <2>1
  <2>3. Appended(ReadTx(f[i - 1])).ok
    BY <2>2
  <2>4. f[i - 1].ok
    BY <2>3, MadeFails, PartsFail, Zenon DEF ReadTx
  <2>5. Grows(g, q, f[i - 1], h[i - 1])
    <3>1. i - 1 \in T
      BY <1>9, <2>1
    <3> QED
      BY <2>1, <2>4, <3>1
  <2>6. Grows(g, q, Appended(ReadTx(f[i - 1])), Appended(ReadTx(h[i - 1])))
    BY <2>3, <2>5, GrowsMore, Zenon
  <2> QED
    BY <2>2, <2>6
<1>10. \A i \in Nat : i \in T
  <2> HIDE DEF T
  <2> QED
    BY <1>9, Induct
<1>11. n \in T /\ f[n].ok
  BY <1>1, <1>5, <1>10
<1>12. Grows(g, q, f[n], h[n])
  BY <1>5, <1>11
<1> QED
  BY <1>1, <1>5, <1>12, Zenon

\* Nor does a block.
LEMMA BlockGrow ==
    ASSUME NEW g, Kept(g), NEW s \in Seq(Digit), UnserializeBlock(Stand(g, s)).ok, NEW q \in Seq(Digit)
    PROVE  Grows(g, q, UnserializeBlock(Stand(g, s)), UnserializeBlock(Stand(g, s \o q)))
<1> DEFINE r == ReadBytes(Stand(g, s), HeaderFields)
<1>1. UnserializeBlock(Stand(g, s)) = AsBlock(UnserializeTxs(r))
  BY ContainersAre, Zenon
<1>2. UnserializeTxs(r).ok
  BY <1>1, ContainersFail, Zenon
<1>3. r.ok
  BY <1>2, TxsFail, Zenon
<1>4. PICK a \in Seq(Digit), t \in Seq(Digit) :
        Len(a) = HeaderFields /\ s = a \o t /\ r = Stand(Append(g, a), t)
  <2>1. HeaderFields \in Nat
    BY DEF HeaderFields
  <2> QED
    BY <1>3, <2>1, BytesThere
<1> DEFINE u == t \o q
<1>5. u \in Seq(Digit)
  BY BytesAssociate
<1>6. ReadBytes(Stand(g, s \o q), HeaderFields) = Stand(Append(g, a), u)
  <2>1. Shifts(a, t, q)
    BY AllShift, Zenon
  <2>2. s \o q = a \o u
    BY <1>4, <2>1, Zenon DEF Shifts
  <2>3. HeaderFields \in Nat
    BY DEF HeaderFields
  <2> HIDE DEF u
  <2>4. ReadBytes(Stand(g, a \o u), HeaderFields) = Stand(Append(g, a), u)
    BY <1>4, <1>5, <2>3, BytesNext
  <2> QED
    BY <2>2, <2>4, Zenon
<1> HIDE DEF r
<1> DEFINE g1 == Append(g, a)
<1>7. Kept(g1)
  BY KeptMore
<1>8. UnserializeTxs(Stand(g1, t)).ok
  BY <1>2, <1>4
<1> HIDE DEF g1
<1>9. Grows(g1, q, UnserializeTxs(Stand(g1, t)), UnserializeTxs(Stand(g1, t \o q)))
  BY <1>7, <1>8, TxsGrow
<1>10. PICK v, z : /\ z \in Seq(Digit)
                   /\ UnserializeTxs(Stand(g1, t)) = Stand(Append(g1, v), z)
                   /\ UnserializeTxs(Stand(g1, t \o q)) = Stand(Append(g1, v), z \o q)
  BY <1>9, Zenon DEF Grows
<1>11. \A x : AsBlock(Stand(Append(g1, v), x)) = Stand(Append(g, [header |-> a, vtx |-> v]), x)
  BY MadeBlock DEF g1
<1>12. UnserializeBlock(Stand(g, s)) = Stand(Append(g, [header |-> a, vtx |-> v]), z)
  BY <1>1, <1>4, <1>10, <1>11, Zenon DEF g1
<1>13. UnserializeBlock(Stand(g, s \o q)) = Stand(Append(g, [header |-> a, vtx |-> v]), z \o q)
  BY <1>6, <1>10, <1>11, ContainersAre, Zenon DEF g1, u
<1> QED
  BY <1>10, <1>12, <1>13, Zenon DEF Grows

\* Nor a map, nor a set.
LEMMA MapGrow ==
    ASSUME NEW g, Kept(g), NEW s \in Seq(Digit), UnserializeMap(Stand(g, s)).ok, NEW q \in Seq(Digit)
    PROVE  Grows(g, q, UnserializeMap(Stand(g, s)), UnserializeMap(Stand(g, s \o q)))
<1>1. UnserializePairs(Stand(g, s)).ok
  BY ContainersAre, ContainersFail, Zenon
<1>2. Grows(g, q, UnserializePairs(Stand(g, s)), UnserializePairs(Stand(g, s \o q)))
  BY <1>1, PairsGrow
<1>3. PICK v, t : /\ t \in Seq(Digit)
                  /\ UnserializePairs(Stand(g, s)) = Stand(Append(g, v), t)
                  /\ UnserializePairs(Stand(g, s \o q)) = Stand(Append(g, v), t \o q)
  BY <1>2, Zenon DEF Grows
<1>4. \A x : AsMapOf(Stand(Append(g, v), x)) = Stand(Append(g, MapOf(v)), x)
  BY MadeMap
<1>5. /\ UnserializeMap(Stand(g, s)) = Stand(Append(g, MapOf(v)), t)
      /\ UnserializeMap(Stand(g, s \o q)) = Stand(Append(g, MapOf(v)), t \o q)
  BY <1>3, <1>4, ContainersAre, Zenon
<1> QED
  BY <1>3, <1>5, Zenon DEF Grows

\* The same of a set.
LEMMA SetGrow ==
    ASSUME NEW g, Kept(g), NEW s \in Seq(Digit), UnserializeSet(Stand(g, s)).ok, NEW q \in Seq(Digit)
    PROVE  Grows(g, q, UnserializeSet(Stand(g, s)), UnserializeSet(Stand(g, s \o q)))
<1>1. UnserializeSizes(Stand(g, s)).ok
  BY ContainersAre, ContainersFail, Zenon
<1>2. Grows(g, q, UnserializeSizes(Stand(g, s)), UnserializeSizes(Stand(g, s \o q)))
  BY <1>1, SizesGrow
<1>3. PICK v, t : /\ t \in Seq(Digit)
                  /\ UnserializeSizes(Stand(g, s)) = Stand(Append(g, v), t)
                  /\ UnserializeSizes(Stand(g, s \o q)) = Stand(Append(g, v), t \o q)
  BY <1>2, Zenon DEF Grows
<1>4. \A x : AsSetOf(Stand(Append(g, v), x)) = Stand(Append(g, ElementsOf(v)), x)
  BY MadeSet
<1>5. /\ UnserializeSet(Stand(g, s)) = Stand(Append(g, ElementsOf(v)), t)
      /\ UnserializeSet(Stand(g, s \o q)) = Stand(Append(g, ElementsOf(v)), t \o q)
  BY <1>3, <1>4, ContainersAre, Zenon
<1> QED
  BY <1>3, <1>5, Zenon DEF Grows

-----------------------------------------------------------------------------
(* What is written comes back *)

\* The bytes that are put behind a value.
Tails == {<<>>, <<0>>, <<1, Base - 1>>}

\* The reader rd, given bytes, takes value v from the front; and it leaves what is put
\* behind something it accepts.
Sends(rd, bytes, v) == \A t \in Seq(Digit) : rd[bytes \o t] = Stand(<<v>>, t)
Leaves(rd) == \A s, q \in Seq(Digit) : rd[s].ok => \E t \in Seq(Digit) : rd[s \o q].rest = t \o q

\* The value comes back from its bytes and from no fewer.
Restored(rd, bytes, v) ==
    /\ \A rest \in Tails : bytes \o rest \in Seq(Digit) /\ Reads(rd[bytes \o rest], v, rest)
    /\ \A n \in 0..(Len(bytes) - 1) :
          SubSeq(bytes, 1, n) \in Seq(Digit) /\ ~rd[SubSeq(bytes, 1, n)].ok

\* The first follows from the two others: were a part of the bytes accepted, something
\* of the others would be left.
LEMMA Restoring ==
    \A rd, bytes, v : bytes \in Seq(Digit) /\ Sends(rd, bytes, v) /\ Leaves(rd) => Restored(rd, bytes, v)
<1> SUFFICES ASSUME NEW rd, NEW bytes, NEW v, bytes \in Seq(Digit), Sends(rd, bytes, v), Leaves(rd)
             PROVE  Restored(rd, bytes, v)
  BY Zenon
<1>1. ASSUME NEW rest \in Tails PROVE bytes \o rest \in Seq(Digit) /\ Reads(rd[bytes \o rest], v, rest)
  <2>1. rest \in Seq(Digit)
    <3>1. 0 \in Digit /\ 1 \in Digit /\ Base - 1 \in Digit
      BY SerializeAssumption DEF Digit
    <3>2. <<>> \in Seq(Digit) /\ <<0>> \in Seq(Digit) /\ <<1, Base - 1>> \in Seq(Digit)
      BY <3>1
    <3> QED
      BY <3>2, Zenon DEF Tails
  <2>2. bytes \o rest \in Seq(Digit)
    BY <2>1
  <2>3. rd[bytes \o rest] = Stand(<<v>>, rest)
    BY <2>1, Zenon DEF Sends
  <2>4. Reads(Stand(<<v>>, rest), v, rest)
    BY Stands, Zenon DEF Reads
  <2> QED
    BY <2>2, <2>3, <2>4
<1>2. ASSUME NEW n \in 0..(Len(bytes) - 1)
      PROVE  SubSeq(bytes, 1, n) \in Seq(Digit) /\ ~rd[SubSeq(bytes, 1, n)].ok
  <2> DEFINE a == SubSeq(bytes, 1, n)
             b == SubSeq(bytes, n + 1, Len(bytes))
  <2>1. n \in Nat /\ n <= Len(bytes) /\ n < Len(bytes)
    OBVIOUS
  <2>2. a \in Seq(Digit) /\ b \in Seq(Digit) /\ a \o b = bytes /\ Len(b) = Len(bytes) - n
    BY <2>1, PartOf
  <2>3. Len(b) > 0
    BY <2>1, <2>2
  <2> HIDE DEF a, b
  <2>4. ASSUME rd[a].ok PROVE FALSE
    <3>1. PICK t \in Seq(Digit) : rd[a \o b].rest = t \o b
      BY <2>2, <2>4, Zenon DEF Leaves
    <3>2. <<>> \in Seq(Digit) /\ bytes \o <<>> = bytes
      OBVIOUS
    <3>3. rd[bytes \o <<>>] = Stand(<<v>>, <<>>)
      BY <3>2, Zenon DEF Sends
    <3>4. rd[bytes].rest = <<>>
      BY <3>2, <3>3, Stands
    <3>5. t \o b = <<>>
      BY <2>2, <3>1, <3>4
    <3>6. Len(t \o b) = Len(t) + Len(b) /\ Len(t) \in Nat /\ Len(b) \in Nat
      <4>1. ASSUME NEW x \in Seq(Digit), NEW y \in Seq(Digit)
            PROVE  Len(x \o y) = Len(x) + Len(y) /\ Len(x) \in Nat /\ Len(y) \in Nat
        OBVIOUS
      <4> QED
        BY <2>2, <4>1
    <3> QED
      BY <2>3, <3>5, <3>6
  <2> QED
    BY <2>2, <2>4 DEF a
<1> QED
  BY <1>1, <1>2, Zenon DEF Restored

\* What grows leaves what was put behind it.
LEMMA GrowsLeaves == \A q, a, b : Grows(<<>>, q, a, b) => \E t \in Seq(Digit) : b.rest = t \o q
<1> SUFFICES ASSUME NEW q, NEW a, NEW b, Grows(<<>>, q, a, b) PROVE \E t \in Seq(Digit) : b.rest = t \o q
  BY Zenon
<1>1. PICK v, t : t \in Seq(Digit) /\ b = Stand(Append(<<>>, v), t \o q)
  BY Zenon DEF Grows
<1>2. b.rest = t \o q
  BY <1>1, Stands, Zenon
<1> QED
  BY <1>1, <1>2, Zenon

\* Vectors of bytes come back.
LEMMA BytesRestored == \A v \in CScripts : Restores(SerializeBytes(v), UnserializeBytes, v)
<1> SUFFICES ASSUME NEW v \in CScripts PROVE Restores(SerializeBytes(v), UnserializeBytes, v)
  BY Zenon
<1> DEFINE rd == [s \in Seq(Digit) |-> UnserializeBytes(Start(s))]
           bytes == SerializeBytes(v)
<1>1. \A s \in Seq(Digit) : rd[s] = UnserializeBytes(Stand(<<>>, s)) /\ rd[s] = UnserializeBytes(Start(s))
  BY Stands
<1> HIDE DEF rd
<1>2. bytes \in Seq(Digit)
  BY EmptyKept, BytesRead
<1>3. Sends(rd, bytes, v)
  <2> SUFFICES ASSUME NEW t \in Seq(Digit) PROVE rd[bytes \o t] = Stand(<<v>>, t)
    BY Zenon DEF Sends
  <2>1. UnserializeBytes(Stand(<<>>, SerializeBytes(v) \o t)) = Stand(Append(<<>>, v), t)
    BY EmptyKept, BytesRead
  <2>2. bytes \o t \in Seq(Digit)
    BY <1>2, BytesAssociate
  <2> HIDE DEF bytes
  <2> QED
    BY <1>1, <2>1, <2>2, ReadableHolds, Zenon DEF bytes
<1>4. Leaves(rd)
  <2> SUFFICES ASSUME NEW s \in Seq(Digit), NEW q \in Seq(Digit), rd[s].ok
               PROVE  \E t \in Seq(Digit) : rd[s \o q].rest = t \o q
    BY Zenon DEF Leaves
  <2>1. UnserializeBytes(Stand(<<>>, s)).ok
    BY <1>1
  <2>2. Grows(<<>>, q, UnserializeBytes(Stand(<<>>, s)), UnserializeBytes(Stand(<<>>, s \o q)))
    BY <2>1, EmptyKept, BytesGrow
  <2>3. s \o q \in Seq(Digit)
    BY BytesAssociate
  <2> QED
    BY <1>1, <2>2, <2>3, GrowsLeaves, Zenon
<1> HIDE DEF bytes
<1>5. Restored(rd, bytes, v)
  BY <1>2, <1>3, <1>4, Restoring, Zenon
<1>6. Restores(bytes, UnserializeBytes, v)
  BY <1>1, <1>5, Zenon DEF Restored, Restores, Tails
<1> QED
  BY <1>6 DEF bytes

\* So do strings.
LEMMA StringRestored == \A v \in CScripts : Restores(SerializeString(v), UnserializeString, v)
<1> SUFFICES ASSUME NEW v \in CScripts PROVE Restores(SerializeString(v), UnserializeString, v)
  BY Zenon
<1> DEFINE rd == [s \in Seq(Digit) |-> UnserializeString(Start(s))]
           bytes == SerializeString(v)
<1>1. \A s \in Seq(Digit) : rd[s] = UnserializeString(Stand(<<>>, s)) /\ rd[s] = UnserializeString(Start(s))
  BY Stands
<1> HIDE DEF rd
<1>2. bytes \in Seq(Digit)
  BY EmptyKept, StringRead
<1>3. Sends(rd, bytes, v)
  <2> SUFFICES ASSUME NEW t \in Seq(Digit) PROVE rd[bytes \o t] = Stand(<<v>>, t)
    BY Zenon DEF Sends
  <2>1. UnserializeString(Stand(<<>>, SerializeString(v) \o t)) = Stand(Append(<<>>, v), t)
    BY EmptyKept, StringRead
  <2>2. bytes \o t \in Seq(Digit)
    BY <1>2, BytesAssociate
  <2> HIDE DEF bytes
  <2> QED
    BY <1>1, <2>1, <2>2, ReadableHolds, Zenon DEF bytes
<1>4. Leaves(rd)
  <2> SUFFICES ASSUME NEW s \in Seq(Digit), NEW q \in Seq(Digit), rd[s].ok
               PROVE  \E t \in Seq(Digit) : rd[s \o q].rest = t \o q
    BY Zenon DEF Leaves
  <2>1. UnserializeString(Stand(<<>>, s)).ok
    BY <1>1
  <2>2. Grows(<<>>, q, UnserializeString(Stand(<<>>, s)), UnserializeString(Stand(<<>>, s \o q)))
    BY <2>1, EmptyKept, StringGrow
  <2>3. s \o q \in Seq(Digit)
    BY BytesAssociate
  <2> QED
    BY <1>1, <2>2, <2>3, GrowsLeaves, Zenon
<1> HIDE DEF bytes
<1>5. Restored(rd, bytes, v)
  BY <1>2, <1>3, <1>4, Restoring, Zenon
<1>6. Restores(bytes, UnserializeString, v)
  BY <1>1, <1>5, Zenon DEF Restored, Restores, Tails
<1> QED
  BY <1>6 DEF bytes

\* So do vectors of sizes.
LEMMA SizesRestored == \A v \in UpToMax(SizeRange) : Restores(SerializeSizes(v), UnserializeSizes, v)
<1> SUFFICES ASSUME NEW v \in UpToMax(SizeRange) PROVE Restores(SerializeSizes(v), UnserializeSizes, v)
  BY Zenon
<1> DEFINE rd == [s \in Seq(Digit) |-> UnserializeSizes(Start(s))]
           bytes == SerializeSizes(v)
<1>1. \A s \in Seq(Digit) : rd[s] = UnserializeSizes(Stand(<<>>, s)) /\ rd[s] = UnserializeSizes(Start(s))
  BY Stands
<1> HIDE DEF rd
<1>2. bytes \in Seq(Digit)
  BY EmptyKept, SizesRead
<1>3. Sends(rd, bytes, v)
  <2> SUFFICES ASSUME NEW t \in Seq(Digit) PROVE rd[bytes \o t] = Stand(<<v>>, t)
    BY Zenon DEF Sends
  <2>1. UnserializeSizes(Stand(<<>>, SerializeSizes(v) \o t)) = Stand(Append(<<>>, v), t)
    BY EmptyKept, SizesRead
  <2>2. bytes \o t \in Seq(Digit)
    BY <1>2, BytesAssociate
  <2> HIDE DEF bytes
  <2> QED
    BY <1>1, <2>1, <2>2, ReadableHolds, Zenon DEF bytes
<1>4. Leaves(rd)
  <2> SUFFICES ASSUME NEW s \in Seq(Digit), NEW q \in Seq(Digit), rd[s].ok
               PROVE  \E t \in Seq(Digit) : rd[s \o q].rest = t \o q
    BY Zenon DEF Leaves
  <2>1. UnserializeSizes(Stand(<<>>, s)).ok
    BY <1>1
  <2>2. Grows(<<>>, q, UnserializeSizes(Stand(<<>>, s)), UnserializeSizes(Stand(<<>>, s \o q)))
    BY <2>1, EmptyKept, SizesGrow
  <2>3. s \o q \in Seq(Digit)
    BY BytesAssociate
  <2> QED
    BY <1>1, <2>2, <2>3, GrowsLeaves, Zenon
<1> HIDE DEF bytes
<1>5. Restored(rd, bytes, v)
  BY <1>2, <1>3, <1>4, Restoring, Zenon
<1>6. Restores(bytes, UnserializeSizes, v)
  BY <1>1, <1>5, Zenon DEF Restored, Restores, Tails
<1> QED
  BY <1>6 DEF bytes

\* So do vectors of pairs.
LEMMA PairsRestored == \A v \in UpToMax(SizePairs) : Restores(SerializePairs(v), UnserializePairs, v)
<1> SUFFICES ASSUME NEW v \in UpToMax(SizePairs) PROVE Restores(SerializePairs(v), UnserializePairs, v)
  BY Zenon
<1> DEFINE rd == [s \in Seq(Digit) |-> UnserializePairs(Start(s))]
           bytes == SerializePairs(v)
<1>1. \A s \in Seq(Digit) : rd[s] = UnserializePairs(Stand(<<>>, s)) /\ rd[s] = UnserializePairs(Start(s))
  BY Stands
<1> HIDE DEF rd
<1>2. bytes \in Seq(Digit)
  BY EmptyKept, PairsRead
<1>3. Sends(rd, bytes, v)
  <2> SUFFICES ASSUME NEW t \in Seq(Digit) PROVE rd[bytes \o t] = Stand(<<v>>, t)
    BY Zenon DEF Sends
  <2>1. UnserializePairs(Stand(<<>>, SerializePairs(v) \o t)) = Stand(Append(<<>>, v), t)
    BY EmptyKept, PairsRead
  <2>2. bytes \o t \in Seq(Digit)
    BY <1>2, BytesAssociate
  <2> HIDE DEF bytes
  <2> QED
    BY <1>1, <2>1, <2>2, ReadableHolds, Zenon DEF bytes
<1>4. Leaves(rd)
  <2> SUFFICES ASSUME NEW s \in Seq(Digit), NEW q \in Seq(Digit), rd[s].ok
               PROVE  \E t \in Seq(Digit) : rd[s \o q].rest = t \o q
    BY Zenon DEF Leaves
  <2>1. UnserializePairs(Stand(<<>>, s)).ok
    BY <1>1
  <2>2. Grows(<<>>, q, UnserializePairs(Stand(<<>>, s)), UnserializePairs(Stand(<<>>, s \o q)))
    BY <2>1, EmptyKept, PairsGrow
  <2>3. s \o q \in Seq(Digit)
    BY BytesAssociate
  <2> QED
    BY <1>1, <2>2, <2>3, GrowsLeaves, Zenon
<1> HIDE DEF bytes
<1>5. Restored(rd, bytes, v)
  BY <1>2, <1>3, <1>4, Restoring, Zenon
<1>6. Restores(bytes, UnserializePairs, v)
  BY <1>1, <1>5, Zenon DEF Restored, Restores, Tails
<1> QED
  BY <1>6 DEF bytes

\* So do transactions, unless they look like the dummy of the extended format.
LEMMA TxRestored == \A v \in PlainTxs : Restores(WireTx(v), ReadTx, v)
<1> SUFFICES ASSUME NEW v \in PlainTxs PROVE Restores(WireTx(v), ReadTx, v)
  BY Zenon
<1> DEFINE rd == [s \in Seq(Digit) |-> ReadTx(Start(s))]
           bytes == WireTx(v)
<1>1. \A s \in Seq(Digit) : rd[s] = ReadTx(Stand(<<>>, s)) /\ rd[s] = ReadTx(Start(s))
  BY Stands
<1> HIDE DEF rd
<1>2. bytes \in Seq(Digit)
  BY EmptyKept, TxComesBack
<1>3. Sends(rd, bytes, v)
  <2> SUFFICES ASSUME NEW t \in Seq(Digit) PROVE rd[bytes \o t] = Stand(<<v>>, t)
    BY Zenon DEF Sends
  <2>1. ReadTx(Stand(<<>>, WireTx(v) \o t)) = Stand(Append(<<>>, v), t)
    BY EmptyKept, TxComesBack
  <2>2. bytes \o t \in Seq(Digit)
    BY <1>2, BytesAssociate
  <2> HIDE DEF bytes
  <2> QED
    BY <1>1, <2>1, <2>2, ReadableHolds, Zenon DEF bytes
<1>4. Leaves(rd)
  <2> SUFFICES ASSUME NEW s \in Seq(Digit), NEW q \in Seq(Digit), rd[s].ok
               PROVE  \E t \in Seq(Digit) : rd[s \o q].rest = t \o q
    BY Zenon DEF Leaves
  <2>1. ReadTx(Stand(<<>>, s)).ok
    BY <1>1
  <2>2. Grows(<<>>, q, ReadTx(Stand(<<>>, s)), ReadTx(Stand(<<>>, s \o q)))
    BY <2>1, EmptyKept, TxGrow, Zenon
  <2>3. s \o q \in Seq(Digit)
    BY BytesAssociate
  <2> QED
    BY <1>1, <2>2, <2>3, GrowsLeaves, Zenon
<1> HIDE DEF bytes
<1>5. Restored(rd, bytes, v)
  BY <1>2, <1>3, <1>4, Restoring, Zenon
<1>6. Restores(bytes, ReadTx, v)
  BY <1>1, <1>5, Zenon DEF Restored, Restores, Tails
<1> QED
  BY <1>6 DEF bytes

-----------------------------------------------------------------------------
(* Strings with a limit *)

\* A string within the limit is read as any other, and one past it is refused.
LEMMA WithinLimit ==
    \A r, limit : UnserializeLimited(r, limit) =
        IF Top(ReadCompactSize(r)) > limit THEN Characters(Thrown) ELSE UnserializeString(r)
<1> SUFFICES ASSUME NEW r, NEW limit
             PROVE  UnserializeLimited(r, limit) =
                      IF Top(ReadCompactSize(r)) > limit THEN Characters(Thrown) ELSE UnserializeString(r)
  BY Zenon
<1>1. CASE Top(ReadCompactSize(r)) > limit
  BY <1>1, Zenon DEF UnserializeLimited, Limited
<1>2. CASE ~(Top(ReadCompactSize(r)) > limit)
  BY <1>2, Zenon DEF UnserializeLimited, UnserializeString, Limited
<1> QED
  BY <1>1, <1>2, Zenon

\* It comes back under its own length, and not under less.
LEMMA LimitedRead ==
    ASSUME NEW g, Kept(g), NEW v \in CScripts, NEW t \in Seq(Digit)
    PROVE  /\ SerializeString(v) \in Seq(Digit)
           /\ UnserializeLimited(Stand(g, SerializeString(v) \o t), Len(v)) = Stand(Append(g, v), t)
           /\ ~UnserializeLimited(Stand(g, SerializeString(v) \o t), Len(v) - 1).ok
<1> DEFINE r == Stand(g, SerializeString(v) \o t)
           n == Len(v)
<1>1. /\ SerializeString(v) \in Seq(Digit)
      /\ ReadCompactSize(r) = Stand(Append(g, n), v \o t)
      /\ UnserializeString(r) = Stand(Append(g, v), t)
  BY StringRead
<1>2. n \in Nat
  BY DEF CScripts, UpToMax
<1> HIDE DEF r, n
<1>3. Top(ReadCompactSize(r)) = n
  BY <1>1, TopOf
<1>4. ~(n > n) /\ n > n - 1
  BY <1>2
<1>5. UnserializeLimited(r, n) = Stand(Append(g, v), t)
  BY <1>1, <1>3, <1>4, WithinLimit, Zenon
<1>6. UnserializeLimited(r, n - 1) = Characters(Thrown)
  BY <1>3, <1>4, WithinLimit, Zenon
<1>7. ~Characters(Thrown).ok
  BY Stands, ContainersFail, Zenon
<1> QED
  BY <1>1, <1>5, <1>6, <1>7, Zenon DEF r, n

\* Nor does it depend on what is behind it.
LEMMA LimitedGrow ==
    ASSUME NEW g, Kept(g), NEW s \in Seq(Digit), NEW limit, UnserializeLimited(Stand(g, s), limit).ok,
           NEW q \in Seq(Digit)
    PROVE  Grows(g, q, UnserializeLimited(Stand(g, s), limit), UnserializeLimited(Stand(g, s \o q), limit))
<1> DEFINE c == ReadCompactSize(Stand(g, s))
           d == ReadCompactSize(Stand(g, s \o q))
<1>1. ~Characters(Thrown).ok
  BY Stands, ContainersFail, Zenon
<1>2. ~(Top(c) > limit) /\ UnserializeLimited(Stand(g, s), limit) = UnserializeString(Stand(g, s))
  BY <1>1, WithinLimit, Zenon
<1>3. UnserializeString(Stand(g, s)).ok
  BY <1>2
<1>4. c.ok
  BY <1>3, ContainersFail, Zenon DEF UnserializeString
<1>5. Grows(g, q, c, d)
  BY <1>4, SizeGrow
<1>6. PICK n, t : c = Stand(Append(g, n), t) /\ d = Stand(Append(g, n), t \o q)
  BY <1>5, Zenon DEF Grows
<1>7. Top(d) = Top(c)
  <2>1. \A z : Top(Stand(Append(g, n), z)) = n
    BY TopOf
  <2> QED
    BY <1>6, <2>1, Zenon
<1>8. UnserializeLimited(Stand(g, s \o q), limit) = UnserializeString(Stand(g, s \o q))
  BY <1>2, <1>7, WithinLimit, Zenon
<1>9. Grows(g, q, UnserializeString(Stand(g, s)), UnserializeString(Stand(g, s \o q)))
  BY <1>3, StringGrow
<1> QED
  BY <1>2, <1>8, <1>9, Zenon

\* Strings come back under their own length as the limit.
LEMMA LimitedRestored == \A v \in CScripts : Restores(SerializeString(v), LAMBDA r : UnserializeLimited(r, Len(v)), v)
<1> SUFFICES ASSUME NEW v \in CScripts PROVE Restores(SerializeString(v), LAMBDA r : UnserializeLimited(r, Len(v)), v)
  BY Zenon
<1> DEFINE rd == [s \in Seq(Digit) |-> UnserializeLimited(Start(s), Len(v))]
           bytes == SerializeString(v)
<1>1. \A s \in Seq(Digit) : rd[s] = UnserializeLimited(Stand(<<>>, s), Len(v)) /\ rd[s] = UnserializeLimited(Start(s), Len(v))
  BY Stands
<1> HIDE DEF rd
<1>2. bytes \in Seq(Digit)
  BY EmptyKept, LimitedRead
<1>3. Sends(rd, bytes, v)
  <2> SUFFICES ASSUME NEW t \in Seq(Digit) PROVE rd[bytes \o t] = Stand(<<v>>, t)
    BY Zenon DEF Sends
  <2>1. UnserializeLimited(Stand(<<>>, SerializeString(v) \o t), Len(v)) = Stand(Append(<<>>, v), t)
    BY EmptyKept, LimitedRead
  <2>2. bytes \o t \in Seq(Digit)
    BY <1>2, BytesAssociate
  <2> HIDE DEF bytes
  <2> QED
    BY <1>1, <2>1, <2>2, ReadableHolds, Zenon DEF bytes
<1>4. Leaves(rd)
  <2> SUFFICES ASSUME NEW s \in Seq(Digit), NEW q \in Seq(Digit), rd[s].ok
               PROVE  \E t \in Seq(Digit) : rd[s \o q].rest = t \o q
    BY Zenon DEF Leaves
  <2>1. UnserializeLimited(Stand(<<>>, s), Len(v)).ok
    BY <1>1
  <2>2. Grows(<<>>, q, UnserializeLimited(Stand(<<>>, s), Len(v)), UnserializeLimited(Stand(<<>>, s \o q), Len(v)))
    BY <2>1, EmptyKept, LimitedGrow
  <2>3. s \o q \in Seq(Digit)
    BY BytesAssociate
  <2> QED
    BY <1>1, <2>2, <2>3, GrowsLeaves, Zenon
<1> HIDE DEF bytes
<1>5. Restored(rd, bytes, v)
  BY <1>2, <1>3, <1>4, Restoring, Zenon
<1>6. Restores(bytes, LAMBDA r : UnserializeLimited(r, Len(v)), v)
  BY <1>1, <1>5, Zenon DEF Restored, Restores, Tails
<1> QED
  BY <1>6 DEF bytes

-----------------------------------------------------------------------------
(* Blocks *)

\* The blocks whose transactions come back.
PlainBlocks == {b \in CBlocks : \A i \in DOMAIN b.vtx : Plain(b.vtx[i])}

\* Their parts.
LEMMA BlockParts ==
    ASSUME NEW b \in PlainBlocks
    PROVE  /\ b.header \in Seq(Digit) /\ Len(b.header) = HeaderFields /\ HeaderFields \in Nat
           /\ b.vtx \in UpToMax(PlainTxs)
           /\ b = [header |-> b.header, vtx |-> b.vtx]
           /\ SerializeBlock(b) = b.header \o SerializeTxs(b.vtx)
<1> DEFINE x == b.header
           v == b.vtx
<1>1. b \in CBlocks /\ \A i \in DOMAIN v : Plain(v[i])
  BY DEF PlainBlocks
<1>2. /\ x \in [1..HeaderFields -> Digit] /\ v \in UpToMax(CTransactions)
      /\ b = [header |-> x, vtx |-> v]
  BY <1>1 DEF CBlocks
<1>3. SerializeBlock(b) = x \o SerializeTxs(v)
  BY Zenon DEF SerializeBlock, SerializeTxs, WireTx
<1> HIDE DEF x, v
<1>4. HeaderFields \in Nat
  BY DEF HeaderFields
<1>5. x \in Seq(Digit) /\ Len(x) = HeaderFields
  BY <1>2, <1>4
<1>6. v \in UpToMax(PlainTxs)
  <2>1. v \in Seq(CTransactions) /\ Len(v) <= MAX_SIZE
    BY <1>2 DEF UpToMax
  <2>2. \A i \in 1..Len(v) : v[i] \in PlainTxs
    BY <1>1, <2>1 DEF PlainTxs
  <2>3. v \in Seq(PlainTxs)
    BY <2>1, <2>2
  <2> QED
    BY <2>1, <2>3 DEF UpToMax
<1> QED
  BY <1>2, <1>3, <1>4, <1>5, <1>6 DEF x, v

\* A block comes back.
LEMMA BlockRead ==
    ASSUME NEW g, Kept(g), NEW b \in PlainBlocks, NEW t \in Seq(Digit)
    PROVE  /\ SerializeBlock(b) \in Seq(Digit)
           /\ UnserializeBlock(Stand(g, SerializeBlock(b) \o t)) = Stand(Append(g, b), t)
<1> DEFINE x == b.header
           v == b.vtx
           w == SerializeTxs(v)
           u == w \o t
           g1 == Append(g, x)
<1>1. /\ x \in Seq(Digit) /\ Len(x) = HeaderFields /\ HeaderFields \in Nat
      /\ v \in UpToMax(PlainTxs) /\ b = [header |-> x, vtx |-> v] /\ SerializeBlock(b) = x \o w
  BY BlockParts
<1> HIDE DEF x, v
<1>2. Kept(g1)
  BY KeptMore
<1> HIDE DEF g1
<1>3. w \in Seq(Digit) /\ UnserializeTxs(Stand(g1, w \o t)) = Stand(Append(g1, v), t)
  BY <1>1, <1>2, TxsRead
<1> HIDE DEF w
<1>4. x \o w \in Seq(Digit) /\ u \in Seq(Digit) /\ (x \o w) \o t = x \o u
  BY <1>1, <1>3, BytesAssociate
<1> HIDE DEF u
<1>5. ReadBytes(Stand(g, x \o u), HeaderFields) = Stand(Append(g, x), u)
  BY <1>1, <1>4, BytesNext
<1>6. AsBlock(Stand(Append(Append(g, x), v), t)) = Stand(Append(g, [header |-> x, vtx |-> v]), t)
  BY MadeBlock
<1>7. UnserializeBlock(Stand(g, x \o u)) = Stand(Append(g, b), t)
  BY <1>1, <1>3, <1>5, <1>6, ContainersAre, Zenon DEF g1, u
<1> QED
  BY <1>1, <1>4, <1>7, Zenon

\* Blocks come back, from their bytes and from no fewer.
LEMMA BlockRestored == \A v \in PlainBlocks : Restores(SerializeBlock(v), UnserializeBlock, v)
<1> SUFFICES ASSUME NEW v \in PlainBlocks PROVE Restores(SerializeBlock(v), UnserializeBlock, v)
  BY Zenon
<1> DEFINE rd == [s \in Seq(Digit) |-> UnserializeBlock(Start(s))]
           bytes == SerializeBlock(v)
<1>1. \A s \in Seq(Digit) : rd[s] = UnserializeBlock(Stand(<<>>, s)) /\ rd[s] = UnserializeBlock(Start(s))
  BY Stands
<1> HIDE DEF rd
<1>2. bytes \in Seq(Digit)
  BY EmptyKept, BlockRead
<1>3. Sends(rd, bytes, v)
  <2> SUFFICES ASSUME NEW t \in Seq(Digit) PROVE rd[bytes \o t] = Stand(<<v>>, t)
    BY Zenon DEF Sends
  <2>1. UnserializeBlock(Stand(<<>>, SerializeBlock(v) \o t)) = Stand(Append(<<>>, v), t)
    BY EmptyKept, BlockRead
  <2>2. bytes \o t \in Seq(Digit)
    BY <1>2, BytesAssociate
  <2> HIDE DEF bytes
  <2> QED
    BY <1>1, <2>1, <2>2, ReadableHolds, Zenon DEF bytes
<1>4. Leaves(rd)
  <2> SUFFICES ASSUME NEW s \in Seq(Digit), NEW q \in Seq(Digit), rd[s].ok
               PROVE  \E t \in Seq(Digit) : rd[s \o q].rest = t \o q
    BY Zenon DEF Leaves
  <2>1. UnserializeBlock(Stand(<<>>, s)).ok
    BY <1>1
  <2>2. Grows(<<>>, q, UnserializeBlock(Stand(<<>>, s)), UnserializeBlock(Stand(<<>>, s \o q)))
    BY <2>1, EmptyKept, BlockGrow
  <2>3. s \o q \in Seq(Digit)
    BY BytesAssociate
  <2> QED
    BY <1>1, <2>2, <2>3, GrowsLeaves, Zenon
<1> HIDE DEF bytes
<1>5. Restored(rd, bytes, v)
  BY <1>2, <1>3, <1>4, Restoring, Zenon
<1>6. Restores(bytes, UnserializeBlock, v)
  BY <1>1, <1>5, Zenon DEF Restored, Restores, Tails
<1> QED
  BY <1>6 DEF bytes

-----------------------------------------------------------------------------
(* Bytes taken for a transaction *)

\* The bytes used are one of the two formats of what was read.
TellsForm(s, r) ==
    SubSeq(s, 1, Len(s) - Len(r.rest)) \in {SerializeTransaction(Top(r), TRUE), Extended(Top(r))}

\* The bytes in front of what is left.
LEMMA Used == ASSUME NEW a \in Seq(Digit), NEW t \in Seq(Digit)
              PROVE  SubSeq(a \o t, 1, Len(a \o t) - Len(t)) = a
<1> DEFINE s == a \o t
<1>1. s \in Seq(Digit) /\ Len(s) = Len(a) + Len(t) /\ SubSeq(s, 1, Len(a)) = a
  BY InFront
<1>2. Len(s) - Len(t) = Len(a)
  <2>1. Len(a) \in Nat /\ Len(t) \in Nat
    OBVIOUS
  <2> HIDE DEF s
  <2> QED
    BY <1>1, <2>1
<1> QED
  BY <1>1, <1>2

\* One element in front of two.
LEMMA OneAndTwo ==
    ASSUME NEW S, NEW a \in Seq(S), NEW b \in Seq(S), Len(a) = 1, Len(b) = 2
    PROVE  /\ a \o b \in Seq(S) /\ Len(a \o b) = 3
           /\ (a \o b)[1] = a[1] /\ (a \o b)[2] = b[1] /\ (a \o b)[3] = b[2]
<1>0. ASSUME NEW x \in Seq(S), NEW y \in Seq(S)
      PROVE  /\ x \o y \in Seq(S) /\ Len(x \o y) = Len(x) + Len(y)
             /\ \A i \in 1..(Len(x) + Len(y)) : (x \o y)[i] = IF i <= Len(x) THEN x[i] ELSE y[i - Len(x)]
  OBVIOUS
<1>1. a \o b \in Seq(S) /\ Len(a \o b) = Len(a) + Len(b)
  BY <1>0
<1>2. \A i \in 1..(Len(a) + Len(b)) : (a \o b)[i] = IF i <= Len(a) THEN a[i] ELSE b[i - Len(a)]
  BY <1>0
<1>3. Len(a \o b) = 3
  BY <1>1
<1>5. (a \o b)[1] = a[1] /\ (a \o b)[2] = b[1] /\ (a \o b)[3] = b[2]
  <2> DEFINE l == a \o b
  <2>1. \A i \in 1..(Len(a) + Len(b)) : l[i] = IF i <= Len(a) THEN a[i] ELSE b[i - Len(a)]
    BY <1>2
  <2> HIDE DEF l
  <2>2. l[1] = a[1] /\ l[2] = b[1] /\ l[3] = b[2]
    BY <2>1
  <2> QED
    BY <2>2 DEF l
<1> QED
  BY <1>1, <1>3, <1>5

\* The extended format is the one of the reference.
LEMMA ExtendedFormIs == \A tx : ExtendedForm(tx) = Extended(tx)
<1> SUFFICES ASSUME NEW tx PROVE ExtendedForm(tx) = Extended(tx)
  BY Zenon
<1>1. \A x : <<x>> \o (<<0>> \o <<1>>) = <<x, 0, 1>>
  <2> SUFFICES ASSUME NEW x PROVE <<x>> \o (<<0>> \o <<1>>) = <<x, 0, 1>>
    BY Zenon
  <2> DEFINE S == Nat \cup {x}
             a == <<0>> \o <<1>>
             l == <<x>> \o a
             m == <<x, 0, 1>>
  <2>1. a \in Seq(S) /\ Len(a) = 2 /\ a[1] = 0 /\ a[2] = 1
    OBVIOUS
  <2> HIDE DEF a
  <2>2. l \in Seq(S) /\ Len(l) = 3 /\ l[1] = x /\ l[2] = 0 /\ l[3] = 1
    <3> DEFINE b == <<x>>
    <3>1. b \in Seq(S) /\ Len(b) = 1 /\ b[1] = x
      OBVIOUS
    <3> HIDE DEF b, S
    <3>2. /\ b \o a \in Seq(S) /\ Len(b \o a) = 3
          /\ (b \o a)[1] = b[1] /\ (b \o a)[2] = a[1] /\ (b \o a)[3] = a[2]
      BY <2>1, <3>1, OneAndTwo
    <3> QED
      BY <2>1, <3>1, <3>2 DEF b
  <2>3. m \in Seq(S) /\ Len(m) = 3 /\ m[1] = x /\ m[2] = 0 /\ m[3] = 1
    OBVIOUS
  <2> HIDE DEF S, l, m
  <2>4. \A i \in 1..3 : l[i] = m[i]
    BY <2>2, <2>3
  <2>5. l = m
    BY <2>2, <2>3, <2>4, SeqEqual
  <2> QED
    BY <2>5 DEF a, l, m
<1>2. U(tx.nVersion) \o (SerializeIns(<<>>) \o U(1)) = <<tx.nVersion, 0, 1>>
  BY <1>1, EmptyVectors, Zenon DEF U
<1> QED
  BY <1>2, Zenon DEF ExtendedForm, Extended, Frame, U

\* No other bytes are taken for a transaction.
LEMMA FormTold ==
    \A s : s \in Seq(Digit) /\ UnserializeTransaction(Start(s), TRUE).ok
           => TellsForm(s, UnserializeTransaction(Start(s), TRUE))
<1> SUFFICES ASSUME NEW s, s \in Seq(Digit), UnserializeTransaction(Start(s), TRUE).ok
             PROVE  TellsForm(s, UnserializeTransaction(Start(s), TRUE))
  BY Zenon
<1> DEFINE r == UnserializeTransaction(Start(s), TRUE)
<1>1. r = UnserializeTransaction(Stand(<<>>, s), TRUE)
  BY Stands, Zenon
<1>2. TellsTx(<<>>, s)
  BY <1>1, EmptyKept, TxTells
<1>3. PICK tx \in CTransactions, t \in Seq(Digit) :
        /\ r = Stand(Append(<<>>, tx), t)
        /\ \/ s = PlainForm(tx) \o t /\ ~HasWitness(tx) /\ Plain(tx)
           \/ s = ExtendedForm(tx) \o t
  BY <1>1, <1>2, Zenon DEF TellsTx
<1> HIDE DEF r
<1>4. Top(r) = tx /\ r.rest = t
  BY <1>3, EmptyKept, TopOf, Stands
<1>5. CASE s = PlainForm(tx) \o t /\ ~HasWitness(tx) /\ Plain(tx)
  <2>1. PlainForm(tx) \in Seq(Digit)
    BY <1>5, EmptyKept, PlainComesBack
  <2>2. SubSeq(s, 1, Len(s) - Len(t)) = PlainForm(tx)
    BY <1>5, <2>1, Used
  <2>3. SerializeTransaction(tx, TRUE) = PlainForm(tx)
    BY <1>5, TxWritten, Zenon DEF PlainForm
  <2> QED
    BY <1>4, <2>2, <2>3, Zenon DEF TellsForm, r
<1>6. CASE s = ExtendedForm(tx) \o t
  <2>1. ExtendedForm(tx) \in Seq(Digit)
    BY EmptyKept, ExtendedReads DEF ExtendedForm
  <2>2. SubSeq(s, 1, Len(s) - Len(t)) = ExtendedForm(tx)
    BY <1>6, <2>1, Used
  <2> QED
    BY <1>4, <2>2, ExtendedFormIs, Zenon DEF TellsForm, r
<1> QED
  BY <1>3, <1>5, <1>6

-----------------------------------------------------------------------------
(* Maps and sets *)

\* In strictly increasing order.
Rises(s) == \A i, j \in DOMAIN s : i < j => s[i] < s[j]

\* A set of numbers below n can be put in order: by induction on n, its largest
\* element last.
LEMMA CanSort ==
    ASSUME NEW n \in Nat, NEW S, S \subseteq 0..(n - 1)
    PROVE  \E s \in [1..Cardinality(S) -> S] : Rises(s)
<1> DEFINE T == {m \in Nat : \A X \in SUBSET (0..(m - 1)) : \E s \in [1..Cardinality(X) -> X] : Rises(s)}
<1>1. ASSUME NEW m \in Nat, \A k \in 0..(m - 1) : k \in T PROVE m \in T
  <2> SUFFICES ASSUME NEW X \in SUBSET (0..(m - 1)) PROVE \E s \in [1..Cardinality(X) -> X] : Rises(s)
    OBVIOUS
  <2>1. CASE m = 0
    <3>1. X = {}
      BY <2>1
    <3>2. Cardinality(X) = 0
      BY <3>1, FS_EmptySet
    <3> DEFINE s == [i \in 1..0 |-> 0]
    <3>3. s \in [1..0 -> X] /\ DOMAIN s = {}
      OBVIOUS
    <3>4. Rises(s)
      BY <3>3 DEF Rises
    <3> QED
      BY <3>2, <3>3, <3>4
  <2>2. CASE m # 0 /\ m - 1 \notin X
    <3>1. m - 1 \in T
      <4>1. m - 1 \in 0..(m - 1)
        BY <2>2
      <4> HIDE DEF T
      <4> QED
        BY <1>1, <4>1
    <3>2. X \in SUBSET (0..((m - 1) - 1))
      BY <2>2
    <3> QED
      BY <3>1, <3>2
  <2>3. CASE m # 0 /\ m - 1 \in X
    <3> DEFINE Y == X \ {m - 1}
               c == Cardinality(Y)
    <3>1. m - 1 \in T
      BY <1>1, <2>3
    <3>2. Y \in SUBSET (0..((m - 1) - 1))
      BY <2>3
    <3>3. PICK r \in [1..c -> Y] : Rises(r)
      BY <3>1, <3>2
    <3>4. IsFiniteSet(X) /\ Cardinality(X) \in Nat
      <4>1. X \in SUBSET Nat /\ m - 1 \in Nat /\ \A x \in X : x <= m - 1
        BY <2>3
      <4>2. IsFiniteSet(X)
        BY <4>1, FS_BoundedSetOfNaturals
      <4> QED
        BY <4>2, FS_CardinalityType
    <3>5. IsFiniteSet(Y) /\ c = Cardinality(X) - 1
      BY <2>3, <3>4, FS_RemoveElement
    <3>6. c \in Nat
      BY <3>5, FS_CardinalityType
    <3>7. Cardinality(X) = c + 1
      BY <3>4, <3>5
    <3>8. \A y \in Y : y \in Nat /\ y < m - 1
      BY <3>2
    <3> HIDE DEF c
    <3> DEFINE s == [i \in 1..(c + 1) |-> IF i <= c THEN r[i] ELSE m - 1]
    <3>9. s \in [1..(c + 1) -> X]
      BY <2>3, <3>3, <3>6
    <3>10. ASSUME NEW i \in 1..(c + 1), NEW j \in 1..(c + 1), i < j PROVE s[i] < s[j]
      <4>1. i \in 1..c /\ s[i] = r[i] /\ r[i] \in Y
        BY <3>3, <3>6, <3>10
      <4>2. CASE j <= c
        <5>1. j \in 1..c /\ s[j] = r[j]
          BY <3>6, <4>2
        <5>2. r[i] < r[j]
          BY <3>3, <3>10, <4>1, <5>1 DEF Rises
        <5> QED
          BY <4>1, <5>1, <5>2
      <4>3. CASE ~(j <= c)
        <5>1. s[j] = m - 1
          BY <4>3
        <5> QED
          BY <3>8, <4>1, <5>1
      <4> QED
        BY <4>2, <4>3
    <3>11. DOMAIN s = 1..(c + 1)
      OBVIOUS
    <3> HIDE DEF s
    <3>12. Rises(s)
      BY <3>10, <3>11 DEF Rises
    <3> QED
      BY <3>7, <3>9, <3>12
  <2> QED
    BY <2>1, <2>2, <2>3
<1>2. \A m \in Nat : m \in T
  <2> HIDE DEF T
  <2> QED
    BY <1>1, Induct
<1> QED
  BY <1>2

\* What Sorted gives: every element once.
SortedFrom(S, s) ==
    /\ s \in UpToMax(S) /\ s \in Seq(S) /\ \A x \in S : \E i \in DOMAIN s : s[i] = x
    /\ \A i, j \in DOMAIN s : s[i] = s[j] => i = j

\* There are no more elements than can be written.
LEMMA SortedIs ==
    ASSUME NEW S, S \subseteq Digit
    PROVE  SortedFrom(S, Sorted(S))
<1> DEFINE c == Cardinality(S)
           s == Sorted(S)
<1>1. Base \in Nat /\ Base >= 8 /\ Base <= MAX_SIZE /\ MAX_SIZE \in Nat
  BY SerializeAssumption, SizeAssumption
<1>2. IsFiniteSet(S) /\ c \in Nat /\ c <= MAX_SIZE
  <2>1. S \in SUBSET Nat /\ Base - 1 \in Nat /\ \A x \in S : x <= Base - 1
    BY <1>1 DEF Digit
  <2>2. IsFiniteSet(S) /\ Cardinality(S) <= (Base - 1) + 1
    BY <2>1, FS_BoundedSetOfNaturals
  <2>3. Cardinality(S) \in Nat
    BY <2>2, FS_CardinalityType
  <2> QED
    BY <1>1, <2>2, <2>3
<1>3. \E x \in [1..c -> S] : Rises(x)
  BY <1>1, CanSort DEF Digit
<1>4. s \in [1..c -> S] /\ Rises(s)
  <2>1. s = CHOOSE x \in [1..c -> S] : Rises(x)
    BY Zenon DEF Sorted, Rises
  <2> HIDE DEF s, c
  <2> QED
    BY <1>3, <2>1
<1> HIDE DEF s, c
<1>5. DOMAIN s = 1..c
  BY <1>4
<1>6. ASSUME NEW i \in 1..c, NEW j \in 1..c, s[i] = s[j] PROVE i = j
  <2>1. s[i] \in Nat /\ s[j] \in Nat
    <3>1. S \subseteq Nat
      BY <1>1 DEF Digit
    <3> QED
      BY <1>4, <3>1
  <2>2. \A k, l \in 1..c : k < l => s[k] < s[l]
    BY <1>4, <1>5 DEF Rises
  <2>3. i < j \/ j < i \/ i = j
    BY <1>2
  <2>4. ~(i < j) /\ ~(j < i)
    BY <1>6, <2>1, <2>2
  <2> QED
    BY <2>3, <2>4
<1>7. s \in Injection(1..c, S)
  <2>1. IsInjective(s)
    BY <1>5, <1>6 DEF IsInjective
  <2> QED
    BY <1>4, <2>1 DEF Injection
<1>8. Cardinality(1..c) = c
  BY <1>2, FS_Interval
<1>9. s \in Surjection(1..c, S)
  BY <1>2, <1>7, <1>8, FS_Injection DEF c
<1>10. \A x \in S : \E i \in 1..c : s[i] = x
  BY <1>9 DEF Surjection
<1>11. s \in Seq(S) /\ Len(s) = c
  BY <1>2, <1>4, FunctionIsSeq
<1>12. s \in UpToMax(S)
  BY <1>2, <1>11 DEF UpToMax
<1> QED
  BY <1>5, <1>6, <1>10, <1>11, <1>12 DEF SortedFrom, s

\* A byte is a size.
LEMMA DigitsAreSizes == Digit \subseteq SizeRange /\ \A S : S \subseteq Digit => UpToMax(S) \subseteq UpToMax(SizeRange)
<1>1. Digit \subseteq SizeRange
  BY SerializeAssumption, SizeAssumption DEF Digit, SizeRange
<1>2. ASSUME NEW S, S \subseteq SizeRange PROVE Seq(S) \subseteq Seq(SizeRange)
  BY <1>2
<1> QED
  BY <1>1, <1>2 DEF UpToMax

\* A set of bytes comes back.
LEMMA SetRead ==
    ASSUME NEW g, Kept(g), NEW S \in SUBSET Digit, NEW t \in Seq(Digit)
    PROVE  /\ SerializeSet(S) \in Seq(Digit)
           /\ UnserializeSet(Stand(g, SerializeSet(S) \o t)) = Stand(Append(g, S), t)
<1> DEFINE s == Sorted(S)
<1>1. SortedFrom(S, s)
  BY SortedIs
<1>2. SerializeSet(S) = SerializeSizes(s)
  BY Zenon DEF SerializeSet
<1> HIDE DEF s
<1>3. s \in UpToMax(SizeRange)
  BY <1>1, DigitsAreSizes DEF SortedFrom
<1>4. ElementsOf(s) = S
  <2>1. s \in Seq(S) /\ \A x \in S : \E i \in DOMAIN s : s[i] = x
    BY <1>1 DEF SortedFrom
  <2>2. \A i \in DOMAIN s : s[i] \in S
    BY <2>1
  <2> QED
    BY <2>1, <2>2, Zenon DEF ElementsOf
<1>5. /\ SerializeSizes(s) \in Seq(Digit)
      /\ UnserializeSizes(Stand(g, SerializeSizes(s) \o t)) = Stand(Append(g, s), t)
  BY <1>3, SizesRead
<1>6. AsSetOf(Stand(Append(g, s), t)) = Stand(Append(g, ElementsOf(s)), t)
  BY MadeSet
<1>7. UnserializeSet(Stand(g, SerializeSizes(s) \o t)) = Stand(Append(g, S), t)
  BY <1>4, <1>5, <1>6, ContainersAre, Zenon
<1> QED
  BY <1>2, <1>5, <1>7, Zenon

\* Maps from bytes to sizes.
ByteMaps == UNION {[K -> SizeRange] : K \in SUBSET Digit}

\* The entries of a map, in the order of the keys.
Entries(m, keys) == [i \in DOMAIN keys |-> <<keys[i], m[keys[i]]>>]

\* They make the map.
LEMMA EntriesMake ==
    ASSUME NEW K \in SUBSET Digit, NEW m \in [K -> SizeRange], NEW keys, SortedFrom(K, keys)
    PROVE  Entries(m, keys) \in UpToMax(SizePairs) /\ MapOf(Entries(m, keys)) = m
<1> DEFINE w == Entries(m, keys)
           n == Len(keys)
           at(k, i) == w[i][1] = k /\ \A j \in 1..(i - 1) : w[j][1] # k
<1>1. /\ keys \in Seq(K) /\ n \in Nat /\ n <= MAX_SIZE /\ DOMAIN keys = 1..n
      /\ \A x \in K : \E i \in 1..n : keys[i] = x
      /\ \A i, j \in 1..n : keys[i] = keys[j] => i = j
  BY DEF SortedFrom, UpToMax
<1>2. \A i \in 1..n : keys[i] \in K
  BY <1>1
<1> HIDE DEF n
<1>3. DOMAIN w = 1..n /\ \A i \in 1..n : w[i] = <<keys[i], m[keys[i]]>>
  BY <1>1 DEF Entries
<1>4. \A i \in 1..n : w[i][1] = keys[i] /\ w[i][2] = m[keys[i]]
  BY <1>3
<1>5. w \in UpToMax(SizePairs)
  <2>1. \A i \in 1..n : keys[i] \in SizeRange /\ m[keys[i]] \in SizeRange
    BY <1>2, DigitsAreSizes
  <2>2. \A i \in 1..n : <<keys[i], m[keys[i]]>> \in SizePairs
    BY <2>1 DEF SizePairs
  <2>3. w \in [1..n -> SizePairs]
    BY <1>1, <2>2 DEF Entries
  <2> HIDE DEF w
  <2>4. w \in Seq(SizePairs) /\ Len(w) = n
    BY <1>1, <2>3, FunctionIsSeq
  <2> QED
    BY <1>1, <2>4 DEF UpToMax
<1> HIDE DEF w
<1>6. {w[i][1] : i \in DOMAIN w} = K
  <2>1. \A i \in DOMAIN w : w[i][1] \in K
    BY <1>2, <1>3, <1>4
  <2>2. \A x \in K : \E i \in DOMAIN w : w[i][1] = x
    BY <1>1, <1>3, <1>4
  <2> QED
    BY <2>1, <2>2, Zenon
<1>7. ASSUME NEW k \in K PROVE w[CHOOSE i \in DOMAIN w : at(k, i)][2] = m[k]
  <2>1. PICK i \in 1..n : keys[i] = k
    BY <1>1
  <2>2. at(k, i)
    <3>1. w[i][1] = k
      BY <1>4, <2>1
    <3>2. ASSUME NEW j \in 1..(i - 1), w[j][1] = k PROVE FALSE
      <4>1. j \in 1..n /\ j # i
        BY <1>1, <2>1
      <4>2. keys[j] = k
        BY <1>4, <3>2, <4>1
      <4> QED
        BY <1>1, <2>1, <4>1, <4>2
    <3> QED
      BY <3>1, <3>2
  <2>3. \E j \in DOMAIN w : at(k, j)
    BY <1>3, <2>1, <2>2
  <2> DEFINE l == CHOOSE j \in DOMAIN w : at(k, j)
  <2>4. l \in DOMAIN w /\ at(k, l)
    BY <2>3, Zenon
  <2> HIDE DEF l
  <2>5. w[l][1] = k /\ l \in 1..n
    BY <1>3, <2>4
  <2>6. w[l][2] = m[k]
    BY <1>4, <2>5
  <2> QED
    BY <2>6 DEF l
<1>8. MapOf(w) = [k \in K |-> w[CHOOSE i \in DOMAIN w : at(k, i)][2]]
  BY <1>6, Zenon DEF MapOf
<1>9. MapOf(w) = m
  <2> HIDE DEF at
  <2>1. MapOf(w) = [k \in K |-> m[k]]
    BY <1>7, <1>8, Zenon
  <2> QED
    BY <2>1
<1> QED
  BY <1>5, <1>9 DEF w

\* A map comes back.
LEMMA MapRead ==
    ASSUME NEW g, Kept(g), NEW m \in ByteMaps, NEW t \in Seq(Digit)
    PROVE  /\ SerializeMap(m) \in Seq(Digit)
           /\ UnserializeMap(Stand(g, SerializeMap(m) \o t)) = Stand(Append(g, m), t)
<1>1. PICK K \in SUBSET Digit : m \in [K -> SizeRange]
  BY Zenon DEF ByteMaps
<1> DEFINE keys == Sorted(DOMAIN m)
           w == Entries(m, keys)
<1>2. DOMAIN m = K
  BY <1>1
<1>3. SortedFrom(K, keys)
  BY <1>2, SortedIs
<1>4. SerializeMap(m) = SerializePairs(w)
  BY Zenon DEF SerializeMap, Entries
<1> HIDE DEF keys
<1>5. w \in UpToMax(SizePairs) /\ MapOf(w) = m
  BY <1>1, <1>3, EntriesMake
<1> HIDE DEF w
<1>6. /\ SerializePairs(w) \in Seq(Digit)
      /\ UnserializePairs(Stand(g, SerializePairs(w) \o t)) = Stand(Append(g, w), t)
  BY <1>5, PairsRead
<1>7. AsMapOf(Stand(Append(g, w), t)) = Stand(Append(g, MapOf(w)), t)
  BY MadeMap
<1>8. UnserializeMap(Stand(g, SerializePairs(w) \o t)) = Stand(Append(g, m), t)
  BY <1>5, <1>6, <1>7, ContainersAre, Zenon
<1> QED
  BY <1>4, <1>6, <1>8, Zenon

\* Sets come back, from their bytes and from no fewer.
LEMMA SetRestored == \A v \in SUBSET Digit : Restores(SerializeSet(v), UnserializeSet, v)
<1> SUFFICES ASSUME NEW v \in SUBSET Digit PROVE Restores(SerializeSet(v), UnserializeSet, v)
  BY Zenon
<1> DEFINE rd == [s \in Seq(Digit) |-> UnserializeSet(Start(s))]
           bytes == SerializeSet(v)
<1>1. \A s \in Seq(Digit) : rd[s] = UnserializeSet(Stand(<<>>, s)) /\ rd[s] = UnserializeSet(Start(s))
  BY Stands
<1> HIDE DEF rd
<1>2. bytes \in Seq(Digit)
  BY EmptyKept, SetRead
<1>3. Sends(rd, bytes, v)
  <2> SUFFICES ASSUME NEW t \in Seq(Digit) PROVE rd[bytes \o t] = Stand(<<v>>, t)
    BY Zenon DEF Sends
  <2>1. UnserializeSet(Stand(<<>>, SerializeSet(v) \o t)) = Stand(Append(<<>>, v), t)
    BY EmptyKept, SetRead
  <2>2. bytes \o t \in Seq(Digit)
    BY <1>2, BytesAssociate
  <2> HIDE DEF bytes
  <2> QED
    BY <1>1, <2>1, <2>2, ReadableHolds, Zenon DEF bytes
<1>4. Leaves(rd)
  <2> SUFFICES ASSUME NEW s \in Seq(Digit), NEW q \in Seq(Digit), rd[s].ok
               PROVE  \E t \in Seq(Digit) : rd[s \o q].rest = t \o q
    BY Zenon DEF Leaves
  <2>1. UnserializeSet(Stand(<<>>, s)).ok
    BY <1>1
  <2>2. Grows(<<>>, q, UnserializeSet(Stand(<<>>, s)), UnserializeSet(Stand(<<>>, s \o q)))
    BY <2>1, EmptyKept, SetGrow
  <2>3. s \o q \in Seq(Digit)
    BY BytesAssociate
  <2> QED
    BY <1>1, <2>2, <2>3, GrowsLeaves, Zenon
<1> HIDE DEF bytes
<1>5. Restored(rd, bytes, v)
  BY <1>2, <1>3, <1>4, Restoring, Zenon
<1>6. Restores(bytes, UnserializeSet, v)
  BY <1>1, <1>5, Zenon DEF Restored, Restores, Tails
<1> QED
  BY <1>6 DEF bytes

\* So do maps.
LEMMA MapRestored == \A v \in ByteMaps : Restores(SerializeMap(v), UnserializeMap, v)
<1> SUFFICES ASSUME NEW v \in ByteMaps PROVE Restores(SerializeMap(v), UnserializeMap, v)
  BY Zenon
<1> DEFINE rd == [s \in Seq(Digit) |-> UnserializeMap(Start(s))]
           bytes == SerializeMap(v)
<1>1. \A s \in Seq(Digit) : rd[s] = UnserializeMap(Stand(<<>>, s)) /\ rd[s] = UnserializeMap(Start(s))
  BY Stands
<1> HIDE DEF rd
<1>2. bytes \in Seq(Digit)
  BY EmptyKept, MapRead
<1>3. Sends(rd, bytes, v)
  <2> SUFFICES ASSUME NEW t \in Seq(Digit) PROVE rd[bytes \o t] = Stand(<<v>>, t)
    BY Zenon DEF Sends
  <2>1. UnserializeMap(Stand(<<>>, SerializeMap(v) \o t)) = Stand(Append(<<>>, v), t)
    BY EmptyKept, MapRead
  <2>2. bytes \o t \in Seq(Digit)
    BY <1>2, BytesAssociate
  <2> HIDE DEF bytes
  <2> QED
    BY <1>1, <2>1, <2>2, ReadableHolds, Zenon DEF bytes
<1>4. Leaves(rd)
  <2> SUFFICES ASSUME NEW s \in Seq(Digit), NEW q \in Seq(Digit), rd[s].ok
               PROVE  \E t \in Seq(Digit) : rd[s \o q].rest = t \o q
    BY Zenon DEF Leaves
  <2>1. UnserializeMap(Stand(<<>>, s)).ok
    BY <1>1
  <2>2. Grows(<<>>, q, UnserializeMap(Stand(<<>>, s)), UnserializeMap(Stand(<<>>, s \o q)))
    BY <2>1, EmptyKept, MapGrow
  <2>3. s \o q \in Seq(Digit)
    BY BytesAssociate
  <2> QED
    BY <1>1, <2>2, <2>3, GrowsLeaves, Zenon
<1> HIDE DEF bytes
<1>5. Restored(rd, bytes, v)
  BY <1>2, <1>3, <1>4, Restoring, Zenon
<1>6. Restores(bytes, UnserializeMap, v)
  BY <1>1, <1>5, Zenon DEF Restored, Restores, Tails
<1> QED
  BY <1>6 DEF bytes

-----------------------------------------------------------------------------
(* The theorem *)

\* What is made of a list can be put in the containers.
LEMMA ListParts ==
    ASSUME NEW v \in CScripts
    PROVE  /\ v \in UpToMax(SizeRange) /\ Pairs(v) \in UpToMax(SizePairs)
           /\ AsMap(v) \in ByteMaps /\ AsSet(v) \in SUBSET Digit
<1> DEFINE n == Len(v)
           w == Pairs(v)
           K == AsSet(v)
           at(k, i) == w[i][1] = k /\ \A j \in 1..(i - 1) : w[j][1] # k
<1>1. v \in Seq(Digit) /\ n \in Nat /\ n <= MAX_SIZE /\ DOMAIN v = 1..n /\ \A i \in 1..n : v[i] \in Digit
  BY DEF CScripts, UpToMax
<1>2. v \in UpToMax(SizeRange)
  BY DigitsAreSizes DEF CScripts
<1> HIDE DEF n
<1>3. DOMAIN w = 1..n /\ \A i \in 1..n : w[i] = <<v[i], i>>
  BY <1>1 DEF Pairs
<1>4. \A i \in 1..n : w[i][1] = v[i] /\ w[i][2] = i
  BY <1>3
<1>5. 1..n \subseteq SizeRange
  BY <1>1, SerializeAssumption DEF SizeRange
<1>6. w \in UpToMax(SizePairs)
  <2>1. \A i \in 1..n : <<v[i], i>> \in SizePairs
    BY <1>1, <1>5, DigitsAreSizes DEF SizePairs
  <2>2. w \in [1..n -> SizePairs]
    BY <1>1, <2>1 DEF Pairs
  <2> HIDE DEF w
  <2>3. w \in Seq(SizePairs) /\ Len(w) = n
    BY <1>1, <2>2, FunctionIsSeq
  <2> QED
    BY <1>1, <2>3 DEF UpToMax
<1> HIDE DEF w
<1>7. K \in SUBSET Digit /\ {w[i][1] : i \in DOMAIN w} = K
  <2>1. {w[i][1] : i \in DOMAIN w} = {v[i] : i \in DOMAIN v}
    BY <1>1, <1>3, <1>4
  <2> QED
    BY <1>1, <2>1 DEF AsSet
<1>8. ASSUME NEW k \in K PROVE w[CHOOSE i \in DOMAIN w : at(k, i)][2] \in SizeRange
  <2> DEFINE T == {i \in 1..n : w[i][1] = k}
  <2>1. T \subseteq Nat /\ T # {}
    BY <1>3, <1>7
  <2>2. PICK i \in T : \A j \in T : ~(j < i)
    BY <2>1, LeastNumber
  <2>3. at(k, i)
    <3>1. ASSUME NEW j \in 1..(i - 1), w[j][1] = k PROVE FALSE
      <4>1. j \in T /\ j < i
        BY <1>1, <3>1
      <4> QED
        BY <2>2, <4>1
    <3> QED
      BY <3>1
  <2>4. \E j \in DOMAIN w : at(k, j)
    BY <1>3, <2>3
  <2> DEFINE l == CHOOSE j \in DOMAIN w : at(k, j)
  <2>5. l \in DOMAIN w
    BY <2>4, Zenon
  <2> HIDE DEF l
  <2>6. w[l][2] \in SizeRange
    BY <1>3, <1>4, <1>5, <2>5
  <2> QED
    BY <2>6 DEF l
<1>9. AsMap(v) = [k \in K |-> w[CHOOSE i \in DOMAIN w : at(k, i)][2]]
  BY <1>7, Zenon DEF AsMap, MapOf, w
<1>10. AsMap(v) \in [K -> SizeRange]
  <2> HIDE DEF at, K
  <2> QED
    BY <1>8, <1>9
<1>11. AsMap(v) \in ByteMaps
  BY <1>7, <1>10, Zenon DEF ByteMaps
<1> QED
  BY <1>2, <1>6, <1>7, <1>11 DEF w

\* What WireRoundTrip says of each kind of step.
ListTold(v, blob, string, vector, pairs, map, set) ==
    /\ Restores(blob, UnserializeBytes, v)
    /\ Restores(string, UnserializeString, v)
    /\ Restores(string, LAMBDA r : UnserializeLimited(r, Len(v)), v)
    /\ v # <<>> => ~UnserializeLimited(Start(string), Len(v) - 1).ok
    /\ Restores(vector, UnserializeSizes, v)
    /\ Restores(pairs, UnserializePairs, Pairs(v))
    /\ Restores(map, UnserializeMap, AsMap(v))
    /\ Restores(set, UnserializeSet, AsSet(v))
TxTold(tx, wire) == Plain(tx) => Restores(wire, LAMBDA r : UnserializeTransaction(r, TRUE), tx)
BlockTold(b, wire) == (\A i \in DOMAIN b.vtx : Plain(b.vtx[i])) => Restores(wire, UnserializeBlock, b)
BytesTold(s, r) == r.ok => TellsForm(s, r)

\* A list in all the containers.
LEMMA ListsTold ==
    ASSUME NEW v \in CScripts
    PROVE  ListTold(v, SerializeBytes(v), SerializeString(v), SerializeSizes(v), SerializePairs(Pairs(v)),
                    SerializeMap(AsMap(v)), SerializeSet(AsSet(v)))
<1>1. /\ v \in UpToMax(SizeRange) /\ Pairs(v) \in UpToMax(SizePairs)
      /\ AsMap(v) \in ByteMaps /\ AsSet(v) \in SUBSET Digit
  BY ListParts
<1>2. Restores(SerializeBytes(v), UnserializeBytes, v)
  BY BytesRestored, Zenon
<1>3. Restores(SerializeString(v), UnserializeString, v)
  BY StringRestored, Zenon
<1>4. Restores(SerializeString(v), LAMBDA r : UnserializeLimited(r, Len(v)), v)
  BY LimitedRestored, Zenon
<1>5. ~UnserializeLimited(Start(SerializeString(v)), Len(v) - 1).ok
  <2> DEFINE w == SerializeString(v)
  <2>1. w \in Seq(Digit) /\ ~UnserializeLimited(Stand(<<>>, w \o <<>>), Len(v) - 1).ok
    BY EmptyKept, LimitedRead
  <2> HIDE DEF w
  <2>2. w \o <<>> = w
    BY <2>1
  <2>3. ~UnserializeLimited(Start(w), Len(v) - 1).ok
    BY <2>1, <2>2, Stands, Zenon
  <2> QED
    BY <2>3 DEF w
<1>6. Restores(SerializeSizes(v), UnserializeSizes, v)
  BY <1>1, SizesRestored, Zenon
<1>7. Restores(SerializePairs(Pairs(v)), UnserializePairs, Pairs(v))
  BY <1>1, PairsRestored, Zenon
<1>8. Restores(SerializeMap(AsMap(v)), UnserializeMap, AsMap(v))
  BY <1>1, MapRestored, Zenon
<1>9. Restores(SerializeSet(AsSet(v)), UnserializeSet, AsSet(v))
  BY <1>1, SetRestored, Zenon
<1> QED
  BY <1>2, <1>3, <1>4, <1>5, <1>6, <1>7, <1>8, <1>9, Zenon DEF ListTold

\* A transaction and a block.
LEMMA TxsTold ==
    /\ \A tx \in CTransactions : TxTold(tx, SerializeTransaction(tx, TRUE))
    /\ \A b \in CBlocks : BlockTold(b, SerializeBlock(b))
    /\ \A s \in Seq(Digit) : BytesTold(s, UnserializeTransaction(Start(s), TRUE))
<1>1. ASSUME NEW tx \in CTransactions, Plain(tx)
      PROVE  Restores(SerializeTransaction(tx, TRUE), LAMBDA r : UnserializeTransaction(r, TRUE), tx)
  <2>1. tx \in PlainTxs
    BY <1>1 DEF PlainTxs
  <2>2. Restores(WireTx(tx), ReadTx, tx)
    BY <2>1, TxRestored, Zenon
  <2> QED
    BY <2>2, Zenon DEF WireTx, ReadTx, Restores
<1>2. ASSUME NEW b \in CBlocks, \A i \in DOMAIN b.vtx : Plain(b.vtx[i])
      PROVE  Restores(SerializeBlock(b), UnserializeBlock, b)
  <2>1. b \in PlainBlocks
    BY <1>2, Zenon DEF PlainBlocks
  <2> QED
    BY <2>1, BlockRestored, Zenon
<1>3. \A tx \in CTransactions : TxTold(tx, SerializeTransaction(tx, TRUE))
  BY <1>1, Zenon DEF TxTold
<1>4. \A b \in CBlocks : BlockTold(b, SerializeBlock(b))
  BY <1>2, Zenon DEF BlockTold
<1>5. \A s \in Seq(Digit) : BytesTold(s, UnserializeTransaction(Start(s), TRUE))
  BY FormTold, Zenon DEF BytesTold
<1> QED
  BY <1>3, <1>4, <1>5, Zenon

\* What each step records.
LEMMA StepsRecord ==
    ASSUME CodecNext
    PROVE  \/ \E v \in Lists : out' = [op |-> "containers", in |-> v, blob |-> SerializeBytes(v),
                 string |-> SerializeString(v), vector |-> SerializeSizes(v),
                 pairs |-> SerializePairs(Pairs(v)), map |-> SerializeMap(AsMap(v)),
                 set |-> SerializeSet(AsSet(v))]
           \/ EncodeTx \/ DecodeTx \/ EncodeBlock
           \/ out'.op \notin {"containers", "tx", "txbytes", "block"}
<1>1. EncodeInt => out'.op = "int"
  BY DEF EncodeInt, Run
<1>2. DecodeInt => out'.op = "bytes"
  BY DEF DecodeInt, Run
<1>3. EncodeContainers => \E v \in Lists : out' = [op |-> "containers", in |-> v, blob |-> SerializeBytes(v),
                 string |-> SerializeString(v), vector |-> SerializeSizes(v),
                 pairs |-> SerializePairs(Pairs(v)), map |-> SerializeMap(AsMap(v)),
                 set |-> SerializeSet(AsSet(v))]
  BY Zenon DEF EncodeContainers, Run
<1>4. SolveScript => out'.op = "script"
  BY DEF SolveScript, Run
<1>5. EncodeText => out'.op = "binary"
  BY DEF EncodeText, Run
<1>6. DecodeText => out'.op = "text"
  BY DEF DecodeText, Run
<1>7. ParseNumber => out'.op = "number"
  BY DEF ParseNumber, Run
<1>8. \/ EncodeInt \/ DecodeInt \/ EncodeContainers \/ EncodeTx \/ DecodeTx
      \/ EncodeBlock \/ SolveScript \/ EncodeText \/ DecodeText \/ ParseNumber
  BY Zenon DEF CodecNext
<1>9. EncodeInt \/ DecodeInt \/ SolveScript \/ EncodeText \/ DecodeText \/ ParseNumber
      => out'.op \notin {"containers", "tx", "txbytes", "block"}
  BY <1>1, <1>2, <1>4, <1>5, <1>6, <1>7
<1> QED
  BY <1>3, <1>8, <1>9, Zenon

\* Containers, transactions and blocks survive the wire for every list, transaction
\* and block that can be read and every string of bytes (serialize.h, transaction.h
\* and block.h): what is read back is what was written, the bytes behind it are
\* left, a record that is cut short is refused at every length, and only the two
\* formats of a transaction are taken for one.
THEOREM WireRoundTripHolds == CodecSpec => []WireRoundTrip
<1>0. WireRoundTrip <=>
        /\ out.op = "containers" =>
             ListTold(out.in, out.blob, out.string, out.vector, out.pairs, out.map, out.set)
        /\ out.op = "tx" => TxTold(out.in, out.wire)
        /\ out.op = "block" => BlockTold(out.in, out.wire)
        /\ out.op = "txbytes" => BytesTold(out.in, out.got)
  BY Zenon DEF WireRoundTrip, ListTold, TxTold, BlockTold, BytesTold, TellsForm
<1>1. CodecInit => WireRoundTrip
  <2> SUFFICES ASSUME CodecInit PROVE WireRoundTrip
    OBVIOUS
  <2>1. out.op = "none"
    BY DEF CodecInit, Idle
  <2> QED
    BY <1>0, <2>1
<1>2. WireRoundTrip /\ [CodecNext]_out => WireRoundTrip'
  <2> SUFFICES ASSUME WireRoundTrip, [CodecNext]_out PROVE WireRoundTrip'
    OBVIOUS
  <2>0. WireRoundTrip' <=>
          /\ out'.op = "containers" =>
               ListTold(out'.in, out'.blob, out'.string, out'.vector, out'.pairs, out'.map, out'.set)
          /\ out'.op = "tx" => TxTold(out'.in, out'.wire)
          /\ out'.op = "block" => BlockTold(out'.in, out'.wire)
          /\ out'.op = "txbytes" => BytesTold(out'.in, out'.got)
    BY Zenon DEF WireRoundTrip, ListTold, TxTold, BlockTold, BytesTold, TellsForm, Restores
  <2>1. ASSUME NEW v \in Lists, out' = [op |-> "containers", in |-> v, blob |-> SerializeBytes(v),
                 string |-> SerializeString(v), vector |-> SerializeSizes(v),
                 pairs |-> SerializePairs(Pairs(v)), map |-> SerializeMap(AsMap(v)),
                 set |-> SerializeSet(AsSet(v))]
        PROVE  WireRoundTrip'
    <3>1. v \in CScripts
      BY InputsAssumption
    <3>2. ListTold(v, SerializeBytes(v), SerializeString(v), SerializeSizes(v), SerializePairs(Pairs(v)),
                   SerializeMap(AsMap(v)), SerializeSet(AsSet(v)))
      BY <3>1, ListsTold
    <3>3. /\ out'.op = "containers" /\ out'.in = v /\ out'.blob = SerializeBytes(v)
          /\ out'.string = SerializeString(v) /\ out'.vector = SerializeSizes(v)
          /\ out'.pairs = SerializePairs(Pairs(v)) /\ out'.map = SerializeMap(AsMap(v))
          /\ out'.set = SerializeSet(AsSet(v))
      BY <2>1
    <3> QED
      BY <2>0, <3>2, <3>3
  <2>2. CASE EncodeTx
    <3>1. PICK tx \in Txs : out' = [op |-> "tx", in |-> tx, wire |-> SerializeTransaction(tx, TRUE),
                                    hash |-> ComputeHash(tx), whash |-> ComputeWitnessHash(tx)]
      BY <2>2 DEF EncodeTx, Run
    <3>2. tx \in CTransactions
      BY InputsAssumption
    <3>3. TxTold(tx, SerializeTransaction(tx, TRUE))
      BY <3>2, TxsTold, Zenon
    <3>4. out'.op = "tx" /\ out'.in = tx /\ out'.wire = SerializeTransaction(tx, TRUE)
      BY <3>1
    <3> QED
      BY <2>0, <3>3, <3>4
  <2>3. CASE DecodeTx
    <3>1. PICK s \in TxBytes : out' = [op |-> "txbytes", in |-> s,
                                       got |-> UnserializeTransaction(Start(s), TRUE)]
      BY <2>3 DEF DecodeTx, Run
    <3>2. s \in Seq(Digit)
      BY InputsAssumption
    <3>3. BytesTold(s, UnserializeTransaction(Start(s), TRUE))
      BY <3>2, TxsTold, Zenon
    <3>4. out'.op = "txbytes" /\ out'.in = s /\ out'.got = UnserializeTransaction(Start(s), TRUE)
      BY <3>1
    <3> QED
      BY <2>0, <3>3, <3>4
  <2>4. CASE EncodeBlock
    <3>1. PICK b \in Blocks : out' = [op |-> "block", in |-> b, wire |-> SerializeBlock(b)]
      BY <2>4 DEF EncodeBlock, Run
    <3>2. b \in CBlocks
      BY InputsAssumption
    <3>3. BlockTold(b, SerializeBlock(b))
      BY <3>2, TxsTold, Zenon
    <3>4. out'.op = "block" /\ out'.in = b /\ out'.wire = SerializeBlock(b)
      BY <3>1
    <3> QED
      BY <2>0, <3>3, <3>4
  <2>5. CASE out'.op \notin {"containers", "tx", "txbytes", "block"}
    BY <2>0, <2>5
  <2>6. CASE out' = out
    BY <1>0, <2>0, <2>6
  <2> QED
    BY <2>1, <2>2, <2>3, <2>4, <2>5, <2>6, StepsRecord
<1> QED
  BY <1>1, <1>2, PTL DEF CodecSpec
=============================================================================
