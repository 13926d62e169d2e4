----------------------------- MODULE Serialize -----------------------------
(***************************************************************************)
(* The encodings of src/include/electrumz/bitcoin/serialize.h.  A stream   *)
(* to read from is the sequence of its bytes; what is written is a         *)
(* sequence of bytes.                                                      *)
(*                                                                         *)
(* A byte is a digit of base Base (256 in the code; TLC takes a smaller    *)
(* power of two, so that every width of an integer is within reach): the   *)
(* markers 253, 254, 255 are Base - 3 .. Base - 1 and the seven bits of a  *)
(* VarInt are a digit of base Base / 2.                                    *)
(***************************************************************************)
EXTENDS Integers, Sequences, FiniteSets, SequencesExt

CONSTANTS
    Base,      \* values of a byte: an even number, at least 8
    MAX_SIZE,  \* the largest size ReadCompactSize lets through
    VarIntMax, \* std::numeric_limits<I>::max() of a VarInt: 2^w - 1, w at least 7
    Chunk      \* bytes of a vector read in one go (5000000)

ASSUME SerializeAssumption ==
    /\ Base \in Nat /\ Base >= 8 /\ Base % 2 = 0
    /\ MAX_SIZE \in Nat
    /\ VarIntMax \in Nat /\ (VarIntMax + 1) % (Base \div 2) = 0
    /\ Chunk \in Nat \ {0}

-----------------------------------------------------------------------------
(* Reading takes a stream to the stream behind what was read: the bytes left,
   and the values read so far, the last one on top.  So s >> a >> b is
   ReadB(ReadA(s)).  Once a stream has thrown, nothing more is read. *)

Start(s) == [ok |-> TRUE, got |-> <<>>, rest |-> s]
Thrown == [ok |-> FALSE, got |-> <<>>, rest |-> <<>>]
Top(r) == IF r.ok THEN r.got[Len(r.got)] ELSE 0
Behind(r, n, v) ==
    [ok |-> TRUE, got |-> Append(r.got, v), rest |-> SubSeq(r.rest, n + 1, Len(r.rest))]

\* One value made of the last k.
Made(r, k, F(_)) ==
    IF r.ok THEN [r EXCEPT !.got = LET n == Len(@) - k IN
                                   Append(SubSeq(@, 1, n), F(SubSeq(@, n + 1, Len(@))))]
    ELSE r

ReadBytes(r, n) ==
    IF r.ok /\ n <= Len(r.rest) THEN Behind(r, n, SubSeq(r.rest, 1, n)) ELSE Thrown

-----------------------------------------------------------------------------
(* Integers of w bytes, the least significant first. *)

Digit == 0..(Base - 1)

\* Base to the k: k bytes are less than it.
Power[k \in Nat] == IF k = 0 THEN 1 ELSE Base * Power[k - 1]

\* A size has 64 bits, and the limit is past one byte.
ASSUME SizeAssumption == Base <= MAX_SIZE /\ MAX_SIZE < Power[8]

ser_writedata(n, w) == [i \in 1..w |-> (n \div Power[i - 1]) % Base]

Value(bs) ==
    LET upTo[i \in 0..Len(bs)] ==
            IF i = 0 THEN 0 ELSE upTo[i - 1] + bs[i] * Power[i - 1]
    IN upTo[Len(bs)]

ser_readdata(r, w) == Made(ReadBytes(r, w), 1, LAMBDA f : Value(f[1]))

-----------------------------------------------------------------------------
(* Compact Size: one byte, or a marker and the least of 2, 4, 8 bytes that do. *)

GetSizeOfCompactSize(n) ==
    CASE n < Base - 3 -> 1
      [] n >= Base - 3 /\ n < Power[2] -> 3
      [] n >= Power[2] /\ n < Power[4] -> 5
      [] n >= Power[4] -> 9

WriteCompactSize(n) ==
    CASE n < Base - 3 -> ser_writedata(n, 1)
      [] n >= Base - 3 /\ n < Power[2] -> <<Base - 3>> \o ser_writedata(n, 2)
      [] n >= Power[2] /\ n < Power[4] -> <<Base - 2>> \o ser_writedata(n, 4)
      [] n >= Power[4] -> <<Base - 1>> \o ser_writedata(n, 8)

\* The bytes a marker announces, and the least value that needs as many.
Wide(marker) ==
    CASE marker = Base - 3 -> [width |-> 2, least |-> Base - 3]
      [] marker = Base - 2 -> [width |-> 4, least |-> Power[2]]
      [] marker = Base - 1 -> [width |-> 8, least |-> Power[4]]

\* Mutant: the shortest form is not insisted on.
Shortest_any(n, least) == Made(n, 2, LAMBDA f : f[2])

\* The value after the marker has to need its width.
Shortest(n, least) == IF Top(n) < least THEN Thrown ELSE Made(n, 2, LAMBDA f : f[2])

LongForm(c) ==
    IF Top(c) < Base - 3 THEN c
    ELSE Shortest(ser_readdata(c, Wide(Top(c)).width), Wide(Top(c)).least)

Limited(n, limit) == IF Top(n) > limit THEN Thrown ELSE n

ReadCompactSize(r) == Limited(LongForm(ser_readdata(r, 1)), MAX_SIZE)

-----------------------------------------------------------------------------
(* VarInt: digits of base Half, the most significant first, all but the last
   with the high bit and one less than their value. *)

Half == Base \div 2

GetSizeOfVarInt[n \in Nat] == IF n < Half THEN 1 ELSE 1 + GetSizeOfVarInt[(n \div Half) - 1]

\* The digits before the last one.
Leading[n \in Nat] ==
    IF n < Half THEN <<Half + n>> ELSE Leading[(n \div Half) - 1] \o <<Half + (n % Half)>>

WriteVarInt(n) ==
    IF n < Half THEN <<n>> ELSE Leading[(n \div Half) - 1] \o <<n % Half>>

\* One byte of ReadVarInt, n being what the bytes before it made.
VarIntStep(n, ch) ==
    LET m == n * Half + (ch % Half) IN
    IF n > VarIntMax \div Half THEN [st |-> "throw", n |-> n]
    ELSE IF ch < Half THEN [st |-> "done", n |-> m]
    ELSE IF m = VarIntMax THEN [st |-> "throw", n |-> n]
    ELSE [st |-> "more", n |-> m + 1]

ReadVarInt(r) ==
    LET s == r.rest
        after[k \in 0..Len(s)] ==
            IF k = 0 THEN [st |-> "more", n |-> 0]
            ELSE IF after[k - 1].st = "more" THEN VarIntStep(after[k - 1].n, s[k])
            ELSE after[k - 1]
        ends == {k \in 1..Len(s) : after[k - 1].st = "more" /\ after[k].st = "done"}
    IN IF ends = {} THEN Thrown
       ELSE LET k == CHOOSE k \in ends : TRUE IN Behind(r, k, after[k].n)

-----------------------------------------------------------------------------
(* Containers *)

\* Vectors of bytes: one blob.
SerializeBytes(v) == WriteCompactSize(Len(v)) \o v

\* They are read Chunk bytes at a time.
Chunks(c) ==
    LET n == Top(c)
        chunks == (n + Chunk - 1) \div Chunk
        blk(k) == IF k * Chunk <= n THEN Chunk ELSE n - (k - 1) * Chunk
        got[k \in 0..chunks] ==
            IF k = 0 THEN Made(c, 1, LAMBDA f : <<>>)
            ELSE Made(ReadBytes(got[k - 1], blk(k)), 2, LAMBDA f : f[1] \o f[2])
    IN got[chunks]

UnserializeBytes(r) == Chunks(ReadCompactSize(r))

\* A prevector of bytes, as a script is one, has the same format.
SerializeScript(v) == SerializeBytes(v)
UnserializeScript(r) == UnserializeBytes(r)

\* Strings have it too; they are read in one go.
SerializeString(v) == WriteCompactSize(Len(v)) \o v
Characters(c) == Made(ReadBytes(c, Top(c)), 2, LAMBDA f : f[2])
UnserializeString(r) == Characters(ReadCompactSize(r))

\* A string with a limit refuses a longer one before it reads it.
UnserializeLimited(r, limit) == Characters(Limited(ReadCompactSize(r), limit))

\* Vectors of other elements: their number and, one after the other, the parts
\* their elements are written as; R reads one element.
SerializeVector(parts) == WriteCompactSize(Len(parts)) \o FlattenSeq(parts)

Elements(c, R(_)) ==
    LET got[i \in 0..Top(c)] ==
            IF i = 0 THEN Made(c, 1, LAMBDA f : <<>>)
            ELSE Made(R(got[i - 1]), 2, LAMBDA f : Append(f[1], f[2]))
    IN got[Top(c)]

UnserializeVector(r, R(_)) == Elements(ReadCompactSize(r), R)

\* The containers of sizes, standing for those of any element.
SerializeSizes(v) == SerializeVector([i \in DOMAIN v |-> WriteCompactSize(v[i])])
UnserializeSizes(r) == UnserializeVector(r, ReadCompactSize)

SerializePair(p) == WriteCompactSize(p[1]) \o WriteCompactSize(p[2])
UnserializePair(r) == Made(ReadCompactSize(ReadCompactSize(r)), 2, LAMBDA f : f)

SerializePairs(v) == SerializeVector([i \in DOMAIN v |-> SerializePair(v[i])])
UnserializePairs(r) == UnserializeVector(r, UnserializePair)

\* Maps and sets go in the order of their keys; of the entries that come in
\* with one key the first is kept.
Sorted(S) ==
    CHOOSE s \in [1..Cardinality(S) -> S] : \A i, j \in DOMAIN s : i < j => s[i] < s[j]
SerializeMap(m) ==
    LET keys == Sorted(DOMAIN m) IN SerializePairs([i \in DOMAIN keys |-> <<keys[i], m[keys[i]]>>])

MapOf(pairs) ==
    [k \in {pairs[i][1] : i \in DOMAIN pairs} |->
        pairs[CHOOSE i \in DOMAIN pairs :
                /\ pairs[i][1] = k
                /\ \A j \in 1..(i - 1) : pairs[j][1] # k][2]]

UnserializeMap(r) == Made(UnserializePairs(r), 1, LAMBDA f : MapOf(f[1]))

SerializeSet(S) == SerializeSizes(Sorted(S))
UnserializeSet(r) ==
    Made(UnserializeSizes(r), 1, LAMBDA f : {f[1][i] : i \in DOMAIN f[1]})
=============================================================================
