---------------------------- MODULE CDataStream ----------------------------
(***************************************************************************)
(* CDataStream (src/include/electrumz/bitcoin/streams.h): a byte vector    *)
(* that is written at its end and read from its front.  Reading moves      *)
(* nReadPos and leaves the bytes in place, until the end is reached and    *)
(* the vector is cleared; the vector interface works on what is unread.    *)
(*                                                                         *)
(* A call is recorded as the call on a plain vector of bytes it amounts to *)
(* (op, p, q, vals, see StdVectors and ByteStreams), with the method's own *)
(* name (by), the bytes it handed out (got) and whether it succeeded (ok). *)
(***************************************************************************)
EXTENDS Integers, Sequences

CONSTANTS
    StreamByte,  \* values of a byte,
    xor(_, _),   \*   and their exclusive or
    MaxLen,      \* bound on the bytes of a stream
    MaxArg,      \* bound on the bytes given to or asked of one call
    UInt         \* 2^32: the range of the unsigned int nReadPos

ASSUME DataStreamAssumption ==
    /\ 0 \in StreamByte /\ \A a, b \in StreamByte : xor(a, b) \in StreamByte
    /\ MaxLen \in Nat /\ MaxArg \in Nat
    /\ UInt \in Nat /\ MaxLen + MaxArg < UInt

VARIABLES
    ds,     \* ds[x]: vch and nReadPos of the streams "a" and "b"
    scall   \* the last call

streamVars == <<ds, scall>>

Stream == {"a", "b"}
Peer(x) == IF x = "a" THEN "b" ELSE "a"

Unread(s) == SubSeq(s.vch, s.nReadPos + 1, Len(s.vch))
Fresh(v) == [vch |-> v, nReadPos |-> 0]
Without(v, i, j) == SubSeq(v, 1, i) \o SubSeq(v, j + 1, Len(v))
With(v, i, w) == SubSeq(v, 1, i) \o w \o SubSeq(v, i + 1, Len(v))

-----------------------------------------------------------------------------
(* Methods: the stream after the call *)

\* insert at position p of the unread bytes: the room before them is used when
\* they come in front and there is enough of it.
ds_insert(s, p, w) ==
    IF p = 0 /\ Len(w) <= s.nReadPos
    THEN [nReadPos |-> s.nReadPos - Len(w),
          vch |-> [i \in 1..Len(s.vch) |->
                     LET k == i - (s.nReadPos - Len(w)) IN
                     IF k \in 1..Len(w) THEN w[k] ELSE s.vch[i]]]
    ELSE [s EXCEPT !.vch = With(@, s.nReadPos + p, w)]

\* Mutant: the end of the unread bytes is taken for the end of the vector.
ds_erase_end(s, p, q) ==
    IF p = 0
    THEN IF q = Len(s.vch) THEN Fresh(<<>>) ELSE [s EXCEPT !.nReadPos = q]
    ELSE [s EXCEPT !.vch = Without(@, s.nReadPos + p, s.nReadPos + q)]

\* erase of the unread bytes p+1..q: at the front the position moves.
ds_erase(s, p, q) ==
    IF p = 0
    THEN IF s.nReadPos + q = Len(s.vch) THEN Fresh(<<>>)
         ELSE [s EXCEPT !.nReadPos = @ + q]
    ELSE [s EXCEPT !.vch = Without(@, s.nReadPos + p, s.nReadPos + q)]

ds_resize(s, n) ==
    [s EXCEPT !.vch = [i \in 1..(n + s.nReadPos) |-> IF i <= Len(@) THEN @[i] ELSE 0]]

Compact(s) == Fresh(Unread(s))

\* Where read and ignore end, as an unsigned int.
nReadPosNext(s, n) == (s.nReadPos + n) % UInt

\* Mutant: the bytes stay when the end is reached, the position does not.
Consumed_end(s, n) ==
    IF nReadPosNext(s, n) = Len(s.vch) THEN [s EXCEPT !.nReadPos = 0]
    ELSE [s EXCEPT !.nReadPos = nReadPosNext(s, n)]

\* The end of read and ignore: "whenever we reach the end, we take the
\* opportunity to clear the buffer".
Consumed(s, n) ==
    IF nReadPosNext(s, n) = Len(s.vch) THEN Fresh(<<>>)
    ELSE [s EXCEPT !.nReadPos = nReadPosNext(s, n)]

\* Xor goes over as many bytes as are unread, from the front of the vector.
ds_Xor(s, key) ==
    IF key = <<>> THEN s
    ELSE [s EXCEPT !.vch = [i \in 1..Len(@) |->
              IF i <= Len(Unread(s)) THEN xor(@[i], key[((i - 1) % Len(key)) + 1]) ELSE @[i]]]

-----------------------------------------------------------------------------
(* Calls *)

Args == UNION {[1..n -> StreamByte] : n \in 0..MaxArg}
Size(x) == Len(Unread(ds[x]))

Did(by, x, s, op, p, q, vals, got, ok) ==
    /\ ds' = [ds EXCEPT ![x] = s]
    /\ scall' = [by |-> by, on |-> x, op |-> op, p |-> p, q |-> q,
                 vals |-> vals, got |-> got, ok |-> ok]
    /\ Len(s.vch) <= MaxLen

Throws(by, x) == Did(by, x, ds[x], "none", 0, 0, <<>>, <<>>, FALSE)

Write(x) == \E w \in Args :
    Did("write", x, [ds[x] EXCEPT !.vch = @ \o w], "insert", Size(x), 0, w, <<>>, TRUE)

Read(x) == \E n \in 0..MaxArg :
    \/ n = 0 /\ Did("read", x, ds[x], "none", 0, 0, <<>>, <<>>, TRUE)
    \/ n > 0 /\ nReadPosNext(ds[x], n) > Len(ds[x].vch) /\ Throws("read", x)
    \/ /\ n > 0 /\ nReadPosNext(ds[x], n) <= Len(ds[x].vch)
       /\ Did("read", x, Consumed(ds[x], n), "erase", 0, n, <<>>,
              SubSeq(ds[x].vch, ds[x].nReadPos + 1, ds[x].nReadPos + n), TRUE)

\* ignore: as read, but an empty stream is cleared by ignore(0) too.
Ignore(x) == \E n \in -1..MaxArg :
    \/ n < 0 /\ Throws("ignore", x)
    \/ n >= 0 /\ nReadPosNext(ds[x], n) > Len(ds[x].vch) /\ Throws("ignore", x)
    \/ /\ n >= 0 /\ nReadPosNext(ds[x], n) <= Len(ds[x].vch)
       /\ Did("ignore", x, Consumed(ds[x], n), "erase", 0, n, <<>>,
              SubSeq(ds[x].vch, ds[x].nReadPos + 1, ds[x].nReadPos + n), TRUE)

\* insert of a range; one of a single byte or of n bytes goes to the vector.
Insert(x) == \E w \in Args, p \in 0..Size(x) :
    \/ /\ Did("insert", x, IF w = <<>> THEN ds[x] ELSE ds_insert(ds[x], p, w),
              "insert", p, 0, w, <<>>, TRUE)
    \/ /\ w # <<>> /\ \A i \in 1..Len(w) : w[i] = w[1]
       /\ Did("insert_n", x, [ds[x] EXCEPT !.vch = With(@, ds[x].nReadPos + p, w)],
              "insert", p, 0, w, <<>>, TRUE)

Erase(x) == \E q \in 0..Size(x) : \E p \in 0..q :
    Did("erase", x, ds_erase(ds[x], p, q), "erase", p, q, <<>>, <<>>, TRUE)

Resize(x) == \E n \in 0..MaxLen :
    Did("resize", x, ds_resize(ds[x], n), "resize", n, 0, <<>>, <<>>, TRUE)

Clear(x) == Did("clear", x, Fresh(<<>>), "clear", 0, 0, <<>>, <<>>, TRUE)

CompactCall(x) == Did("Compact", x, Compact(ds[x]), "none", 0, 0, <<>>, <<>>, TRUE)

\* Rewind by n (q) succeeds while the bytes are still in front of the position.
Rewind(x) == \E n \in 0..MaxArg :
    \/ n > ds[x].nReadPos /\ Did("Rewind", x, ds[x], "none", 0, n, <<>>, <<>>, FALSE)
    \/ /\ n <= ds[x].nReadPos
       /\ Did("Rewind", x, [ds[x] EXCEPT !.nReadPos = @ - n], "insert", 0, n,
              SubSeq(ds[x].vch, ds[x].nReadPos - n + 1, ds[x].nReadPos), <<>>, TRUE)

\* operator+= takes what is unread of the other stream.
Plus(x) ==
    Did("+=", x, [ds[x] EXCEPT !.vch = @ \o Unread(ds[Peer(x)])],
        "append", 0, 0, <<>>, <<>>, TRUE)

\* operator<< of a stream writes the other's whole vector.
Shift(x) ==
    Did("<<", x, [ds[x] EXCEPT !.vch = @ \o ds[Peer(x)].vch],
        "append", 0, 0, <<>>, <<>>, TRUE)

GetAndClear(x) ==
    Did("GetAndClear", x, Fresh(<<>>), "clear", 0, 0, <<>>, Unread(ds[x]), TRUE)

Xor(x) == \E key \in Args :
    Did("Xor", x, ds_Xor(ds[x], key), "xor", 0, 0, key, <<>>, TRUE)

\* The constructors: a stream over the bytes it is given.
Construct(x) == \E w \in Args :
    Did("CDataStream", x, Fresh(w), "construct", 0, 0, w, <<>>, TRUE)

StreamInit ==
    /\ ds = [x \in Stream |-> Fresh(<<>>)]
    /\ scall = [by |-> "Init", on |-> "a", op |-> "none", p |-> 0, q |-> 0,
                vals |-> <<>>, got |-> <<>>, ok |-> TRUE]

StreamNext == \E x \in Stream :
    \/ Write(x) \/ Read(x) \/ Ignore(x) \/ Insert(x) \/ Erase(x) \/ Resize(x)
    \/ Clear(x) \/ CompactCall(x) \/ Rewind(x) \/ Plus(x) \/ Shift(x)
    \/ GetAndClear(x) \/ Xor(x) \/ Construct(x)

StreamSpec == StreamInit /\ [][StreamNext]_streamVars

-----------------------------------------------------------------------------
(* Properties *)

Unreads == [x \in Stream |-> Unread(ds[x])]

Vectors == INSTANCE ByteStreams WITH contents <- Unreads, call <- scall, Zero <- 0, xor <- xor

\* The two calls that take vch from its first byte, on a stream bytes of which
\* were read and are still there: << writes those bytes too, and Xor goes over
\* them in place of as many at the end.
StaleBytes ==
    LET x == scall'.on  y == Peer(x) IN
    /\ Unreads'[y] = Unreads[y]
    /\ \/ /\ scall'.by = "<<" /\ ds[y].nReadPos > 0
          /\ Unreads'[x] = (Unreads[x] \o SubSeq(ds[y].vch, 1, ds[y].nReadPos)) \o Unreads[y]
       \/ /\ scall'.by = "Xor" /\ ds[x].nReadPos > 0
          /\ Len(Unreads'[x]) = Len(Unreads[x])
          /\ \A i \in 1..Len(Unreads[x]) :
               i + ds[x].nReadPos > Len(Unreads[x]) => Unreads'[x][i] = Unreads[x][i]

\* Every call does to the unread bytes of the streams what it does to two plain
\* vectors of bytes: the bytes in front of the read position, and which of the
\* shortcuts of insert and erase is taken, show in no call but << of a partly
\* read stream and Xor on one.
ImplementsStreams ==
    /\ Vectors!Init
    /\ [][Vectors!StreamNext \/ StaleBytes]_<<Unreads, scall>>

\* What is handed out is the front of the unread bytes, a call that throws takes
\* nothing, and after a read as many bytes as it took can be rewound, back to
\* where they were, exactly while some are left unread: a read to the end has
\* thrown them away.
StreamDelivers ==
    [][LET x == scall'.on IN
       /\ scall'.by \in {"read", "ignore", "GetAndClear"} =>
            scall'.got \o Unreads'[x] = Unreads[x]
       /\ ~scall'.ok => ds' = ds
       /\ LET n == scall'.q  g == scall.got IN
          scall.by = "read" /\ scall'.by = "Rewind" /\ scall.on = x /\ n <= Len(g) =>
            /\ scall'.ok <=> n = 0 \/ Unreads[x] # <<>>
            /\ scall'.ok => Unreads'[x] = SubSeq(g, Len(g) - n + 1, Len(g)) \o Unreads[x]
      ]_streamVars
=============================================================================
