---------------------------- MODULE ByteStreams ----------------------------
(***************************************************************************)
(* What the comments of streams.h promise of a CDataStream, "double ended  *)
(* buffer combining vector and stream-like interfaces" (streams.h:199):    *)
(* the bytes that can still be read are a vector, with every call of one,  *)
(* and two calls more.  "stream << stream concatenates like stream +=      *)
(* stream" (streams.h:445) and "XOR the contents of this stream with a     *)
(* certain key" (streams.h:472).                                           *)
(***************************************************************************)
EXTENDS StdVectors

CONSTANT xor(_, _)

\* The bytes s under a key that is repeated as often as is needed.
Masked(s, key) ==
    IF key = <<>> THEN s
    ELSE [i \in 1..Len(s) |-> xor(s[i], key[((i - 1) % Len(key)) + 1])]

\* The bytes of a stream after the call c, given those of both before it.
StreamEffect(c, s, t) ==
    CASE c.op = "append" -> s \o t
      [] c.op = "xor"    -> Masked(s, c.vals)
      [] OTHER           -> Effect(c, Zero, s, t)

StreamNext ==
    contents' = [x \in {"a", "b"} |->
        IF x = call'.on THEN StreamEffect(call', contents[x], contents[Other(x)])
        ELSE contents[x]]
=============================================================================
