----------------------------- MODULE StdVectors -----------------------------
(***************************************************************************)
(* What prevector promises (prevector.h:19, "a drop-in replacement for     *)
(* std::vector"): two vectors a and b, and the effect of every call on     *)
(* their contents.  call is the last call: the operation, the vector it    *)
(* was made on, two positions or counts p and q, and a list of values.     *)
(***************************************************************************)
EXTENDS Naturals, Sequences

VARIABLES contents, call

Other(x) == IF x = "a" THEN "b" ELSE "a"

\* The contents of vector x after the call c, given both contents before it.
\* A vector grows with T{}, the default value zero.
Effect(c, zero, s, t) ==
    CASE c.op = "insert"    -> SubSeq(s, 1, c.p) \o c.vals \o SubSeq(s, c.p + 1, Len(s))
      [] c.op = "push_back" -> s \o c.vals
      [] c.op = "erase"     -> SubSeq(s, 1, c.p) \o SubSeq(s, c.q + 1, Len(s))
      [] c.op = "pop_back"  -> SubSeq(s, 1, Len(s) - 1)
      [] c.op = "resize"    -> [i \in 1..c.p |-> IF i <= Len(s) THEN s[i] ELSE zero]
      [] c.op \in {"reserve", "shrink_to_fit", "none"} -> s
      [] c.op = "clear"     -> <<>>
      [] c.op \in {"assign", "construct"} -> c.vals
      [] c.op \in {"swap", "copy"}        -> t

\* The contents of the other vector.
SideEffect(c, s, t) == IF c.op = "swap" THEN s ELSE t

CONSTANT Zero

Init == contents = [x \in {"a", "b"} |-> <<>>] /\ call.op = "none"

Next ==
    /\ contents' = [x \in {"a", "b"} |->
           IF x = call'.on
           THEN Effect(call', Zero, contents[x], contents[Other(x)])
           ELSE SideEffect(call', contents[Other(x)], contents[x])]

Spec == Init /\ [][Next]_<<contents, call>>
=============================================================================
