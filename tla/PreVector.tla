----------------------------- MODULE PreVector -----------------------------
(***************************************************************************)
(* prevector (src/include/electrumz/bitcoin/prevector.h), the storage of   *)
(* every CScript: up to N elements inside the object, more in a heap block *)
(* whose pointer and capacity share the object's bytes with the elements.  *)
(* _size is the number of elements, plus N + 1 while the block is in use.  *)
(*                                                                         *)
(* A method is an operator on a memory m, the object's fields and the heap *)
(* it sees.  Memory that holds no element is Junk: malloc'ed or erased     *)
(* cells, and the half of the union that was overwritten through the       *)
(* other.  The values given to a method are not elements of the vector     *)
(* itself, as for every caller in the repository.                          *)
(***************************************************************************)
EXTENDS Integers, Sequences, FiniteSets

CONSTANTS
    N,        \* elements kept in the object (28 for CScript)
    Val,      \* values of an element
    Zero,     \* T{}
    MaxSize,  \* bound on the number of elements
    MaxVals   \* bound on the values given to one call

Junk == -1   \* what memory without an element holds

ASSUME PreVectorAssumption ==
    /\ N \in Nat \ {0} /\ MaxSize \in Nat /\ MaxVals \in Nat
    /\ Val \subseteq Nat /\ Zero \in Val

Vec == {"a", "b"}
Other(x) == IF x = "a" THEN "b" ELSE "a"

Blocks == {1, 2}   \* addresses malloc returns: one for each vector is enough

VARIABLES
    obj,    \* obj[x]: _size, and _union seen as direct and as capacity, indirect
    heap,   \* blocks that are allocated -> their cells
    call    \* the last call and its arguments

vars == <<obj, heap, call>>

-----------------------------------------------------------------------------
(* Memory *)

Cells(n) == [0..(n - 1) -> Val \cup {Junk}]
JunkCells(n) == [i \in 0..(n - 1) |-> Junk]

\* The first k cells of c in an array of n cells: what malloc or realloc and
\* memcpy leave.
Copied(c, k, n) == [i \in 0..(n - 1) |-> IF i < k THEN c[i] ELSE Junk]

\* memmove of n cells from src to dst; cells past the array come into being.
Moved(c, dst, src, n) ==
    [i \in DOMAIN c \cup dst..(dst + n - 1) |->
        IF i \in dst..(dst + n - 1) THEN c[src + i - dst] ELSE c[i]]

\* fill: the values of vals from position dst on.
Filled(c, dst, vals) ==
    [i \in DOMAIN c \cup dst..(dst + Len(vals) - 1) |->
        IF i \in dst..(dst + Len(vals) - 1) THEN vals[i - dst + 1] ELSE c[i]]

-----------------------------------------------------------------------------
(* Accessors *)

is_direct(m) == m.size <= N
size(m)      == IF is_direct(m) THEN m.size ELSE m.size - N - 1
capacity(m)  == IF is_direct(m) THEN N ELSE m.capacity

\* item_ptr: the array the elements are in, and a write to it.
items(m) == IF is_direct(m) THEN m.direct ELSE m.heap[m.indirect]
Write(m, c) ==
    IF is_direct(m) THEN [m EXCEPT !.direct = c]
                    ELSE [m EXCEPT !.heap = [@ EXCEPT ![m.indirect] = c]]

Contents(m) == [i \in 1..size(m) |-> items(m)[i - 1]]

malloc(h) == CHOOSE b \in Blocks : b \notin DOMAIN h
free(h, b) == [i \in DOMAIN h \ {b} |-> h[i]]

-----------------------------------------------------------------------------
(* Methods *)

change_capacity(m, n) ==
    IF n <= N
    THEN IF is_direct(m) THEN m
         ELSE [m EXCEPT !.direct = Copied(m.heap[m.indirect], size(m), N),
                        !.heap = free(m.heap, m.indirect),
                        !.capacity = 0, !.indirect = 0,
                        !.size = m.size - (N + 1)]
    ELSE IF is_direct(m)
         THEN LET b == malloc(m.heap) IN
              [m EXCEPT !.heap = [i \in DOMAIN m.heap \cup {b} |->
                                    IF i = b THEN Copied(m.direct, size(m), n)
                                             ELSE m.heap[i]],
                        !.direct = JunkCells(N),
                        !.capacity = n, !.indirect = b,
                        !.size = m.size + N + 1]
         ELSE [m EXCEPT !.heap = [@ EXCEPT ![m.indirect] = Copied(items(m), size(m), n)],
                        !.capacity = n]

\* Mutant: the capacity is compared with one element too few.
Grown_late(m, new_size) ==
    IF capacity(m) + 1 < new_size
    THEN change_capacity(m, new_size + (new_size \div 2)) ELSE m

\* Growth leaves room for half as many elements again.
Grown(m, new_size) ==
    IF capacity(m) < new_size
    THEN change_capacity(m, new_size + (new_size \div 2)) ELSE m

\* Mutant: the tail is moved by one cell however many values come in.
insert_one(m, p, vals) ==
    LET g == Grown(m, size(m) + Len(vals))
        w == Write(g, Moved(items(g), p + 1, p, size(g) - p))
    IN Write([w EXCEPT !.size = @ + Len(vals)], Filled(items(w), p, vals))

\* The three insert methods: make room, move the tail, count, fill.
insert(m, p, vals) ==
    LET g == Grown(m, size(m) + Len(vals))
        w == Write(g, Moved(items(g), p + Len(vals), p, size(g) - p))
    IN Write([w EXCEPT !.size = @ + Len(vals)], Filled(items(w), p, vals))

push_back(m, v) ==
    LET g == Grown(m, size(m) + 1)
    IN [Write(g, Filled(items(g), size(g), <<v>>)) EXCEPT !.size = @ + 1]

\* Mutant: erase gives the block back as soon as the elements fit the object.
erase_shrinks(m, first, last) ==
    LET k == size(m) - (last - first)
        c == Moved(items(m), first, last, size(m) - last)
        e == [Write(m, Copied(c, k, capacity(m))) EXCEPT !.size = @ - (last - first)]
    IN change_capacity(e, k)

\* erase never changes the capacity.  The cells it gives up are Junk.
erase(m, first, last) ==
    LET k == size(m) - (last - first)
        c == Moved(items(m), first, last, size(m) - last)
    IN [Write(m, Copied(c, k, capacity(m))) EXCEPT !.size = @ - (last - first)]

pop_back(m) == erase(m, size(m) - 1, size(m))

resize(m, n) ==
    IF n <= size(m) THEN erase(m, n, size(m))
    ELSE LET g == IF n > capacity(m) THEN change_capacity(m, n) ELSE m
             w == Write(g, Filled(items(g), size(g), [i \in 1..(n - size(m)) |-> Zero]))
         IN [w EXCEPT !.size = @ + (n - size(m))]

reserve(m, n) == IF n > capacity(m) THEN change_capacity(m, n) ELSE m

shrink_to_fit(m) == change_capacity(m, size(m))

clear(m) == resize(m, 0)

\* _size first, then the cells: the layout is the one change_capacity chose.
AddAndFill(m, vals) ==
    LET g == [m EXCEPT !.size = @ + Len(vals)]
    IN Write(g, Filled(items(g), 0, vals))

assign(m, vals) ==
    LET c == clear(m)
    IN AddAndFill(IF capacity(c) < Len(vals) THEN change_capacity(c, Len(vals)) ELSE c, vals)

\* The constructors: an empty object, the capacity that is needed, the values.
Empty(h) == [size |-> 0, direct |-> JunkCells(N), capacity |-> 0, indirect |-> 0, heap |-> h]
construct(h, vals) == AddAndFill(change_capacity(Empty(h), Len(vals)), vals)

\* The destructor: what is left of the heap.
destroy(m) == IF is_direct(m) THEN m.heap ELSE free(m.heap, m.indirect)

\* Comparison: by size, then by the first element that differs.
Equal(m, n) ==
    /\ size(m) = size(n)
    /\ \A i \in 0..(size(m) - 1) : items(m)[i] = items(n)[i]
\* Mutant: no comparison of the sizes.
Less_prefix(m, n) ==
    \E i \in 0..(size(m) - 1) :
       /\ i < size(n) /\ items(m)[i] < items(n)[i]
       /\ \A j \in 0..(i - 1) : items(m)[j] = items(n)[j]

Less(m, n) ==
    \/ size(m) < size(n)
    \/ /\ size(m) = size(n)
       /\ \E i \in 0..(size(m) - 1) :
            /\ items(m)[i] < items(n)[i]
            /\ \A j \in 0..(i - 1) : items(m)[j] = items(n)[j]

-----------------------------------------------------------------------------
(* The calls *)

Mem(x) == [size |-> obj[x].size, direct |-> obj[x].direct,
           capacity |-> obj[x].capacity, indirect |-> obj[x].indirect, heap |-> heap]
Fields(m) == [size |-> m.size, direct |-> m.direct, capacity |-> m.capacity,
              indirect |-> m.indirect]

Values == UNION {[1..n -> Val] : n \in 0..MaxVals}

\* The call op on vector x leaves it, and the heap, as in m.
Do(op, x, p, q, vals, m) ==
    /\ obj' = [obj EXCEPT ![x] = Fields(m)]
    /\ heap' = m.heap
    /\ call' = [op |-> op, on |-> x, p |-> p, q |-> q, vals |-> vals]

Insert(x) ==
    \E p \in 0..size(Mem(x)), vals \in Values :
        /\ size(Mem(x)) + Len(vals) <= MaxSize
        /\ Do("insert", x, p, 0, vals, insert(Mem(x), p, vals))

PushBack(x) ==
    \E v \in Val :
        /\ size(Mem(x)) < MaxSize
        /\ Do("push_back", x, 0, 0, <<v>>, push_back(Mem(x), v))

Erase(x) ==
    \E q \in 0..size(Mem(x)) : \E p \in 0..q :
        Do("erase", x, p, q, <<>>, erase(Mem(x), p, q))

PopBack(x) ==
    /\ size(Mem(x)) > 0
    /\ Do("pop_back", x, 0, 0, <<>>, pop_back(Mem(x)))

Resize(x) ==
    \E n \in 0..MaxSize : Do("resize", x, n, 0, <<>>, resize(Mem(x), n))

Reserve(x) ==
    \E n \in 0..MaxSize : Do("reserve", x, n, 0, <<>>, reserve(Mem(x), n))

ShrinkToFit(x) == Do("shrink_to_fit", x, 0, 0, <<>>, shrink_to_fit(Mem(x)))

Clear(x) == Do("clear", x, 0, 0, <<>>, clear(Mem(x)))

\* CScript::clear also gives the block back.
ScriptClear(x) == Do("clear", x, 1, 0, <<>>, shrink_to_fit(clear(Mem(x))))

Assign(x) ==
    \E vals \in Values :
        Do("assign", x, 0, 0, vals, assign(Mem(x), vals))

\* Copy assignment from the other vector.
Copy(x) == Do("copy", x, 0, 0, <<>>, assign(Mem(x), Contents(Mem(Other(x)))))

\* The object's life ends and another one begins in its place.
Construct(x) ==
    \E vals \in Values :
        Do("construct", x, 0, 0, vals, construct(destroy(Mem(x)), vals))

\* swap, move assignment and move construction.
Swap ==
    /\ obj' = [x \in Vec |-> obj[Other(x)]]
    /\ call' = [op |-> "swap", on |-> "a", p |-> 0, q |-> 0, vals |-> <<>>]
    /\ UNCHANGED heap

Init ==
    /\ obj = [x \in Vec |-> Fields(Empty(<<>>))]
    /\ heap = <<>>
    /\ call = [op |-> "none", on |-> "a", p |-> 0, q |-> 0, vals |-> <<>>]

Next ==
    \/ \E x \in Vec :
         \/ Insert(x) \/ PushBack(x) \/ Erase(x) \/ PopBack(x) \/ Resize(x)
         \/ Reserve(x) \/ ShrinkToFit(x) \/ Clear(x) \/ ScriptClear(x)
         \/ Assign(x) \/ Copy(x) \/ Construct(x)
    \/ Swap

Spec == Init /\ [][Next]_vars

-----------------------------------------------------------------------------
(* Properties *)

Owns(x) == IF is_direct(Mem(x)) THEN {} ELSE {obj[x].indirect}

\* The layout the comment of prevector.h describes: an object either holds its
\* elements, at most N, or owns a block of exactly capacity cells, more than N,
\* that holds them; two objects never share a block and every block has an
\* owner.
LayoutOK ==
    /\ \A x \in Vec :
         LET m == Mem(x) IN
         /\ m.size \in Nat /\ m.direct \in Cells(N)
         /\ ~is_direct(m) =>
              /\ m.capacity \in Nat /\ m.capacity > N /\ size(m) <= m.capacity
              /\ m.indirect \in DOMAIN heap /\ heap[m.indirect] \in Cells(m.capacity)
         /\ \A i \in 0..(size(m) - 1) : items(m)[i] \in Val
    /\ Owns("a") \cap Owns("b") = {}
    /\ DOMAIN heap = Owns("a") \cup Owns("b")

\* The elements behave as those of two std::vectors, whatever the layout.
Vectors == INSTANCE StdVectors WITH
    contents <- [x \in Vec |-> Contents(Mem(x))], call <- call, Zero <- Zero
ImplementsVectors == Vectors!Spec

\* "Erase is not allowed to the change the object's capacity" (prevector.h:386),
\* nor are the calls made of it; an object never gives its block back unless
\* shrink_to_fit, a swap or its end asks for that.
EraseKeepsCapacity ==
    [][\A x \in Vec :
         /\ call'.on = x /\ call'.op \in {"erase", "pop_back", "resize", "reserve", "assign", "copy"}
            => capacity(Mem(x)') >= capacity(Mem(x))
         /\ call'.on = x /\ call'.op \in {"erase", "pop_back"}
            => capacity(Mem(x)') = capacity(Mem(x))]_vars

\* operator== and operator< agree with each other and with the contents: of two
\* scripts exactly one is less, or both are equal.
OrderTotal ==
    LET a == Mem("a")  b == Mem("b") IN
    /\ Equal(a, b) <=> Contents(a) = Contents(b)
    /\ Cardinality({i \in 1..3 : <<Less(a, b), Equal(a, b), Less(b, a)>>[i]}) = 1
=============================================================================
