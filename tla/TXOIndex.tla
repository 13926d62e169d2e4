------------------------------ MODULE TXOIndex ------------------------------
(***************************************************************************)
(* What the committed database promises a reader, whatever the loader's    *)
(* threads are doing: it changes by whole blocks.  A step either indexes   *)
(* one block (its header and every key its outputs need, together) or      *)
(* stores a header alone, as the loader's second pass does.  No step shows *)
(* part of a block and no step touches a key the block does not have.      *)
(***************************************************************************)
EXTENDS Chain

VARIABLES
    blk,   \* the blocks whose header is stored
    txo,   \* rows <<transaction, TXO>>
    addr   \* rows <<script hash, outpoint>>

vars == <<blk, txo, addr>>

Init == blk = {} /\ txo = {} /\ addr = {}

(***************************************************************************)
(* new is old with rows written into it: nothing but these rows is new,    *)
(* every key of rows now holds one of them, and no row under another key   *)
(* is lost.  It leaves open whether a row replaces the earlier rows of its *)
(* key or joins them.                                                      *)
(***************************************************************************)
Written(old, new, rows) ==
    /\ new \subseteq old \cup rows
    /\ \A r \in rows : HasKey(new \cap rows, r[1])
    /\ \A r \in old : ~HasKey(rows, r[1]) => r \in new

IndexBlock(b) ==
    /\ blk' = blk \cup {b}
    /\ Written(txo, txo', TxoRows(b))
    /\ Written(addr, addr', AddrRows(b))

StoreHeader(b) ==
    /\ blk' = blk \cup {b}
    /\ UNCHANGED <<txo, addr>>

Next == \E b \in Blocks : IndexBlock(b) \/ StoreHeader(b)

Spec == Init /\ [][Next]_vars
=============================================================================
