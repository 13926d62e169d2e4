------------------------------- MODULE Chain -------------------------------
(***************************************************************************)
(* The data the loader works on: the block files Bitcoin Core wrote and    *)
(* what a block in them contains.  A hash, a script hash and a block are   *)
(* names; an amount is left out, since no decision of the code reads it.   *)
(***************************************************************************)
EXTENDS Integers, Sequences

CONSTANTS
    TxIds,         \* transaction hashes
    ScriptHashes,  \* SHash(scriptPubKey): the key of an "address"
    NullHash,      \* the all-zero uint256
    Blocks,        \* the blocks found in the files, by block hash
    vout,          \* vout[b]: the outputs of block b, transaction by transaction
    vin,           \* vin[b]: the inputs of block b, transaction by transaction
    BlkFiles       \* the blk*.dat files in directory order, each a sequence of records

(***************************************************************************)
(* COutPoint: a transaction and an output number.  The default-constructed *)
(* one is null (hash zero, n = (uint32_t) -1).                             *)
(***************************************************************************)
OutPoints == [hash : TxIds, n : Nat]
NullOutPoint == [hash |-> NullHash, n |-> -1]

Outputs == [tx : TxIds, n : Nat, sh : ScriptHashes]
Inputs  == [tx : TxIds, n : Nat, prevout : OutPoints \cup {NullOutPoint}]

(***************************************************************************)
(* What one round of the read loop finds at the current position:          *)
(*   "block"    magic, length and a block that deserializes;               *)
(*   "missing"  magic and length followed directly by the next magic;      *)
(*   "bad"      eight bytes that are not a header of this network;         *)
(*   "thrown"   a read that throws std::ios_base::failure (a short or      *)
(*              malformed record);                                         *)
(*   "zero"     a zero length: the preallocated tail of the file.          *)
(***************************************************************************)
SkippedKinds == {"missing", "bad", "thrown"}
Records == [kind : {"block"}, blk : Blocks] \cup [kind : SkippedKinds \cup {"zero"}]

ASSUME ChainAssumption ==
    /\ NullHash \notin TxIds
    /\ vout \in [Blocks -> Seq(Outputs)]
    /\ vin \in [Blocks -> Seq(Inputs)]
    /\ BlkFiles \in Seq(Seq(Records))

nBlockFiles == Len(BlkFiles)

(***************************************************************************)
(* The rows an output leaves in the two indexes: under its transaction a   *)
(* TXO (n and, once known, its spender), under its script hash the         *)
(* outpoint.                                                               *)
(***************************************************************************)
OutPointOf(o) == [hash |-> o.tx, n |-> o.n]
TxoRow(o)  == <<o.tx, [n |-> o.n, spend |-> NullOutPoint]>>
AddrRow(o) == <<o.sh, OutPointOf(o)>>

OutputsOf(b) == {vout[b][i] : i \in DOMAIN vout[b]}
TxoRows(b)   == {TxoRow(o) : o \in OutputsOf(b)}
AddrRows(b)  == {AddrRow(o) : o \in OutputsOf(b)}

HasKey(rows, k) == \E r \in rows : r[1] = k
=============================================================================
