------------------------------ MODULE MCTXODB ------------------------------
(***************************************************************************)
(* A small chain for TXODB: three blocks in two files.  Block b1 has a     *)
(* transaction with two outputs, b2 pays an address of b1 again, and the   *)
(* second file starts with a foreign record and ends in a zero tail that   *)
(* hides a block.  A unit of three rows makes every larger block find the  *)
(* map full.                                                               *)
(***************************************************************************)
EXTENDS TXODB, TLC

CONSTANTS b1, b2, b3, x1, x2, x3, s1, s2, t1, t2

TxOut(x, i, s) == [tx |-> x, n |-> i, sh |-> s]
TxIn(x, i, p)  == [tx |-> x, n |-> i, prevout |-> p]

MCvout == (b1 :> <<TxOut(x1, 0, s1), TxOut(x1, 1, s2)>>)
       @@ (b2 :> <<TxOut(x2, 0, s1)>>)
       @@ (b3 :> <<TxOut(x3, 0, s2)>>)
MCvin == (b1 :> <<TxIn(x1, 0, NullOutPoint)>>)
      @@ (b2 :> <<TxIn(x2, 0, [hash |-> x1, n |-> 0])>>)
      @@ (b3 :> <<TxIn(x3, 0, NullOutPoint), TxIn(x3, 1, [hash |-> x2, n |-> 0])>>)

Found(b) == [kind |-> "block", blk |-> b]
Other(k) == [kind |-> k]

MCBlkFiles == << <<Found(b1), Other("missing"), Found(b2)>>,
                 <<Other("bad"), Found(b3), Other("zero"), Found(b1)>> >>
=============================================================================
