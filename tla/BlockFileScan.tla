--------------------------- MODULE BlockFileScan ---------------------------
(***************************************************************************)
(* The clients of CBufferedFile.  "loader" is the read loop of one block   *)
(* file in TXODB::PreLoadBlocks: magic, length, a look at the next four    *)
(* bytes that is taken back with SetPos, and the block.  "any" makes every *)
(* call the class offers, in any order.                                    *)
(*                                                                         *)
(* A word of the file (net_magic, len) has Word bytes.  A block is a count *)
(* and that many bytes: what matters of its many fields is that its size   *)
(* follows from its own bytes and not from len, and that it takes several  *)
(* reads.                                                                  *)
(***************************************************************************)
EXTENDS CBufferedFile

CONSTANTS
    Word,     \* bytes of net_magic and of len (4)
    Magic,    \* the bytes before every block of this network
    Files,    \* block files the loader is given
    AnyFiles, \* files of the other client,
    Limits    \*   and the limits it sets

ASSUME BlockFileAssumption ==
    /\ Word \in Nat \ {0} /\ Magic \in [1..Word -> Byte]
    /\ Files \subseteq Seq(Byte) /\ AnyFiles \subseteq Seq(Byte)
    /\ Limits \subseteq Nat \cup {NoLimit}
    /\ nRewind >= Word

\* Every read of the loader fits in front of what can be rewound: the buffer is
\* 128 MB, the longest single read of a block 5 MB (see Serialize, Chunk).
ASSUME ReadsFitAssumption ==
    /\ Word + nRewind <= BufSize
    /\ \A n \in Byte \cup {1} : n + nRewind <= BufSize

VARIABLES
    client,     \* "loader" or "any"
    pc,         \* what the loader waits for
    net_magic,  \* the last magic it read
    found       \* the positions of the blocks it handed on

scanVars == <<client, pc, net_magic, found>>
vars == <<fileVars, scanVars>>

ScanInit ==
    /\ client \in {"loader", "any"} /\ pc = "top"
    /\ net_magic = [i \in 1..Word |-> 0] /\ found = <<>>
    /\ \E d \in IF client = "loader" THEN Files ELSE AnyFiles : FileInit(d)

-----------------------------------------------------------------------------
(* PreLoadBlocks *)

Loader == client = "loader" /\ Free
Delivered == call.how = "ok"
Zero == [i \in 1..Word |-> 0]

\* if (!bf.eof()) bf >> net_magic; else break;
NextRecord ==
    /\ Loader /\ pc = "top"
    /\ \/ ~eof /\ read(Word) /\ pc' = "magic"
       \/ eof /\ fclose /\ pc' = "done"
    /\ UNCHANGED <<client, net_magic, found>>

ReadMagic ==
    /\ Loader /\ pc = "magic" /\ Delivered
    /\ net_magic' = out
    /\ read(Word) /\ pc' = "len"
    /\ UNCHANGED <<client, found>>

\* A zero length ends the file; another magic ends the round.
ReadLen ==
    /\ Loader /\ pc = "len" /\ Delivered
    /\ \/ out = Zero /\ fclose /\ pc' = "done"
       \/ out # Zero /\ net_magic # Magic /\ pc' = "top" /\ UNCHANGED fileVars
       \/ out # Zero /\ net_magic = Magic /\ read(Word) /\ pc' = "peek"
    /\ UNCHANGED <<client, net_magic, found>>

\* Mutant: the bytes looked at are not given back.
Peek_taken ==
    /\ Loader /\ pc = "peek" /\ Delivered
    /\ net_magic' = out /\ UNCHANGED fileVars
    /\ pc' = IF out = Magic THEN "top" ELSE "block"
    /\ UNCHANGED <<client, found>>

\* The next four bytes are looked at and given back; a magic means that the
\* block is missing.
Peek ==
    /\ Loader /\ pc = "peek" /\ Delivered
    /\ net_magic' = out /\ SetPos(nReadPos - Word)
    /\ pc' = IF out = Magic THEN "top" ELSE "block"
    /\ UNCHANGED <<client, found>>

\* bf >> blk
ReadBlock ==
    /\ Loader
    /\ \/ pc = "block" /\ read(1) /\ pc' = "count"
       \/ pc = "count" /\ Delivered /\ read(out[1]) /\ pc' = "body"
    /\ UNCHANGED <<client, net_magic, found>>

BlockRead ==
    /\ Loader /\ pc = "body" /\ Delivered
    /\ found' = Append(found, nReadPos - Len(out) - 1) /\ pc' = "top"
    /\ UNCHANGED <<client, net_magic, fileVars>>

\* catch (std::ios_base::failure): logged, and the next round begins.
Caught ==
    /\ Loader /\ pc \notin {"top", "block", "done"} /\ call.how = "throw"
    /\ pc' = "top"
    /\ UNCHANGED <<client, net_magic, found, fileVars>>

InCall == LoopStep /\ UNCHANGED scanVars

\* Every call, at every position.
AnyCall ==
    /\ client = "any" /\ Free
    /\ \/ \E n \in 0..BufSize : read(n)
       \/ \E c \in Byte : FindByte(c)
       \/ \E p \in 0..nSrcPos + 1 : SetPos(p)
       \/ \E p \in 0..(Len(disk) + 1) : Seek(p)
       \/ \E p \in Limits : SetLimit(p)
       \/ fclose
    /\ UNCHANGED scanVars

LoaderStep ==
    \/ NextRecord \/ ReadMagic \/ ReadLen \/ Peek \/ ReadBlock \/ BlockRead \/ Caught

Next == LoaderStep \/ InCall \/ AnyCall

Spec == ScanInit /\ [][Next]_vars

\* The thread keeps running: a step of the loader or of its call is taken.
FairSpec == Spec /\ WF_vars(LoaderStep \/ InCall)

-----------------------------------------------------------------------------
(* Properties *)

WordAt(p) == SubSeq(disk, p + 1, p + Word)
Fits(p, n) == p + n <= Len(disk)

\* The blocks of a file, read straight from its bytes from position p on.
BlocksFrom[p \in Nat] ==
    IF ~Fits(p, 2 * Word) \/ WordAt(p + Word) = Zero THEN <<>>
    ELSE LET b == p + 2 * Word IN
         IF WordAt(p) # Magic THEN BlocksFrom[b]
         ELSE IF ~Fits(b, Word) THEN <<>>
         ELSE IF WordAt(b) = Magic THEN BlocksFrom[b]
         ELSE IF Fits(b, 1 + disk[b + 1]) THEN <<b>> \o BlocksFrom[b + 1 + disk[b + 1]]
         ELSE <<>>

\* While the file delivers, the loader hands on exactly the blocks that are in
\* it, in order: the ring, the look ahead and its rewind lose and invent none.
ScanExact ==
    /\ client = "loader" /\ ~failed =>
         /\ Len(found) <= Len(BlocksFrom[0])
         /\ found = SubSeq(BlocksFrom[0], 1, Len(found))
    /\ client = "loader" /\ ~failed /\ pc = "done" => found = BlocksFrom[0]

\* The loader gets to the end of the file if reads of it fail only finitely
\* often: a round that threw is given up and the next one goes on behind it, at
\* whatever place that is.  Of a file that cannot be read any more feof never
\* becomes true, and the loop goes on for ever (TXODB.cxx:588).
ScanEnds ==
    <>[][~ReadFails]_vars =>
        ((client = "loader") ~> (client = "loader" /\ pc = "done"))
=============================================================================
