--------------------------- MODULE CBufferedFile ---------------------------
(***************************************************************************)
(* CBufferedFile (src/include/electrumz/bitcoin/streams.h): a block file   *)
(* read through a ring buffer.  "It guarantees the ability to rewind a     *)
(* given number of bytes" (streams.h:712).                                 *)
(*                                                                         *)
(* read and FindByte are loops that alternate between filling the ring     *)
(* from the file and taking bytes out of it: a call stays in progress over *)
(* several steps, and a read of the file may fail in each of them, any      *)
(* number of times.                                                        *)
(***************************************************************************)
EXTENDS Integers, Sequences

CONSTANTS
    Byte,       \* values of a byte
    BufSize,    \* vchBuf.size()
    nRewind,    \* how many bytes SetPos may go back
    MaxSeeks    \* bound: calls of Seek

ASSUME BufferedFileAssumption ==
    /\ BufSize \in Nat /\ nRewind \in Nat /\ nRewind < BufSize
    /\ Byte \subseteq Nat /\ 0 \in Byte
    /\ MaxSeeks \in Nat

VARIABLES
    disk,        \* the bytes of the file
    src,         \* "open" or "closed"
    fpos, feof,  \* stdio's position in the file and its end-of-file flag
    nSrcPos,     \* bytes read from the file
    nReadPos,    \* bytes taken out of the buffer
    nReadLimit,  \* position no read may pass, or NoLimit
    vchBuf,      \* the ring
    call,        \* the call in progress, or the way the last one ended
    out,         \* the bytes it delivered
    from,        \* history: nReadPos when it began,
    kept,        \*   and whether that is a position the rewind guarantee covers
    base,        \* history: position of the last Seek
    hi,          \* history: furthest reading position since
    failed,      \* history: whether a read of the file has failed
    seeks        \* history: calls of Seek

posVars == <<nSrcPos, nReadPos, vchBuf>>
stdioVars == <<fpos, feof, failed>>
callVars == <<call, out, from, kept>>
fileVars == <<disk, src, stdioVars, posVars, nReadLimit, callVars, base, hi, seeks>>

NoLimit == -1
Least(a, b) == IF a < b THEN a ELSE b
Furthest(a, b) == IF a > b THEN a ELSE b

Idle(how) == [op |-> "none", left |-> 0, ch |-> 0, how |-> how]
Free == src = "open" /\ call.op = "none"

FileInit(d) ==
    /\ disk = d /\ src = "open" /\ fpos = 0 /\ feof = FALSE
    /\ nSrcPos = 0 /\ nReadPos = 0 /\ nReadLimit = NoLimit
    /\ vchBuf = [i \in 0..(BufSize - 1) |-> 0]
    /\ call = Idle("ok") /\ out = <<>> /\ from = 0 /\ kept = TRUE
    /\ base = 0 /\ hi = 0 /\ failed = FALSE /\ seeks = 0

-----------------------------------------------------------------------------
(* Calls *)

\* The rewind guarantee covers the position the call starts at.
Covered == nReadPos >= base /\ nReadPos + nRewind >= hi

Begin(c) ==
    /\ call' = c /\ out' = <<>> /\ from' = nReadPos /\ kept' = Covered
    /\ UNCHANGED <<disk, src, stdioVars, posVars, nReadLimit, base, hi, seeks>>

\* A call that delivers nothing.
Settled == call' = Idle("ok") /\ out' = <<>> /\ from' = nReadPos /\ kept' = FALSE

\* Mutant: the limit is compared with the start of the read.
ReadRefused_late(n) ==
    \/ nReadLimit # NoLimit /\ nReadPos > nReadLimit
    \/ n + nRewind > BufSize

\* read: refused past the limit and when it cannot leave nRewind bytes behind.
ReadRefused(n) ==
    \/ nReadLimit # NoLimit /\ n + nReadPos > nReadLimit
    \/ n + nRewind > BufSize

read(n) ==
    /\ Free
    /\ IF ReadRefused(n) THEN Begin(Idle("throw"))
       ELSE IF n = 0 THEN Begin(Idle("ok"))
       ELSE Begin([op |-> "read", left |-> n, ch |-> 0, how |-> "running"])

FindByte(c) ==
    /\ Free
    /\ Begin([op |-> "find", left |-> 0, ch |-> c, how |-> "running"])

\* Mutant: the end is where the file was read past its size.
eof_size == nReadPos = nSrcPos /\ fpos > Len(disk)

\* eof: nothing left in the buffer, and the file has said that it ended.
eof == nReadPos = nSrcPos /\ feof

SetPos(p) ==
    /\ Free
    /\ nReadPos' = Least(p, nSrcPos)
    /\ Settled
    /\ hi' = Furthest(hi, nReadPos')
    /\ UNCHANGED <<disk, src, stdioVars, nSrcPos, vchBuf, nReadLimit, base, seeks>>

\* Mutant: the file itself stays where it is.
Seek_unmoved(p) ==
    /\ Free
    /\ nSrcPos' = p /\ nReadPos' = p /\ feof' = FALSE
    /\ base' = p /\ hi' = p
    /\ seeks < MaxSeeks /\ seeks' = seeks + 1
    /\ Settled
    /\ UNCHANGED <<disk, src, fpos, failed, vchBuf, nReadLimit>>

\* Seek: the file's position and both of the buffer's; the ring is not touched.
Seek(p) ==
    /\ Free
    /\ fpos' = p /\ feof' = FALSE
    /\ nSrcPos' = p /\ nReadPos' = p
    /\ base' = p /\ hi' = p
    /\ seeks < MaxSeeks /\ seeks' = seeks + 1
    /\ Settled
    /\ UNCHANGED <<disk, src, failed, vchBuf, nReadLimit>>

\* SetLimit: a limit behind the reading position is refused.
SetLimit(p) ==
    /\ Free
    /\ p = NoLimit \/ p >= nReadPos
    /\ nReadLimit' = p
    /\ Settled
    /\ UNCHANGED <<disk, src, stdioVars, posVars, base, hi, seeks>>

fclose ==
    /\ Free
    /\ src' = "closed"
    /\ UNCHANGED <<disk, stdioVars, posVars, nReadLimit, callVars, base, hi, seeks>>

-----------------------------------------------------------------------------
(* The loops of read and FindByte *)

Running == call.op # "none"

\* Mutant: no room is left behind the reading position.
readNow_all == Least(BufSize - (nSrcPos % BufSize), BufSize - (nSrcPos - nReadPos))

\* Fill asks for what fits before the end of the ring, without touching the
\* nRewind bytes behind the reading position.
readNow == Least(BufSize - (nSrcPos % BufSize), BufSize - (nSrcPos - nReadPos) - nRewind)

\* How many bytes the file still has.
Remaining == IF fpos < Len(disk) THEN Len(disk) - fpos ELSE 0

\* fread puts k bytes of the file into the ring at pos.
Filled(pos, k) ==
    [i \in 0..(BufSize - 1) |->
        IF i \in pos..(pos + k - 1) THEN disk[fpos + 1 + (i - pos)] ELSE vchBuf[i]]

\* fread brings k bytes: as many as were asked for, or what the file still has.
Fill ==
    /\ Running /\ nReadPos = nSrcPos
    /\ LET k == Least(readNow, Remaining) IN
       /\ k > 0
       /\ vchBuf' = Filled(nSrcPos % BufSize, k)
       /\ nSrcPos' = nSrcPos + k /\ fpos' = fpos + k
       /\ feof' = (feof \/ readNow > k)
    /\ UNCHANGED <<disk, src, failed, nReadPos, nReadLimit, callVars, base, hi, seeks>>

\* A read of the file fails after k bytes, which Fill does not notice: feof says
\* nothing.
FillShort(k) ==
    /\ Running /\ nReadPos = nSrcPos
    /\ k < readNow /\ k <= Remaining
    /\ vchBuf' = Filled(nSrcPos % BufSize, k)
    /\ nSrcPos' = nSrcPos + k /\ fpos' = fpos + k
    /\ failed' = TRUE
    /\ UNCHANGED <<disk, src, feof, nReadPos, nReadLimit, callVars, base, hi, seeks>>

\* fread brings nothing at the end of the file: Fill throws out of the loop.
FillEnds ==
    /\ Running /\ nReadPos = nSrcPos /\ Remaining = 0
    /\ feof' = TRUE
    /\ call' = Idle("throw")
    /\ UNCHANGED <<disk, src, fpos, failed, posVars, nReadLimit, out, from, kept, base, hi, seeks>>

\* fread fails before the first byte, at the end of the file or not: Fill throws
\* as well, and feof says nothing.
FillFails ==
    /\ Running /\ nReadPos = nSrcPos
    /\ failed' = TRUE
    /\ call' = Idle("throw")
    /\ UNCHANGED <<disk, src, fpos, feof, posVars, nReadLimit, out, from, kept, base, hi, seeks>>

\* The steps in which the operating system fails to read.
ReadFails == (\E k \in 1..BufSize : FillShort(k)) \/ FillFails

\* Mutant: a chunk may be longer than what is left to read.
nNow_long == Least(BufSize - (nReadPos % BufSize), nSrcPos - nReadPos)

\* One memcpy of read: up to the end of the ring and to what has been filled.
nNow == LET pos == nReadPos % BufSize IN
        Least(Least(call.left, BufSize - pos), nSrcPos - nReadPos)

ReadChunk ==
    /\ call.op = "read" /\ nReadPos < nSrcPos
    /\ out' = out \o [i \in 1..nNow |-> vchBuf[(nReadPos % BufSize) + i - 1]]
    /\ nReadPos' = nReadPos + nNow
    /\ hi' = Furthest(hi, nReadPos')
    /\ call' = IF call.left = nNow THEN Idle("ok") ELSE [call EXCEPT !.left = @ - nNow]
    /\ UNCHANGED <<disk, src, stdioVars, nSrcPos, vchBuf, nReadLimit, from, kept, base, seeks>>

\* Mutant: the byte that is found is taken out of the buffer too.
FindChunk_past ==
    /\ call.op = "find" /\ nReadPos < nSrcPos
    /\ nReadPos' = nReadPos + 1 /\ hi' = Furthest(hi, nReadPos')
    /\ call' = IF vchBuf[nReadPos % BufSize] = call.ch THEN [Idle("ok") EXCEPT !.ch = call.ch]
                                                       ELSE call
    /\ UNCHANGED <<disk, src, stdioVars, nSrcPos, vchBuf, nReadLimit, out, from, kept, base, seeks>>

\* One round of FindByte, which looks at no limit.
FindChunk ==
    /\ call.op = "find" /\ nReadPos < nSrcPos
    /\ \/ /\ vchBuf[nReadPos % BufSize] = call.ch
          /\ call' = [Idle("ok") EXCEPT !.ch = call.ch]
          /\ UNCHANGED <<nReadPos, hi>>
       \/ /\ vchBuf[nReadPos % BufSize] # call.ch
          /\ nReadPos' = nReadPos + 1 /\ hi' = Furthest(hi, nReadPos')
          /\ UNCHANGED call
    /\ UNCHANGED <<disk, src, stdioVars, nSrcPos, vchBuf, nReadLimit, out, from, kept, base, seeks>>

LoopStep == Fill \/ FillEnds \/ ReadFails \/ ReadChunk \/ FindChunk

-----------------------------------------------------------------------------
(* Properties *)

\* The types of the buffer's fields and of the calls.
FileTypeOK ==
    /\ disk \in Seq(Byte) /\ src \in {"open", "closed"}
    /\ fpos \in Nat /\ feof \in BOOLEAN /\ failed \in BOOLEAN
    /\ nSrcPos \in Nat /\ nReadPos \in Nat /\ nReadLimit \in Nat \cup {NoLimit}
    /\ vchBuf \in [0..(BufSize - 1) -> Byte]
    /\ call \in [op : {"none", "read", "find"}, left : Nat, ch : Byte,
                 how : {"ok", "throw", "running"}]
    /\ out \in Seq(Byte) /\ from \in Nat /\ kept \in BOOLEAN
    /\ base \in Nat /\ hi \in Nat /\ seeks \in 0..MaxSeeks

\* The ring: both positions move within what the file delivered, and the last
\* BufSize bytes of it since the last Seek are in their places, nRewind of them
\* behind the furthest reading position.
RingHolds ==
    /\ fpos = nSrcPos /\ base <= hi /\ hi <= nSrcPos /\ nReadPos <= hi
    /\ nSrcPos <= hi + (BufSize - nRewind)
    /\ \A p \in base..(nSrcPos - 1) :
         /\ p < Len(disk)
         /\ p + BufSize >= nSrcPos => vchBuf[p % BufSize] = disk[p + 1]

\* A read that starts at most nRewind bytes behind the furthest position, and
\* not behind the last Seek, delivers the bytes of the file at that position,
\* however often the ring wrapped or was filled in between.
ReadsAreFileBytes ==
    kept => \A i \in 1..Len(out) : from + i <= Len(disk) /\ out[i] = disk[from + i]

\* FindByte stops on the first such byte at or after its start (streams.h:847).
FindStopsAtFirst ==
    [][call.op = "find" /\ call'.how = "ok" /\ kept =>
         /\ disk[nReadPos' + 1] = call.ch
         /\ \A p \in from..(nReadPos' - 1) : disk[p + 1] # call.ch]_fileVars

\* read never passes the limit: "prevent reading beyond a certain position"
\* (streams.h:831), however the limit was moved before it.
LimitKept ==
    [][call.op = "read" /\ nReadLimit # NoLimit => nReadPos' <= nReadLimit]_fileVars
=============================================================================
