--------------------------- MODULE StreamsProofs ---------------------------
(***************************************************************************)
(* The streams of streams.h.  They share no state, and their proofs share  *)
(* no lemma: each part below is about one of them.                         *)
(*                                                                         *)
(* The unread bytes of a CDataStream are a sequence of bytes: a call on    *)
(* the stream has the effect on them that ByteStreams gives it, for        *)
(* streams and calls of every size that an unsigned int can count.         *)
(*                                                                         *)
(* CBufferedFile delivers the bytes of its file, for every file, ring size *)
(* and rewind, whatever its client calls and whichever reads of the file   *)
(* fail: the ring holds what it should, reads within the rewind guarantee  *)
(* return the file's bytes, FindByte stops at the first match and no read  *)
(* passes the limit.                                                       *)
(*                                                                         *)
(* The heart of it is arithmetic modulo the size of the ring: two          *)
(* positions less than BufSize apart never share a cell (ModApart), so     *)
(* that a fill, which ends at least nRewind bytes short of a whole ring    *)
(* ahead of the furthest reading position, only overwrites bytes no        *)
(* guarantee covers.                                                       *)
(*                                                                         *)
(* The last part is the loader of TXODB::PreLoadBlocks on top of it: of    *)
(* every file whose reads succeed it hands on exactly the blocks.  The     *)
(* blocks of a file are a recursive function of the position; that it is   *)
(* defined, and made of positions, is induction from the end of the file,  *)
(* by way of a least counterexample (LeastNumber).                         *)
(***************************************************************************)
EXTENDS BlockFileScan, CDataStream, SequenceTheorems, WellFoundedInduction, TLAPS

-----------------------------------------------------------------------------
(* Remainders *)

\* The remainder, which gives a position its cell in the ring, is below the size.
LEMMA ModRange ==
    ASSUME NEW B \in Nat \ {0}, NEW a \in Nat
    PROVE  a % B \in 0..(B - 1) /\ a \div B \in Nat /\ a = B * (a \div B) + (a % B)
  BY SMT

\* Multiples of the ring's size are at least that size apart.
LEMMA MulGap ==
    ASSUME NEW B \in Nat \ {0}, NEW q \in Nat, NEW r \in Nat, q < r
    PROVE  B * q + B <= B * r
<1>1. PICK d \in Nat : r = q + 1 + d
  BY r - q - 1 \in Nat
<1>2. B * r = B * q + B + B * d
  BY <1>1
<1>3. B * d >= 0
  BY SMT
<1> QED
  BY <1>2, <1>3

\* Only one number below the size differs from a position by a multiple of it.
LEMMA ModUnique ==
    ASSUME NEW B \in Nat \ {0}, NEW q \in Nat, NEW r \in 0..(B - 1), NEW a \in Nat,
           a = B * q + r
    PROVE  a % B = r
<1>1. a % B \in 0..(B - 1) /\ a \div B \in Nat /\ a = B * (a \div B) + (a % B)
  BY ModRange
<1>2. CASE q < a \div B
  <2>1. B * q + B <= B * (a \div B)
    BY <1>1, <1>2, MulGap
  <2> QED
    BY <1>1, <2>1
<1>3. CASE a \div B < q
  <2>1. B * (a \div B) + B <= B * q
    BY <1>1, <1>3, MulGap
  <2> QED
    BY <1>1, <2>1
<1>4. CASE q = a \div B
  BY <1>1, <1>4
<1> QED
  BY <1>1, <1>2, <1>3, <1>4

\* Up to the border of the ring the cells follow one another.
LEMMA ModStep ==
    ASSUME NEW B \in Nat \ {0}, NEW a \in Nat, NEW j \in Nat, (a % B) + j < B
    PROVE  (a + j) % B = (a % B) + j
<1>1. a % B \in 0..(B - 1) /\ a \div B \in Nat /\ a = B * (a \div B) + (a % B)
  BY ModRange
<1>2. a + j = B * (a \div B) + ((a % B) + j)
  BY <1>1
<1> DEFINE q == a \div B
          r == (a % B) + j
          s == a + j
<1>3. q \in Nat /\ r \in 0..(B - 1) /\ s \in Nat /\ s = B * q + r
  BY <1>1, <1>2
<1> HIDE DEF q, r, s
<1>4. s % B = r
  BY <1>3, ModUnique
<1> QED
  BY <1>4 DEF q, r, s

\* Two positions less than a ring apart are in different cells.
LEMMA ModApart ==
    ASSUME NEW B \in Nat \ {0}, NEW p \in Nat, NEW s \in Nat, p < s, s < p + B
    PROVE  p % B # s % B
<1> SUFFICES ASSUME p % B = s % B PROVE FALSE
  OBVIOUS
<1>1. p % B \in 0..(B - 1) /\ p \div B \in Nat /\ p = B * (p \div B) + (p % B)
  BY ModRange
<1>2. s % B \in 0..(B - 1) /\ s \div B \in Nat /\ s = B * (s \div B) + (s % B)
  BY ModRange
<1>3. CASE p \div B < s \div B
  <2>1. B * (p \div B) + B <= B * (s \div B)
    BY <1>1, <1>2, <1>3, MulGap
  <2> QED
    BY <1>1, <1>2, <2>1
<1>4. CASE s \div B < p \div B
  <2>1. B * (s \div B) + B <= B * (p \div B)
    BY <1>1, <1>2, <1>4, MulGap
  <2> QED
    BY <1>1, <1>2, <2>1
<1>5. CASE p \div B = s \div B
  BY <1>1, <1>2, <1>5
<1> QED
  BY <1>1, <1>2, <1>3, <1>4, <1>5

-----------------------------------------------------------------------------
(* The invariant *)

\* A call in progress: a read has taken what it delivered and ends within the
\* limit; a search has passed no match; and if the rewind guarantee covers the
\* start of the call, everything from its position on is still in the ring.
CallInv ==
    /\ call.op # "none" => call.how = "running"
    /\ call.op = "read" =>
         /\ nReadPos = from + Len(out)
         /\ nReadLimit # NoLimit => nReadPos + call.left <= nReadLimit
    /\ call.op = "find" /\ kept =>
         /\ nReadPos >= from
         /\ \A p \in from..(nReadPos - 1) : disk[p + 1] # call.ch
    /\ call.op # "none" /\ kept =>
         nReadPos >= base /\ nReadPos + BufSize >= nSrcPos

FileInv == FileTypeOK /\ RingHolds /\ ReadsAreFileBytes /\ CallInv

\* The loader looks ahead and reads the count of a block with reads of a known
\* length: what it uses of their result was delivered.
Asked == IF pc = "peek" THEN Word ELSE 1
LoaderInv ==
    client = "loader" /\ pc \in {"peek", "count"} =>
        \/ call.op = "read" /\ Len(out) + call.left = Asked
        \/ call.op = "none" /\ call.how = "throw"
        \/ call.op = "none" /\ Len(out) = Asked /\ nReadPos = from + Len(out)

Inv == FileInv /\ LoaderInv

\* The assumptions of the two modules: the sizes, and the sets.
LEMMA Sizes ==
    /\ BufSize \in Nat \ {0} /\ nRewind \in Nat /\ nRewind < BufSize
    /\ Word \in Nat \ {0} /\ MaxSeeks \in Nat
  BY BufferedFileAssumption, BlockFileAssumption

\* Bytes, files and limits.
LEMMA Domains ==
    /\ Byte \subseteq Nat /\ 0 \in Byte
    /\ Files \subseteq Seq(Byte) /\ AnyFiles \subseteq Seq(Byte)
    /\ Limits \subseteq Nat \cup {NoLimit}
  BY BufferedFileAssumption, BlockFileAssumption

-----------------------------------------------------------------------------
(* Calls that start, or end at once *)

\* A call that starts keeps the invariant, whatever was called before.
LEMMA BeginKeeps ==
    ASSUME FileInv, NEW c, Begin(c),
           c \in [op : {"none", "read", "find"}, left : Nat, ch : Byte,
                  how : {"ok", "throw", "running"}],
           c.op # "none" => c.how = "running",
           c.op = "read" => (nReadLimit # NoLimit => nReadPos + c.left <= nReadLimit)
    PROVE  FileInv'
<1> USE Sizes
<1>1. FileTypeOK'
  <2>1. kept' \in BOOLEAN
    BY DEF Begin, Covered
  <2>2. out' \in Seq(Byte)
    BY DEF Begin
  <2> QED
    BY <2>1, <2>2 DEF FileInv, FileTypeOK, Begin, stdioVars, posVars
<1>2. RingHolds'
  BY DEF FileInv, RingHolds, Begin, stdioVars, posVars
<1>3. Len(out') = 0
  BY DEF Begin
<1>4. ReadsAreFileBytes'
  BY <1>3 DEF ReadsAreFileBytes
<1>5. CallInv'
  <2>1. nReadPos' = from' + Len(out')
    BY <1>3 DEF Begin, posVars, FileInv, FileTypeOK
  <2>2. from'..(nReadPos' - 1) = {}
    BY DEF Begin, posVars, FileInv, FileTypeOK
  <2>3. kept' => nReadPos >= base /\ nReadPos + BufSize >= nSrcPos
    <3>1. kept' = Covered
      BY DEF Begin
    <3>2. Covered => nReadPos >= base /\ nReadPos + BufSize >= nSrcPos
      BY DEF Covered, FileInv, RingHolds, FileTypeOK
    <3> QED
      BY <3>1, <3>2, Zenon
  <2> QED
    BY <2>1, <2>2, <2>3 DEF CallInv, Begin, posVars, FileInv, FileTypeOK
<1> QED
  BY <1>1, <1>2, <1>4, <1>5 DEF FileInv

\* read: refused, empty, or begun within the limit.
LEMMA ReadKeeps ==
    ASSUME FileInv, NEW n \in Nat, read(n)
    PROVE  FileInv'
<1> USE Sizes
<1>1. CASE ReadRefused(n)
  <2>1. Begin(Idle("throw"))
    BY <1>1 DEF read
  <2> QED
    BY <2>1, BeginKeeps, Domains DEF Idle
<1>2. CASE ~ReadRefused(n) /\ n = 0
  <2>1. Begin(Idle("ok"))
    BY <1>2 DEF read
  <2> QED
    BY <2>1, BeginKeeps, Domains DEF Idle
<1>3. CASE ~ReadRefused(n) /\ n # 0
  <2> DEFINE c == [op |-> "read", left |-> n, ch |-> 0, how |-> "running"]
  <2>1. Begin(c)
    BY <1>3 DEF read
  <2>2. nReadLimit # NoLimit => nReadPos + n <= nReadLimit
    BY <1>3 DEF ReadRefused, FileInv, FileTypeOK, NoLimit
  <2> QED
    BY <2>1, <2>2, BeginKeeps, Domains
<1> QED
  BY <1>1, <1>2, <1>3

\* FindByte: nothing has been passed yet.
LEMMA FindByteKeeps ==
    ASSUME FileInv, NEW c \in Byte, FindByte(c)
    PROVE  FileInv'
<1> DEFINE f == [op |-> "find", left |-> 0, ch |-> c, how |-> "running"]
<1>1. Begin(f)
  BY DEF FindByte
<1> QED
  BY <1>1, BeginKeeps, Domains

\* Calls that deliver nothing leave no obligation but that the ring holds.
LEMMA SettledKeeps ==
    ASSUME Settled, FileTypeOK', RingHolds'
    PROVE  FileInv'
<1>1. Len(out') = 0 /\ call'.op = "none"
  BY DEF Settled, Idle
<1>2. ReadsAreFileBytes'
  BY <1>1 DEF ReadsAreFileBytes
<1>3. CallInv'
  BY <1>1 DEF CallInv
<1> QED
  BY <1>2, <1>3 DEF FileInv

\* What such a call leaves in the record of the calls.
LEMMA SettledTypes ==
    ASSUME FileInv, Settled
    PROVE  /\ call' \in [op : {"none", "read", "find"}, left : Nat, ch : Byte,
                         how : {"ok", "throw", "running"}]
           /\ out' \in Seq(Byte) /\ from' \in Nat /\ kept' \in BOOLEAN
<1>1. call' = [op |-> "none", left |-> 0, ch |-> 0, how |-> "ok"]
  BY DEF Settled, Idle
<1>2. out' = <<>> /\ from' = nReadPos /\ kept' = FALSE /\ nReadPos \in Nat
  BY DEF Settled, FileInv, FileTypeOK
<1>3. out' \in Seq(Byte)
  BY <1>2
<1>4. kept' \in BOOLEAN
  BY <1>2
<1>5. call' \in [op : {"none", "read", "find"}, left : Nat, ch : Byte,
                how : {"ok", "throw", "running"}]
  BY <1>1, Domains
<1> QED
  BY <1>2, <1>3, <1>4, <1>5

\* SetPos: no further than the file was read.
LEMMA SetPosKeeps ==
    ASSUME FileInv, NEW p \in Nat, SetPos(p)
    PROVE  FileInv'
<1> USE Sizes
<1>1. nReadPos' \in Nat /\ nReadPos' <= nSrcPos
  BY DEF SetPos, Least, FileInv, FileTypeOK
<1>2. hi' \in Nat /\ hi' >= hi /\ hi' >= nReadPos' /\ hi' <= nSrcPos
  BY <1>1 DEF SetPos, Furthest, FileInv, FileTypeOK, RingHolds
<1>3. Settled
  BY DEF SetPos
<1>4. FileTypeOK'
  BY <1>1, <1>2, <1>3, SettledTypes DEF SetPos, FileInv, FileTypeOK, stdioVars
<1>5. RingHolds'
  <2>1. /\ fpos' = fpos /\ nSrcPos' = nSrcPos /\ base' = base /\ vchBuf' = vchBuf
        /\ disk' = disk
    BY DEF SetPos, stdioVars
  <2>2. base' <= hi' /\ hi' <= nSrcPos' /\ nReadPos' <= hi'
        /\ nSrcPos' <= hi' + (BufSize - nRewind)
    <3>1. /\ base \in Nat /\ hi \in Nat /\ nSrcPos \in Nat /\ base <= hi
          /\ nSrcPos <= hi + (BufSize - nRewind)
      BY DEF FileInv, FileTypeOK, RingHolds
    <3>2. nSrcPos' = nSrcPos /\ base' = base
      BY <2>1
    <3>3. \A h \in Nat : h >= hi => base <= h /\ nSrcPos <= h + (BufSize - nRewind)
      BY <3>1
    <3> QED
      BY <1>2, <3>2, <3>3, Zenon
  <2> QED
    BY <2>1, <2>2 DEF FileInv, RingHolds
<1> QED
  BY <1>3, <1>4, <1>5, SettledKeeps

\* Seek: nothing of the ring counts until it is filled again.
LEMMA SeekKeeps ==
    ASSUME FileInv, NEW p \in Nat, Seek(p)
    PROVE  FileInv'
<1> USE Sizes
<1>1. Settled
  BY DEF Seek
<1>2. FileTypeOK'
  <2>1. seeks' \in 0..MaxSeeks
    BY DEF Seek, FileInv, FileTypeOK
  <2>4. feof' \in BOOLEAN
    BY DEF Seek
  <2>2. fpos' \in Nat /\ nSrcPos' \in Nat /\ nReadPos' \in Nat /\ base' \in Nat /\ hi' \in Nat
    BY DEF Seek
  <2>3. /\ disk' = disk /\ src' = src /\ failed' = failed /\ vchBuf' = vchBuf
        /\ nReadLimit' = nReadLimit
    BY DEF Seek
  <2> QED
    BY <1>1, <2>1, <2>2, <2>3, <2>4, SettledTypes DEF FileInv, FileTypeOK
<1>3. base'..(nSrcPos' - 1) = {}
  BY DEF Seek
<1>4. RingHolds'
  BY <1>3 DEF Seek, RingHolds
<1> QED
  BY <1>1, <1>2, <1>4, SettledKeeps

\* SetLimit touches no byte.
LEMMA SetLimitKeeps ==
    ASSUME FileInv, NEW p \in Nat \cup {NoLimit}, SetLimit(p)
    PROVE  FileInv'
<1> USE Sizes
<1>1. Settled
  BY DEF SetLimit
<1>2. FileTypeOK'
  BY <1>1, SettledTypes DEF SetLimit, FileInv, FileTypeOK, stdioVars, posVars
<1>3. RingHolds'
  BY DEF SetLimit, FileInv, RingHolds, stdioVars, posVars
<1> QED
  BY <1>1, <1>2, <1>3, SettledKeeps

\* fclose ends it all.
LEMMA CloseKeeps ==
    ASSUME FileInv, fclose
    PROVE  FileInv'
<1>1. FileTypeOK'
  BY DEF fclose, FileInv, FileTypeOK, stdioVars, posVars, callVars
<1>2. RingHolds' /\ ReadsAreFileBytes' /\ CallInv'
  BY DEF fclose, FileInv, RingHolds, ReadsAreFileBytes, CallInv, stdioVars, posVars, callVars
<1> QED
  BY <1>1, <1>2 DEF FileInv

\* Steps of the client that make no call.
LEMMA StutterKeeps ==
    ASSUME FileInv, UNCHANGED fileVars
    PROVE  FileInv'
<1>1. FileTypeOK'
  BY DEF fileVars, FileInv, FileTypeOK, stdioVars, posVars, callVars
<1>2. RingHolds' /\ ReadsAreFileBytes' /\ CallInv'
  BY DEF fileVars, FileInv, RingHolds, ReadsAreFileBytes, CallInv, stdioVars, posVars, callVars
<1> QED
  BY <1>1, <1>2 DEF FileInv

-----------------------------------------------------------------------------
(* The loops *)

\* A fill that brings k bytes, whether or not a failure kept it from bringing more.
Brings(k) ==
    /\ Running /\ nReadPos = nSrcPos /\ k <= readNow /\ k <= Remaining
    /\ vchBuf' = Filled(nSrcPos % BufSize, k)
    /\ nSrcPos' = nSrcPos + k /\ fpos' = fpos + k
    /\ feof' \in BOOLEAN /\ (feof' => feof \/ k = Remaining)
    /\ failed' \in BOOLEAN /\ (~failed' => ~failed)
    /\ UNCHANGED <<disk, src, nReadPos, nReadLimit, callVars, base, hi, seeks>>

\* What can be asked for fits into the ring.
LEMMA AskedFor ==
    ASSUME FileInv, nReadPos = nSrcPos
    PROVE  /\ readNow \in Nat /\ readNow <= BufSize - (nSrcPos % BufSize)
           /\ readNow <= BufSize - nRewind /\ Remaining \in Nat
<1> USE Sizes
<1>1. nSrcPos \in Nat /\ nReadPos \in Nat /\ fpos \in Nat /\ disk \in Seq(Byte)
  BY DEF FileInv, FileTypeOK
<1>2. nSrcPos % BufSize \in 0..(BufSize - 1)
  BY <1>1, ModRange
<1>3. nSrcPos - nReadPos = 0 /\ Len(disk) \in Nat
  BY <1>1
<1> QED
  BY <1>1, <1>2, <1>3 DEF readNow, Least, Remaining

\* The steps of a call in progress.
LEMMA LoopSteps ==
    ASSUME FileInv, LoopStep
    PROVE  \/ \E k \in 1..BufSize : Brings(k)
           \/ FillEnds \/ FillFails \/ ReadChunk \/ FindChunk
<1>0. feof \in BOOLEAN /\ failed \in BOOLEAN
  BY DEF FileInv, FileTypeOK
<1>1. CASE Fill
  <2>1. nReadPos = nSrcPos /\ BufSize \in Nat
    BY <1>1, Sizes DEF Fill
  <2> DEFINE k == Least(readNow, Remaining)
  <2>2. /\ readNow \in Nat /\ readNow <= BufSize - (nSrcPos % BufSize) /\ Remaining \in Nat
        /\ readNow <= BufSize - nRewind
    BY <2>1, AskedFor
  <2>3. k > 0 /\ k \in Nat /\ k <= readNow /\ k <= Remaining /\ (readNow > k => k = Remaining)
    BY <1>1, <2>2 DEF Fill, Least
  <2>4. k \in 1..BufSize
    BY <2>1, <2>2, <2>3, Sizes
  <2>5. feof' = (feof \/ readNow > k)
    BY <1>1 DEF Fill
  <2>6. /\ Running /\ vchBuf' = Filled(nSrcPos % BufSize, k)
        /\ nSrcPos' = nSrcPos + k /\ fpos' = fpos + k /\ failed' = failed
        /\ UNCHANGED <<disk, src, nReadPos, nReadLimit, callVars, base, hi, seeks>>
    BY <1>1 DEF Fill
  <2> HIDE DEF k
  <2>7. feof' \in BOOLEAN /\ (feof' => feof \/ k = Remaining)
    BY <1>0, <2>3, <2>5
  <2>8. failed' \in BOOLEAN /\ (~failed' => ~failed)
    BY <1>0, <2>6
  <2>9. Brings(k)
    BY <2>1, <2>3, <2>6, <2>7, <2>8 DEF Brings
  <2> QED
    BY <2>4, <2>9
<1>2. ASSUME NEW k \in 1..BufSize, FillShort(k) PROVE Brings(k)
  <2>1. nReadPos = nSrcPos
    BY <1>2 DEF FillShort
  <2>2. k <= readNow
    BY <1>2, <2>1, AskedFor, Sizes DEF FillShort
  <2>3. feof' \in BOOLEAN /\ (feof' => feof \/ k = Remaining)
    BY <1>0, <1>2 DEF FillShort
  <2>4. failed' \in BOOLEAN /\ (~failed' => ~failed)
    BY <1>2 DEF FillShort
  <2> QED
    BY <1>2, <2>2, <2>3, <2>4 DEF FillShort, Brings
<1> QED
  BY <1>1, <1>2 DEF LoopStep, ReadFails

\* A fill puts k bytes behind the ones that were read, without crossing the
\* border of the ring and without catching up with the rewind bytes.
LEMMA FillKeeps ==
    ASSUME FileInv, NEW k \in 1..BufSize, Brings(k)
    PROVE  FileInv'
<1> USE Sizes
<1> DEFINE pos == nSrcPos % BufSize
<1>t. /\ disk \in Seq(Byte) /\ Len(disk) \in Nat /\ nSrcPos \in Nat /\ nReadPos \in Nat
      /\ fpos = nSrcPos /\ hi = nSrcPos /\ nReadPos = nSrcPos /\ base \in Nat /\ base <= hi
      /\ k \in Nat /\ hi \in Nat
  BY DEF FileInv, FileTypeOK, RingHolds, Brings
<1>p. pos \in 0..(BufSize - 1)
  BY <1>t, ModRange
<1>1. readNow \in Nat /\ readNow <= BufSize - pos /\ readNow <= BufSize - nRewind
  BY <1>t, AskedFor
<1>2. k <= readNow /\ k <= Remaining
  BY DEF Brings
<1>3. pos + k <= BufSize /\ k <= BufSize - nRewind
  BY <1>1, <1>2, <1>t, <1>p
<1>4. nSrcPos + k <= Len(disk)
  BY <1>2, <1>t DEF Remaining
<1>5. /\ nSrcPos' = nSrcPos + k /\ fpos' = fpos + k /\ vchBuf' = Filled(pos, k)
      /\ disk' = disk /\ src' = src /\ nReadPos' = nReadPos /\ nReadLimit' = nReadLimit
      /\ call' = call /\ out' = out /\ from' = from /\ kept' = kept
      /\ base' = base /\ hi' = hi /\ seeks' = seeks
  BY DEF Brings, callVars
<1>6. FileTypeOK'
  <2>1. vchBuf' \in [0..(BufSize - 1) -> Byte]
    <3> SUFFICES ASSUME NEW i \in 0..(BufSize - 1), i \in pos..(pos + k - 1)
                 PROVE  disk[fpos + 1 + (i - pos)] \in Byte
      BY <1>5 DEF Filled, FileInv, FileTypeOK
    <3>1. fpos + 1 + (i - pos) \in 1..Len(disk)
      BY <1>4, <1>t, <1>p
    <3> QED
      BY <3>1, <1>t
  <2>2. failed' \in BOOLEAN
    BY DEF Brings
  <2>3. feof' \in BOOLEAN
    BY DEF Brings
  <2> QED
    BY <2>1, <2>2, <2>3, <1>5, <1>t DEF FileInv, FileTypeOK
<1>7. RingHolds'
  <2>1. ASSUME NEW p \in base..(nSrcPos + k - 1)
        PROVE  /\ p < Len(disk)
               /\ p + BufSize >= nSrcPos + k => vchBuf'[p % BufSize] = disk[p + 1]
    <3>0. p \in Nat /\ p % BufSize \in 0..(BufSize - 1)
      BY <1>t, ModRange
    <3>1. CASE p >= nSrcPos
      <4> DEFINE j == p - nSrcPos
      <4>1. j \in Nat /\ j < k /\ p = nSrcPos + j
        BY <3>1, <1>t, <3>0
      <4>2. pos + j < BufSize
        BY <4>1, <1>3, <1>p, <1>t
      <4>3. (nSrcPos + j) % BufSize = pos + j
        BY <4>1, <4>2, <1>t, ModStep, ZenonT(60)
      <4>4. p % BufSize = pos + j
        BY <4>1, <4>3
      <4>5. pos + j \in pos..(pos + k - 1) /\ pos + j \in 0..(BufSize - 1)
        BY <4>1, <4>2, <1>p, <1>t
      <4>6. vchBuf'[pos + j] = disk[fpos + 1 + ((pos + j) - pos)]
        BY <4>5, <1>5 DEF Filled
      <4>7. fpos + 1 + ((pos + j) - pos) = p + 1
        BY <4>1, <1>t, <1>p
      <4>8. vchBuf'[p % BufSize] = disk[p + 1]
        BY <4>4, <4>6, <4>7, Zenon
      <4>9. p < Len(disk)
        BY <4>1, <1>4, <1>t
      <4> QED
        BY <4>8, <4>9, Zenon
    <3>2. CASE p < nSrcPos
      <4>1. p \in base..(nSrcPos - 1)
        BY <3>2, <3>0, <1>t
      <4>2. p < Len(disk) /\ (p + BufSize >= nSrcPos => vchBuf[p % BufSize] = disk[p + 1])
        BY <4>1 DEF FileInv, RingHolds
      <4>3. ASSUME p + BufSize >= nSrcPos + k
            PROVE  vchBuf'[p % BufSize] = disk[p + 1]
        <5>1. p % BufSize \notin pos..(pos + k - 1)
          <6> SUFFICES ASSUME p % BufSize \in pos..(pos + k - 1) PROVE FALSE
            OBVIOUS
          <6> DEFINE j == (p % BufSize) - pos
          <6>1. j \in Nat /\ j < k /\ p % BufSize = pos + j
            BY <3>0, <1>p, <1>t
          <6>2. (nSrcPos + j) % BufSize = pos + j
            <7>1. j \in Nat /\ (nSrcPos % BufSize) + j < BufSize
              BY <6>1, <3>0
            <7> HIDE DEF j
            <7> QED
              BY <7>1, <1>t, ModStep
          <6>3. nSrcPos + j \in Nat /\ p < nSrcPos + j /\ nSrcPos + j < p + BufSize
            BY <6>1, <3>2, <4>3, <3>0, <1>t
          <6> HIDE DEF j, pos
          <6>4. p % BufSize # (nSrcPos + j) % BufSize
            BY <6>3, <3>0, ModApart
          <6> QED
            BY <6>1, <6>2, <6>4
        <5>2. vchBuf'[p % BufSize] = vchBuf[p % BufSize]
          BY <5>1, <3>0, <1>5 DEF Filled
        <5> QED
          BY <5>2, <4>2, <4>3, <3>0, <1>t
      <4> QED
        BY <4>2, <4>3
    <3> QED
      BY <3>1, <3>2, <3>0, <1>t
  <2>2. nSrcPos + k <= hi + (BufSize - nRewind)
    BY <1>3, <1>t
  <2>3. \A p \in base'..(nSrcPos' - 1) :
          /\ p < Len(disk')
          /\ p + BufSize >= nSrcPos' => vchBuf'[p % BufSize] = disk'[p + 1]
    <3>1. base' = base /\ nSrcPos' = nSrcPos + k /\ disk' = disk
      BY <1>5
    <3>2. \A p \in base..(nSrcPos + k - 1) :
            /\ p < Len(disk)
            /\ p + BufSize >= nSrcPos + k => vchBuf'[p % BufSize] = disk[p + 1]
      BY <2>1
    <3> SUFFICES ASSUME NEW p \in base'..(nSrcPos' - 1)
                 PROVE  /\ p < Len(disk')
                        /\ p + BufSize >= nSrcPos' => vchBuf'[p % BufSize] = disk'[p + 1]
      OBVIOUS
    <3>4. p \in base..(nSrcPos + k - 1)
      BY <3>1, <1>t
    <3>5. /\ p < Len(disk)
          /\ p + BufSize >= nSrcPos + k => vchBuf'[p % BufSize] = disk[p + 1]
      BY <3>2, <3>4, Zenon
    <3> QED
      BY <3>1, <3>5, Zenon
  <2> HIDE DEF pos
  <2> QED
    BY <2>2, <2>3, <1>5, <1>t DEF RingHolds
<1>8. ReadsAreFileBytes'
  BY <1>5 DEF FileInv, ReadsAreFileBytes
<1>9. CallInv'
  <2>1. nReadPos' + BufSize >= nSrcPos'
    BY <1>5, <1>t
  <2> QED
    BY <2>1, <1>5 DEF FileInv, CallInv
<1> QED
  BY <1>6, <1>7, <1>8, <1>9 DEF FileInv

\* A fill that throws ends the call.
LEMMA ThrowKeeps ==
    ASSUME FileInv, FillEnds \/ FillFails
    PROVE  FileInv'
<1> USE Sizes
<1>1. /\ disk' = disk /\ src' = src /\ fpos' = fpos /\ nSrcPos' = nSrcPos
      /\ nReadPos' = nReadPos /\ vchBuf' = vchBuf /\ nReadLimit' = nReadLimit
      /\ out' = out /\ from' = from /\ kept' = kept /\ base' = base /\ hi' = hi
      /\ seeks' = seeks /\ call' = Idle("throw")
  BY DEF FillEnds, FillFails, posVars
<1>2. FileTypeOK'
  <2>1. feof' \in BOOLEAN
    BY DEF FillEnds, FillFails, FileInv, FileTypeOK
  <2>2. failed' \in BOOLEAN
    BY SMTT(60) DEF FillEnds, FillFails, FileInv, FileTypeOK
  <2>3. Idle("throw") \in [op : {"none", "read", "find"}, left : Nat, ch : Byte,
                           how : {"ok", "throw", "running"}]
    BY Domains DEF Idle
  <2> QED
    BY <1>1, <2>1, <2>2, <2>3 DEF FileInv, FileTypeOK
<1>3. RingHolds' /\ ReadsAreFileBytes'
  BY <1>1 DEF FileInv, RingHolds, ReadsAreFileBytes
<1>4. CallInv'
  BY <1>1 DEF CallInv, Idle
<1> QED
  BY <1>2, <1>3, <1>4 DEF FileInv

\* Moving the reading position on, within what was filled, leaves the ring as it
\* is and can only raise the furthest position.
LEMMA AdvanceKeepsRing ==
    ASSUME FileInv, nReadPos' \in Nat, nReadPos' <= nSrcPos, hi' = Furthest(hi, nReadPos'),
           fpos' = fpos, nSrcPos' = nSrcPos, base' = base, vchBuf' = vchBuf, disk' = disk
    PROVE  RingHolds' /\ hi' \in Nat
<1> USE Sizes
<1>1. /\ base \in Nat /\ hi \in Nat /\ nSrcPos \in Nat /\ base <= hi /\ hi <= nSrcPos
      /\ nSrcPos <= hi + (BufSize - nRewind)
  BY DEF FileInv, FileTypeOK, RingHolds
<1>2. \A r \in Nat : r <= nSrcPos =>
        LET h == Furthest(hi, r) IN
        /\ h \in Nat /\ base <= h /\ h <= nSrcPos /\ r <= h
        /\ nSrcPos <= h + (BufSize - nRewind)
  BY <1>1 DEF Furthest
<1>3. /\ hi' \in Nat /\ base' <= hi' /\ hi' <= nSrcPos' /\ nReadPos' <= hi'
      /\ nSrcPos' <= hi' + (BufSize - nRewind)
  BY <1>2, Zenon
<1> QED
  BY <1>3 DEF FileInv, RingHolds

\* Appending bytes to what was delivered.
LEMMA Concatenation ==
    \A a, b \in Seq(Byte) :
        /\ a \o b \in Seq(Byte) /\ Len(a \o b) = Len(a) + Len(b)
        /\ \A i \in 1..Len(a) : (a \o b)[i] = a[i]
        /\ \A i \in 1..Len(b) : (a \o b)[Len(a) + i] = b[i]
  OBVIOUS

\* Bytes taken out of the ring up to its border, from a position the rewind
\* guarantee covers, are those of the file.
LEMMA RingBytes ==
    ASSUME FileInv, NEW j \in Nat, nReadPos + j < nSrcPos, (nReadPos % BufSize) + j < BufSize,
           nReadPos >= base, nReadPos + BufSize >= nSrcPos
    PROVE  /\ nReadPos + j < Len(disk)
           /\ vchBuf[(nReadPos % BufSize) + j] = disk[nReadPos + j + 1]
<1> USE Sizes
<1>1. nReadPos \in Nat /\ nSrcPos \in Nat /\ base \in Nat
  BY DEF FileInv, FileTypeOK
<1>2. (nReadPos + j) % BufSize = (nReadPos % BufSize) + j
  BY <1>1, ModStep
<1> DEFINE p == nReadPos + j
<1>3. p \in base..(nSrcPos - 1) /\ p + BufSize >= nSrcPos
  BY <1>1
<1>4. p < Len(disk) /\ vchBuf[p % BufSize] = disk[p + 1]
  BY <1>3 DEF FileInv, RingHolds
<1> QED
  BY <1>2, <1>4, Zenon

\* One memcpy of read: the bytes are those of the file at the positions that follow
\* the ones delivered before.
LEMMA ReadChunkKeeps ==
    ASSUME FileInv, ReadChunk
    PROVE  FileInv'
<1> USE Sizes
<1> DEFINE pos == nReadPos % BufSize
          ch == [i \in 1..nNow |-> vchBuf[pos + i - 1]]
<1>t. /\ nReadPos \in Nat /\ nSrcPos \in Nat /\ nReadPos < nSrcPos /\ call.left \in Nat
      /\ call.op = "read" /\ out \in Seq(Byte) /\ from \in Nat
  BY DEF ReadChunk, FileInv, FileTypeOK
<1>p. pos \in 0..(BufSize - 1)
  BY <1>t, ModRange
<1>1. /\ nNow \in Nat /\ nNow <= call.left /\ pos + nNow <= BufSize
      /\ nReadPos + nNow <= nSrcPos
  BY <1>t, <1>p, SMTT(60) DEF nNow, Least
<1>2. /\ out' = out \o ch /\ nReadPos' = nReadPos + nNow
      /\ hi' = Furthest(hi, nReadPos')
      /\ disk' = disk /\ src' = src /\ fpos' = fpos /\ feof' = feof /\ failed' = failed
      /\ nSrcPos' = nSrcPos /\ vchBuf' = vchBuf /\ nReadLimit' = nReadLimit
      /\ from' = from /\ kept' = kept /\ base' = base /\ seeks' = seeks
      /\ call' = IF call.left = nNow THEN Idle("ok") ELSE [call EXCEPT !.left = @ - nNow]
  BY DEF ReadChunk, stdioVars
<1> HIDE DEF pos
<1>3. ch \in Seq(Byte) /\ Len(ch) = nNow
  <2>1. \A i \in 1..nNow : pos + i - 1 \in 0..(BufSize - 1)
    BY <1>1, <1>p
  <2>2. \A i \in 1..nNow : vchBuf[pos + i - 1] \in Byte
    BY <2>1 DEF FileInv, FileTypeOK
  <2> QED
    BY <2>2, <1>1
<1>4. out' \in Seq(Byte) /\ Len(out') = Len(out) + nNow /\ Len(out) \in Nat
  <2> HIDE DEF ch
  <2>1. out \o ch \in Seq(Byte) /\ Len(out \o ch) = Len(out) + Len(ch)
    BY <1>3, <1>t, Concatenation
  <2> QED
    BY <2>1, <1>2, <1>3, <1>t
<1>5. nReadPos + nNow \in Nat
  BY <1>t, <1>1
<1>6. RingHolds' /\ hi' \in Nat
  BY <1>1, <1>2, <1>5, AdvanceKeepsRing
<1>7. FileTypeOK'
  <2>1. call' \in [op : {"none", "read", "find"}, left : Nat, ch : Byte,
                   how : {"ok", "throw", "running"}]
    <3>1. CASE call.left = nNow
      BY <3>1, <1>2, Domains DEF Idle
    <3>2. CASE call.left # nNow
      <4>1. call.left - nNow \in Nat
        BY <1>t, <1>1
      <4> QED
        BY <4>1, <3>2, <1>2 DEF FileInv, FileTypeOK
    <3> QED
      BY <3>1, <3>2
  <2>2. nReadPos' \in Nat
    BY <1>2, <1>5
  <2> QED
    BY <2>1, <2>2, <1>2, <1>4, <1>6 DEF FileInv, FileTypeOK
<1>8. ReadsAreFileBytes'
  <2> SUFFICES ASSUME kept, NEW i \in 1..(Len(out) + nNow)
               PROVE  from + i <= Len(disk) /\ out'[i] = disk[from + i]
    BY <1>2, <1>4 DEF ReadsAreFileBytes
  <2>1. nReadPos >= base /\ nReadPos + BufSize >= nSrcPos /\ nReadPos = from + Len(out)
    BY <1>t DEF FileInv, CallInv
  <2>2. CASE i <= Len(out)
    <3>1. i \in 1..Len(out)
      BY <2>2, <1>4
    <3> HIDE DEF ch
    <3>2. out'[i] = out[i]
      BY <3>1, <1>2, <1>3, <1>t, Concatenation
    <3> QED
      BY <3>1, <3>2 DEF FileInv, ReadsAreFileBytes
  <2>3. CASE i > Len(out)
    <3> DEFINE j == i - Len(out) - 1
    <3>1. j \in Nat /\ j < nNow /\ i = Len(out) + (j + 1) /\ j + 1 \in 1..nNow
      BY <2>3, <1>4, <1>1
    <3>2. out'[i] = ch[j + 1]
      <4> HIDE DEF j, ch
      <4>1. (out \o ch)[Len(out) + (j + 1)] = ch[j + 1]
        BY <3>1, <1>3, <1>t, Concatenation
      <4> QED
        BY <3>1, <4>1, <1>2, Zenon
    <3>3. ch[j + 1] = vchBuf[pos + j]
      <4>1. pos + (j + 1) - 1 = pos + j
        BY <3>1, <1>p
      <4> QED
        BY <3>1, <4>1
    <3>4. nReadPos + j < nSrcPos /\ pos + j < BufSize
      BY <3>1, <1>1, <1>t, <1>p
    <3> HIDE DEF j, ch
    <3>5. nReadPos + j < Len(disk) /\ vchBuf[pos + j] = disk[nReadPos + j + 1]
      BY <3>1, <3>4, <2>1, RingBytes DEF pos
    <3>6. nReadPos + j + 1 = from + i /\ nReadPos + j \in Nat /\ Len(disk) \in Nat
      BY <3>1, <2>1, <1>t, <1>4, SMTT(60) DEF FileInv, FileTypeOK
    <3>7. from + i <= Len(disk)
      BY <3>5, <3>6, <1>t
    <3> QED
      BY <3>2, <3>3, <3>5, <3>6, <3>7, Zenon
  <2> QED
    BY <2>2, <2>3, <1>4
<1>9. CallInv'
  <2>1. nReadPos = from + Len(out)
        /\ (nReadLimit # NoLimit => nReadPos + call.left <= nReadLimit)
    BY <1>t DEF FileInv, CallInv
  <2>2. CASE call.left = nNow
    BY <2>2, <1>2 DEF CallInv, Idle
  <2>3. CASE call.left # nNow
    <3>1. call'.op = "read" /\ call'.how = call.how /\ call'.left = call.left - nNow
      BY <2>3, <1>2, <1>t DEF FileInv, FileTypeOK
    <3>2. call'.how = "running"
      BY <3>1, <1>t DEF FileInv, CallInv
    <3>3. nReadPos' = from' + Len(out')
      BY <2>1, <1>2, <1>4, <1>1, <1>t
    <3>4. nReadLimit' # NoLimit => nReadPos' + call'.left <= nReadLimit'
      <4>1. (nReadPos + nNow) + (call.left - nNow) = nReadPos + call.left
        BY <1>1, <1>t
      <4> QED
        BY <2>1, <3>1, <4>1, <1>2, Zenon
    <3>5. kept => nReadPos >= base /\ nReadPos + BufSize >= nSrcPos
      BY <1>t DEF FileInv, CallInv
    <3>6. kept => nReadPos + nNow >= base /\ (nReadPos + nNow) + BufSize >= nSrcPos
      BY <3>5, <1>1, <1>t DEF FileInv, FileTypeOK
    <3>7. kept' => nReadPos' >= base' /\ nReadPos' + BufSize >= nSrcPos'
      BY <3>6, <1>2, Zenon
    <3> QED
      BY <3>1, <3>2, <3>3, <3>4, <3>7 DEF CallInv
  <2> QED
    BY <2>2, <2>3
<1> QED
  BY <1>6, <1>7, <1>8, <1>9 DEF FileInv

\* One round of the search: it stops on a match, or it passes a byte of the file
\* that is none.
LEMMA FindChunkKeeps ==
    ASSUME FileInv, FindChunk
    PROVE  FileInv'
<1> USE Sizes
<1>t. /\ nReadPos \in Nat /\ nSrcPos \in Nat /\ nReadPos < nSrcPos /\ call.op = "find"
      /\ call.ch \in Byte /\ from \in Nat
  BY DEF FindChunk, FileInv, FileTypeOK
<1>2. /\ disk' = disk /\ src' = src /\ fpos' = fpos /\ feof' = feof /\ failed' = failed
      /\ nSrcPos' = nSrcPos /\ vchBuf' = vchBuf /\ nReadLimit' = nReadLimit /\ out' = out
      /\ from' = from /\ kept' = kept /\ base' = base /\ seeks' = seeks
  BY DEF FindChunk, stdioVars
<1>3. ReadsAreFileBytes'
  BY <1>2 DEF FileInv, ReadsAreFileBytes
<1>4. CASE vchBuf[nReadPos % BufSize] = call.ch
  <2>1. call' = [Idle("ok") EXCEPT !.ch = call.ch] /\ nReadPos' = nReadPos /\ hi' = hi
    BY <1>4 DEF FindChunk
  <2>2. FileTypeOK'
    BY <2>1, <1>2, <1>t DEF FileInv, FileTypeOK, Idle
  <2>3. RingHolds'
    BY <2>1, <1>2 DEF FileInv, RingHolds
  <2>4. CallInv'
    BY <2>1 DEF CallInv, Idle
  <2> QED
    BY <2>2, <2>3, <2>4, <1>3 DEF FileInv
<1>5. CASE vchBuf[nReadPos % BufSize] # call.ch
  <2>1. call' = call /\ nReadPos' = nReadPos + 1 /\ hi' = Furthest(hi, nReadPos')
    BY <1>5 DEF FindChunk
  <2>2. nReadPos' \in Nat /\ nReadPos' <= nSrcPos
    BY <2>1, <1>t
  <2>3. RingHolds' /\ hi' \in Nat
    BY <2>1, <2>2, <1>2, AdvanceKeepsRing
  <2>4. FileTypeOK'
    BY <2>1, <2>2, <2>3, <1>2 DEF FileInv, FileTypeOK
  <2>5. CallInv'
    <3>1. ASSUME kept
          PROVE  /\ nReadPos + 1 >= from /\ nReadPos + 1 >= base
                 /\ (nReadPos + 1) + BufSize >= nSrcPos
                 /\ \A p \in from..nReadPos : disk[p + 1] # call.ch
      <4>1. /\ nReadPos >= base /\ nReadPos + BufSize >= nSrcPos /\ nReadPos >= from
            /\ \A p \in from..(nReadPos - 1) : disk[p + 1] # call.ch
        BY <3>1, <1>t DEF FileInv, CallInv
      <4>2. nReadPos % BufSize \in 0..(BufSize - 1)
        BY <1>t, ModRange
      <4>3. vchBuf[(nReadPos % BufSize) + 0] = disk[nReadPos + 0 + 1]
        <5>1. nReadPos + 0 < nSrcPos /\ (nReadPos % BufSize) + 0 < BufSize
          BY <1>t, <4>2
        <5> QED
          BY <5>1, <4>1, RingBytes
      <4>4. (nReadPos % BufSize) + 0 = nReadPos % BufSize /\ nReadPos + 0 + 1 = nReadPos + 1
        BY <4>2, <1>t
      <4>5. disk[nReadPos + 1] # call.ch
        BY <4>3, <4>4, <1>5, Zenon
      <4>6. base \in Nat
        BY DEF FileInv, FileTypeOK
      <4> QED
        BY <4>1, <4>5, <4>6, <1>t
    <3>2. nReadPos' - 1 = nReadPos
      BY <2>1, <1>t
    <3>3. kept' => /\ nReadPos' >= from' /\ nReadPos' >= base'
                   /\ nReadPos' + BufSize >= nSrcPos'
                   /\ \A p \in from'..(nReadPos' - 1) : disk'[p + 1] # call'.ch
      BY <3>1, <3>2, <2>1, <1>2, Zenon
    <3>4. call'.op = "find" /\ call'.how = "running"
      BY <2>1, <1>t DEF FileInv, CallInv
    <3> QED
      BY <3>3, <3>4 DEF CallInv
  <2> QED
    BY <2>3, <2>4, <2>5, <1>3 DEF FileInv
<1> QED
  BY <1>4, <1>5

-----------------------------------------------------------------------------
(* The clients *)

\* A read of at least one byte is refused or has everything still to deliver.
LEMMA ReadStarts ==
    ASSUME NEW n \in Nat \ {0}, read(n)
    PROVE  \/ call'.op = "none" /\ call'.how = "throw"
           \/ call'.op = "read" /\ Len(out') = 0 /\ call'.left = n
  BY DEF read, Begin, Idle

\* The file's part of the invariant holds initially.
LEMMA InitFile == ScanInit => FileInv
<1> SUFFICES ASSUME NEW d \in Seq(Byte), FileInit(d) PROVE FileInv
  BY Domains DEF ScanInit
<1> USE Sizes
<1>1. /\ disk = d /\ src = "open" /\ fpos = 0 /\ feof = FALSE /\ nSrcPos = 0 /\ nReadPos = 0
      /\ nReadLimit = NoLimit /\ vchBuf = [i \in 0..(BufSize - 1) |-> 0]
      /\ out = <<>> /\ from = 0 /\ kept = TRUE /\ base = 0 /\ hi = 0 /\ failed = FALSE /\ seeks = 0
      /\ call = [op |-> "none", left |-> 0, ch |-> 0, how |-> "ok"]
  BY DEF FileInit, Idle
<1>2. FileTypeOK
  <2>1. feof \in BOOLEAN /\ kept \in BOOLEAN /\ failed \in BOOLEAN
    BY <1>1
  <2>2. out \in Seq(Byte)
    BY <1>1
  <2>3. vchBuf \in [0..(BufSize - 1) -> Byte] /\ call \in
          [op : {"none", "read", "find"}, left : Nat, ch : Byte, how : {"ok", "throw", "running"}]
    BY <1>1, Domains
  <2> QED
    BY <1>1, <2>1, <2>2, <2>3 DEF FileTypeOK
<1>3. base..(nSrcPos - 1) = {}
  BY <1>1
<1>4. RingHolds
  BY <1>1, <1>3 DEF RingHolds
<1>5. Len(out) = 0
  BY <1>1
<1>6. ReadsAreFileBytes /\ CallInv
  BY <1>1, <1>5 DEF ReadsAreFileBytes, CallInv
<1> QED
  BY <1>2, <1>4, <1>6 DEF FileInv

\* Every step of either client keeps the file's part of the invariant.
LEMMA FileStep == Inv /\ [Next]_vars => FileInv'
<1> SUFFICES ASSUME Inv, [Next]_vars PROVE FileInv'
  OBVIOUS
<1> USE Sizes
<1>i. FileInv /\ LoaderInv
  BY DEF Inv
<1>1. CASE NextRecord
  <2>1. read(Word) \/ fclose
    BY <1>1 DEF NextRecord
  <2> QED
    BY <2>1, <1>i, ReadKeeps, CloseKeeps
<1>2. CASE ReadMagic
  BY <1>2, <1>i, ReadKeeps DEF ReadMagic
<1>3. CASE ReadLen
  <2>1. read(Word) \/ fclose \/ UNCHANGED fileVars
    BY <1>3 DEF ReadLen
  <2> QED
    BY <2>1, <1>i, ReadKeeps, CloseKeeps, StutterKeeps
<1>4. CASE Peek
  <2>1. /\ client = "loader" /\ pc = "peek" /\ call.op = "none" /\ call.how = "ok"
        /\ SetPos(nReadPos - Word)
    BY <1>4 DEF Peek, Loader, Free, Delivered
  <2>2. Len(out) = Word /\ nReadPos = from + Len(out)
    BY <2>1, <1>i DEF LoaderInv, Asked
  <2>3. nReadPos - Word \in Nat
    BY <2>2, <1>i DEF FileInv, FileTypeOK
  <2> QED
    BY <2>1, <2>3, <1>i, SetPosKeeps
<1>5. CASE ReadBlock
  <2>1. CASE pc = "block" /\ read(1)
    BY <2>1, <1>i, ReadKeeps
  <2>2. CASE pc = "count" /\ Delivered /\ read(out[1])
    <3>1. client = "loader" /\ call.op = "none" /\ call.how = "ok"
      BY <1>5, <2>2 DEF ReadBlock, Loader, Free, Delivered
    <3>2. Len(out) = 1
      BY <3>1, <2>2, <1>i DEF LoaderInv, Asked
    <3>3. out[1] \in Nat
      <4>1. out \in Seq(Byte)
        BY <1>i DEF FileInv, FileTypeOK
      <4>2. \A s \in Seq(Byte) : Len(s) = 1 => s[1] \in Byte
        OBVIOUS
      <4> QED
        BY <3>2, <4>1, <4>2, Domains
    <3> QED
      BY <2>2, <3>3, <1>i, ReadKeeps
  <2> QED
    BY <1>5, <2>1, <2>2 DEF ReadBlock
<1>6. CASE BlockRead \/ Caught \/ UNCHANGED vars
  <2>1. UNCHANGED fileVars
    BY <1>6 DEF BlockRead, Caught, vars
  <2> QED
    BY <2>1, <1>i, StutterKeeps
<1>7. CASE InCall
  <2>1. (\E k \in 1..BufSize : Brings(k)) \/ FillEnds \/ FillFails \/ ReadChunk \/ FindChunk
    BY <1>7, <1>i, LoopSteps DEF InCall
  <2> QED
    BY <2>1, <1>i, FillKeeps, ThrowKeeps, ReadChunkKeeps, FindChunkKeeps
<1>8. CASE AnyCall
  <2>1. CASE \E n \in 0..BufSize : read(n)
    BY <2>1, <1>i, ReadKeeps
  <2>2. CASE \E c \in Byte : FindByte(c)
    BY <2>2, <1>i, FindByteKeeps
  <2>3. CASE \E p \in 0..nSrcPos + 1 : SetPos(p)
    BY <2>3, <1>i, SetPosKeeps
  <2>4. CASE \E p \in 0..(Len(disk) + 1) : Seek(p)
    BY <2>4, <1>i, SeekKeeps
  <2>5. CASE \E p \in Limits : SetLimit(p)
    BY <2>5, <1>i, SetLimitKeeps, Domains
  <2>6. CASE fclose
    BY <2>6, <1>i, CloseKeeps
  <2> QED
    BY <1>8, <2>1, <2>2, <2>3, <2>4, <2>5, <2>6 DEF AnyCall
<1> QED
  BY <1>1, <1>2, <1>3, <1>4, <1>5, <1>6, <1>7, <1>8 DEF Next, LoaderStep

\* While a call is in progress nothing but the call moves.
LEMMA Busy ==
    ASSUME [Next]_vars, call.op # "none"
    PROVE  (LoopStep /\ UNCHANGED scanVars) \/ UNCHANGED vars
  BY DEF Next, LoaderStep, NextRecord, ReadMagic, ReadLen, Peek, ReadBlock, BlockRead,
         Caught, InCall, AnyCall, Loader, Free

\* What a chunk of read does to the sums the properties are about.
LEMMA ReadChunkSums ==
    ASSUME FileInv, ReadChunk
    PROVE  /\ nNow \in Nat /\ nNow <= call.left /\ nReadPos' = nReadPos + nNow
           /\ Len(out') = Len(out) + nNow /\ from' = from
           /\ \/ call.left = nNow /\ call'.op = "none"
              \/ call'.op = "read" /\ call'.left = call.left - nNow
<1> USE Sizes
<1>1. /\ nReadPos \in Nat /\ nSrcPos \in Nat /\ nReadPos < nSrcPos /\ call.left \in Nat
      /\ call.op = "read" /\ out \in Seq(Byte)
  BY DEF ReadChunk, FileInv, FileTypeOK
<1>2. nReadPos % BufSize \in 0..(BufSize - 1)
  BY <1>1, ModRange
<1>3. nNow \in Nat /\ nNow <= call.left
  BY <1>1, <1>2 DEF nNow, Least
<1>4. Len(out') = Len(out) + nNow
  <2> DEFINE ch == [i \in 1..nNow |-> vchBuf[(nReadPos % BufSize) + i - 1]]
  <2>0. nNow <= BufSize - (nReadPos % BufSize)
    BY <1>1, <1>2 DEF nNow, Least
  <2>1. ch \in Seq(Byte) /\ Len(ch) = nNow
    <3>1. \A i \in 1..nNow : (nReadPos % BufSize) + i - 1 \in 0..(BufSize - 1)
      BY <1>2, <1>3, <2>0
    <3>2. \A i \in 1..nNow : vchBuf[(nReadPos % BufSize) + i - 1] \in Byte
      BY <3>1 DEF FileInv, FileTypeOK
    <3> QED
      BY <3>2, <1>3
  <2>2. out' = out \o ch
    BY DEF ReadChunk
  <2> HIDE DEF ch
  <2>4. Len(out \o ch) = Len(out) + Len(ch)
    BY <2>1, <1>1, Concatenation
  <2> QED
    BY <2>1, <2>2, <2>4
<1>5. nReadPos' = nReadPos + nNow /\ from' = from
  BY DEF ReadChunk
<1>6. call.left = nNow => call'.op = "none"
  BY DEF ReadChunk, Idle
<1>7. call.left # nNow => call'.op = "read" /\ call'.left = call.left - nNow
  BY <1>1 DEF ReadChunk, FileInv, FileTypeOK
<1> QED
  BY <1>3, <1>4, <1>5, <1>6, <1>7

\* The loader uses only what was delivered.
LEMMA LoaderStepInv == Inv /\ [Next]_vars => LoaderInv'
<1> SUFFICES ASSUME Inv, [Next]_vars, client' = "loader", pc' \in {"peek", "count"}
             PROVE  \/ call'.op = "read" /\ Len(out') + call'.left = Asked'
                    \/ call'.op = "none" /\ call'.how = "throw"
                    \/ call'.op = "none" /\ Len(out') = Asked' /\ nReadPos' = from' + Len(out')
  BY DEF LoaderInv
<1> USE Sizes
<1>i. FileInv /\ LoaderInv
  BY DEF Inv
<1>a. Asked \in Nat \ {0}
  BY DEF Asked
<1>1. CASE ReadLen
  <2>1. pc' = "peek" /\ read(Word)
    BY <1>1 DEF ReadLen
  <2> QED
    BY <2>1, ReadStarts DEF Asked
<1>2. CASE ReadBlock
  <2>1. pc' = "count" /\ read(1)
    BY <1>2 DEF ReadBlock
  <2> QED
    BY <2>1, ReadStarts DEF Asked
<1>3. CASE UNCHANGED vars
  <2>1. /\ client' = client /\ pc' = pc /\ call' = call /\ out' = out
        /\ nReadPos' = nReadPos /\ from' = from
    BY <1>3 DEF vars, scanVars, fileVars, posVars, callVars
  <2> QED
    BY <2>1, <1>i DEF LoaderInv, Asked
<1>4. CASE InCall
  <2>0. client' = client /\ pc' = pc /\ Asked' = Asked
    BY <1>4 DEF InCall, scanVars, Asked
  <2>1. \/ call.op = "read" /\ Len(out) + call.left = Asked
        \/ call.op = "none" /\ call.how = "throw"
        \/ call.op = "none" /\ Len(out) = Asked /\ nReadPos = from + Len(out)
    BY <2>0, <1>i DEF LoaderInv
  <2>2. CASE \E k \in 1..BufSize : Brings(k)
    <3>1. call' = call /\ out' = out /\ nReadPos' = nReadPos /\ from' = from
      BY <2>2 DEF Brings, callVars
    <3> QED
      BY <3>1, <2>0, <2>1
  <2>3. CASE FillEnds \/ FillFails
    BY <2>3 DEF FillEnds, FillFails, Idle
  <2>4. CASE ReadChunk
    <3>1. call.op = "read" /\ nReadPos = from + Len(out)
      BY <2>4, <1>i DEF ReadChunk, FileInv, CallInv
    <3>2. /\ nNow \in Nat /\ nNow <= call.left /\ nReadPos' = nReadPos + nNow
          /\ Len(out') = Len(out) + nNow /\ from' = from
          /\ \/ call.left = nNow /\ call'.op = "none"
             \/ call'.op = "read" /\ call'.left = call.left - nNow
      BY <2>4, <1>i, ReadChunkSums
    <3>3. Len(out) + call.left = Asked /\ Len(out) \in Nat /\ call.left \in Nat /\ from \in Nat
      BY <3>1, <2>1, <1>i DEF FileInv, FileTypeOK
    <3>4. CASE call.left = nNow /\ call'.op = "none"
      BY <3>1, <3>2, <3>3, <3>4, <2>0
    <3>5. CASE call'.op = "read" /\ call'.left = call.left - nNow
      <4>1. (Len(out) + nNow) + (call.left - nNow) = Len(out) + call.left
        BY <3>2, <3>3
      <4> QED
        BY <3>2, <3>3, <3>5, <4>1, <2>0, Zenon
    <3> QED
      BY <3>2, <3>4, <3>5
  <2>5. CASE FindChunk
    BY <2>5, <2>1 DEF FindChunk
  <2> QED
    BY <1>4, <1>i, <2>2, <2>3, <2>4, <2>5, LoopSteps DEF InCall
<1>5. ~NextRecord /\ ~ReadMagic /\ ~Peek /\ ~BlockRead /\ ~Caught /\ ~AnyCall
  BY DEF NextRecord, ReadMagic, Peek, BlockRead, Caught, AnyCall, scanVars
<1> QED
  BY <1>1, <1>2, <1>3, <1>4, <1>5 DEF Next, LoaderStep

\* The invariant holds in every reachable state.
THEOREM Invariance == Spec => []Inv
<1>1. ScanInit => Inv
  <2>1. ScanInit => LoaderInv
    BY DEF ScanInit, LoaderInv
  <2> QED
    BY <2>1, InitFile DEF Inv
<1>2. Inv /\ [Next]_vars => Inv'
  BY FileStep, LoaderStepInv DEF Inv
<1> QED
  BY <1>1, <1>2, PTL DEF Spec

\* The buffer's state is well typed, and no call of it is made with an argument
\* that is not there (the count of a block, the position before a look ahead).
THEOREM FileTypeCorrect == Spec => []FileTypeOK
<1>1. Inv => FileTypeOK
  BY DEF Inv, FileInv
<1> QED
  BY <1>1, Invariance, PTL

\* Fill never overwrites a byte that SetPos may still go back to.
THEOREM RingKept == Spec => []RingHolds
<1>1. Inv => RingHolds
  BY DEF Inv, FileInv
<1> QED
  BY <1>1, Invariance, PTL

\* read delivers the bytes of the file wherever the rewind guarantee covers its
\* start, across any number of fills and borders of the ring.
THEOREM ReadsDeliverFile == Spec => []ReadsAreFileBytes
<1>1. Inv => ReadsAreFileBytes
  BY DEF Inv, FileInv
<1> QED
  BY <1>1, Invariance, PTL

\* FindByte stops at the first match and passes none.
THEOREM SearchStopsAtFirst == Spec => FindStopsAtFirst
<1> DEFINE A == call.op = "find" /\ call'.how = "ok" /\ kept =>
                  /\ disk[nReadPos' + 1] = call.ch
                  /\ \A p \in from..(nReadPos' - 1) : disk[p + 1] # call.ch
<1>1. Inv /\ [Next]_vars => [A]_fileVars
  <2> SUFFICES ASSUME Inv, [Next]_vars, call.op = "find", call'.how = "ok", kept
               PROVE  /\ disk[nReadPos' + 1] = call.ch
                      /\ \A p \in from..(nReadPos' - 1) : disk[p + 1] # call.ch
    OBVIOUS
  <2> USE Sizes
  <2>i. FileInv
    BY DEF Inv
  <2>1. call.how = "running"
    BY <2>i DEF FileInv, CallInv
  <2>2. LoopStep
    <3>1. call' # call
      BY <2>1
    <3> QED
      BY <3>1, Busy DEF vars, fileVars, callVars
  <2>3. FindChunk /\ vchBuf[nReadPos % BufSize] = call.ch
    <3>1. ASSUME NEW k \in 1..BufSize, Brings(k) PROVE FALSE
      BY <3>1, <2>1 DEF Brings, callVars
    <3>2. ~FillEnds /\ ~FillFails /\ ~ReadChunk
      <4>1. call' # Idle("throw")
        BY DEF Idle
      <4>2. ~FillEnds /\ ~FillFails
        BY <4>1, Zenon DEF FillEnds, FillFails
      <4>3. ~ReadChunk
        BY DEF ReadChunk
      <4> QED
        BY <4>2, <4>3
    <3>3. FindChunk
      BY <2>2, <2>i, <3>1, <3>2, LoopSteps
    <3>4. call' # call
      BY <2>1
    <3> QED
      BY <3>3, <3>4 DEF FindChunk
  <2>4. nReadPos' = nReadPos /\ nReadPos < nSrcPos
    BY <2>3 DEF FindChunk
  <2>5. /\ nReadPos \in Nat /\ nReadPos >= base /\ nReadPos + BufSize >= nSrcPos
        /\ \A p \in from..(nReadPos - 1) : disk[p + 1] # call.ch
    BY <2>i DEF FileInv, CallInv, FileTypeOK
  <2>6. nReadPos % BufSize \in 0..(BufSize - 1)
    BY <2>5, ModRange
  <2>7. vchBuf[(nReadPos % BufSize) + 0] = disk[nReadPos + 0 + 1]
    <3>1. nReadPos + 0 < nSrcPos /\ (nReadPos % BufSize) + 0 < BufSize
      BY <2>4, <2>5, <2>6
    <3> QED
      BY <3>1, <2>5, <2>i, RingBytes
  <2>8. (nReadPos % BufSize) + 0 = nReadPos % BufSize /\ nReadPos + 0 + 1 = nReadPos + 1
    BY <2>5, <2>6
  <2> QED
    BY <2>3, <2>4, <2>5, <2>7, <2>8, Zenon
<1> QED
  BY <1>1, Invariance, PTL DEF Spec, FindStopsAtFirst

\* No read passes the limit that SetLimit set.
THEOREM ReadsStayWithinLimit == Spec => LimitKept
<1> DEFINE A == call.op = "read" /\ nReadLimit # NoLimit => nReadPos' <= nReadLimit
<1>1. Inv /\ [Next]_vars => [A]_fileVars
  <2> SUFFICES ASSUME Inv, [Next]_vars, call.op = "read", nReadLimit # NoLimit
               PROVE  nReadPos' <= nReadLimit
    OBVIOUS
  <2>1. /\ nReadPos \in Nat /\ call.left \in Nat /\ nReadLimit \in Int
        /\ nReadPos + call.left <= nReadLimit
    BY DEF Inv, FileInv, CallInv, FileTypeOK, NoLimit
  <2>2. CASE nReadPos' = nReadPos
    BY <2>1, <2>2
  <2>3. CASE ReadChunk
    <3>1. nNow \in Nat /\ nNow <= call.left /\ nReadPos' = nReadPos + nNow
      BY <2>3, ReadChunkSums DEF Inv
    <3> QED
      BY <2>1, <3>1
  <2>4. nReadPos' = nReadPos \/ ReadChunk
    BY Busy DEF LoopStep, Fill, ReadFails, FillShort, FillEnds, FillFails, FindChunk,
                posVars, vars, fileVars
  <2> QED
    BY <2>2, <2>3, <2>4
<1> QED
  BY <1>1, Invariance, PTL DEF Spec, LimitKept

-----------------------------------------------------------------------------
(* The blocks of a file: what the recursive definition says. *)

\* A set of numbers that is not empty has a least one.
LEMMA LeastNumber ==
    ASSUME NEW T, T \subseteq Nat, T # {}
    PROVE  \E x \in T : \A y \in T : ~(y < x)
<1> DEFINE R == OpToRel(<, Nat)
<1>1. IsWellFoundedOn(R, Nat)
  BY NatLessThanWellFounded
<1> HIDE DEF R
<1>2. \E x \in T : \A y \in T : ~(<<y, x>> \in R)
  BY <1>1, WFMin
<1> QED
  BY <1>2 DEF R, OpToRel

\* One record of the file d at p, given the blocks f of what follows it.
WordIn(d, p) == SubSeq(d, p + 1, p + Word)
FitsIn(d, p, n) == p + n <= Len(d)
Round(d, f, p) ==
    IF ~FitsIn(d, p, 2 * Word) \/ WordIn(d, p + Word) = Zero THEN <<>>
    ELSE LET b == p + 2 * Word IN
         IF WordIn(d, p) # Magic THEN f[b]
         ELSE IF ~FitsIn(d, b, Word) THEN <<>>
         ELSE IF WordIn(d, b) = Magic THEN f[b]
         ELSE IF FitsIn(d, b, 1 + d[b + 1]) THEN <<b>> \o f[b + 1 + d[b + 1]]
         ELSE <<>>
Scans(d, f) == f = [p \in Nat |-> Round(d, f, p)]
BlocksIn(d) == CHOOSE f : Scans(d, f)

\* A round only looks at rounds further on, and there are none behind the end.
LEMMA RoundLooksAhead ==
    ASSUME NEW d \in Seq(Byte), NEW f, NEW p \in Nat
    PROVE  /\ \A g : (\A q \in Nat : q > p => f[q] = g[q]) => Round(d, f, p) = Round(d, g, p)
           /\ p >= Len(d) => Round(d, f, p) = <<>>
           /\ (\A q \in Nat : q > p => f[q] \in Seq(Nat)) => Round(d, f, p) \in Seq(Nat)
<1> DEFINE b == p + 2 * Word
          c == b + 1 + d[b + 1]
<1>1. Word \in Nat \ {0} /\ Len(d) \in Nat /\ b \in Nat /\ b > p
  BY Sizes
<1>2. FitsIn(d, b, Word) => c \in Nat /\ c > p
  <2> SUFFICES ASSUME FitsIn(d, b, Word) PROVE c \in Nat /\ c > p
    OBVIOUS
  <2>1. b + 1 \in 1..Len(d)
    BY <1>1 DEF FitsIn
  <2>2. d[b + 1] \in Nat
    BY <2>1, ElementOfSeq, Domains
  <2> QED
    BY <1>1, <2>2
<1>3. p >= Len(d) => ~FitsIn(d, p, 2 * Word)
  BY <1>1 DEF FitsIn
<1> HIDE DEF b, c
<1>4. ASSUME NEW g
      PROVE  Round(d, g, p) =
               IF ~FitsIn(d, p, 2 * Word) \/ WordIn(d, p + Word) = Zero THEN <<>>
               ELSE IF WordIn(d, p) # Magic THEN g[b]
               ELSE IF ~FitsIn(d, b, Word) THEN <<>>
               ELSE IF WordIn(d, b) = Magic THEN g[b]
               ELSE IF FitsIn(d, b, 1 + d[b + 1]) THEN <<b>> \o g[c] ELSE <<>>
  BY DEF Round, b, c
<1>5. ASSUME NEW g, \A q \in Nat : q > p => f[q] = g[q]
      PROVE  Round(d, f, p) = Round(d, g, p)
  <2>1. f[b] = g[b] /\ (FitsIn(d, b, Word) => f[c] = g[c])
    BY <1>1, <1>2, <1>5
  <2> QED
    BY <1>4, <2>1, Zenon
<1>6. ASSUME \A q \in Nat : q > p => f[q] \in Seq(Nat)
      PROVE  Round(d, f, p) \in Seq(Nat)
  <2>1. f[b] \in Seq(Nat) /\ (FitsIn(d, b, Word) => f[c] \in Seq(Nat))
    BY <1>1, <1>2, <1>6
  <2>2. <<>> \in Seq(Nat) /\ <<b>> \in Seq(Nat)
    BY <1>1
  <2>3. FitsIn(d, b, Word) => <<b>> \o f[c] \in Seq(Nat)
    BY <2>1, <2>2, ConcatProperties
  <2> QED
    BY <1>4, <2>1, <2>2, <2>3, Zenon
<1> QED
  BY <1>3, <1>4, <1>5, <1>6

\* So the definition has a solution: the last positions first.
LEMMA BlocksExist ==
    ASSUME NEW d \in Seq(Byte)
    PROVE  \E f : Scans(d, f)
<1> DEFINE Good(f, k) == \A p \in Nat : p + k >= Len(d) => f[p] = Round(d, f, p)
          T == {k \in Nat : ~\E f : Good(f, k)}
<1>0. Len(d) \in Nat
  OBVIOUS
<1>1. \E f : Good(f, 0)
  <2> DEFINE f == [p \in Nat |-> <<>>]
  <2>1. \A p \in Nat : p + 0 >= Len(d) => f[p] = Round(d, f, p)
    BY <1>0, RoundLooksAhead
  <2> QED
    BY <2>1
<1>2. ASSUME NEW k \in Nat, NEW f, Good(f, k)
      PROVE  \E g : Good(g, k + 1)
  <2> DEFINE g == [p \in Nat |-> IF p + k >= Len(d) THEN f[p] ELSE Round(d, f, p)]
  <2>1. \A p \in Nat : g[p] = IF p + k >= Len(d) THEN f[p] ELSE Round(d, f, p)
    OBVIOUS
  <2> HIDE DEF g
  <2>2. ASSUME NEW p \in Nat, p + (k + 1) >= Len(d) PROVE g[p] = Round(d, g, p)
    <3>1. \A q \in Nat : q > p => q + k >= Len(d)
      BY <1>0, <2>2
    <3>2. \A q \in Nat : q > p => f[q] = g[q]
      BY <2>1, <3>1
    <3>3. Round(d, f, p) = Round(d, g, p)
      BY <3>2, RoundLooksAhead
    <3>4. g[p] = Round(d, f, p)
      BY <2>1, <1>2
    <3> QED
      BY <3>3, <3>4
  <2> QED
    BY <2>2
<1> HIDE DEF Good
<1>3. T = {}
  <2> SUFFICES ASSUME T # {} PROVE FALSE
    OBVIOUS
  <2>1. PICK k \in T : \A j \in T : ~(j < k)
    BY LeastNumber
  <2>2. k \in Nat /\ ~\E f : Good(f, k)
    OBVIOUS
  <2>3. k # 0
    BY <1>1, <2>2
  <2>4. k - 1 \in Nat /\ k - 1 < k /\ (k - 1) + 1 = k
    BY <2>2, <2>3
  <2>5. \E f : Good(f, k - 1)
    BY <2>1, <2>4
  <2> QED
    BY <1>2, <2>2, <2>4, <2>5
<1>4. PICK f : Good(f, Len(d))
  BY <1>0, <1>3
<1> DEFINE g == [p \in Nat |-> f[p]]
<1>5. \A p \in Nat : g[p] = f[p]
  OBVIOUS
<1>6. \A p \in Nat : f[p] = Round(d, f, p)
  BY <1>0, <1>4 DEF Good
<1>7. \A p \in Nat : Round(d, f, p) = Round(d, g, p)
  <2> HIDE DEF g
  <2> QED
    BY <1>5, RoundLooksAhead
<1>8. g = [p \in Nat |-> Round(d, g, p)]
  <2>1. g = [p \in Nat |-> f[p]]
    OBVIOUS
  <2> HIDE DEF g
  <2>2. \A p \in Nat : f[p] = Round(d, g, p)
    BY <1>6, <1>7
  <2> QED
    BY <2>1, <2>2
<1> QED
  BY <1>8 DEF Scans

\* And every solution is made of positions.
LEMMA BlocksUnfold ==
    ASSUME NEW d \in Seq(Byte)
    PROVE  /\ \A p \in Nat : BlocksIn(d)[p] = Round(d, BlocksIn(d), p)
           /\ \A p \in Nat : BlocksIn(d)[p] \in Seq(Nat)
<1> DEFINE f == BlocksIn(d)
          n == Len(d)
          T == {k \in Nat : \E p \in Nat : p + k >= n /\ f[p] \notin Seq(Nat)}
<1>1. Scans(d, f)
  <2>1. \E g : Scans(d, g)
    BY BlocksExist
  <2> QED
    BY <2>1, Zenon DEF BlocksIn
<1> HIDE DEF f
<1>2. \A p \in Nat : f[p] = Round(d, f, p)
  <2>1. f = [p \in Nat |-> Round(d, f, p)]
    BY <1>1 DEF Scans
  <2> DEFINE h == [p \in Nat |-> Round(d, f, p)]
  <2>2. \A p \in Nat : h[p] = Round(d, f, p)
    OBVIOUS
  <2> HIDE DEF h
  <2>3. f = h
    BY <2>1 DEF h
  <2> QED
    BY <2>2, <2>3
<1>3. T = {}
  <2> SUFFICES ASSUME T # {} PROVE FALSE
    OBVIOUS
  <2>1. PICK k \in T : \A j \in T : ~(j < k)
    BY LeastNumber
  <2>2. PICK p \in Nat : p + k >= n /\ f[p] \notin Seq(Nat)
    OBVIOUS
  <2>3. k \in Nat /\ n \in Nat
    OBVIOUS
  <2>4. CASE k = 0
    <3>1. p >= n
      BY <2>2, <2>3, <2>4
    <3>2. Round(d, f, p) = <<>>
      BY <3>1, RoundLooksAhead
    <3>3. <<>> \in Seq(Nat)
      OBVIOUS
    <3> QED
      BY <1>2, <2>2, <3>2, <3>3
  <2>5. CASE k # 0
    <3>1. k - 1 \in Nat /\ k - 1 < k
      BY <2>3, <2>5
    <3>2. \A q \in Nat : q + (k - 1) >= n => f[q] \in Seq(Nat)
      BY <2>1, <3>1
    <3>3. \A q \in Nat : q > p => q + (k - 1) >= n
      BY <2>2, <2>3
    <3>4. Round(d, f, p) \in Seq(Nat)
      BY <3>2, <3>3, RoundLooksAhead
    <3> QED
      BY <1>2, <2>2, <3>4
  <2> QED
    BY <2>4, <2>5
<1>4. \A p \in Nat : f[p] \in Seq(Nat)
  <2>1. n \in Nat
    OBVIOUS
  <2> SUFFICES ASSUME NEW p \in Nat, f[p] \notin Seq(Nat) PROVE FALSE
    OBVIOUS
  <2>2. n \in T
    BY <2>1
  <2> QED
    BY <1>3, <2>2
<1> QED
  BY <1>2, <1>4 DEF f

\* The blocks of the file in use depend on nothing else of the state.
LEMMA BlocksOfDisk == BlocksFrom = BlocksIn(disk)
  BY Zenon DEF BlocksFrom, BlocksIn, Scans, Round, WordIn, FitsIn, WordAt, Fits

-----------------------------------------------------------------------------
(* The invariant of the loader *)

\* The loader waits for a read, of how many bytes, and whether that threw.
Reading == {"magic", "len", "peek", "count", "body"}
Want == IF pc = "count" THEN 1 ELSE IF pc = "body" THEN disk[from] ELSE Word
Failed == call.op = "none" /\ call.how = "throw"

\* Its calls are reads of what it waits for, or have ended.
CallShape ==
    /\ pc \in {"top", "block", "done"} \cup Reading
    /\ pc \notin Reading => call.op = "none"
    /\ pc \in Reading =>
        \/ call.op = "read" /\ call.left > 0 /\ Len(out) + call.left = Want
        \/ Failed
        \/ call.op = "none" /\ call.how = "ok" /\ Len(out) = Want /\ nReadPos = from + Len(out)

\* It never is more than a word behind the furthest position, so that every one
\* of its reads starts where the rewind guarantee covers it.
RewindInv ==
    /\ nReadLimit = NoLimit /\ base = 0
    /\ pc \in Reading => kept
    /\ hi <= nReadPos + Word
    /\ pc \in {"magic", "len", "peek"} /\ ~Failed => hi <= from + Word

\* Unless the file failed, a read only throws at its end.
EndInv ==
    /\ feof => fpos >= Len(disk)
    /\ ~failed /\ pc \in Reading /\ Failed => nReadPos = nSrcPos /\ feof

\* The blocks of the file d from a block on, and from the word that is looked at.
BlockIn(d, b) ==
    IF FitsIn(d, b, 1 + d[b + 1]) THEN <<b>> \o BlocksIn(d)[b + 1 + d[b + 1]] ELSE <<>>
PeekIn(d, b) ==
    IF ~FitsIn(d, b, Word) THEN <<>>
    ELSE IF WordIn(d, b) = Magic THEN BlocksIn(d)[b] ELSE BlockIn(d, b)

\* The blocks f, and then the blocks s, are those of the file d.
Makes(f, s, d) == f \o s = BlocksIn(d)[0]

\* Where the loader is in the definition of the blocks of a file.
Progress ==
    /\ pc = "top" => Makes(found, BlocksIn(disk)[nReadPos], disk)
    /\ pc = "magic" /\ ~Failed => Makes(found, BlocksIn(disk)[from], disk)
    /\ pc = "len" /\ ~Failed =>
         /\ from >= Word /\ net_magic = WordIn(disk, from - Word)
         /\ Makes(found, BlocksIn(disk)[from - Word], disk)
    /\ pc = "peek" /\ ~Failed => Makes(found, PeekIn(disk, from), disk)
    /\ pc = "block" => FitsIn(disk, nReadPos, 1) /\ Makes(found, BlockIn(disk, nReadPos), disk)
    /\ pc = "count" /\ ~Failed => FitsIn(disk, from, 1) /\ Makes(found, BlockIn(disk, from), disk)
    /\ pc = "body" /\ ~Failed =>
         from >= 1 /\ from <= Len(disk) /\ Makes(found, BlockIn(disk, from - 1), disk)
    /\ pc = "done" \/ (pc \in Reading /\ Failed) => Makes(found, <<>>, disk)

LoadInv == CallShape /\ RewindInv /\ EndInv /\ (~failed => Progress)
ScanInv == (~failed => found \in Seq(Nat)) /\ (client = "loader" => LoadInv)

\* The cases of a round.
LEMMA Rounds ==
    ASSUME NEW d \in Seq(Byte), NEW p \in Nat
    PROVE  /\ ~FitsIn(d, p, 2 * Word) => BlocksIn(d)[p] = <<>>
           /\ WordIn(d, p + Word) = Zero => BlocksIn(d)[p] = <<>>
           /\ FitsIn(d, p, 2 * Word) /\ WordIn(d, p + Word) # Zero /\ WordIn(d, p) # Magic
                => BlocksIn(d)[p] = BlocksIn(d)[p + 2 * Word]
           /\ FitsIn(d, p, 2 * Word) /\ WordIn(d, p + Word) # Zero /\ WordIn(d, p) = Magic
                => BlocksIn(d)[p] = PeekIn(d, p + 2 * Word)
<1> DEFINE b == p + 2 * Word
          f == BlocksIn(d)
<1>1. f[p] = Round(d, f, p)
  BY BlocksUnfold
<1>2. Round(d, f, p) =
        IF ~FitsIn(d, p, 2 * Word) \/ WordIn(d, p + Word) = Zero THEN <<>>
        ELSE IF WordIn(d, p) # Magic THEN f[b] ELSE PeekIn(d, b)
  BY Zenon DEF Round, PeekIn, BlockIn
<1> HIDE DEF b, f
<1>3. f[p] =
        IF ~FitsIn(d, p, 2 * Word) \/ WordIn(d, p + Word) = Zero THEN <<>>
        ELSE IF WordIn(d, p) # Magic THEN f[b] ELSE PeekIn(d, b)
  BY <1>1, <1>2, Zenon
<1> QED
  BY <1>3, Zenon DEF b, f

\* The numbers the steps are about.
LEMMA Numbers ==
    ASSUME FileInv
    PROVE  /\ Word \in Nat \ {0} /\ nRewind \in Nat /\ BufSize \in Nat /\ nRewind >= Word
           /\ nReadPos \in Nat /\ nSrcPos \in Nat /\ from \in Nat /\ hi \in Nat /\ fpos \in Nat
           /\ base \in Nat /\ Len(disk) \in Nat /\ Len(out) \in Nat
           /\ call.left \in Nat /\ disk \in Seq(Byte)
           /\ fpos = nSrcPos /\ nReadPos <= hi /\ hi <= nSrcPos
<1>1. Word \in Nat \ {0} /\ nRewind \in Nat /\ BufSize \in Nat /\ nRewind >= Word
  BY BufferedFileAssumption, BlockFileAssumption
<1> QED
  BY <1>1 DEF FileInv, FileTypeOK, RingHolds

\* A read that was delivered is the file's bytes from its start on.
LEMMA ReadDelivered ==
    ASSUME FileInv, CallShape, RewindInv, pc \in Reading, call.op = "none", call.how = "ok"
    PROVE  /\ Len(out) = Want /\ nReadPos = from + Want /\ Want \in Nat
           /\ Want # 0 => from + Want <= Len(disk)
           /\ \A i \in 1..Want : out[i] = disk[from + i]
           /\ Want = Word => out = WordIn(disk, from)
<1>1. Len(out) = Want /\ nReadPos = from + Len(out)
  BY DEF CallShape, Failed
<1>2. /\ from \in Nat /\ Len(out) \in Nat /\ Len(disk) \in Nat /\ disk \in Seq(Byte)
      /\ Word \in Nat \ {0}
  BY Numbers
<1>3. \A i \in 1..Len(out) : from + i <= Len(disk) /\ out[i] = disk[from + i]
  BY DEF FileInv, ReadsAreFileBytes, RewindInv
<1>4. Want # 0 => from + Want <= Len(disk)
  <2>1. Want # 0 => Want \in 1..Len(out)
    BY <1>1, <1>2
  <2> QED
    BY <1>3, <2>1
<1>5. ASSUME Want = Word PROVE out = WordIn(disk, from)
  <2>1. out \in Seq(Byte) /\ Len(out) = Word
    BY <1>1, <1>5 DEF FileInv, FileTypeOK
  <2>2. from + Word <= Len(disk)
    BY <1>2, <1>4, <1>5
  <2> DEFINE w == SubSeq(disk, from + 1, from + Word)
  <2>3. /\ w \in Seq(Byte) /\ Len(w) = Word
        /\ \A i \in 1..Word : w[i] = disk[from + i]
    <3>1. /\ Len(w) = Word /\ \A i \in 1..Word : w[i] = disk[from + i]
      BY <1>2, <2>2
    <3>2. \A i \in (from + 1)..(from + Word) : disk[i] \in Byte
      BY <1>2, <2>2, ElementOfSeq
    <3>3. w \in Seq(Byte)
      BY <1>2, <3>2, SubSeqProperties
    <3> QED
      BY <3>1, <3>3
  <2> HIDE DEF w
  <2>4. \A i \in 1..Word : out[i] = w[i]
    BY <1>3, <2>1, <2>3
  <2>5. out = w
    BY <2>1, <2>3, <2>4, SeqEqual
  <2> QED
    BY <2>5 DEF w, WordIn
<1> QED
  BY <1>1, <1>2, <1>3, <1>4, <1>5

-----------------------------------------------------------------------------
(* Its calls *)

\* A read the buffer has room for is never refused to the loader.
LEMMA ReadBegins ==
    ASSUME FileInv, RewindInv, NEW n \in Nat, n + nRewind <= BufSize, read(n)
    PROVE  /\ disk' = disk /\ feof' = feof /\ fpos' = fpos /\ failed' = failed
           /\ nReadPos' = nReadPos /\ nSrcPos' = nSrcPos /\ nReadLimit' = nReadLimit
           /\ base' = base /\ hi' = hi /\ out' = <<>> /\ from' = nReadPos /\ kept'
           /\ \/ call'.op = "read" /\ call'.left = n /\ n > 0
              \/ call'.op = "none" /\ call'.how = "ok" /\ n = 0
<1>1. /\ nReadPos \in Nat /\ hi \in Nat /\ nRewind \in Nat /\ Word \in Nat /\ nRewind >= Word
      /\ BufSize \in Nat
  BY Numbers
<1>2. nReadLimit = NoLimit /\ base = 0 /\ hi <= nReadPos + Word
  BY DEF RewindInv
<1>3. ~ReadRefused(n) /\ Covered
  BY <1>1, <1>2 DEF ReadRefused, Covered
<1>4. \/ Begin(Idle("ok")) /\ n = 0
      \/ Begin([op |-> "read", left |-> n, ch |-> 0, how |-> "running"]) /\ n # 0
  BY <1>3 DEF read
<1>5. /\ disk' = disk /\ feof' = feof /\ fpos' = fpos /\ failed' = failed
      /\ nReadPos' = nReadPos /\ nSrcPos' = nSrcPos /\ nReadLimit' = nReadLimit
      /\ base' = base /\ hi' = hi /\ out' = <<>> /\ from' = nReadPos /\ kept'
  BY <1>3, <1>4 DEF Begin, stdioVars, posVars
<1>6. \/ call'.op = "read" /\ call'.left = n /\ n # 0
      \/ call'.op = "none" /\ call'.how = "ok" /\ n = 0
  BY <1>4 DEF Begin, Idle
<1>7. n # 0 => n > 0
  OBVIOUS
<1> QED
  BY <1>5, <1>6, <1>7

\* The invariant holds of the call when the loader asks for what it waits for.
LEMMA Asks ==
    ASSUME FileInv, RewindInv, EndInv, NEW n \in Nat, n + nRewind <= BufSize, read(n),
           pc' \in Reading, Want' = n
    PROVE  CallShape' /\ RewindInv' /\ EndInv' /\ ~Failed'
<1>1. /\ disk' = disk /\ feof' = feof /\ fpos' = fpos /\ failed' = failed
      /\ nReadPos' = nReadPos /\ nSrcPos' = nSrcPos /\ nReadLimit' = nReadLimit
      /\ base' = base /\ hi' = hi /\ out' = <<>> /\ from' = nReadPos /\ kept'
      /\ \/ call'.op = "read" /\ call'.left = n /\ n > 0
         \/ call'.op = "none" /\ call'.how = "ok" /\ n = 0
  BY ReadBegins
<1>2. Len(out') = 0
  BY <1>1
<1>3. ~Failed'
  BY <1>1 DEF Failed
<1>4. CallShape'
  <2>1. nReadPos \in Nat
    BY Numbers
  <2>2. \/ call'.op = "read" /\ call'.left > 0 /\ Len(out') + call'.left = n
        \/ call'.op = "none" /\ call'.how = "ok" /\ Len(out') = n /\ nReadPos' = from' + Len(out')
    BY <1>1, <1>2, <2>1
  <2> QED
    BY <2>2, Zenon DEF CallShape
<1>5. RewindInv'
  BY <1>1 DEF RewindInv
<1>6. EndInv'
  BY <1>1, <1>3 DEF EndInv
<1> QED
  BY <1>3, <1>4, <1>5, <1>6

\* A call that ended stays as it was when the loader only moves on.
LEMMA Moves ==
    ASSUME LoadInv, call.op = "none", pc' \in {"top", "block", "done"},
           disk' = disk, feof' = feof, fpos' = fpos, failed' = failed, call'.op = "none",
           nReadLimit' = nReadLimit, base' = base, hi' <= nReadPos' + Word
    PROVE  CallShape' /\ RewindInv' /\ EndInv'
<1>1. pc' \notin Reading
  BY DEF Reading
<1>2. CallShape'
  BY <1>1 DEF CallShape
<1>3. RewindInv'
  <2>1. pc' \notin {"magic", "len", "peek"}
    OBVIOUS
  <2> QED
    BY <1>1, <2>1 DEF RewindInv, LoadInv
<1>4. EndInv'
  BY <1>1 DEF EndInv, LoadInv
<1> QED
  BY <1>2, <1>3, <1>4

\* What the loader knows of a call in progress.
LEMMA InRead ==
    ASSUME FileInv, LoadInv, call.op # "none"
    PROVE  /\ pc \in Reading /\ call.op = "read" /\ ~Failed
           /\ call.left > 0 /\ Len(out) + call.left = Want /\ nReadPos = from + Len(out)
           /\ Want \in Nat
<1>1. /\ pc \in Reading /\ call.op = "read" /\ ~Failed
      /\ call.left > 0 /\ Len(out) + call.left = Want
  BY DEF LoadInv, CallShape, Failed
<1>2. nReadPos = from + Len(out)
  BY <1>1 DEF FileInv, CallInv
<1> QED
  BY <1>1, <1>2, Numbers, SMTT(60)

\* A read that comes to the end of the file was for more than there is, so no
\* block is left.
LEMMA EndOfFile ==
    ASSUME FileInv, LoadInv, FillEnds, ~failed
    PROVE  Makes(found, <<>>, disk)
<1>1. /\ pc \in Reading /\ call.op = "read" /\ ~Failed
      /\ call.left > 0 /\ Len(out) + call.left = Want /\ nReadPos = from + Len(out)
      /\ Want \in Nat
  BY InRead DEF FillEnds, Running
<1>2. /\ Word \in Nat \ {0} /\ nReadPos \in Nat /\ nSrcPos \in Nat /\ from \in Nat
      /\ Len(out) \in Nat /\ call.left \in Nat /\ Len(disk) \in Nat /\ fpos = nSrcPos
      /\ disk \in Seq(Byte)
  BY Numbers
<1>3. nReadPos = nSrcPos /\ Remaining = 0
  BY DEF FillEnds
<1>4. nReadPos >= Len(disk)
  BY <1>2, <1>3 DEF Remaining
<1>5. from + Want > Len(disk)
  BY <1>1, <1>2, <1>4
<1>p. Progress
  BY DEF LoadInv
<1>6. CASE pc = "magic"
  <2>1. Want = Word
    BY <1>6 DEF Want
  <2>2. ~FitsIn(disk, from, 2 * Word)
    BY <1>2, <1>5, <2>1 DEF FitsIn
  <2>3. BlocksIn(disk)[from] = <<>>
    BY <1>2, <2>2, Rounds
  <2>4. Makes(found, BlocksIn(disk)[from], disk)
    BY <1>1, <1>6, <1>p DEF Progress
  <2> QED
    BY <2>3, <2>4
<1>7. CASE pc = "len"
  <2> DEFINE q == from - Word
  <2>1. Want = Word /\ from >= Word /\ Makes(found, BlocksIn(disk)[q], disk)
    BY <1>1, <1>7, <1>p DEF Progress, Want
  <2>2. q \in Nat /\ ~FitsIn(disk, q, 2 * Word)
    BY <1>2, <1>5, <2>1 DEF FitsIn
  <2> HIDE DEF q
  <2>3. BlocksIn(disk)[q] = <<>>
    BY <1>2, <2>2, Rounds
  <2> QED
    BY <2>1, <2>3
<1>8. CASE pc = "peek"
  <2>1. Want = Word /\ Makes(found, PeekIn(disk, from), disk)
    BY <1>1, <1>8, <1>p DEF Progress, Want
  <2>2. ~FitsIn(disk, from, Word)
    BY <1>2, <1>5, <2>1 DEF FitsIn
  <2>3. PeekIn(disk, from) = <<>>
    BY <2>2, Zenon DEF PeekIn
  <2> QED
    BY <2>1, <2>3
<1>9. CASE pc = "count"
  <2>1. Want = 1 /\ FitsIn(disk, from, 1)
    BY <1>1, <1>9, <1>p DEF Progress, Want
  <2> QED
    BY <1>2, <1>5, <2>1 DEF FitsIn
<1>10. CASE pc = "body"
  <2> DEFINE b == from - 1
  <2>1. Want = disk[from] /\ from >= 1 /\ Makes(found, BlockIn(disk, b), disk)
    BY <1>1, <1>10, <1>p DEF Progress, Want
  <2>2. b + 1 = from /\ b \in Nat
    BY <1>2, <2>1
  <2>3. b + (1 + Want) > Len(disk)
    BY <1>1, <1>2, <1>5, <2>2
  <2> HIDE DEF b
  <2>4. disk[b + 1] = Want
    BY <2>1, <2>2
  <2>5. ~FitsIn(disk, b, 1 + Want)
    BY <1>1, <1>2, <2>2, <2>3 DEF FitsIn
  <2>6. BlockIn(disk, b) = <<>>
    BY <2>4, <2>5, Zenon DEF BlockIn
  <2> QED
    BY <2>1, <2>6
<1> QED
  BY <1>1, <1>6, <1>7, <1>8, <1>9, <1>10 DEF Reading

\* The steps of a call.
LEMMA InCallKeeps ==
    ASSUME FileInv, LoadInv, InCall
    PROVE  LoadInv'
<1>s. pc' = pc /\ found' = found /\ net_magic' = net_magic
  BY DEF InCall, scanVars
<1>0. /\ call.op # "none" /\ disk' = disk /\ from' = from /\ kept' = kept /\ base' = base
      /\ nReadLimit' = nReadLimit
  BY DEF InCall, LoopStep, Fill, ReadFails, FillShort, FillEnds, FillFails, ReadChunk,
         FindChunk, Running, callVars
<1>1. /\ pc \in Reading /\ call.op = "read" /\ ~Failed
      /\ call.left > 0 /\ Len(out) + call.left = Want /\ nReadPos = from + Len(out)
      /\ Want \in Nat
  BY <1>0, InRead
<1>2. /\ Word \in Nat \ {0} /\ nReadPos \in Nat /\ nSrcPos \in Nat /\ from \in Nat
      /\ Len(out) \in Nat /\ call.left \in Nat /\ Len(disk) \in Nat /\ fpos = nSrcPos
      /\ hi \in Nat /\ BufSize \in Nat
  BY Numbers
<1>w. Want' = Want
  BY <1>0, <1>s DEF Want
<1>i. CallShape /\ RewindInv /\ EndInv /\ (~failed => Progress)
  BY DEF LoadInv
<1>p. pc \in {"top", "block", "done"} \cup Reading /\ pc \notin {"top", "block", "done"}
  BY <1>1 DEF Reading
<1>3. ASSUME NEW k \in 1..BufSize, Brings(k) PROVE LoadInv'
  <2>1. call' = call /\ out' = out /\ nReadPos' = nReadPos /\ hi' = hi /\ fpos' = fpos + k
    BY <1>3 DEF Brings, callVars
  <2>2. Failed' <=> Failed
    BY <2>1 DEF Failed
  <2>3. CallShape'
    BY <1>1, <1>s, <1>w, <1>p, <2>1 DEF CallShape
  <2>4. RewindInv'
    BY <1>i, <1>0, <1>s, <2>1, <2>2 DEF RewindInv
  <2>5. EndInv'
    <3>1. feof' => feof \/ k = Remaining
      BY <1>3 DEF Brings
    <3>2. feof => fpos >= Len(disk)
      BY <1>i DEF EndInv
    <3>3. feof' => fpos' >= Len(disk')
      BY <3>1, <3>2, <2>1, <1>0, <1>2 DEF Remaining
    <3> QED
      BY <3>3, <2>2, <1>1 DEF EndInv
  <2>6. ~failed' => ~failed
    BY <1>3 DEF Brings
  <2>7. Progress => Progress'
    BY <1>0, <1>s, <2>1, <2>2, Zenon DEF Progress
  <2> QED
    BY <1>i, <2>3, <2>4, <2>5, <2>6, <2>7 DEF LoadInv
<1>4. ASSUME FillEnds \/ FillFails PROVE LoadInv'
  <2>1. /\ call' = Idle("throw") /\ nReadPos' = nReadPos /\ nSrcPos' = nSrcPos
        /\ hi' = hi /\ fpos' = fpos
    BY <1>4 DEF FillEnds, FillFails, posVars
  <2>2. Failed'
    BY <2>1 DEF Failed, Idle
  <2>3. CallShape'
    BY <1>1, <1>s, <1>p, <2>2 DEF CallShape, Failed
  <2>4. RewindInv'
    BY <1>i, <1>0, <1>s, <2>1, <2>2 DEF RewindInv
  <2>5. EndInv'
    <3>1. CASE FillEnds
      <4>1. nReadPos = nSrcPos /\ feof' /\ Remaining = 0
        BY <3>1 DEF FillEnds
      <4>2. fpos' >= Len(disk')
        BY <4>1, <2>1, <1>0, <1>2 DEF Remaining
      <4> QED
        BY <2>1, <4>1, <4>2 DEF EndInv
    <3>2. CASE FillFails
      <4>1. feof' = feof /\ failed' = TRUE
        BY <3>2 DEF FillFails
      <4>2. failed'
        BY <1>2, <4>1
      <4> QED
        BY <1>0, <1>i, <2>1, <4>1, <4>2 DEF EndInv
    <3> QED
      BY <1>4, <3>1, <3>2
  <2>6. ASSUME ~failed' PROVE Progress'
    <3>1. FillEnds /\ ~failed
      BY <1>2, <1>4, <2>6 DEF FillEnds, FillFails
    <3>2. Makes(found, <<>>, disk)
      BY <3>1, EndOfFile
    <3> QED
      BY <1>0, <1>s, <1>p, <2>2, <3>2 DEF Progress
  <2> QED
    BY <2>3, <2>4, <2>5, <2>6 DEF LoadInv
<1>5. ASSUME ReadChunk PROVE LoadInv'
  <2>1. /\ nNow \in Nat /\ nNow <= call.left /\ nReadPos' = nReadPos + nNow
        /\ Len(out') = Len(out) + nNow /\ from' = from
        /\ \/ call.left = nNow /\ call'.op = "none"
           \/ call'.op = "read" /\ call'.left = call.left - nNow
    BY <1>5, ReadChunkSums
  <2>2. call.left = nNow => call' = Idle("ok")
    BY <1>5 DEF ReadChunk
  <2>3. /\ hi' = Furthest(hi, nReadPos') /\ feof' = feof /\ fpos' = fpos /\ failed' = failed
    BY <1>5 DEF ReadChunk, stdioVars
  <2>4. \/ /\ call'.op = "none" /\ call'.how = "ok"
           /\ Len(out') = Want /\ nReadPos' = from' + Len(out')
        \/ call'.op = "read" /\ call'.left > 0 /\ Len(out') + call'.left = Want
    <3>1. CASE call.left = nNow
      <4>1. call'.op = "none" /\ call'.how = "ok"
        BY <2>2, <3>1 DEF Idle
      <4>2. Len(out') = Want /\ nReadPos' = from' + Len(out')
        BY <1>1, <1>2, <2>1, <3>1
      <4> QED
        BY <4>1, <4>2
    <3>2. CASE call.left # nNow
      <4>1. call'.op = "read" /\ call'.left = call.left - nNow
        BY <2>1, <3>2
      <4>2. call.left - nNow > 0 /\ (Len(out) + nNow) + (call.left - nNow) = Want
        BY <1>1, <1>2, <2>1, <3>2, SMTT(60)
      <4> QED
        BY <2>1, <4>1, <4>2, Zenon
    <3> QED
      BY <3>1, <3>2
  <2>5. ~Failed'
    BY <2>4 DEF Failed
  <2>6. CallShape'
    BY <1>s, <1>w, <1>p, <2>4 DEF CallShape
  <2>7. RewindInv'
    <3>1. hi' <= nReadPos' + Word
      BY <1>i, <1>2, <2>1, <2>3 DEF RewindInv, Furthest
    <3>2. ASSUME pc \in {"magic", "len", "peek"} PROVE hi' <= from' + Word
      <4>1. Want = Word
        BY <3>2 DEF Want
      <4>2. hi <= from + Word
        BY <1>1, <1>i, <3>2 DEF RewindInv
      <4>3. nReadPos' <= from + Word /\ nReadPos' \in Nat
        BY <4>1, <1>1, <1>2, <2>1
      <4> QED
        BY <1>2, <2>1, <2>3, <4>2, <4>3 DEF Furthest
    <3> QED
      BY <1>i, <1>0, <1>s, <3>1, <3>2 DEF RewindInv
  <2>8. EndInv'
    BY <1>i, <1>0, <2>3, <2>5 DEF EndInv
  <2>9. Progress => Progress'
    <3>1. pc \notin {"top", "block", "done"} /\ ~Failed /\ ~Failed'
      BY <1>1, <1>p, <2>5
    <3> QED
      BY <1>0, <1>s, <3>1, Zenon DEF Progress
  <2> QED
    BY <1>i, <2>3, <2>6, <2>7, <2>8, <2>9 DEF LoadInv
<1>6. ~FindChunk
  BY <1>1 DEF FindChunk
<1> QED
  BY <1>3, <1>4, <1>5, <1>6, LoopSteps DEF InCall

-----------------------------------------------------------------------------
(* Its steps *)

\* Every read of the loader has room in the ring.
LEMMA Room == Word + nRewind <= BufSize /\ \A n \in Byte \cup {1} : n + nRewind <= BufSize
  BY ReadsFitAssumption

\* At the end of the file no block is left.
LEMMA NoneLeft ==
    ASSUME FileInv, EndInv, nReadPos = nSrcPos, feof
    PROVE  BlocksIn(disk)[nReadPos] = <<>>
<1>1. /\ nReadPos \in Nat /\ Len(disk) \in Nat /\ fpos = nSrcPos /\ disk \in Seq(Byte)
      /\ Word \in Nat \ {0}
  BY Numbers
<1>2. nReadPos >= Len(disk)
  BY <1>1 DEF EndInv
<1>3. ~FitsIn(disk, nReadPos, 2 * Word)
  BY <1>1, <1>2 DEF FitsIn
<1> QED
  BY <1>1, <1>3, Rounds

\* At the top of a round the next magic is asked for, or the file is done.
LEMMA NextRecordKeeps ==
    ASSUME FileInv, LoadInv, NextRecord
    PROVE  LoadInv'
<1>s. pc = "top" /\ call.op = "none" /\ found' = found
  BY DEF NextRecord, Loader, Free
<1>i. CallShape /\ RewindInv /\ EndInv /\ (~failed => Progress)
  BY DEF LoadInv
<1>1. CASE ~eof /\ read(Word) /\ pc' = "magic"
  <2>1. Word \in Nat /\ Word + nRewind <= BufSize
    BY Numbers, Room
  <2>2. pc' \in Reading /\ Want' = Word
    BY <1>1 DEF Reading, Want
  <2>3. CallShape' /\ RewindInv' /\ EndInv' /\ ~Failed'
    BY <1>i, <1>1, <2>1, <2>2, Asks
  <2>4. disk' = disk /\ from' = nReadPos /\ failed' = failed
    BY <1>i, <1>1, <2>1, ReadBegins
  <2>5. ASSUME ~failed' PROVE Progress'
    <3>1. Makes(found, BlocksIn(disk)[nReadPos], disk)
      BY <1>i, <1>s, <2>4, <2>5 DEF Progress
    <3> QED
      BY <1>1, <1>s, <2>3, <2>4, <3>1 DEF Progress
  <2> QED
    BY <2>3, <2>5 DEF LoadInv
<1>2. CASE eof /\ fclose /\ pc' = "done"
  <2>1. /\ disk' = disk /\ feof' = feof /\ fpos' = fpos /\ failed' = failed /\ call' = call
        /\ nReadLimit' = nReadLimit /\ base' = base /\ hi' = hi /\ nReadPos' = nReadPos
    BY <1>2 DEF fclose, stdioVars, posVars, callVars
  <2>2. hi' <= nReadPos' + Word
    BY <1>i, <2>1 DEF RewindInv
  <2>3. CallShape' /\ RewindInv' /\ EndInv'
    BY <1>2, <1>s, <2>1, <2>2, Moves
  <2>4. ASSUME ~failed' PROVE Progress'
    <3>1. Makes(found, BlocksIn(disk)[nReadPos], disk)
      BY <1>i, <1>s, <2>1, <2>4 DEF Progress
    <3>2. BlocksIn(disk)[nReadPos] = <<>>
      BY <1>i, <1>2, NoneLeft DEF eof
    <3>3. Makes(found, <<>>, disk)
      BY <3>1, <3>2
    <3> QED
      BY <1>2, <1>s, <2>1, <3>3 DEF Progress
  <2> QED
    BY <2>3, <2>4 DEF LoadInv
<1> QED
  BY <1>1, <1>2 DEF NextRecord

\* The magic is the word at the start of the record.
LEMMA ReadMagicKeeps ==
    ASSUME FileInv, LoadInv, ReadMagic
    PROVE  LoadInv'
<1>s. /\ pc = "magic" /\ pc \in Reading /\ call.op = "none" /\ call.how = "ok" /\ found' = found
      /\ net_magic' = out /\ read(Word) /\ pc' = "len"
  BY DEF ReadMagic, Loader, Free, Delivered, Reading
<1>i. CallShape /\ RewindInv /\ EndInv /\ (~failed => Progress)
  BY DEF LoadInv
<1>1. Word \in Nat /\ Word + nRewind <= BufSize /\ from \in Nat
  BY Numbers, Room
<1>2. pc' \in Reading /\ Want' = Word /\ Want = Word
  BY <1>s DEF Reading, Want
<1>3. CallShape' /\ RewindInv' /\ EndInv' /\ ~Failed'
  BY <1>i, <1>s, <1>1, <1>2, Asks
<1>4. disk' = disk /\ from' = nReadPos /\ failed' = failed
  BY <1>i, <1>s, <1>1, ReadBegins
<1>5. nReadPos = from + Word /\ out = WordIn(disk, from)
  BY <1>i, <1>s, <1>2, ReadDelivered
<1>6. from' >= Word /\ from' - Word = from
  BY <1>1, <1>4, <1>5
<1>7. ASSUME ~failed' PROVE Progress'
  <2>1. Makes(found, BlocksIn(disk)[from], disk)
    BY <1>i, <1>s, <1>4, <1>7 DEF Progress, Failed
  <2>2. /\ Makes(found', BlocksIn(disk')[from' - Word], disk')
        /\ net_magic' = WordIn(disk', from' - Word)
    BY <1>s, <1>4, <1>5, <1>6, <2>1, Zenon
  <2> QED
    BY <1>s, <1>3, <1>6, <2>2 DEF Progress
<1> QED
  BY <1>3, <1>7 DEF LoadInv

\* With the length the loader takes the branch the definition takes.
LEMMA ReadLenKeeps ==
    ASSUME FileInv, LoadInv, ReadLen
    PROVE  LoadInv'
<1> DEFINE q == from - Word
<1>s. /\ pc = "len" /\ pc \in Reading /\ call.op = "none" /\ call.how = "ok" /\ found' = found
      /\ ~Failed
  BY DEF ReadLen, Loader, Free, Delivered, Reading, Failed
<1>i. CallShape /\ RewindInv /\ EndInv /\ (~failed => Progress)
  BY DEF LoadInv
<1>1. /\ Word \in Nat \ {0} /\ Word + nRewind <= BufSize /\ from \in Nat /\ disk \in Seq(Byte)
      /\ Len(disk) \in Nat
  BY Numbers, Room
<1>2. Want = Word
  BY <1>s DEF Want
<1>3. nReadPos = from + Word /\ out = WordIn(disk, from) /\ from + Word <= Len(disk)
  BY <1>1, <1>i, <1>s, <1>2, ReadDelivered
<1>4. ASSUME ~failed
      PROVE  /\ out = Zero => Makes(found, <<>>, disk)
             /\ out # Zero /\ net_magic # Magic => Makes(found, BlocksIn(disk)[nReadPos], disk)
             /\ out # Zero /\ net_magic = Magic => Makes(found, PeekIn(disk, nReadPos), disk)
  <2>1. from >= Word /\ net_magic = WordIn(disk, q) /\ Makes(found, BlocksIn(disk)[q], disk)
    BY <1>i, <1>s, <1>4 DEF Progress
  <2>2. q \in Nat /\ q + Word = from /\ q + 2 * Word = nReadPos /\ FitsIn(disk, q, 2 * Word)
    BY <1>1, <1>3, <2>1 DEF FitsIn
  <2> HIDE DEF q
  <2>3. out = WordIn(disk, q + Word)
    BY <1>3, <2>2
  <2>4. /\ WordIn(disk, q + Word) = Zero => BlocksIn(disk)[q] = <<>>
        /\ WordIn(disk, q + Word) # Zero /\ WordIn(disk, q) # Magic
             => BlocksIn(disk)[q] = BlocksIn(disk)[nReadPos]
        /\ WordIn(disk, q + Word) # Zero /\ WordIn(disk, q) = Magic
             => BlocksIn(disk)[q] = PeekIn(disk, nReadPos)
    <3> DEFINE e == q + 2 * Word
    <3>1. /\ WordIn(disk, q + Word) = Zero => BlocksIn(disk)[q] = <<>>
          /\ WordIn(disk, q + Word) # Zero /\ WordIn(disk, q) # Magic
               => BlocksIn(disk)[q] = BlocksIn(disk)[e]
          /\ WordIn(disk, q + Word) # Zero /\ WordIn(disk, q) = Magic
               => BlocksIn(disk)[q] = PeekIn(disk, e)
      BY <1>1, <2>2, Rounds, Zenon
    <3>2. e = nReadPos
      BY <2>2
    <3> HIDE DEF e
    <3> QED
      BY <3>1, <3>2, Zenon
  <2> QED
    BY <2>1, <2>3, <2>4, Zenon
<1>5. CASE out # Zero /\ net_magic = Magic /\ read(Word) /\ pc' = "peek"
  <2>1. pc' \in Reading /\ Want' = Word
    BY <1>5 DEF Reading, Want
  <2>2. CallShape' /\ RewindInv' /\ EndInv' /\ ~Failed'
    BY <1>i, <1>1, <1>5, <2>1, Asks
  <2>3. disk' = disk /\ from' = nReadPos /\ failed' = failed
    BY <1>i, <1>1, <1>5, ReadBegins
  <2>4. ~failed' => Progress'
    BY <1>s, <1>4, <1>5, <2>2, <2>3 DEF Progress
  <2> QED
    BY <2>2, <2>4 DEF LoadInv
<1>6. CASE \/ out = Zero /\ fclose /\ pc' = "done"
           \/ out # Zero /\ net_magic # Magic /\ pc' = "top" /\ UNCHANGED fileVars
  <2>1. /\ disk' = disk /\ feof' = feof /\ fpos' = fpos /\ failed' = failed /\ call' = call
        /\ nReadLimit' = nReadLimit /\ base' = base /\ hi' = hi /\ nReadPos' = nReadPos
    BY <1>6 DEF fclose, fileVars, stdioVars, posVars, callVars
  <2>2. hi' <= nReadPos' + Word
    BY <1>i, <2>1 DEF RewindInv
  <2>3. CallShape' /\ RewindInv' /\ EndInv'
    BY <1>6, <1>s, <2>1, <2>2, Moves
  <2>4. pc' \notin Reading
    BY <1>6 DEF Reading
  <2>5. ~failed' => Progress'
    BY <1>s, <1>4, <1>6, <2>1, <2>4 DEF Progress
  <2> QED
    BY <2>3, <2>5 DEF LoadInv
<1> QED
  BY <1>5, <1>6 DEF ReadLen

\* Looking ahead leaves the reading position where it was.
LEMMA PeekKeeps ==
    ASSUME FileInv, LoadInv, Peek
    PROVE  LoadInv'
<1>s. /\ pc = "peek" /\ pc \in Reading /\ call.op = "none" /\ call.how = "ok" /\ found' = found
      /\ ~Failed /\ SetPos(nReadPos - Word) /\ pc' = IF out = Magic THEN "top" ELSE "block"
  BY DEF Peek, Loader, Free, Delivered, Reading, Failed
<1>i. CallShape /\ RewindInv /\ EndInv /\ (~failed => Progress)
  BY DEF LoadInv
<1>1. /\ Word \in Nat \ {0} /\ from \in Nat /\ disk \in Seq(Byte) /\ Len(disk) \in Nat
      /\ nReadPos \in Nat /\ nSrcPos \in Nat /\ hi \in Nat /\ nReadPos <= hi /\ hi <= nSrcPos
  BY Numbers
<1>2. Want = Word
  BY <1>s DEF Want
<1>3. nReadPos = from + Word /\ out = WordIn(disk, from) /\ from + Word <= Len(disk)
  BY <1>1, <1>i, <1>s, <1>2, ReadDelivered
<1>4. /\ disk' = disk /\ feof' = feof /\ fpos' = fpos /\ failed' = failed
      /\ nReadLimit' = nReadLimit /\ base' = base /\ call' = Idle("ok")
      /\ hi' = Furthest(hi, nReadPos') /\ nReadPos' = Least(nReadPos - Word, nSrcPos)
  BY <1>s DEF SetPos, Settled, stdioVars
<1>5. nReadPos' = from /\ hi' = hi
  <2>1. nReadPos' = from
    BY <1>1, <1>3, <1>4 DEF Least
  <2> QED
    BY <1>1, <1>3, <1>4, <2>1 DEF Furthest
<1>6. hi' <= nReadPos' + Word
  BY <1>i, <1>s, <1>5 DEF RewindInv
<1>7. call'.op = "none" /\ pc' \in {"top", "block", "done"} /\ pc' \notin Reading
  BY <1>4, <1>s DEF Idle, Reading
<1>8. CallShape' /\ RewindInv' /\ EndInv'
  BY <1>s, <1>4, <1>6, <1>7, Moves
<1>9. ASSUME ~failed' PROVE Progress'
  <2>1. Makes(found, PeekIn(disk, from), disk)
    BY <1>i, <1>s, <1>4, <1>9 DEF Progress
  <2>2. FitsIn(disk, from, Word) /\ FitsIn(disk, from, 1)
    BY <1>1, <1>3 DEF FitsIn
  <2>3. PeekIn(disk, from) = IF out = Magic THEN BlocksIn(disk)[from] ELSE BlockIn(disk, from)
    BY <1>3, <2>2, Zenon DEF PeekIn
  <2>4. CASE out = Magic
    BY <1>s, <1>4, <1>5, <1>7, <2>1, <2>3, <2>4 DEF Progress
  <2>5. CASE out # Magic
    BY <1>s, <1>4, <1>5, <1>7, <2>1, <2>2, <2>3, <2>5 DEF Progress
  <2> QED
    BY <2>4, <2>5
<1> QED
  BY <1>8, <1>9 DEF LoadInv

\* The count of a block says how much of it is read.
LEMMA ReadBlockKeeps ==
    ASSUME FileInv, LoadInv, ReadBlock
    PROVE  LoadInv'
<1>s. call.op = "none" /\ found' = found
  BY DEF ReadBlock, Loader, Free
<1>i. CallShape /\ RewindInv /\ EndInv /\ (~failed => Progress)
  BY DEF LoadInv
<1>1. CASE pc = "block" /\ read(1) /\ pc' = "count"
  <2>1. 1 \in Nat /\ 1 + nRewind <= BufSize
    BY Room
  <2>2. pc' \in Reading /\ Want' = 1
    BY <1>1 DEF Reading, Want
  <2>3. CallShape' /\ RewindInv' /\ EndInv' /\ ~Failed'
    BY <1>i, <1>1, <2>1, <2>2, Asks
  <2>4. disk' = disk /\ from' = nReadPos /\ failed' = failed
    BY <1>i, <1>1, <2>1, ReadBegins
  <2>5. ASSUME ~failed' PROVE Progress'
    <3>1. FitsIn(disk, nReadPos, 1) /\ Makes(found, BlockIn(disk, nReadPos), disk)
      BY <1>i, <1>1, <2>4, <2>5 DEF Progress
    <3> QED
      BY <1>1, <1>s, <2>3, <2>4, <3>1 DEF Progress
  <2> QED
    BY <2>3, <2>5 DEF LoadInv
<1>2. CASE pc = "count" /\ Delivered /\ read(out[1]) /\ pc' = "body"
  <2> DEFINE n == out[1]
  <2>0. pc \in Reading /\ call.how = "ok" /\ Want = 1 /\ ~Failed
    BY <1>2 DEF Reading, Delivered, Want, Failed
  <2>1. nReadPos = from + 1 /\ from + 1 <= Len(disk) /\ out[1] = disk[from + 1]
    BY <1>i, <1>s, <2>0, ReadDelivered
  <2>2. from \in Nat /\ Len(disk) \in Nat /\ disk \in Seq(Byte)
    BY Numbers
  <2>3. from + 1 \in 1..Len(disk)
    BY <2>1, <2>2
  <2>4. n \in Byte
    BY <2>1, <2>2, <2>3, ElementOfSeq
  <2>5. n \in Nat /\ n + nRewind <= BufSize
    BY <2>4, Room, Domains
  <2>6. read(n)
    BY <1>2
  <2>7. disk' = disk /\ from' = nReadPos /\ failed' = failed
    <3> HIDE DEF n
    <3> QED
      BY <1>i, <2>5, <2>6, ReadBegins
  <2>8. pc' \in Reading /\ Want' = n
    BY <1>2, <2>1, <2>7 DEF Reading, Want
  <2>9. CallShape' /\ RewindInv' /\ EndInv' /\ ~Failed'
    <3> HIDE DEF n
    <3> QED
      BY <1>i, <2>5, <2>6, <2>8, Asks
  <2>10. from' >= 1 /\ from' <= Len(disk') /\ from' - 1 = from
    BY <2>1, <2>2, <2>7
  <2>11. ASSUME ~failed' PROVE Progress'
    <3>1. Makes(found, BlockIn(disk, from), disk)
      BY <1>i, <1>2, <2>0, <2>7, <2>11 DEF Progress
    <3>2. Makes(found', BlockIn(disk', from' - 1), disk')
      BY <1>s, <2>7, <2>10, <3>1, Zenon
    <3> QED
      BY <1>2, <2>9, <2>10, <3>2 DEF Progress
  <2> QED
    BY <2>9, <2>11 DEF LoadInv
<1> QED
  BY <1>1, <1>2 DEF ReadBlock

\* The block handed on is the next one of the file.
LEMMA BlockReadKeeps ==
    ASSUME FileInv, LoadInv, ~failed => found \in Seq(Nat), BlockRead
    PROVE  LoadInv' /\ (~failed' => found' \in Seq(Nat))
<1> DEFINE b == from - 1
<1>s. /\ pc = "body" /\ pc \in Reading /\ call.op = "none" /\ call.how = "ok" /\ ~Failed
      /\ pc' = "top" /\ found' = Append(found, nReadPos - Len(out) - 1)
  BY DEF BlockRead, Loader, Free, Delivered, Reading, Failed
<1>i. CallShape /\ RewindInv /\ EndInv /\ (~failed => Progress)
  BY DEF LoadInv
<1>1. /\ disk' = disk /\ feof' = feof /\ fpos' = fpos /\ failed' = failed /\ call' = call
      /\ nReadLimit' = nReadLimit /\ base' = base /\ hi' = hi /\ nReadPos' = nReadPos
  BY DEF BlockRead, fileVars, stdioVars, posVars, callVars
<1>2. hi' <= nReadPos' + Word
  BY <1>i, <1>1 DEF RewindInv
<1>3. CallShape' /\ RewindInv' /\ EndInv'
  BY <1>s, <1>1, <1>2, Moves
<1>4. ASSUME ~failed
      PROVE  found' \in Seq(Nat) /\ Makes(found', BlocksIn(disk)[nReadPos], disk)
  <2>1. from >= 1 /\ from <= Len(disk) /\ Makes(found, BlockIn(disk, b), disk)
    BY <1>i, <1>s, <1>4 DEF Progress
  <2>2. from \in Nat /\ Len(disk) \in Nat /\ Len(out) \in Nat /\ disk \in Seq(Byte)
    BY Numbers
  <2>3. /\ Len(out) = Want /\ nReadPos = from + Want /\ Want \in Nat
        /\ Want # 0 => from + Want <= Len(disk)
    BY <1>i, <1>s, ReadDelivered
  <2>4. Want = disk[from]
    BY <1>s DEF Want
  <2>5. /\ b \in Nat /\ b + 1 = from /\ b + 1 + Want = nReadPos /\ b + (1 + Want) <= Len(disk)
        /\ nReadPos - Len(out) - 1 = b /\ nReadPos \in Nat
    BY <2>1, <2>2, <2>3
  <2> HIDE DEF b
  <2> DEFINE s == BlocksIn(disk)[nReadPos]
  <2>6. s \in Seq(Nat)
    BY <2>2, <2>5, BlocksUnfold
  <2>7. BlockIn(disk, b) = <<b>> \o s
    <3>1. disk[b + 1] = Want
      BY <2>4, <2>5
    <3>2. FitsIn(disk, b, 1 + disk[b + 1]) /\ b + 1 + disk[b + 1] = nReadPos
      BY <2>5, <3>1 DEF FitsIn
    <3> QED
      BY <3>2, Zenon DEF BlockIn
  <2> HIDE DEF s
  <2>8. found' = found \o <<b>> /\ found' \in Seq(Nat) /\ <<b>> \in Seq(Nat)
    BY <1>s, <1>4, <2>5
  <2>9. found' \o s = found \o (<<b>> \o s)
    BY <2>6, <2>8, ConcatAssociative, SMTT(60)
  <2>10. Makes(found', s, disk)
    BY <2>1, <2>7, <2>9 DEF Makes
  <2> QED
    BY <2>8, <2>10 DEF s
<1>5. pc' \notin Reading
  BY <1>s DEF Reading
<1>6. ~failed' => Progress'
  BY <1>s, <1>1, <1>4, <1>5 DEF Progress
<1> QED
  BY <1>1, <1>3, <1>4, <1>6 DEF LoadInv

\* A round is given up only where no block is left, unless the file failed.
LEMMA CaughtKeeps ==
    ASSUME FileInv, LoadInv, Caught
    PROVE  LoadInv'
<1>s. /\ pc \notin {"top", "block", "done"} /\ call.op = "none" /\ call.how = "throw"
      /\ pc' = "top" /\ found' = found /\ Failed
  BY DEF Caught, Loader, Free, Failed
<1>i. CallShape /\ RewindInv /\ EndInv /\ (~failed => Progress)
  BY DEF LoadInv
<1>0. pc \in Reading
  BY <1>s, <1>i DEF CallShape
<1>1. /\ disk' = disk /\ feof' = feof /\ fpos' = fpos /\ failed' = failed /\ call' = call
      /\ nReadLimit' = nReadLimit /\ base' = base /\ hi' = hi /\ nReadPos' = nReadPos
  BY DEF Caught, fileVars, stdioVars, posVars, callVars
<1>2. hi' <= nReadPos' + Word
  BY <1>i, <1>1 DEF RewindInv
<1>3. CallShape' /\ RewindInv' /\ EndInv'
  BY <1>s, <1>1, <1>2, Moves
<1>4. ASSUME ~failed PROVE Makes(found, BlocksIn(disk)[nReadPos], disk)
  <2>1. nReadPos = nSrcPos /\ feof
    BY <1>0, <1>i, <1>s, <1>4 DEF EndInv
  <2>2. BlocksIn(disk)[nReadPos] = <<>>
    BY <1>i, <2>1, NoneLeft
  <2>3. Makes(found, <<>>, disk)
    BY <1>0, <1>i, <1>s, <1>4 DEF Progress
  <2> QED
    BY <2>2, <2>3
<1>5. pc' \notin Reading
  BY <1>s DEF Reading
<1>6. ~failed' => Progress'
  BY <1>s, <1>1, <1>4, <1>5 DEF Progress
<1> QED
  BY <1>3, <1>6 DEF LoadInv

\* A step of the loader that changes nothing.
LEMMA LoadStutter ==
    ASSUME LoadInv, UNCHANGED vars
    PROVE  LoadInv'
<1>1. /\ disk' = disk /\ feof' = feof /\ fpos' = fpos /\ failed' = failed /\ call' = call
      /\ nReadLimit' = nReadLimit /\ base' = base /\ hi' = hi /\ nReadPos' = nReadPos
      /\ nSrcPos' = nSrcPos /\ out' = out /\ from' = from /\ kept' = kept
      /\ pc' = pc /\ found' = found /\ net_magic' = net_magic
  BY DEF vars, scanVars, fileVars, stdioVars, posVars, callVars
<1>2. Want' = Want /\ (Failed' <=> Failed)
  BY <1>1 DEF Want, Failed
<1>3. CallShape => CallShape'
  BY <1>1, <1>2, Zenon DEF CallShape
<1>4. RewindInv => RewindInv'
  BY <1>1, <1>2, Zenon DEF RewindInv
<1>5. EndInv => EndInv'
  BY <1>1, <1>2, Zenon DEF EndInv
<1>6. Progress => Progress'
  BY <1>1, <1>2, Zenon DEF Progress
<1> QED
  BY <1>1, <1>3, <1>4, <1>5, <1>6 DEF LoadInv

\* Initially all of the file is still to be read.
LEMMA ScanInitInv == ScanInit => ScanInv
<1> SUFFICES ASSUME ScanInit PROVE ScanInv
  OBVIOUS
<1>1. FileInv
  BY InitFile
<1>2. /\ pc = "top" /\ found = <<>> /\ nReadLimit = NoLimit /\ base = 0 /\ hi = 0
      /\ nReadPos = 0 /\ call = Idle("ok") /\ feof = FALSE
  BY DEF ScanInit, FileInit
<1>3. pc \notin Reading /\ call.op = "none"
  BY <1>2 DEF Reading, Idle
<1>4. Word \in Nat /\ disk \in Seq(Byte)
  BY <1>1, Numbers
<1>5. BlocksIn(disk)[0] \in Seq(Nat)
  BY <1>4, BlocksUnfold
<1>6. found \in Seq(Nat)
  BY <1>2
<1>7. Makes(found, BlocksIn(disk)[nReadPos], disk)
  BY <1>2, <1>5, ConcatEmptySeq DEF Makes
<1>8. CallShape
  BY <1>2, <1>3 DEF CallShape
<1>9. RewindInv
  BY <1>2, <1>3, <1>4 DEF RewindInv
<1>10. EndInv
  BY <1>2, <1>3 DEF EndInv
<1>11. Progress
  BY <1>2, <1>3, <1>7 DEF Progress
<1> QED
  BY <1>6, <1>8, <1>9, <1>10, <1>11 DEF ScanInv, LoadInv

\* No step takes a failure of the file back, and one hands on a block.
LEMMA FoundStays ==
    ASSUME FileInv, [Next]_vars, ~BlockRead
    PROVE  found' = found /\ (~failed' => ~failed)
<1>1. found' = found
  BY DEF Next, LoaderStep, NextRecord, ReadMagic, ReadLen, Peek, ReadBlock, Caught, InCall,
         AnyCall, vars, scanVars
<1>2. failed' = failed \/ failed' = TRUE
  <2>1. ASSUME NEW n, read(n) PROVE failed' = failed
    BY <2>1 DEF read, Begin, stdioVars
  <2>2. ASSUME NEW p, SetPos(p) \/ Seek(p) \/ SetLimit(p) \/ FindByte(p) PROVE failed' = failed
    BY <2>2 DEF SetPos, Seek, SetLimit, FindByte, Begin, stdioVars
  <2>3. fclose \/ UNCHANGED fileVars => failed' = failed
    BY DEF fclose, fileVars, stdioVars
  <2>4. LoaderStep => failed' = failed
    BY <2>1, <2>2, <2>3 DEF LoaderStep, NextRecord, ReadMagic, ReadLen, Peek, ReadBlock, Caught
  <2>5. AnyCall => failed' = failed
    BY <2>1, <2>2, <2>3 DEF AnyCall
  <2>6. InCall => failed' = failed \/ failed' = TRUE
    BY DEF InCall, LoopStep, Fill, ReadFails, FillShort, FillEnds, FillFails, ReadChunk,
           FindChunk, stdioVars
  <2> QED
    BY <2>3, <2>4, <2>5, <2>6 DEF Next, vars
<1> QED
  BY <1>1, <1>2

\* Every step keeps the invariant.
LEMMA ScanStepInv == Inv /\ ScanInv /\ [Next]_vars => ScanInv'
<1> SUFFICES ASSUME Inv, ScanInv, [Next]_vars PROVE ScanInv'
  OBVIOUS
<1>1. FileInv /\ (~failed => found \in Seq(Nat)) /\ client' = client
  BY DEF Inv, ScanInv, Next, LoaderStep, NextRecord, ReadMagic, ReadLen, Peek, ReadBlock,
         BlockRead, Caught, InCall, AnyCall, vars, scanVars
<1>2. ~failed' => found' \in Seq(Nat)
  <2>1. CASE BlockRead
    <3>1. LoadInv
      BY <2>1 DEF BlockRead, Loader, ScanInv
    <3> QED
      BY <1>1, <2>1, <3>1, BlockReadKeeps
  <2>2. CASE ~BlockRead
    BY <1>1, <2>2, FoundStays
  <2> QED
    BY <2>1, <2>2
<1>3. ASSUME client = "loader" PROVE LoadInv'
  <2>1. LoadInv
    BY <1>3 DEF ScanInv
  <2>2. ~AnyCall
    BY <1>3 DEF AnyCall
  <2> QED
    BY <1>1, <2>1, <2>2, NextRecordKeeps, ReadMagicKeeps, ReadLenKeeps, PeekKeeps,
       ReadBlockKeeps, BlockReadKeeps, CaughtKeeps, InCallKeeps, LoadStutter
       DEF Next, LoaderStep
<1> QED
  BY <1>1, <1>2, <1>3 DEF ScanInv

\* What the rest of the file holds are positions.
LEMMA RestTypes ==
    ASSUME NEW d \in Seq(Byte), NEW b \in Nat
    PROVE  /\ BlocksIn(d)[b] \in Seq(Nat)
           /\ FitsIn(d, b, 1) => BlockIn(d, b) \in Seq(Nat)
           /\ PeekIn(d, b) \in Seq(Nat)
<1>1. \A p \in Nat : BlocksIn(d)[p] \in Seq(Nat)
  BY BlocksUnfold
<1>2. <<>> \in Seq(Nat) /\ <<b>> \in Seq(Nat)
  OBVIOUS
<1>3. ASSUME FitsIn(d, b, 1) PROVE BlockIn(d, b) \in Seq(Nat)
  <2>1. b + 1 \in 1..Len(d)
    BY <1>3 DEF FitsIn
  <2>2. d[b + 1] \in Nat
    BY <2>1, ElementOfSeq, Domains
  <2> DEFINE c == b + 1 + d[b + 1]
  <2>3. c \in Nat
    BY <2>2
  <2>4. BlockIn(d, b) = IF FitsIn(d, b, 1 + d[b + 1]) THEN <<b>> \o BlocksIn(d)[c] ELSE <<>>
    BY DEF BlockIn
  <2> HIDE DEF c
  <2>5. <<b>> \o BlocksIn(d)[c] \in Seq(Nat)
    BY <1>1, <1>2, <2>3, ConcatProperties
  <2> QED
    BY <1>2, <2>4, <2>5, Zenon
<1>4. Word \in Nat \ {0} /\ Len(d) \in Nat
  BY Sizes
<1>5. FitsIn(d, b, Word) => FitsIn(d, b, 1)
  BY <1>4 DEF FitsIn
<1>6. PeekIn(d, b) \in Seq(Nat)
  BY <1>1, <1>2, <1>3, <1>5, Zenon DEF PeekIn
<1> QED
  BY <1>1, <1>3, <1>6

\* In every state the loader knows how far it has come: the blocks it handed on
\* and those the rest of the file still holds make up the blocks of the file.
THEOREM ScanInvariance == Spec => []ScanInv
<1>1. Spec => []Inv
  BY Invariance
<1> QED
  BY <1>1, ScanInitInv, ScanStepInv, PTL DEF Spec

\* Of every block file whose reads succeed the loader of PreLoadBlocks hands on
\* exactly the blocks that are in it, in their order, whatever the size of the
\* ring and wherever its border falls in a magic, a length or a block.
THEOREM ScanFindsBlocks == Spec => []ScanExact
<1>1. ASSUME Inv, ScanInv PROVE ScanExact
  <2>0. FileInv
    BY <1>1 DEF Inv
  <2>1. disk \in Seq(Byte) /\ nReadPos \in Nat /\ from \in Nat /\ Word \in Nat
    BY <2>0, Numbers
  <2> SUFFICES ASSUME client = "loader", ~failed
               PROVE  /\ Len(found) <= Len(BlocksFrom[0])
                      /\ found = SubSeq(BlocksFrom[0], 1, Len(found))
                      /\ pc = "done" => found = BlocksFrom[0]
    BY DEF ScanExact
  <2>2. found \in Seq(Nat) /\ CallShape /\ Progress
    BY <1>1 DEF ScanInv, LoadInv
  <2>3. BlocksFrom[0] = BlocksIn(disk)[0]
    BY BlocksOfDisk
  <2>4. \E s \in Seq(Nat) : Makes(found, s, disk) /\ (pc = "done" => s = <<>>)
    <3>0. <<>> \in Seq(Nat) /\ Len(disk) \in Nat
      BY <2>1
    <3>1. CASE pc = "done" \/ (pc \in Reading /\ Failed)
      BY <2>2, <3>0, <3>1 DEF Progress
    <3>2. CASE pc = "top" \/ pc = "block"
      BY <2>1, <2>2, <3>2, RestTypes DEF Progress
    <3>3. CASE pc \in {"magic", "peek", "count"} /\ ~Failed
      BY <2>1, <2>2, <3>3, RestTypes DEF Progress
    <3>4. CASE pc = "len" /\ ~Failed
      <4>1. from - Word \in Nat /\ Makes(found, BlocksIn(disk)[from - Word], disk)
        BY <2>1, <2>2, <3>4 DEF Progress
      <4> QED
        BY <2>1, <3>4, <4>1, RestTypes
    <3>5. CASE pc = "body" /\ ~Failed
      <4>1. /\ from - 1 \in Nat /\ FitsIn(disk, from - 1, 1)
            /\ Makes(found, BlockIn(disk, from - 1), disk)
        BY <2>1, <2>2, <3>0, <3>5 DEF Progress, FitsIn
      <4> QED
        BY <2>1, <3>5, <4>1, RestTypes
    <3> QED
      BY <2>2, <3>1, <3>2, <3>3, <3>4, <3>5 DEF CallShape, Reading
  <2>5. PICK s \in Seq(Nat) : found \o s = BlocksFrom[0] /\ (pc = "done" => s = <<>>)
    BY <2>3, <2>4 DEF Makes
  <2>6. Len(found) \in Nat /\ Len(s) \in Nat
    BY <2>2
  <2> DEFINE t == found \o s
  <2>7. /\ t \in Seq(Nat) /\ Len(t) = Len(found) + Len(s)
        /\ \A i \in 1..Len(found) : t[i] = found[i]
    BY <2>2, ConcatProperties
  <2> HIDE DEF t
  <2>8. t = BlocksFrom[0]
    BY <2>5 DEF t
  <2>9. found = SubSeq(t, 1, Len(found))
    <3> DEFINE u == SubSeq(t, 1, Len(found))
    <3>1. u \in Seq(Nat) /\ Len(u) = Len(found) /\ \A i \in 1..Len(found) : u[i] = t[i]
      BY <2>6, <2>7
    <3> HIDE DEF u
    <3>2. \A i \in 1..Len(found) : found[i] = u[i]
      BY <2>7, <3>1
    <3>3. found = u
      BY <2>2, <3>1, <3>2, SeqEqual
    <3> QED
      BY <3>3 DEF u
  <2>10. pc = "done" => found = t
    BY <2>2, <2>5, ConcatEmptySeq DEF t
  <2> QED
    BY <2>6, <2>7, <2>8, <2>9, <2>10
<1> QED
  BY <1>1, Invariance, ScanInvariance, PTL

-----------------------------------------------------------------------------
(* Parts of sequences *)

\* A part of a sequence.
LEMMA Slice ==
    ASSUME NEW S, NEW v \in Seq(S), NEW i \in Nat, NEW j \in Nat, i <= j, j <= Len(v)
    PROVE  /\ SubSeq(v, i + 1, j) \in Seq(S) /\ Len(SubSeq(v, i + 1, j)) = j - i
           /\ \A m \in 1..(j - i) : SubSeq(v, i + 1, j)[m] = v[i + m]
<1>1. Len(v) \in Nat
  OBVIOUS
<1>2. \A m \in (i + 1)..j : v[m] \in S
  BY <1>1, ElementOfSeq
<1>3. SubSeq(v, i + 1, j) \in Seq(S)
  BY <1>2, SubSeqProperties
<1>4. Len(SubSeq(v, i + 1, j)) = j - i
  BY <1>1
<1>5. \A m \in 1..(j - i) : SubSeq(v, i + 1, j)[m] = v[i + m]
  BY <1>1
<1> QED
  BY <1>3, <1>4, <1>5

\* Two sequences in a row.
LEMMA Cat ==
    ASSUME NEW S, NEW a \in Seq(S), NEW b \in Seq(S)
    PROVE  /\ a \o b \in Seq(S) /\ Len(a \o b) = Len(a) + Len(b)
           /\ \A m \in 1..Len(a) : (a \o b)[m] = a[m]
           /\ \A m \in 1..Len(b) : (a \o b)[Len(a) + m] = b[m]
  BY ConcatProperties

\* What is left of v behind its first k elements.
Drop(v, k) == SubSeq(v, k + 1, Len(v))

\* Its length and its elements.
LEMMA Dropped ==
    ASSUME NEW S, NEW v \in Seq(S), NEW k \in 0..Len(v)
    PROVE  /\ Drop(v, k) \in Seq(S) /\ Len(Drop(v, k)) = Len(v) - k
           /\ \A m \in 1..(Len(v) - k) : Drop(v, k)[m] = v[k + m]
<1>1. Len(v) \in Nat /\ k \in Nat /\ k <= Len(v)
  OBVIOUS
<1> QED
  BY <1>1, Slice DEF Drop

\* Dropping all of it, and nothing.
LEMMA DropEnds ==
    ASSUME NEW S, NEW v \in Seq(S)
    PROVE  Drop(v, Len(v)) = <<>> /\ Drop(v, 0) = v /\ SubSeq(v, 1, 0) = <<>>
           /\ SubSeq(v, 1, Len(v)) = v
<1>1. Len(v) \in Nat
  OBVIOUS
<1>2. Drop(v, Len(v)) \in Seq(S) /\ Len(Drop(v, Len(v))) = 0
  BY <1>1, Dropped
<1>3. SubSeq(v, 0 + 1, 0) \in Seq(S) /\ Len(SubSeq(v, 0 + 1, 0)) = 0
  BY <1>1, Slice
<1>4. SubSeq(v, 1, Len(v)) = v
  BY SubSeqFull
<1>5. Drop(v, 0) = v
  BY <1>4 DEF Drop
<1> QED
  BY <1>2, <1>3, <1>4, <1>5, EmptySeq

\* What is appended comes behind what is left.
LEMMA DropCat ==
    ASSUME NEW S, NEW v \in Seq(S), NEW w \in Seq(S), NEW k \in 0..Len(v)
    PROVE  Drop(v \o w, k) = Drop(v, k) \o w
<1> DEFINE c == v \o w
           u == Drop(v, k)
           l == Drop(c, k)
           r == u \o w
<1>1. Len(v) \in Nat /\ Len(w) \in Nat /\ k \in Nat /\ k <= Len(v)
  OBVIOUS
<1>2. /\ c \in Seq(S) /\ Len(c) = Len(v) + Len(w)
      /\ \A m \in 1..Len(v) : c[m] = v[m]
      /\ \A m \in 1..Len(w) : c[Len(v) + m] = w[m]
  BY Cat
<1>3. /\ u \in Seq(S) /\ Len(u) = Len(v) - k
      /\ \A m \in 1..(Len(v) - k) : u[m] = v[k + m]
  BY Dropped
<1> HIDE DEF c, u
<1>4. /\ l \in Seq(S) /\ Len(l) = Len(c) - k
      /\ \A m \in 1..(Len(c) - k) : l[m] = c[k + m]
  <2>1. c \in Seq(S) /\ k \in 0..Len(c)
    BY <1>1, <1>2
  <2> QED
    BY <2>1, Dropped
<1>5. /\ r \in Seq(S) /\ Len(r) = Len(u) + Len(w)
      /\ \A m \in 1..Len(u) : r[m] = u[m]
      /\ \A m \in 1..Len(w) : r[Len(u) + m] = w[m]
  <2>1. u \in Seq(S)
    BY <1>3
  <2> QED
    BY <2>1, Cat
<1> HIDE DEF l, r
<1>6. Len(l) = Len(r)
  BY <1>1, <1>2, <1>3, <1>4, <1>5
<1>7. ASSUME NEW m \in 1..Len(l) PROVE l[m] = r[m]
  <2>1. CASE m <= Len(v) - k
    <3>1. m \in 1..(Len(v) - k) /\ k + m \in 1..Len(v)
      BY <1>1, <1>2, <1>4, <2>1
    <3>2. l[m] = v[k + m]
      BY <1>2, <1>4, <3>1
    <3> QED
      BY <1>3, <1>5, <3>1, <3>2
  <2>2. CASE m > Len(v) - k
    <3>1. m - (Len(v) - k) \in 1..Len(w)
      BY <1>1, <1>2, <1>4, <2>2
    <3>2. r[(Len(v) - k) + (m - (Len(v) - k))] = w[m - (Len(v) - k)]
      BY <1>3, <1>5, <3>1
    <3>3. c[Len(v) + (m - (Len(v) - k))] = w[m - (Len(v) - k)]
      BY <1>2, <3>1
    <3>4. /\ Len(v) + (m - (Len(v) - k)) = k + m
          /\ (Len(v) - k) + (m - (Len(v) - k)) = m
      BY <1>1
    <3> QED
      BY <1>4, <3>2, <3>3, <3>4
  <2> QED
    BY <1>1, <2>1, <2>2
<1>8. l = r
  BY <1>4, <1>5, <1>6, <1>7, SeqEqual
<1> QED
  BY <1>8 DEF l, r, c, u

\* Dropping in two goes.
LEMMA DropMore ==
    ASSUME NEW S, NEW v \in Seq(S), NEW k \in Nat, NEW n \in Nat, k + n <= Len(v)
    PROVE  Drop(v, k + n) = Drop(Drop(v, k), n)
<1> DEFINE u == Drop(v, k)
           l == Drop(v, k + n)
           r == Drop(u, n)
<1>1. Len(v) \in Nat /\ k \in 0..Len(v) /\ k + n \in 0..Len(v)
  OBVIOUS
<1>2. /\ u \in Seq(S) /\ Len(u) = Len(v) - k
      /\ \A m \in 1..(Len(v) - k) : u[m] = v[k + m]
  BY <1>1, Dropped
<1>3. /\ l \in Seq(S) /\ Len(l) = Len(v) - (k + n)
      /\ \A m \in 1..(Len(v) - (k + n)) : l[m] = v[(k + n) + m]
  BY <1>1, Dropped
<1> HIDE DEF u, l
<1>4. n \in 0..Len(u)
  BY <1>1, <1>2
<1>5. /\ r \in Seq(S) /\ Len(r) = Len(u) - n
      /\ \A m \in 1..(Len(u) - n) : r[m] = u[n + m]
  BY <1>2, <1>4, Dropped
<1> HIDE DEF r
<1>6. Len(l) = Len(r)
  BY <1>1, <1>2, <1>3, <1>5
<1>7. ASSUME NEW m \in 1..Len(l) PROVE l[m] = r[m]
  <2>1. r[m] = u[n + m] /\ n + m \in 1..(Len(v) - k) /\ k + (n + m) = (k + n) + m
    BY <1>1, <1>2, <1>3, <1>5
  <2> QED
    BY <1>2, <1>3, <2>1
<1>8. l = r
  BY <1>3, <1>5, <1>6, <1>7, SeqEqual
<1> QED
  BY <1>8 DEF u, l, r

\* Going back puts a part in front of what is left.
LEMMA DropLess ==
    ASSUME NEW S, NEW v \in Seq(S), NEW k \in 0..Len(v), NEW n \in 0..k
    PROVE  Drop(v, k - n) = SubSeq(v, k - n + 1, k) \o Drop(v, k)
<1> DEFINE i == k - n
           a == SubSeq(v, i + 1, k)
           u == Drop(v, k)
           l == Drop(v, i)
           r == a \o u
<1>1. Len(v) \in Nat /\ k \in Nat /\ i \in 0..Len(v) /\ i <= k /\ k <= Len(v) /\ i \in Nat
  OBVIOUS
<1> HIDE DEF i
<1>2. /\ u \in Seq(S) /\ Len(u) = Len(v) - k
      /\ \A m \in 1..(Len(v) - k) : u[m] = v[k + m]
  BY Dropped
<1>3. /\ l \in Seq(S) /\ Len(l) = Len(v) - i
      /\ \A m \in 1..(Len(v) - i) : l[m] = v[i + m]
  BY <1>1, Dropped
<1>4. /\ a \in Seq(S) /\ Len(a) = k - i
      /\ \A m \in 1..(k - i) : a[m] = v[i + m]
  BY <1>1, Slice
<1> HIDE DEF u, l, a
<1>5. /\ r \in Seq(S) /\ Len(r) = Len(a) + Len(u)
      /\ \A m \in 1..Len(a) : r[m] = a[m]
      /\ \A m \in 1..Len(u) : r[Len(a) + m] = u[m]
  <2>1. a \in Seq(S) /\ u \in Seq(S)
    BY <1>2, <1>4
  <2> QED
    BY <2>1, Cat
<1> HIDE DEF r
<1>6. Len(l) = Len(r)
  BY <1>1, <1>2, <1>3, <1>4, <1>5
<1>7. ASSUME NEW m \in 1..Len(l) PROVE l[m] = r[m]
  <2>1. CASE m <= k - i
    BY <1>1, <1>3, <1>4, <1>5, <2>1
  <2>2. CASE m > k - i
    <3>1. m - (k - i) \in 1..Len(u)
      BY <1>1, <1>2, <1>3, <2>2, SMTT(60)
    <3>2. r[(k - i) + (m - (k - i))] = u[m - (k - i)]
      BY <1>4, <1>5, <3>1
    <3>3. (k - i) + (m - (k - i)) = m /\ k + (m - (k - i)) = i + m
      BY <1>1
    <3> QED
      BY <1>2, <1>3, <3>1, <3>2, <3>3
  <2> QED
    BY <1>1, <2>1, <2>2
<1>8. l = r
  BY <1>3, <1>5, <1>6, <1>7, SeqEqual
<1> QED
  BY <1>8 DEF u, l, r, a, i

\* What is left of the first k + p elements.
LEMMA DropTake ==
    ASSUME NEW S, NEW v \in Seq(S), NEW k \in Nat, NEW p \in Nat, k + p <= Len(v)
    PROVE  Drop(SubSeq(v, 1, k + p), k) = SubSeq(Drop(v, k), 1, p)
<1> DEFINE t == SubSeq(v, 0 + 1, k + p)
           u == Drop(v, k)
           l == Drop(t, k)
           r == SubSeq(u, 0 + 1, p)
<1>1. Len(v) \in Nat /\ k \in 0..Len(v) /\ k + p \in Nat /\ 0 \in Nat /\ 0 <= k + p
  OBVIOUS
<1>2. /\ t \in Seq(S) /\ Len(t) = k + p - 0
      /\ \A m \in 1..(k + p - 0) : t[m] = v[0 + m]
  BY <1>1, Slice
<1>3. /\ u \in Seq(S) /\ Len(u) = Len(v) - k
      /\ \A m \in 1..(Len(v) - k) : u[m] = v[k + m]
  BY <1>1, Dropped
<1> HIDE DEF t, u
<1>4. /\ l \in Seq(S) /\ Len(l) = Len(t) - k
      /\ \A m \in 1..(Len(t) - k) : l[m] = t[k + m]
  <2>1. t \in Seq(S) /\ k \in 0..Len(t)
    BY <1>1, <1>2
  <2> QED
    BY <2>1, Dropped
<1>5. /\ r \in Seq(S) /\ Len(r) = p - 0
      /\ \A m \in 1..(p - 0) : r[m] = u[0 + m]
  <2>1. u \in Seq(S) /\ p \in Nat /\ p <= Len(u) /\ 0 <= p /\ 0 \in Nat
    BY <1>1, <1>3
  <2> QED
    BY <2>1, Slice
<1> HIDE DEF l, r
<1>6. Len(l) = Len(r) /\ Len(l) = p
  BY <1>1, <1>2, <1>4, <1>5
<1>7. ASSUME NEW m \in 1..Len(l) PROVE l[m] = r[m]
  <2>1. k + m \in 1..(k + p - 0) /\ 0 + (k + m) = k + m /\ 0 + m = m /\ m \in 1..p
    BY <1>6
  <2>2. l[m] = v[k + m]
    BY <1>2, <1>4, <2>1
  <2>3. r[m] = u[m] /\ m \in 1..(Len(v) - k)
    BY <1>1, <1>5, <2>1
  <2> QED
    BY <1>3, <2>2, <2>3
<1>8. l = r
  BY <1>4, <1>5, <1>6, <1>7, SeqEqual
<1> QED
  BY <1>8 DEF l, r, t, u

\* Elements put in or taken out behind the first k are put in or taken out of
\* what is left.
LEMMA DropWith ==
    ASSUME NEW S, NEW v \in Seq(S), NEW w \in Seq(S), NEW k \in Nat, NEW p \in Nat,
           k + p <= Len(v)
    PROVE  /\ Drop(With(v, k + p, w), k) = With(Drop(v, k), p, w)
           /\ With(v, k + p, w) \in Seq(S) /\ Len(With(v, k + p, w)) = Len(v) + Len(w)
<1> DEFINE a == SubSeq(v, 1, k + p)
           b == Drop(v, k + p)
           u == Drop(v, k)
           aw == a \o w
<1>1. Len(v) \in Nat /\ Len(w) \in Nat /\ k + p \in Nat /\ k + p \in 0..Len(v) /\ k \in 0..Len(v)
  OBVIOUS
<1>2. a \in Seq(S) /\ Len(a) = k + p
  <2>1. 0 \in Nat /\ 0 <= k + p /\ 0 + 1 = 1 /\ (k + p) - 0 = k + p
    BY <1>1
  <2>2. SubSeq(v, 0 + 1, k + p) \in Seq(S) /\ Len(SubSeq(v, 0 + 1, k + p)) = (k + p) - 0
    BY <1>1, <2>1, Slice
  <2> QED
    BY <2>1, <2>2
<1>3. b \in Seq(S) /\ Len(b) = Len(v) - (k + p) /\ u \in Seq(S) /\ Len(u) = Len(v) - k
  BY <1>1, Dropped
<1>4. Drop(a, k) = SubSeq(u, 1, p)
  BY DropTake
<1>5. b = Drop(u, p)
  BY DropMore
<1>6. With(v, k + p, w) = aw \o b
  BY DEF With, Drop
<1>7. With(u, p, w) = (SubSeq(u, 1, p) \o w) \o Drop(u, p)
  BY DEF With, Drop
<1> HIDE DEF a, b, u
<1>8. aw \in Seq(S) /\ Len(aw) = k + p + Len(w) /\ Drop(aw, k) = Drop(a, k) \o w
  <2>1. k \in 0..Len(a)
    BY <1>2
  <2>2. aw \in Seq(S) /\ Len(aw) = Len(a) + Len(w)
    BY <1>2, Cat
  <2>3. Drop(aw, k) = Drop(a, k) \o w
    BY <1>2, <2>1, DropCat
  <2> QED
    BY <1>2, <2>2, <2>3
<1> HIDE DEF aw
<1>9. Drop(aw \o b, k) = Drop(aw, k) \o b
  <2>1. k \in 0..Len(aw)
    BY <1>1, <1>8
  <2> QED
    BY <1>3, <1>8, <2>1, DropCat
<1>10. aw \o b \in Seq(S) /\ Len(aw \o b) = Len(aw) + Len(b)
  BY <1>3, <1>8, Cat
<1>11. Len(aw) + Len(b) = Len(v) + Len(w)
  BY <1>1, <1>3, <1>8
<1>12. Drop(With(v, k + p, w), k) = With(u, p, w)
  BY <1>4, <1>5, <1>6, <1>7, <1>8, <1>9
<1> QED
  BY <1>6, <1>10, <1>11, <1>12 DEF u

\* What is taken out of a sequence at k + p is taken out of what is left at p.
LEMMA DropWithout ==
    ASSUME NEW S, NEW v \in Seq(S), NEW k \in Nat, NEW p \in Nat, NEW q \in Nat,
           p <= q, k + q <= Len(v)
    PROVE  /\ Drop(Without(v, k + p, k + q), k) = Without(Drop(v, k), p, q)
           /\ Without(v, k + p, k + q) \in Seq(S) /\ Len(Without(v, k + p, k + q)) >= k
<1> DEFINE a == SubSeq(v, 1, k + p)
           b == Drop(v, k + q)
           u == Drop(v, k)
<1>1. Len(v) \in Nat /\ k + p \in Nat /\ k + p <= Len(v) /\ k + q \in 0..Len(v) /\ k \in 0..Len(v)
  OBVIOUS
<1>2. a \in Seq(S) /\ Len(a) = k + p
  <2>1. 0 \in Nat /\ 0 <= k + p /\ 0 + 1 = 1 /\ (k + p) - 0 = k + p
    BY <1>1
  <2>2. SubSeq(v, 0 + 1, k + p) \in Seq(S) /\ Len(SubSeq(v, 0 + 1, k + p)) = (k + p) - 0
    BY <1>1, <2>1, Slice
  <2> QED
    BY <2>1, <2>2
<1>3. b \in Seq(S) /\ Len(b) \in Nat
  BY <1>1, Dropped
<1>4. Drop(a, k) = SubSeq(u, 1, p)
  BY <1>1, DropTake
<1>5. b = Drop(u, q)
  BY DropMore
<1>6. Without(v, k + p, k + q) = a \o b
  BY DEF Without, Drop
<1>7. Without(u, p, q) = SubSeq(u, 1, p) \o Drop(u, q)
  BY DEF Without, Drop
<1> HIDE DEF a, b, u
<1>8. Drop(a \o b, k) = Drop(a, k) \o b
  <2>1. k \in 0..Len(a)
    BY <1>2
  <2> QED
    BY <1>2, <1>3, <2>1, DropCat
<1>9. a \o b \in Seq(S) /\ Len(a \o b) = Len(a) + Len(b)
  BY <1>2, <1>3, Cat
<1>10. Len(a) + Len(b) >= k
  BY <1>2, <1>3
<1> QED
  BY <1>4, <1>5, <1>6, <1>7, <1>8, <1>9, <1>10 DEF u

\* A sequence given by its elements.
LEMMA MadeOf ==
    ASSUME NEW S, NEW n \in Nat, NEW f, f = [i \in 1..n |-> f[i]], \A i \in 1..n : f[i] \in S
    PROVE  f \in Seq(S) /\ Len(f) = n
<1>1. f \in [1..n -> S]
  OBVIOUS
<1> QED
  BY <1>1

\* Elements written over those just in front of what is left.
Over(v, i, w) == [j \in 1..Len(v) |-> IF j - i \in 1..Len(w) THEN w[j - i] ELSE v[j]]

\* Written over the last elements that were dropped: they come in front of what is left.
LEMMA DropOver ==
    ASSUME NEW S, NEW v \in Seq(S), NEW w \in Seq(S), NEW k \in 0..Len(v), Len(w) <= k
    PROVE  /\ Drop(Over(v, k - Len(w), w), k - Len(w)) = w \o Drop(v, k)
           /\ Over(v, k - Len(w), w) \in Seq(S) /\ Len(Over(v, k - Len(w), w)) = Len(v)
<1> DEFINE n == Len(w)
           i == k - n
           f == Over(v, i, w)
           u == Drop(v, k)
           l == Drop(f, i)
           r == w \o u
<1>1. Len(v) \in Nat /\ n \in Nat /\ k \in Nat /\ k <= Len(v) /\ i \in Nat /\ i + n = k
  OBVIOUS
<1>2. \A j \in 1..Len(v) : f[j] = IF j - i \in 1..n THEN w[j - i] ELSE v[j]
  BY DEF Over
<1>3. f = [j \in 1..Len(v) |-> f[j]]
  BY DEF Over
<1>4. /\ u \in Seq(S) /\ Len(u) = Len(v) - k
      /\ \A m \in 1..(Len(v) - k) : u[m] = v[k + m]
  BY Dropped
<1>w. \A m \in 1..n : w[m] \in S
  BY ElementOfSeq
<1>v. \A m \in 1..Len(v) : v[m] \in S
  BY ElementOfSeq
<1>z. n = Len(w)
  OBVIOUS
<1> HIDE DEF f, u, i, n
<1>5. \A j \in 1..Len(v) : f[j] \in S
  BY <1>2, <1>w, <1>v
<1>6. f \in Seq(S) /\ Len(f) = Len(v)
  BY <1>1, <1>3, <1>5, MadeOf
<1>7. /\ l \in Seq(S) /\ Len(l) = Len(f) - i
      /\ \A m \in 1..(Len(f) - i) : l[m] = f[i + m]
  <2>1. i \in 0..Len(f)
    BY <1>1, <1>6
  <2> QED
    BY <1>6, <2>1, Dropped
<1>8. /\ r \in Seq(S) /\ Len(r) = n + Len(u)
      /\ \A m \in 1..n : r[m] = w[m]
      /\ \A m \in 1..Len(u) : r[n + m] = u[m]
  <2>1. u \in Seq(S)
    BY <1>4
  <2> QED
    BY <2>1, <1>z, Cat
<1> HIDE DEF l, r
<1>9. Len(l) = Len(r)
  <2>1. Len(l) = Len(v) - i /\ Len(r) = n + (Len(v) - k)
    BY <1>4, <1>6, <1>7, <1>8
  <2> QED
    BY <1>1, <2>1
<1>10. ASSUME NEW m \in 1..Len(l) PROVE l[m] = r[m]
  <2>0. l[m] = f[i + m] /\ i + m \in 1..Len(v) /\ (i + m) - i = m /\ m \in Nat \ {0}
    BY <1>1, <1>6, <1>7
  <2>1. CASE m <= n
    <3>1. m \in 1..n
      BY <1>1, <2>0, <2>1
    <3>2. f[i + m] = w[m]
      BY <1>2, <2>0, <3>1
    <3> QED
      BY <1>8, <2>0, <3>1, <3>2
  <2>2. CASE m > n
    <3>1. m - n \in 1..Len(u) /\ n + (m - n) = m /\ k + (m - n) = i + m /\ m \notin 1..n
      BY <1>1, <1>4, <1>6, <1>7, <2>0, <2>2
    <3>2. f[i + m] = v[i + m]
      BY <1>2, <2>0, <3>1
    <3>3. r[n + (m - n)] = u[m - n] /\ u[m - n] = v[k + (m - n)]
      BY <1>4, <1>8, <3>1
    <3> QED
      BY <2>0, <3>1, <3>2, <3>3
  <2> QED
    BY <1>1, <2>0, <2>1, <2>2
<1>11. l = r
  BY <1>7, <1>8, <1>9, <1>10, SeqEqual
<1> QED
  BY <1>6, <1>11 DEF f, u, i, n, l, r

\* A sequence cut or filled up to a length.
Sized(v, n) == [i \in 1..n |-> IF i <= Len(v) THEN v[i] ELSE 0]

\* A sequence cut, or filled up with zeros, to n + k elements: so is what is left, to n.
LEMMA DropSized ==
    ASSUME NEW S, 0 \in S, NEW v \in Seq(S), NEW k \in 0..Len(v), NEW n \in Nat
    PROVE  /\ Drop(Sized(v, n + k), k) = Sized(Drop(v, k), n)
           /\ Sized(v, n + k) \in Seq(S) /\ Len(Sized(v, n + k)) = n + k
<1> DEFINE f == Sized(v, n + k)
           u == Drop(v, k)
           l == Drop(f, k)
           r == Sized(u, n)
<1>1. Len(v) \in Nat /\ k \in Nat /\ k <= Len(v) /\ n + k \in Nat
  OBVIOUS
<1>2. /\ f = [i \in 1..(n + k) |-> f[i]]
      /\ \A i \in 1..(n + k) : f[i] = IF i <= Len(v) THEN v[i] ELSE 0
  BY DEF Sized
<1>3. r = [i \in 1..n |-> r[i]] /\ \A i \in 1..n : r[i] = IF i <= Len(u) THEN u[i] ELSE 0
  BY DEF Sized
<1>4. /\ u \in Seq(S) /\ Len(u) = Len(v) - k
      /\ \A m \in 1..(Len(v) - k) : u[m] = v[k + m]
  BY Dropped
<1>v. \A m \in 1..Len(v) : v[m] \in S
  BY ElementOfSeq
<1>u. \A m \in 1..Len(u) : u[m] \in S
  BY <1>4, ElementOfSeq
<1> HIDE DEF f, u, r
<1>5. \A i \in 1..(n + k) : f[i] \in S
  BY <1>1, <1>2, <1>v
<1>6. f \in Seq(S) /\ Len(f) = n + k
  BY <1>1, <1>2, <1>5, MadeOf
<1>7. \A i \in 1..n : r[i] \in S
  BY <1>1, <1>3, <1>4, <1>u
<1>8. r \in Seq(S) /\ Len(r) = n
  BY <1>3, <1>7, MadeOf
<1>9. /\ l \in Seq(S) /\ Len(l) = Len(f) - k
      /\ \A m \in 1..(Len(f) - k) : l[m] = f[k + m]
  <2>1. k \in 0..Len(f)
    BY <1>1, <1>6
  <2> QED
    BY <1>6, <2>1, Dropped
<1> HIDE DEF l
<1>10. Len(l) = Len(r)
  BY <1>1, <1>6, <1>8, <1>9
<1>11. ASSUME NEW m \in 1..Len(l) PROVE l[m] = r[m]
  <2>0. m \in Nat /\ m \in 1..n
    BY <1>1, <1>6, <1>9
  <2>1. l[m] = f[k + m] /\ k + m \in 1..(n + k)
    BY <1>1, <1>6, <1>9, <2>0
  <2>2. (k + m <= Len(v) <=> m <= Len(u)) /\ (m <= Len(u) => m \in 1..(Len(v) - k))
    BY <1>1, <1>4, <2>0
  <2> QED
    BY <1>2, <1>3, <1>4, <2>0, <2>1, <2>2
<1>12. l = r
  BY <1>8, <1>9, <1>10, <1>11, SeqEqual
<1> QED
  BY <1>6, <1>12 DEF f, u, l, r

-----------------------------------------------------------------------------
(* The invariant *)

Str(v, k) == [vch |-> v, nReadPos |-> k]

\* A stream: the reading position is within the bytes.
StreamOK(s) ==
    /\ s = Str(s.vch, s.nReadPos)
    /\ s.vch \in Seq(StreamByte) /\ s.nReadPos \in Nat
    /\ s.nReadPos <= Len(s.vch) /\ Len(s.vch) <= MaxLen

\* After a read the bytes it handed out are just in front of the position, or
\* the stream was read to its end and cleared.
ReadBehind(s, got) ==
    /\ got \in Seq(StreamByte)
    /\ \/ s.nReadPos = 0 /\ s.vch = <<>>
       \/ /\ Len(got) <= s.nReadPos /\ got = SubSeq(s.vch, s.nReadPos - Len(got) + 1, s.nReadPos)
          /\ got # <<>> => s.nReadPos < Len(s.vch)

StreamInv ==
    /\ ds = [x \in Stream |-> ds[x]] /\ \A x \in Stream : StreamOK(ds[x])
    /\ scall.by = "read" => scall.on \in Stream /\ ReadBehind(ds[scall.on], scall.got)

\* The two calls that take a vector from its first byte.
StaleOn(by, x, s) ==
    \/ /\ by = "<<" /\ ds[Peer(x)].nReadPos > 0
       /\ Unread(s) = (Unread(ds[x]) \o SubSeq(ds[Peer(x)].vch, 1, ds[Peer(x)].nReadPos))
                      \o Unread(ds[Peer(x)])
    \/ /\ by = "Xor" /\ ds[x].nReadPos > 0 /\ Len(Unread(s)) = Len(Unread(ds[x]))
       /\ \A i \in 1..Len(Unread(ds[x])) :
            i + ds[x].nReadPos > Len(Unread(ds[x])) => Unread(s)[i] = Unread(ds[x])[i]

\* What every call does: the unread bytes of its stream become what the call on
\* a plain vector makes of them (Maps), and what it hands out or puts back is
\* right (Hands, Rewinds).
Maps(x, s) ==
    /\ ds' = [ds EXCEPT ![x] = s] /\ StreamOK(s) /\ scall'.on = x
    /\ \/ Unread(s) = Vectors!StreamEffect(scall', Unread(ds[x]), Unread(ds[Peer(x)]))
       \/ StaleOn(scall'.by, x, s)

Rewinds(x, s) ==
    scall.by = "read" /\ scall'.by = "Rewind" /\ scall.on = x /\ scall'.q <= Len(scall.got) =>
      /\ scall'.ok <=> scall'.q = 0 \/ Unread(ds[x]) # <<>>
      /\ scall'.ok => Unread(s) =
           SubSeq(scall.got, Len(scall.got) - scall'.q + 1, Len(scall.got)) \o Unread(ds[x])

Hands(x, s) ==
    /\ scall'.by \in {"read", "ignore", "GetAndClear"} => scall'.got \o Unread(s) = Unread(ds[x])
    /\ ~scall'.ok => s = ds[x]
    /\ Rewinds(x, s)
    /\ scall'.by = "read" => ReadBehind(s, scall'.got)

Step(x) == \E s : Maps(x, s) /\ Hands(x, s)

\* The assumptions.
LEMMA StreamSizes ==
    /\ 0 \in StreamByte /\ MaxLen \in Nat /\ MaxArg \in Nat /\ UInt \in Nat
    /\ MaxLen + MaxArg < UInt /\ \A a, b \in StreamByte : xor(a, b) \in StreamByte
  BY DataStreamAssumption

\* Below 2^32 nothing wraps around.
LEMMA NoWrap ==
    ASSUME NEW a \in Nat, NEW B \in Nat, a < B
    PROVE  a % B = a
  OBVIOUS

\* A stream, and the streams made of it.
LEMMA Parts ==
    ASSUME NEW s, StreamOK(s)
    PROVE  /\ s.vch \in Seq(StreamByte) /\ s.nReadPos \in Nat /\ Len(s.vch) \in Nat
           /\ s.nReadPos \in 0..Len(s.vch) /\ Len(s.vch) <= MaxLen
           /\ Unread(s) = Drop(s.vch, s.nReadPos)
           /\ Unread(s) \in Seq(StreamByte) /\ Len(Unread(s)) = Len(s.vch) - s.nReadPos
           /\ \A w : [s EXCEPT !.vch = w] = Str(w, s.nReadPos)
           /\ \A n : [s EXCEPT !.nReadPos = n] = Str(s.vch, n)
<1>1. /\ s.vch \in Seq(StreamByte) /\ s.nReadPos \in Nat /\ Len(s.vch) \in Nat
      /\ s.nReadPos \in 0..Len(s.vch) /\ Len(s.vch) <= MaxLen
  BY DEF StreamOK
<1>2. Unread(s) = Drop(s.vch, s.nReadPos)
  BY DEF Unread, Drop
<1>3. Unread(s) \in Seq(StreamByte) /\ Len(Unread(s)) = Len(s.vch) - s.nReadPos
  BY <1>1, <1>2, Dropped
<1>4. PICK v, k : s = Str(v, k)
  BY DEF StreamOK
<1>5. /\ \A w : [s EXCEPT !.vch = w] = Str(w, s.nReadPos)
      /\ \A n : [s EXCEPT !.nReadPos = n] = Str(s.vch, n)
  BY <1>4 DEF Str
<1> QED
  BY <1>1, <1>2, <1>3, <1>5

\* A sequence no longer than MaxLen and a position in it are a stream.
LEMMA Made ==
    ASSUME NEW v \in Seq(StreamByte), NEW k \in Nat, k <= Len(v), Len(v) <= MaxLen
    PROVE  /\ StreamOK(Str(v, k)) /\ Unread(Str(v, k)) = Drop(v, k)
           /\ Str(v, k).vch = v /\ Str(v, k).nReadPos = k
  BY DEF StreamOK, Str, Unread, Drop

\* The record of a call.
LEMMA Called ==
    ASSUME NEW by, NEW x, NEW s, NEW op, NEW p, NEW q, NEW vals, NEW got, NEW ok,
           Did(by, x, s, op, p, q, vals, got, ok)
    PROVE  /\ ds' = [ds EXCEPT ![x] = s] /\ Len(s.vch) <= MaxLen
           /\ scall'.by = by /\ scall'.on = x /\ scall'.op = op /\ scall'.p = p
           /\ scall'.q = q /\ scall'.vals = vals /\ scall'.got = got /\ scall'.ok = ok
  BY DEF Did

\* The arguments of a call are sequences of bytes.
LEMMA ArgsAre ==
    ASSUME NEW w \in Args
    PROVE  w \in Seq(StreamByte) /\ Len(w) \in Nat /\ Len(w) <= MaxArg
<1>1. PICK n \in 0..MaxArg : w \in [1..n -> StreamByte]
  BY DEF Args
<1>2. MaxArg \in Nat
  BY StreamSizes
<1> QED
  BY <1>1, <1>2

\* The other stream is a stream.
LEMMA Streams ==
    ASSUME NEW x \in Stream
    PROVE  Peer(x) \in Stream /\ Peer(x) # x /\ Stream = {"a", "b"}
           /\ Vectors!Other(x) = Peer(x)
  BY SMTT(60) DEF Stream, Peer, Vectors!Other

\* The effects of the calls on a vector that the streams make.
LEMMA Effects ==
    ASSUME NEW c, NEW u, NEW t
    PROVE  /\ c.op = "insert" => Vectors!StreamEffect(c, u, t) = With(u, c.p, c.vals)
           /\ c.op = "erase" => Vectors!StreamEffect(c, u, t) = Without(u, c.p, c.q)
           /\ c.op = "resize" => Vectors!StreamEffect(c, u, t) = Sized(u, c.p)
           /\ c.op = "none" => Vectors!StreamEffect(c, u, t) = u
           /\ c.op = "clear" => Vectors!StreamEffect(c, u, t) = <<>>
           /\ c.op = "construct" => Vectors!StreamEffect(c, u, t) = c.vals
           /\ c.op = "append" => Vectors!StreamEffect(c, u, t) = u \o t
           /\ c.op = "xor" => Vectors!StreamEffect(c, u, t) = Vectors!Masked(u, c.vals)
  BY DEF Vectors!StreamEffect, Vectors!Effect, With, Without, Sized

\* Insertion at the ends, of nothing, and erasure at the front.
LEMMA SpliceEnds ==
    ASSUME NEW S, NEW u \in Seq(S), NEW w \in Seq(S)
    PROVE  /\ With(u, Len(u), w) = u \o w /\ With(u, 0, w) = w \o u
           /\ \A p \in 0..Len(u) : With(u, p, <<>>) = u
           /\ \A q \in 0..Len(u) : Without(u, 0, q) = Drop(u, q)
<1>1. Len(u) \in Nat /\ u \o w \in Seq(S)
  BY Cat
<1>2. Drop(u, Len(u)) = <<>> /\ Drop(u, 0) = u /\ SubSeq(u, 1, 0) = <<>> /\ SubSeq(u, 1, Len(u)) = u
  BY DropEnds
<1>3. \A t \in Seq(S) : t \o <<>> = t /\ <<>> \o t = t
  BY ConcatEmptySeq
<1>4. With(u, Len(u), w) = u \o w
  <2>1. With(u, Len(u), w) = (SubSeq(u, 1, Len(u)) \o w) \o Drop(u, Len(u))
    BY DEF With, Drop
  <2>2. With(u, Len(u), w) = (u \o w) \o <<>>
    BY <1>2, <2>1
  <2> QED
    BY <1>1, <1>3, <2>2
<1>5. With(u, 0, w) = w \o u
  <2>1. With(u, 0, w) = (SubSeq(u, 1, 0) \o w) \o Drop(u, 0)
    BY DEF With, Drop
  <2> QED
    BY <1>2, <1>3, <2>1
<1>6. ASSUME NEW p \in 0..Len(u) PROVE With(u, p, <<>>) = u
  <2>1. With(u, p, <<>>) = (SubSeq(u, 1, p) \o <<>>) \o Drop(u, p)
    BY DEF With, Drop
  <2>2. SubSeq(u, 1, p) \in Seq(S)
    <3>1. 0 \in Nat /\ p \in Nat /\ 0 <= p /\ p <= Len(u) /\ 0 + 1 = 1
      BY <1>1
    <3>2. SubSeq(u, 0 + 1, p) \in Seq(S)
      BY <3>1, Slice
    <3> QED
      BY <3>1, <3>2
  <2>3. p \in 0..p /\ p - p = 0 /\ 0 + 1 = 1
    BY <1>1
  <2>4. Drop(u, p - p) = SubSeq(u, p - p + 1, p) \o Drop(u, p)
    BY <2>3, DropLess
  <2>5. Drop(u, 0) = SubSeq(u, 1, p) \o Drop(u, p)
    BY <2>3, <2>4
  <2> QED
    BY <1>2, <1>3, <2>1, <2>2, <2>5
<1>7. ASSUME NEW q \in 0..Len(u) PROVE Without(u, 0, q) = Drop(u, q)
  <2>1. Without(u, 0, q) = SubSeq(u, 1, 0) \o Drop(u, q)
    BY DEF Without, Drop
  <2>2. Drop(u, q) \in Seq(S)
    BY Dropped
  <2> QED
    BY <1>2, <1>3, <2>1, <2>2
<1> QED
  BY <1>4, <1>5, <1>6, <1>7

-----------------------------------------------------------------------------
(* The calls *)

\* A call that hands out nothing has nothing to get wrong about it.
LEMMA HandsNothing ==
    ASSUME NEW x, NEW s, scall'.ok,
           scall'.by \notin {"read", "ignore", "GetAndClear", "Rewind"}
    PROVE  Hands(x, s)
  BY DEF Hands, Rewinds

\* The stream a call is made on, under names of its own.
On(x, v, k) ==
    /\ ds[x] = Str(v, k) /\ k <= Len(v) /\ Len(v) <= MaxLen /\ Len(v) \in Nat
    /\ ds[x].vch = v /\ ds[x].nReadPos = k
    /\ Unread(ds[x]) = Drop(v, k) /\ Drop(v, k) \in Seq(StreamByte)
    /\ Len(Drop(v, k)) = Len(v) - k /\ Size(x) = Len(v) - k
    /\ \A w : [ds[x] EXCEPT !.vch = w] = Str(w, k)
    /\ \A n : [ds[x] EXCEPT !.nReadPos = n] = Str(v, n)

\* Every stream has a sequence and a position.
LEMMA OnStream ==
    ASSUME NEW x \in Stream, StreamOK(ds[x])
    PROVE  \E v \in Seq(StreamByte), k \in Nat : On(x, v, k)
<1>1. StreamOK(ds[x])
  OBVIOUS
<1>2. /\ ds[x].vch \in Seq(StreamByte) /\ ds[x].nReadPos \in Nat /\ Len(ds[x].vch) \in Nat
      /\ ds[x].nReadPos \in 0..Len(ds[x].vch) /\ Len(ds[x].vch) <= MaxLen
      /\ Unread(ds[x]) = Drop(ds[x].vch, ds[x].nReadPos)
      /\ Unread(ds[x]) \in Seq(StreamByte) /\ Len(Unread(ds[x])) = Len(ds[x].vch) - ds[x].nReadPos
      /\ \A w : [ds[x] EXCEPT !.vch = w] = Str(w, ds[x].nReadPos)
      /\ \A n : [ds[x] EXCEPT !.nReadPos = n] = Str(ds[x].vch, n)
  BY <1>1, Parts
<1>3. ds[x] = Str(ds[x].vch, ds[x].nReadPos) /\ ds[x].nReadPos <= Len(ds[x].vch)
  BY <1>1 DEF StreamOK
<1> QED
  BY <1>2, <1>3 DEF Size, On

\* What a call has to show: the stream it leaves, and the vector's effect.
LEMMA Leaves ==
    ASSUME NEW x \in Stream, NEW v \in Seq(StreamByte), NEW k \in Nat, k <= Len(v),
           NEW by, NEW op, NEW p, NEW q, NEW vals, NEW got, NEW ok,
           Did(by, x, Str(v, k), op, p, q, vals, got, ok),
           \A c : c.op = op /\ c.p = p /\ c.q = q /\ c.vals = vals =>
             Drop(v, k) = Vectors!StreamEffect(c, Unread(ds[x]), Unread(ds[Peer(x)]))
    PROVE  /\ Maps(x, Str(v, k)) /\ Unread(Str(v, k)) = Drop(v, k) /\ Len(v) <= MaxLen
           /\ scall'.by = by /\ scall'.q = q /\ scall'.got = got /\ scall'.ok = ok
<1> DEFINE s == Str(v, k)
<1>1. /\ ds' = [ds EXCEPT ![x] = s] /\ Len(s.vch) <= MaxLen
      /\ scall'.by = by /\ scall'.on = x /\ scall'.op = op /\ scall'.p = p
      /\ scall'.q = q /\ scall'.vals = vals /\ scall'.got = got /\ scall'.ok = ok
  BY Called
<1>2. Len(v) <= MaxLen
  BY <1>1 DEF Str
<1>3. StreamOK(s) /\ Unread(s) = Drop(v, k)
  BY <1>2, Made
<1> HIDE DEF s
<1>4. Drop(v, k) = Vectors!StreamEffect(scall', Unread(ds[x]), Unread(ds[Peer(x)]))
  BY <1>1
<1>5. Maps(x, s)
  BY <1>1, <1>3, <1>4 DEF Maps
<1> QED
  BY <1>1, <1>2, <1>3, <1>5 DEF s

\* The same where the bytes in front of the position show.
LEMMA LeavesStale ==
    ASSUME NEW x \in Stream, NEW v \in Seq(StreamByte), NEW k \in Nat, k <= Len(v),
           NEW by, NEW op, NEW p, NEW q, NEW vals, NEW got, NEW ok,
           Did(by, x, Str(v, k), op, p, q, vals, got, ok), StaleOn(by, x, Str(v, k))
    PROVE  Maps(x, Str(v, k)) /\ scall'.by = by /\ scall'.ok = ok
<1> DEFINE s == Str(v, k)
<1>1. /\ ds' = [ds EXCEPT ![x] = s] /\ Len(s.vch) <= MaxLen
      /\ scall'.by = by /\ scall'.on = x /\ scall'.ok = ok
  BY Called
<1>2. Len(v) <= MaxLen
  BY <1>1 DEF Str
<1>3. StreamOK(s) /\ StaleOn(scall'.by, x, s)
  BY <1>1, <1>2, Made
<1> HIDE DEF s
<1>4. Maps(x, s)
  BY <1>1, <1>3 DEF Maps
<1> QED
  BY <1>1, <1>4 DEF s

\* The bytes given to write go behind the last one.
LEMMA Appends ==
    ASSUME NEW x \in Stream, StreamOK(ds[x]), NEW w \in Seq(StreamByte), NEW by, NEW got, NEW ok,
           Did(by, x, [ds[x] EXCEPT !.vch = @ \o w], "insert", Size(x), 0, w, got, ok)
    PROVE  \E s : /\ Maps(x, s)
                  /\ scall'.by = by /\ scall'.got = got /\ scall'.ok = ok
<1>1. PICK v \in Seq(StreamByte), k \in Nat : On(x, v, k)
  BY OnStream
<1> DEFINE vw == v \o w
           u == Drop(v, k)
<1>2. Did(by, x, Str(vw, k), "insert", Len(u), 0, w, got, ok)
  BY <1>1 DEF On
<1>3. vw \in Seq(StreamByte) /\ Len(vw) = Len(v) + Len(w)
  BY Cat
<1>4. k <= Len(vw) /\ k \in 0..Len(v)
  BY <1>1, <1>3 DEF On
<1>5. Drop(vw, k) = u \o w
  BY <1>4, DropCat
<1>u. u \in Seq(StreamByte) /\ Unread(ds[x]) = u
  BY <1>1 DEF On
<1> HIDE DEF vw, u
<1>6. With(u, Len(u), w) = u \o w
  BY <1>u, SpliceEnds, SMTT(60)
<1>7. \A c : c.op = "insert" /\ c.p = Len(u) /\ c.q = 0 /\ c.vals = w =>
        Drop(vw, k) = Vectors!StreamEffect(c, Unread(ds[x]), Unread(ds[Peer(x)]))
  BY <1>5, <1>6, <1>u, Effects
<1>8. /\ Maps(x, Str(vw, k)) /\ Unread(Str(vw, k)) = Drop(vw, k)
      /\ scall'.by = by /\ scall'.got = got /\ scall'.ok = ok
  BY <1>2, <1>3, <1>4, <1>7, Leaves, SMTT(60)
<1> QED
  BY <1>8

\* A stream put behind another one.
LEMMA Concatenates ==
    ASSUME NEW x \in Stream, StreamOK(ds[x]), NEW w \in Seq(StreamByte), NEW by \in {"+=", "<<"},
           Did(by, x, [ds[x] EXCEPT !.vch = @ \o w], "append", 0, 0, <<>>, <<>>, TRUE),
           \/ w = Unread(ds[Peer(x)])
           \/ /\ by = "<<" /\ ds[Peer(x)].nReadPos > 0
              /\ Unread(ds[x]) \o w =
                   (Unread(ds[x]) \o SubSeq(ds[Peer(x)].vch, 1, ds[Peer(x)].nReadPos))
                   \o Unread(ds[Peer(x)])
    PROVE  Step(x)
<1>1. PICK v \in Seq(StreamByte), k \in Nat : On(x, v, k)
  BY OnStream, SMTT(60)
<1> DEFINE yes == TRUE
           vw == v \o w
           u == Drop(v, k)
           s == Str(vw, k)
<1>2. Did(by, x, Str(vw, k), "append", 0, 0, <<>>, <<>>, yes)
  BY <1>1 DEF On
<1>3. vw \in Seq(StreamByte) /\ Len(vw) = Len(v) + Len(w)
  BY Cat
<1>4. k <= Len(vw) /\ k \in 0..Len(v)
  BY <1>1, <1>3, SMTT(60) DEF On
<1>5. Drop(vw, k) = u \o w
  BY <1>4, DropCat
<1>u. u \in Seq(StreamByte) /\ Unread(ds[x]) = u
  BY <1>1 DEF On
<1> HIDE DEF vw, u, yes
<1>6. Maps(x, Str(vw, k)) /\ scall'.by = by /\ scall'.ok = yes
  <2>1. CASE w = Unread(ds[Peer(x)])
    <3>1. \A c : c.op = "append" /\ c.p = 0 /\ c.q = 0 /\ c.vals = <<>> =>
            Drop(vw, k) = Vectors!StreamEffect(c, Unread(ds[x]), Unread(ds[Peer(x)]))
      BY <1>5, <1>u, <2>1, Effects, SMTT(60)
    <3> QED
      BY <1>2, <1>3, <1>4, <3>1, Leaves, SMTT(60)
  <2>2. CASE w # Unread(ds[Peer(x)])
    <3>1. Unread(Str(vw, k)) = Drop(vw, k)
      BY DEF Unread, Str, Drop
    <3>2. StaleOn(by, x, Str(vw, k))
      BY <1>5, <1>u, <2>2, <3>1, Zenon DEF StaleOn
    <3> QED
      BY <1>2, <1>3, <1>4, <3>2, LeavesStale, SMTT(60)
  <2> QED
    BY <2>1, <2>2, SMTT(60)
<1> HIDE DEF s
<1>7. Hands(x, s)
  BY <1>6, HandsNothing DEF yes
<1> QED
  BY <1>6, <1>7 DEF Step, s

\* A call that changes nothing: a read of nothing, and one that throws or fails.
LEMMA Stays ==
    ASSUME NEW x \in Stream, StreamOK(ds[x]), NEW by \in {"read", "ignore", "Rewind"},
           NEW ok \in BOOLEAN, NEW q,
           by = "Rewind" =>
             /\ ~ok
             /\ scall.by = "read" /\ scall.on = x /\ q <= Len(scall.got) =>
                  q # 0 /\ Unread(ds[x]) = <<>>,
           Did(by, x, ds[x], "none", 0, q, <<>>, <<>>, ok)
    PROVE  Step(x)
<1>1. PICK v \in Seq(StreamByte), k \in Nat : On(x, v, k)
  BY OnStream
<1>2. Did(by, x, Str(v, k), "none", 0, q, <<>>, <<>>, ok)
  BY <1>1 DEF On
<1>3. k <= Len(v) /\ Unread(ds[x]) = Drop(v, k) /\ Drop(v, k) \in Seq(StreamByte)
      /\ Len(v) \in Nat
  BY <1>1 DEF On
<1>4. \A c : c.op = "none" /\ c.p = 0 /\ c.q = q /\ c.vals = <<>> =>
        Drop(v, k) = Vectors!StreamEffect(c, Unread(ds[x]), Unread(ds[Peer(x)]))
  BY <1>3, Effects
<1>5. /\ Maps(x, Str(v, k)) /\ Unread(Str(v, k)) = Drop(v, k)
      /\ scall'.by = by /\ scall'.q = q /\ scall'.got = <<>> /\ scall'.ok = ok
  BY <1>2, <1>3, <1>4, Leaves
<1>6. <<>> \o Drop(v, k) = Drop(v, k)
  BY <1>3, ConcatEmptySeq
<1>7. ReadBehind(Str(v, k), <<>>)
  <2>1. <<>> \in Seq(StreamByte) /\ Len(<<>>) = 0
    OBVIOUS
  <2>2. k - 0 + 1 = k + 1 /\ 0 <= k /\ k <= Len(v) /\ k - k = 0
    BY <1>3
  <2>3. SubSeq(v, k + 1, k) \in Seq(StreamByte) /\ Len(SubSeq(v, k + 1, k)) = k - k
    BY <2>2, Slice
  <2>4. SubSeq(v, k + 1, k) = <<>>
    BY <2>2, <2>3, EmptySeq
  <2>5. Str(v, k).vch = v /\ Str(v, k).nReadPos = k
    BY DEF Str
  <2> QED
    BY <2>1, <2>2, <2>4, <2>5 DEF ReadBehind
<1>8. Str(v, k) = ds[x]
  BY <1>1 DEF On
<1> DEFINE s == Str(v, k)
<1> HIDE DEF s
<1>9. Rewinds(x, s)
  BY <1>5 DEF Rewinds
<1>10. Hands(x, s)
  BY <1>3, <1>5, <1>6, <1>7, <1>8, <1>9 DEF Hands, s
<1> QED
  BY <1>5, <1>10 DEF Step, s

\* read and ignore take from the front.
LEMMA Takes ==
    ASSUME NEW x \in Stream, StreamOK(ds[x]), NEW by \in {"read", "ignore"},
           NEW n \in 0..MaxArg, nReadPosNext(ds[x], n) <= Len(ds[x].vch),
           Did(by, x, Consumed(ds[x], n), "erase", 0, n, <<>>,
               SubSeq(ds[x].vch, ds[x].nReadPos + 1, ds[x].nReadPos + n), TRUE)
    PROVE  Step(x)
<1>1. PICK v \in Seq(StreamByte), k \in Nat : On(x, v, k)
  BY OnStream
<1> DEFINE got == SubSeq(v, k + 1, k + n)
           u == Drop(v, k)
           v2 == IF k + n = Len(v) THEN <<>> ELSE v
           k2 == IF k + n = Len(v) THEN 0 ELSE k + n
           yes == TRUE
<1>2. /\ k <= Len(v) /\ Unread(ds[x]) = u /\ u \in Seq(StreamByte) /\ Len(u) = Len(v) - k
      /\ Len(v) \in Nat /\ Len(v) <= MaxLen /\ ds[x].vch = v /\ ds[x].nReadPos = k
  BY <1>1 DEF On
<1>3. nReadPosNext(ds[x], n) = k + n
  <2>1. k + n \in Nat /\ k + n < UInt /\ UInt \in Nat
    BY <1>2, StreamSizes
  <2>2. (k + n) % UInt = k + n
    BY <2>1, NoWrap
  <2> QED
    BY <1>2, <2>2 DEF nReadPosNext
<1>4. n \in Nat /\ k + n \in Nat /\ k + n <= Len(v) /\ k + n \in 0..Len(v) /\ n \in 0..(k + n)
      /\ n \in 0..Len(u) /\ (k + n) - n = k
  BY <1>2, <1>3, StreamSizes
<1>5. Consumed(ds[x], n) = Str(v2, k2)
  <2>1. \A m : [ds[x] EXCEPT !.nReadPos = m] = Str(v, m)
    BY <1>1 DEF On
  <2>2. Consumed(ds[x], n) = IF k + n = Len(v) THEN Fresh(<<>>) ELSE Str(v, k + n)
    BY <1>2, <1>3, <2>1 DEF Consumed
  <2> QED
    BY <2>2 DEF Fresh, Str
<1>6. v2 \in Seq(StreamByte) /\ k2 \in Nat /\ k2 <= Len(v2)
  BY <1>4
<1>7. Drop(v2, k2) = Drop(v, k + n)
  <2>1. Drop(v, Len(v)) = <<>>
    BY DropEnds
  <2>2. <<>> \in Seq(StreamByte)
    OBVIOUS
  <2>3. Drop(<<>>, 0) = <<>>
    BY <2>2, DropEnds
  <2> QED
    BY <2>1, <2>3
<1>8. Did(by, x, Str(v2, k2), "erase", 0, n, <<>>, got, yes)
  BY <1>2, <1>5
<1>9. got \o Drop(v, k + n) = u
  <2>1. Drop(v, (k + n) - n) = SubSeq(v, (k + n) - n + 1, k + n) \o Drop(v, k + n)
    BY <1>4, DropLess
  <2> QED
    BY <1>4, <2>1
<1>10. Without(u, 0, n) = Drop(v, k + n)
  <2>1. Drop(v, k + n) = Drop(u, n)
    BY <1>4, DropMore
  <2>2. Without(u, 0, n) = Drop(u, n)
    BY <1>2, <1>4, SpliceEnds
  <2> QED
    BY <2>1, <2>2
<1>11. got \in Seq(StreamByte) /\ Len(got) = n
  <2> DEFINE j == k + n
  <2>1. j \in Nat /\ k <= j /\ j <= Len(v) /\ got = SubSeq(v, k + 1, j)
    BY <1>4
  <2> HIDE DEF j, got
  <2>2. got \in Seq(StreamByte) /\ Len(got) = j - k
    BY <2>1, Slice
  <2> QED
    BY <1>4, <2>2 DEF j
<1>12. ReadBehind(Str(v2, k2), got)
  <2>1. Str(v2, k2).vch = v2 /\ Str(v2, k2).nReadPos = k2
    BY DEF Str
  <2>2. CASE k + n = Len(v)
    BY <1>11, <2>1, <2>2 DEF ReadBehind
  <2>3. CASE k + n # Len(v)
    <3>1. v2 = v /\ k2 = k + n
      BY <2>3
    <3>2. (k + n) - n + 1 = k + 1 /\ n <= k + n
      BY <1>4
    <3>3. got = SubSeq(v, (k + n) - Len(got) + 1, k + n) /\ Len(got) <= k + n
      BY <1>11, <3>2
    <3>4. k2 < Len(v2)
      BY <1>2, <1>4, <2>3, <3>1
    <3> HIDE DEF got
    <3> QED
      BY <1>11, <2>1, <3>1, <3>3, <3>4 DEF ReadBehind
  <2> QED
    BY <2>2, <2>3
<1> HIDE DEF got, u, v2, k2, yes
<1>13. \A c : c.op = "erase" /\ c.p = 0 /\ c.q = n /\ c.vals = <<>> =>
         Drop(v2, k2) = Vectors!StreamEffect(c, Unread(ds[x]), Unread(ds[Peer(x)]))
  BY <1>2, <1>7, <1>10, Effects
<1>14. /\ Maps(x, Str(v2, k2)) /\ Unread(Str(v2, k2)) = Drop(v2, k2)
       /\ scall'.by = by /\ scall'.got = got /\ scall'.ok = yes
  BY <1>6, <1>8, <1>13, Leaves
<1> DEFINE s == Str(v2, k2)
<1> HIDE DEF s
<1>15. Hands(x, s)
  BY <1>2, <1>7, <1>9, <1>12, <1>14 DEF Hands, Rewinds, s, yes
<1> QED
  BY <1>14, <1>15 DEF Step, s

\* The calls of the vector interface, which hand out nothing.
LEMMA PlainStep ==
    ASSUME NEW x \in Stream, NEW v \in Seq(StreamByte), NEW k \in Nat, k <= Len(v),
           NEW by, by \notin {"read", "ignore", "GetAndClear", "Rewind"},
           NEW op, NEW p, NEW q, NEW vals,
           Did(by, x, Str(v, k), op, p, q, vals, <<>>, TRUE),
           \A c : c.op = op /\ c.p = p /\ c.q = q /\ c.vals = vals =>
             Drop(v, k) = Vectors!StreamEffect(c, Unread(ds[x]), Unread(ds[Peer(x)]))
    PROVE  Step(x)
<1> DEFINE yes == TRUE
           s == Str(v, k)
<1>1. Did(by, x, Str(v, k), op, p, q, vals, <<>>, yes)
  OBVIOUS
<1> HIDE DEF yes
<1>2. Maps(x, Str(v, k)) /\ scall'.by = by /\ scall'.ok = yes
  BY <1>1, Leaves
<1> HIDE DEF s
<1>3. Hands(x, s)
  BY <1>2, HandsNothing DEF yes
<1> QED
  BY <1>2, <1>3 DEF Step, s

\* Bytes put into the vector itself.
LEMMA Inserts ==
    ASSUME NEW x \in Stream, StreamOK(ds[x]), NEW by \in {"insert", "insert_n"},
           NEW w \in Seq(StreamByte), NEW p \in 0..Size(x),
           Did(by, x, [ds[x] EXCEPT !.vch = With(@, ds[x].nReadPos + p, w)],
               "insert", p, 0, w, <<>>, TRUE)
    PROVE  Step(x)
<1>1. PICK v \in Seq(StreamByte), k \in Nat : On(x, v, k)
  BY OnStream
<1> DEFINE u == Drop(v, k)
           z == With(v, k + p, w)
<1>2. /\ k <= Len(v) /\ Unread(ds[x]) = u /\ Size(x) = Len(v) - k /\ Len(v) \in Nat
  BY <1>1 DEF On
<1>3. Did(by, x, Str(z, k), "insert", p, 0, w, <<>>, TRUE)
  BY <1>1 DEF On
<1>4. p \in Nat /\ k + p <= Len(v)
  BY <1>2
<1>5. Drop(z, k) = With(u, p, w) /\ z \in Seq(StreamByte) /\ Len(z) = Len(v) + Len(w)
  BY <1>4, DropWith
<1>6. k <= Len(z)
  BY <1>2, <1>5
<1> HIDE DEF u, z
<1>7. \A c : c.op = "insert" /\ c.p = p /\ c.q = 0 /\ c.vals = w =>
        Drop(z, k) = Vectors!StreamEffect(c, Unread(ds[x]), Unread(ds[Peer(x)]))
  BY <1>2, <1>5, Effects
<1> QED
  BY <1>3, <1>5, <1>6, <1>7, PlainStep

\* insert: into the vector, or over bytes already read.
LEMMA InsertStep ==
    ASSUME NEW x \in Stream, StreamOK(ds[x]), Insert(x)
    PROVE  Step(x)
<1>1. PICK w \in Args, p \in 0..Size(x) :
        \/ Did("insert", x, IF w = <<>> THEN ds[x] ELSE ds_insert(ds[x], p, w),
               "insert", p, 0, w, <<>>, TRUE)
        \/ Did("insert_n", x, [ds[x] EXCEPT !.vch = With(@, ds[x].nReadPos + p, w)],
               "insert", p, 0, w, <<>>, TRUE)
  BY DEF Insert
<1>2. w \in Seq(StreamByte) /\ Len(w) \in Nat
  BY ArgsAre
<1>3. PICK v \in Seq(StreamByte), k \in Nat : On(x, v, k)
  BY OnStream
<1> DEFINE u == Drop(v, k)
<1>4. /\ k <= Len(v) /\ Unread(ds[x]) = u /\ Size(x) = Len(v) - k /\ Len(v) \in Nat
      /\ u \in Seq(StreamByte) /\ Len(u) = Len(v) - k /\ ds[x] = Str(v, k)
      /\ ds[x].vch = v /\ ds[x].nReadPos = k
  BY <1>3 DEF On
<1>5. CASE Did("insert_n", x, [ds[x] EXCEPT !.vch = With(@, ds[x].nReadPos + p, w)],
               "insert", p, 0, w, <<>>, TRUE)
  BY <1>2, <1>5, Inserts
<1>6. CASE Did("insert", x, ds[x], "insert", p, 0, w, <<>>, TRUE) /\ w = <<>>
  <2>1. Did("insert", x, Str(v, k), "insert", p, 0, <<>>, <<>>, TRUE)
    BY <1>4, <1>6
  <2>2. With(u, p, <<>>) = u
    BY <1>4, <1>2, SpliceEnds
  <2> HIDE DEF u
  <2>3. \A c : c.op = "insert" /\ c.p = p /\ c.q = 0 /\ c.vals = <<>> =>
          Drop(v, k) = Vectors!StreamEffect(c, Unread(ds[x]), Unread(ds[Peer(x)]))
    <3>1. Drop(v, k) = u
      BY DEF u
    <3> QED
      BY <1>4, <2>2, <3>1, Effects
  <2> QED
    BY <1>4, <2>1, <2>3, PlainStep
<1>7. CASE Did("insert", x, ds_insert(ds[x], p, w), "insert", p, 0, w, <<>>, TRUE)
  <2>1. CASE p = 0 /\ Len(w) <= k
    <3> DEFINE i == k - Len(w)
               f == Over(v, i, w)
    <3>1. ds_insert(ds[x], p, w) = Str(f, i)
      BY <1>4, <2>1 DEF ds_insert, Str, Over
    <3>2. k \in 0..Len(v) /\ i \in Nat /\ i <= Len(v)
      BY <1>2, <1>4, <2>1
    <3>3. Drop(f, i) = w \o u /\ f \in Seq(StreamByte) /\ Len(f) = Len(v)
      BY <1>2, <2>1, <3>2, DropOver
    <3>4. With(u, 0, w) = w \o u
      BY <1>2, <1>4, SpliceEnds
    <3>5. Did("insert", x, Str(f, i), "insert", 0, 0, w, <<>>, TRUE)
      BY <1>7, <2>1, <3>1
    <3> HIDE DEF f, i, u
    <3>6. \A c : c.op = "insert" /\ c.p = 0 /\ c.q = 0 /\ c.vals = w =>
            Drop(f, i) = Vectors!StreamEffect(c, Unread(ds[x]), Unread(ds[Peer(x)]))
      BY <1>4, <3>3, <3>4, Effects
    <3> QED
      BY <3>2, <3>3, <3>5, <3>6, PlainStep
  <2>2. CASE ~(p = 0 /\ Len(w) <= k)
    <3>1. ds_insert(ds[x], p, w) = [ds[x] EXCEPT !.vch = With(@, ds[x].nReadPos + p, w)]
      BY <1>4, <2>2 DEF ds_insert
    <3> QED
      BY <1>2, <1>7, <3>1, Inserts
  <2> QED
    BY <2>1, <2>2
<1> QED
  BY <1>1, <1>5, <1>6, <1>7

\* erase: from the vector, or by moving nReadPos.
LEMMA EraseStep ==
    ASSUME NEW x \in Stream, StreamOK(ds[x]), Erase(x)
    PROVE  Step(x)
<1>0. PICK q \in 0..Size(x) : \E p \in 0..q :
        Did("erase", x, ds_erase(ds[x], p, q), "erase", p, q, <<>>, <<>>, TRUE)
  BY DEF Erase
<1>1. PICK p \in 0..q : Did("erase", x, ds_erase(ds[x], p, q), "erase", p, q, <<>>, <<>>, TRUE)
  BY <1>0
<1>2. PICK v \in Seq(StreamByte), k \in Nat : On(x, v, k)
  BY OnStream
<1> DEFINE u == Drop(v, k)
           v2 == IF p = 0 THEN IF k + q = Len(v) THEN <<>> ELSE v
                 ELSE Without(v, k + p, k + q)
           k2 == IF p = 0 THEN IF k + q = Len(v) THEN 0 ELSE k + q ELSE k
<1>3. /\ k <= Len(v) /\ Unread(ds[x]) = u /\ Size(x) = Len(v) - k /\ Len(v) \in Nat
      /\ u \in Seq(StreamByte) /\ Len(u) = Len(v) - k
      /\ ds[x].vch = v /\ ds[x].nReadPos = k
  BY <1>2 DEF On
<1>4. /\ p \in Nat /\ q \in Nat /\ p <= q /\ k + q <= Len(v) /\ q \in 0..Len(u) /\ k + q \in Nat
  BY <1>3
<1>5. ds_erase(ds[x], p, q) = Str(v2, k2)
  <2>1. /\ \A w : [ds[x] EXCEPT !.vch = w] = Str(w, k)
        /\ \A n : [ds[x] EXCEPT !.nReadPos = n] = Str(v, n)
    BY <1>2 DEF On
  <2>2. ds_erase(ds[x], p, q) =
          IF p = 0 THEN IF k + q = Len(v) THEN Fresh(<<>>) ELSE Str(v, k + q)
          ELSE Str(Without(v, k + p, k + q), k)
    BY <1>3, <2>1 DEF ds_erase
  <2> QED
    BY <2>2 DEF Fresh, Str
<1>6. /\ Drop(Without(v, k + p, k + q), k) = Without(u, p, q)
      /\ Without(v, k + p, k + q) \in Seq(StreamByte) /\ Len(Without(v, k + p, k + q)) >= k
  BY <1>4, DropWithout
<1>7. Drop(v, k + q) = Without(u, 0, q)
  <2>1. Drop(v, k + q) = Drop(u, q)
    BY <1>4, DropMore
  <2>2. Without(u, 0, q) = Drop(u, q)
    BY <1>3, <1>4, SpliceEnds
  <2> QED
    BY <2>1, <2>2
<1>8. Drop(<<>>, 0) = <<>> /\ Drop(v, Len(v)) = <<>>
  <2>1. <<>> \in Seq(StreamByte)
    OBVIOUS
  <2> QED
    BY <2>1, DropEnds
<1> HIDE DEF u
<1>9. Drop(v2, k2) = Without(u, p, q)
  BY <1>6, <1>7, <1>8
<1>10. v2 \in Seq(StreamByte) /\ k2 \in Nat /\ k2 <= Len(v2)
  <2>1. CASE p = 0
    BY <1>4, <2>1
  <2>2. CASE p # 0
    <3> DEFINE z == Without(v, k + p, k + q)
    <3>1. z \in Seq(StreamByte) /\ Len(z) >= k /\ Len(z) \in Nat
      BY <1>6
    <3> HIDE DEF z
    <3>2. v2 = z /\ k2 = k
      BY <2>2 DEF z
    <3> HIDE DEF v2, k2
    <3> QED
      BY <3>1, <3>2
  <2> QED
    BY <2>1, <2>2
<1>11. Did("erase", x, Str(v2, k2), "erase", p, q, <<>>, <<>>, TRUE)
  BY <1>1, <1>5
<1> HIDE DEF v2, k2
<1>12. \A c : c.op = "erase" /\ c.p = p /\ c.q = q /\ c.vals = <<>> =>
         Drop(v2, k2) = Vectors!StreamEffect(c, Unread(ds[x]), Unread(ds[Peer(x)]))
  BY <1>3, <1>9, Effects
<1> QED
  BY <1>10, <1>11, <1>12, PlainStep

\* resize keeps what was read in front of the new size.
LEMMA ResizeStep ==
    ASSUME NEW x \in Stream, StreamOK(ds[x]), Resize(x)
    PROVE  Step(x)
<1>1. PICK n \in 0..MaxLen : Did("resize", x, ds_resize(ds[x], n), "resize", n, 0, <<>>, <<>>, TRUE)
  BY DEF Resize
<1>2. PICK v \in Seq(StreamByte), k \in Nat : On(x, v, k)
  BY OnStream
<1> DEFINE u == Drop(v, k)
           f == Sized(v, n + k)
<1>3. /\ k <= Len(v) /\ Unread(ds[x]) = u /\ Len(v) \in Nat
      /\ ds[x].vch = v /\ ds[x].nReadPos = k
  BY <1>2 DEF On
<1>4. ds_resize(ds[x], n) = Str(f, k)
  <2>1. \A w : [ds[x] EXCEPT !.vch = w] = Str(w, k)
    BY <1>2 DEF On
  <2>2. ds_resize(ds[x], n) =
          [ds[x] EXCEPT !.vch = [i \in 1..(n + k) |-> IF i <= Len(v) THEN v[i] ELSE 0]]
    BY <1>3 DEF ds_resize
  <2> QED
    BY <2>1, <2>2 DEF Sized
<1>5. n \in Nat /\ k \in 0..Len(v) /\ 0 \in StreamByte
  BY <1>3, StreamSizes
<1>6. Drop(f, k) = Sized(u, n) /\ f \in Seq(StreamByte) /\ Len(f) = n + k
  BY <1>5, DropSized
<1>7. Did("resize", x, Str(f, k), "resize", n, 0, <<>>, <<>>, TRUE)
  BY <1>1, <1>4
<1> HIDE DEF f, u
<1>8. k <= Len(f)
  BY <1>5, <1>6
<1>9. \A c : c.op = "resize" /\ c.p = n /\ c.q = 0 /\ c.vals = <<>> =>
        Drop(f, k) = Vectors!StreamEffect(c, Unread(ds[x]), Unread(ds[Peer(x)]))
  BY <1>3, <1>6, Effects
<1> QED
  BY <1>6, <1>7, <1>8, <1>9, PlainStep

\* A stream over given bytes.
LEMMA FreshStream ==
    ASSUME NEW w \in Seq(StreamByte)
    PROVE  /\ Fresh(w) = Str(w, 0) /\ Drop(w, 0) = w /\ 0 \in Nat /\ 0 <= Len(w)
           /\ <<>> \in Seq(StreamByte) /\ Fresh(<<>>) = Str(<<>>, 0) /\ Drop(<<>>, 0) = <<>>
           /\ 0 <= Len(<<>>)
<1>1. <<>> \in Seq(StreamByte) /\ 0 <= Len(<<>>) /\ 0 <= Len(w)
  OBVIOUS
<1>2. Fresh(w) = Str(w, 0) /\ Fresh(<<>>) = Str(<<>>, 0)
  BY DEF Fresh, Str
<1> QED
  BY <1>1, <1>2, DropEnds

\* clear, Compact and the constructors start the vector anew.
LEMMA RenewStep ==
    ASSUME NEW x \in Stream, StreamOK(ds[x]), Clear(x) \/ CompactCall(x) \/ Construct(x)
    PROVE  Step(x)
<1> DEFINE u == Unread(ds[x])
<1>u. u \in Seq(StreamByte)
  BY Parts
<1> HIDE DEF u
<1>1. CASE Clear(x)
  <2>1. Did("clear", x, Str(<<>>, 0), "clear", 0, 0, <<>>, <<>>, TRUE)
    BY <1>1, <1>u, FreshStream DEF Clear
  <2>2. \A c : c.op = "clear" /\ c.p = 0 /\ c.q = 0 /\ c.vals = <<>> =>
          Drop(<<>>, 0) = Vectors!StreamEffect(c, Unread(ds[x]), Unread(ds[Peer(x)]))
    BY <1>u, FreshStream, Effects
  <2>3. <<>> \in Seq(StreamByte) /\ 0 \in Nat /\ 0 <= Len(<<>>)
    OBVIOUS
  <2> QED
    BY <2>1, <2>2, <2>3, PlainStep
<1>2. CASE CompactCall(x)
  <2>1. Did("Compact", x, Str(u, 0), "none", 0, 0, <<>>, <<>>, TRUE)
    <3>1. Compact(ds[x]) = Fresh(u)
      BY DEF Compact, u
    <3>2. Fresh(u) = Str(u, 0)
      BY <1>u, FreshStream
    <3> QED
      BY <1>2, <3>1, <3>2 DEF CompactCall
  <2>2. \A c : c.op = "none" /\ c.p = 0 /\ c.q = 0 /\ c.vals = <<>> =>
          Drop(u, 0) = Vectors!StreamEffect(c, Unread(ds[x]), Unread(ds[Peer(x)]))
    <3>1. Drop(u, 0) = Unread(ds[x])
      BY <1>u, FreshStream DEF u
    <3> QED
      BY <3>1, Effects
  <2>3. 0 \in Nat /\ 0 <= Len(u)
    BY <1>u
  <2> QED
    BY <1>u, <2>1, <2>2, <2>3, PlainStep
<1>3. CASE Construct(x)
  <2>1. PICK w \in Args : Did("CDataStream", x, Fresh(w), "construct", 0, 0, w, <<>>, TRUE)
    BY <1>3 DEF Construct
  <2>2. w \in Seq(StreamByte) /\ 0 \in Nat /\ 0 <= Len(w)
    BY ArgsAre
  <2>3. Did("CDataStream", x, Str(w, 0), "construct", 0, 0, w, <<>>, TRUE)
    BY <2>1, <2>2, FreshStream
  <2>4. \A c : c.op = "construct" /\ c.p = 0 /\ c.q = 0 /\ c.vals = w =>
          Drop(w, 0) = Vectors!StreamEffect(c, Unread(ds[x]), Unread(ds[Peer(x)]))
    <3>1. Drop(w, 0) = w
      BY <2>2, FreshStream
    <3> QED
      BY <3>1, Effects
  <2> QED
    BY <2>2, <2>3, <2>4, PlainStep
<1> QED
  BY <1>1, <1>2, <1>3

\* write, operator+= and operator<<.
LEMMA AppendStep ==
    ASSUME NEW x \in Stream, StreamOK(ds[x]), StreamOK(ds[Peer(x)]),
           Write(x) \/ Plus(x) \/ Shift(x)
    PROVE  Step(x)
<1> DEFINE yes == TRUE
           y == Peer(x)
           q == ds[y].vch
           k == ds[y].nReadPos
           u == Unread(ds[x])
<1>0. /\ q \in Seq(StreamByte) /\ Unread(ds[y]) \in Seq(StreamByte) /\ u \in Seq(StreamByte)
      /\ Unread(ds[y]) = Drop(q, k) /\ k \in 0..Len(q) /\ k \in Nat
  BY Parts
<1>1. CASE Write(x)
  <2>1. PICK w \in Seq(StreamByte) :
          Did("write", x, [ds[x] EXCEPT !.vch = @ \o w], "insert", Size(x), 0, w, <<>>, yes)
    BY <1>1, ArgsAre DEF Write
  <2> HIDE DEF yes
  <2>2. PICK s : Maps(x, s) /\ scall'.by = "write" /\ scall'.ok = yes
    BY <2>1, Appends
  <2>3. Hands(x, s)
    BY <2>2, HandsNothing DEF yes
  <2> QED
    BY <2>2, <2>3 DEF Step
<1>2. CASE Plus(x)
  BY <1>0, <1>2, Concatenates DEF Plus
<1>3. CASE Shift(x)
  <2>1. Did("<<", x, [ds[x] EXCEPT !.vch = @ \o q], "append", 0, 0, <<>>, <<>>, TRUE)
    BY <1>3 DEF Shift
  <2>2. CASE k = 0
    <3>1. q = Unread(ds[y])
      BY <1>0, <2>2, DropEnds
    <3> QED
      BY <1>0, <2>1, <3>1, Concatenates
  <2>3. CASE k > 0
    <3> DEFINE a == SubSeq(q, 1, k)
               d == Drop(q, k)
    <3>1. k \in 0..k /\ k - k = 0 /\ 0 + 1 = 1 /\ 0 <= k /\ 0 \in Nat /\ k <= Len(q)
      BY <1>0
    <3>2. Drop(q, k - k) = SubSeq(q, k - k + 1, k) \o Drop(q, k)
      BY <1>0, <3>1, DropLess
    <3>3. Drop(q, 0) = q
      BY <1>0, DropEnds
    <3>4. q = a \o d
      BY <3>1, <3>2, <3>3
    <3>5. SubSeq(q, 0 + 1, k) \in Seq(StreamByte)
      BY <1>0, <3>1, Slice
    <3>6. a \in Seq(StreamByte) /\ d \in Seq(StreamByte)
      BY <1>0, <3>1, <3>5
    <3> HIDE DEF a, d, u
    <3>7. u \o (a \o d) = (u \o a) \o d
      <4>1. u \in Seq(StreamByte) /\ a \in Seq(StreamByte) /\ d \in Seq(StreamByte)
        BY <1>0, <3>6
      <4>2. \A e, f, g \in Seq(StreamByte) : (e \o f) \o g = e \o (f \o g)
        BY ConcatAssociative, SMTT(60)
      <4> QED
        BY <4>1, <4>2, Zenon
    <3>8. u \o q = (u \o a) \o Unread(ds[y])
      BY <1>0, <3>4, <3>7 DEF d
    <3> HIDE DEF q, k
    <3> QED
      BY <1>0, <2>1, <2>3, <3>8, Concatenates DEF a, u, q, k
  <2> QED
    BY <1>0, <2>2, <2>3
<1> QED
  BY <1>1, <1>2, <1>3

\* read and ignore, and what they throw.
LEMMA ReadStep ==
    ASSUME NEW x \in Stream, StreamOK(ds[x]), Read(x) \/ Ignore(x)
    PROVE  Step(x)
<1>0. MaxArg \in Nat
  BY StreamSizes
<1>1. CASE Read(x)
  <2>1. PICK n \in 0..MaxArg :
          \/ Did("read", x, ds[x], "none", 0, 0, <<>>, <<>>, TRUE)
          \/ Throws("read", x)
          \/ /\ nReadPosNext(ds[x], n) <= Len(ds[x].vch)
             /\ Did("read", x, Consumed(ds[x], n), "erase", 0, n, <<>>,
                    SubSeq(ds[x].vch, ds[x].nReadPos + 1, ds[x].nReadPos + n), TRUE)
    BY <1>1 DEF Read
  <2> QED
    BY <2>1, Stays, Takes DEF Throws
<1>2. CASE Ignore(x)
  <2>1. PICK n \in -1..MaxArg :
          \/ Throws("ignore", x)
          \/ /\ n >= 0 /\ nReadPosNext(ds[x], n) <= Len(ds[x].vch)
             /\ Did("ignore", x, Consumed(ds[x], n), "erase", 0, n, <<>>,
                    SubSeq(ds[x].vch, ds[x].nReadPos + 1, ds[x].nReadPos + n), TRUE)
    BY <1>2 DEF Ignore
  <2>2. n >= 0 => n \in 0..MaxArg
    BY <1>0
  <2> QED
    BY <2>1, <2>2, Stays, Takes DEF Throws
<1> QED
  BY <1>1, <1>2

\* GetAndClear hands out what is left and leaves nothing.
LEMMA GetAndClearStep ==
    ASSUME NEW x \in Stream, StreamOK(ds[x]), GetAndClear(x)
    PROVE  Step(x)
<1> DEFINE yes == TRUE
           u == Unread(ds[x])
           e == <<>>
           s == Str(e, 0)
<1>1. u \in Seq(StreamByte)
  BY Parts
<1>2. Did("GetAndClear", x, Str(e, 0), "clear", 0, 0, e, u, yes)
  BY <1>1, FreshStream DEF GetAndClear
<1>3. \A c : c.op = "clear" /\ c.p = 0 /\ c.q = 0 /\ c.vals = e =>
        Drop(e, 0) = Vectors!StreamEffect(c, Unread(ds[x]), Unread(ds[Peer(x)]))
  BY <1>1, FreshStream, Effects
<1>4. e \in Seq(StreamByte) /\ 0 \in Nat /\ 0 <= Len(e)
  OBVIOUS
<1>5. u \o Drop(e, 0) = u
  BY <1>1, FreshStream, ConcatEmptySeq
<1> HIDE DEF yes, u, e, s
<1>6. /\ Maps(x, Str(e, 0)) /\ Unread(Str(e, 0)) = Drop(e, 0)
      /\ scall'.by = "GetAndClear" /\ scall'.got = u /\ scall'.ok = yes
  BY <1>2, <1>3, <1>4, Leaves
<1>7. Hands(x, s)
  BY <1>5, <1>6 DEF Hands, Rewinds, yes, u, s
<1> QED
  BY <1>6, <1>7 DEF Step, s

\* The end of a part is a part.
LEMMA EndOfPart ==
    ASSUME NEW S, NEW v \in Seq(S), NEW k \in 0..Len(v), NEW l \in 0..k, NEW n \in 0..l
    PROVE  LET g == SubSeq(v, k - l + 1, k) IN SubSeq(g, l - n + 1, l) = SubSeq(v, k - n + 1, k)
<1> DEFINE i == k - l
           j == k - n
           h == l - n
           g == SubSeq(v, i + 1, k)
           a == SubSeq(g, h + 1, l)
           b == SubSeq(v, j + 1, k)
<1>1. /\ Len(v) \in Nat /\ k \in Nat /\ l \in Nat /\ n \in Nat
      /\ i \in Nat /\ j \in Nat /\ h \in Nat
      /\ i <= k /\ j <= k /\ k <= Len(v) /\ h <= l
      /\ k - i = l /\ k - j = n /\ l - h = n /\ i + h = j
  OBVIOUS
<1> HIDE DEF i, j, h
<1>2. g \in Seq(S) /\ Len(g) = k - i /\ \A m \in 1..(k - i) : g[m] = v[i + m]
  <2>1. i \in Nat /\ k \in Nat /\ i <= k /\ k <= Len(v)
    BY <1>1
  <2> QED
    BY <2>1, Slice
<1>3. b \in Seq(S) /\ Len(b) = k - j /\ \A m \in 1..(k - j) : b[m] = v[j + m]
  <2>1. j \in Nat /\ k \in Nat /\ j <= k /\ k <= Len(v)
    BY <1>1
  <2> QED
    BY <2>1, Slice
<1> HIDE DEF g, b
<1>4. a \in Seq(S) /\ Len(a) = l - h /\ \A m \in 1..(l - h) : a[m] = g[h + m]
  <2>1. g \in Seq(S) /\ l <= Len(g) /\ h \in Nat /\ l \in Nat /\ h <= l
    BY <1>1, <1>2
  <2> QED
    BY <2>1, Slice
<1> HIDE DEF a
<1>5. Len(a) = n /\ Len(b) = n
  BY <1>1, <1>3, <1>4
<1>6. ASSUME NEW m \in 1..n PROVE a[m] = b[m]
  <2>1. h + m \in 1..l /\ i + (h + m) = j + m
    BY <1>1
  <2>2. a[m] = g[h + m] /\ g[h + m] = v[i + (h + m)]
    BY <1>1, <1>2, <1>4, <2>1
  <2> QED
    BY <1>1, <1>3, <2>1, <2>2
<1>7. a = b
  BY <1>3, <1>4, <1>5, <1>6, SeqEqual
<1> QED
  BY <1>7 DEF a, b, g, i, j, h

\* Rewind puts the last bytes read in front, or fails.
LEMMA RewindStep ==
    ASSUME NEW x \in Stream, StreamInv, Rewind(x)
    PROVE  Step(x)
<1>0. StreamOK(ds[x]) /\ MaxArg \in Nat
  BY StreamSizes DEF StreamInv
<1>1. ASSUME NEW n \in 0..MaxArg, n > ds[x].nReadPos,
             Did("Rewind", x, ds[x], "none", 0, n, <<>>, <<>>, FALSE)
      PROVE  Step(x)
  <2>1. ds[x].nReadPos \in Nat /\ n \in Nat
    BY <1>0, <1>1, Parts
  <2>2. n # 0
    BY <1>1, <2>1
  <2>3. ASSUME scall.by = "read", scall.on = x, n <= Len(scall.got)
        PROVE  Unread(ds[x]) = <<>>
    <3>1. ReadBehind(ds[x], scall.got)
      BY <2>3 DEF StreamInv
    <3>2. ~(Len(scall.got) <= ds[x].nReadPos)
      <4>1. Len(scall.got) \in Nat
        BY <3>1 DEF ReadBehind
      <4> QED
        BY <1>1, <2>1, <2>3, <4>1
    <3>3. ds[x].nReadPos = 0 /\ ds[x].vch = <<>>
      BY <3>1, <3>2 DEF ReadBehind
    <3>4. Unread(ds[x]) \in Seq(StreamByte) /\ Len(Unread(ds[x])) = Len(ds[x].vch) - ds[x].nReadPos
      BY <1>0, Parts
    <3>5. Len(Unread(ds[x])) = 0
      BY <3>3, <3>4
    <3> QED
      BY <3>4, <3>5, EmptySeq
  <2> DEFINE no == FALSE
  <2>4. Did("Rewind", x, ds[x], "none", 0, n, <<>>, <<>>, no)
    BY <1>1
  <2>5. no \in BOOLEAN /\ ~no
    OBVIOUS
  <2> HIDE DEF no
  <2> QED
    BY <1>0, <2>2, <2>3, <2>4, <2>5, Stays
<1>2. ASSUME NEW n \in 0..MaxArg, n <= ds[x].nReadPos,
             Did("Rewind", x, [ds[x] EXCEPT !.nReadPos = @ - n], "insert", 0, n,
                 SubSeq(ds[x].vch, ds[x].nReadPos - n + 1, ds[x].nReadPos), <<>>, TRUE)
      PROVE  Step(x)
  <2>1. PICK v \in Seq(StreamByte), k \in Nat : On(x, v, k)
    BY <1>0, OnStream
  <2> DEFINE yes == TRUE
             u == Drop(v, k)
             i == k - n
             w == SubSeq(v, k - n + 1, k)
             s == Str(v, i)
  <2>2. /\ k <= Len(v) /\ Unread(ds[x]) = u /\ u \in Seq(StreamByte) /\ Len(v) \in Nat
        /\ ds[x].vch = v /\ ds[x].nReadPos = k
    BY <2>1 DEF On
  <2>3. Did("Rewind", x, Str(v, i), "insert", 0, n, w, <<>>, yes)
    BY <1>2, <2>1 DEF On
  <2>4. n \in 0..k /\ k \in 0..Len(v) /\ i \in Nat /\ i <= k /\ i <= Len(v) /\ k - i = n
    BY <1>0, <1>2, <2>2
  <2>5. w \in Seq(StreamByte) /\ Len(w) = n
    <3>1. SubSeq(v, i + 1, k) \in Seq(StreamByte) /\ Len(SubSeq(v, i + 1, k)) = k - i
      <4> HIDE DEF i
      <4> QED
        BY <2>2, <2>4, Slice, SMTT(60)
    <3> QED
      BY <2>4, <3>1
  <2>6. Drop(v, i) = w \o u
    BY <2>4, DropLess
  <2> HIDE DEF w, u, i, yes, s
  <2>7. With(u, 0, w) = w \o u
    BY <2>2, <2>5, SpliceEnds
  <2>8. \A c : c.op = "insert" /\ c.p = 0 /\ c.q = n /\ c.vals = w =>
          Drop(v, i) = Vectors!StreamEffect(c, Unread(ds[x]), Unread(ds[Peer(x)]))
    BY <2>2, <2>6, <2>7, Effects, SMTT(60)
  <2>9. /\ Maps(x, Str(v, i)) /\ Unread(Str(v, i)) = Drop(v, i)
        /\ scall'.by = "Rewind" /\ scall'.q = n /\ scall'.ok = yes
    BY <2>3, <2>4, <2>8, Leaves
  <2>10. ASSUME scall.by = "read", scall.on = x, n <= Len(scall.got)
         PROVE  /\ w = SubSeq(scall.got, Len(scall.got) - n + 1, Len(scall.got))
                /\ n = 0 \/ u # <<>>
    <3> DEFINE g == scall.got
               l == Len(scall.got)
    <3>1. ReadBehind(ds[x], g)
      BY <2>10 DEF StreamInv
    <3>2. g \in Seq(StreamByte) /\ l \in Nat /\ n \in 0..l
      BY <2>4, <2>5, <2>10, <3>1 DEF ReadBehind
    <3>3. CASE k = 0 /\ v = <<>>
      <4>1. n = 0
        BY <2>4, <3>3
      <4>2. w = <<>>
        BY <2>5, <4>1, EmptySeq
      <4>3. l - 0 + 1 = l + 1 /\ l <= l /\ l - l = 0
        BY <3>2
      <4>4. SubSeq(g, l + 1, l) = <<>>
        <5>1. SubSeq(g, l + 1, l) \in Seq(StreamByte) /\ Len(SubSeq(g, l + 1, l)) = l - l
          BY <3>2, <4>3, Slice
        <5> QED
          BY <4>3, <5>1, EmptySeq
      <4> QED
        BY <2>5, <4>1, <4>2, <4>3, <4>4
    <3>4. CASE l <= k /\ g = SubSeq(v, k - l + 1, k) /\ (g # <<>> => k < Len(v))
      <4>1. l \in 0..k
        BY <3>2, <3>4
      <4>2. SubSeq(SubSeq(v, k - l + 1, k), l - n + 1, l) = SubSeq(v, k - n + 1, k)
        <5> HIDE DEF l
        <5> QED
          BY <2>4, <3>2, <4>1, EndOfPart
      <4>3. ASSUME n # 0 PROVE u # <<>>
        <5>1. l # 0
          BY <2>4, <3>2, <4>3
        <5>2. k < Len(v)
          BY <3>2, <3>4, <5>1, EmptySeq
        <5>3. Len(u) = Len(v) - k
          BY <2>1 DEF On, u
        <5>4. Len(u) # 0
          BY <2>2, <2>4, <5>2, <5>3
        <5> QED
          BY <5>4
      <4> QED
        BY <2>5, <3>4, <4>2, <4>3 DEF w
    <3> QED
      BY <2>2, <3>1, <3>3, <3>4 DEF ReadBehind
  <2>11. Rewinds(x, s)
    BY <2>2, <2>6, <2>9, <2>10 DEF Rewinds, s, yes
  <2>12. Hands(x, s)
    BY <2>9, <2>11 DEF Hands, yes
  <2> QED
    BY <2>9, <2>12 DEF Step, s
<1> QED
  BY <1>1, <1>2 DEF Rewind

\* Where the key is read.
LEMMA KeyIndex ==
    ASSUME NEW i \in Nat \ {0}, NEW n \in Nat \ {0}
    PROVE  ((i - 1) % n) + 1 \in 1..n
<1>1. \A a \in Nat : a % n \in 0..(n - 1)
  BY SMT
<1> QED
  BY <1>1

\* Xor, which starts at the vector's first byte and not at the first unread one.
LEMMA XorStep ==
    ASSUME NEW x \in Stream, StreamOK(ds[x]), Xor(x)
    PROVE  Step(x)
<1>1. PICK key \in Args : Did("Xor", x, ds_Xor(ds[x], key), "xor", 0, 0, key, <<>>, TRUE)
  BY DEF Xor
<1>2. key \in Seq(StreamByte) /\ Len(key) \in Nat
  BY ArgsAre
<1>3. PICK v \in Seq(StreamByte), k \in Nat : On(x, v, k)
  BY OnStream
<1> DEFINE yes == TRUE
           u == Drop(v, k)
           At(i) == ((i - 1) % Len(key)) + 1
           f == [i \in 1..Len(v) |-> IF i <= Len(u) THEN xor(v[i], key[At(i)]) ELSE v[i]]
           f2 == IF key = <<>> THEN v ELSE f
           s == Str(f2, k)
<1>4. /\ k <= Len(v) /\ Unread(ds[x]) = u /\ u \in Seq(StreamByte) /\ Len(v) \in Nat
      /\ Len(u) = Len(v) - k /\ ds[x].vch = v /\ ds[x].nReadPos = k /\ ds[x] = Str(v, k)
  BY <1>3 DEF On
<1>5. ds_Xor(ds[x], key) = Str(f2, k)
  <2>1. \A w : [ds[x] EXCEPT !.vch = w] = Str(w, k)
    BY <1>3 DEF On
  <2>2. ds_Xor(ds[x], key) = IF key = <<>> THEN ds[x] ELSE [ds[x] EXCEPT !.vch = f]
    BY <1>4 DEF ds_Xor
  <2> HIDE DEF f
  <2> QED
    BY <1>4, <2>1, <2>2
<1>6. key # <<>> => f \in Seq(StreamByte) /\ Len(f) = Len(v)
  <2> SUFFICES ASSUME key # <<>> PROVE f \in Seq(StreamByte) /\ Len(f) = Len(v)
    OBVIOUS
  <2>1. Len(key) \in Nat \ {0}
    BY <1>2, EmptySeq
  <2>2. \A i \in 1..Len(v) : At(i) \in 1..Len(key)
    BY <1>4, <2>1, KeyIndex
  <2>3. \A i \in 1..Len(v) : key[At(i)] \in StreamByte /\ v[i] \in StreamByte
    BY <1>2, <2>2, ElementOfSeq
  <2> HIDE DEF At
  <2>4. \A i \in 1..Len(v) : xor(v[i], key[At(i)]) \in StreamByte
    BY <2>3, StreamSizes
  <2>5. f = [i \in 1..Len(v) |-> f[i]] /\ \A i \in 1..Len(v) : f[i] \in StreamByte
    BY <2>3, <2>4
  <2> HIDE DEF f
  <2> QED
    BY <1>4, <2>5, MadeOf
<1>7. f2 \in Seq(StreamByte) /\ Len(f2) = Len(v)
  <2> HIDE DEF f
  <2> QED
    BY <1>6
<1>8. Did("Xor", x, Str(f2, k), "xor", 0, 0, key, <<>>, yes)
  BY <1>1, <1>5
<1>9. ASSUME k = 0 PROVE Drop(f2, k) = Vectors!Masked(u, key)
  <2>1. u = v /\ Drop(f2, k) = f2
    BY <1>7, <1>9, DropEnds
  <2>2. key # <<>> => f = [i \in 1..Len(v) |-> xor(v[i], key[At(i)])]
    <3>1. \A i \in 1..Len(v) : i <= Len(u)
      BY <1>4, <2>1
    <3> HIDE DEF At, u
    <3> QED
      BY <3>1
  <2>3. Vectors!Masked(v, key) =
          IF key = <<>> THEN v ELSE [i \in 1..Len(v) |-> xor(v[i], key[At(i)])]
    BY DEF Vectors!Masked
  <2>4. f2 = IF key = <<>> THEN v ELSE f
    OBVIOUS
  <2> HIDE DEF f, f2, u, At
  <2> QED
    BY <2>1, <2>2, <2>3, <2>4
<1>10. k <= Len(f2) /\ k \in 0..Len(f2)
  BY <1>4, <1>7
<1> HIDE DEF f, f2, u, yes, s
<1>11. Maps(x, Str(f2, k)) /\ scall'.by = "Xor" /\ scall'.ok = yes
  <2>1. CASE k = 0
    <3>1. \A c : c.op = "xor" /\ c.p = 0 /\ c.q = 0 /\ c.vals = key =>
            Drop(f2, k) = Vectors!StreamEffect(c, Unread(ds[x]), Unread(ds[Peer(x)]))
      BY <1>4, <1>9, <2>1, Effects
    <3> QED
      BY <1>7, <1>8, <1>10, <3>1, Leaves
  <2>2. CASE k # 0
    <3>1. Unread(Str(f2, k)) = Drop(f2, k)
      BY DEF Unread, Str, Drop
    <3>2. Len(Drop(f2, k)) = Len(f2) - k
      BY <1>7, <1>10, Dropped
    <3>3. ds[x].nReadPos > 0 /\ Len(Unread(Str(f2, k))) = Len(Unread(ds[x]))
      BY <1>4, <1>7, <2>2, <3>1, <3>2
    <3>4. ASSUME NEW i \in 1..Len(u), i + k > Len(u)
          PROVE  Drop(f2, k)[i] = u[i]
      <4>1. i \in Nat /\ i \in 1..(Len(v) - k) /\ k + i \in 1..Len(v) /\ ~(k + i <= Len(u))
        BY <1>4, <3>4
      <4>2. Drop(f2, k)[i] = f2[k + i]
        BY <1>7, <1>10, <4>1, Dropped
      <4>3. Drop(v, k)[i] = v[k + i] /\ u = Drop(v, k)
        <5>1. k \in 0..Len(v)
          BY <1>7, <1>10
        <5> QED
          BY <4>1, <5>1, Dropped DEF u
      <4>4. f2[k + i] = v[k + i]
        BY <4>1 DEF f2, f
      <4> QED
        BY <4>2, <4>3, <4>4
    <3>5. StaleOn("Xor", x, Str(f2, k))
      BY <1>4, <3>1, <3>3, <3>4 DEF StaleOn
    <3> QED
      BY <1>7, <1>8, <1>10, <3>5, LeavesStale
  <2> QED
    BY <2>1, <2>2
<1>12. Hands(x, s)
  BY <1>11, HandsNothing DEF yes
<1> QED
  BY <1>11, <1>12 DEF Step, s

\* Every call.
LEMMA CallSteps ==
    ASSUME StreamInv, StreamNext
    PROVE  \E x \in Stream : Step(x)
<1>1. PICK x \in Stream :
        \/ Write(x) \/ Read(x) \/ Ignore(x) \/ Insert(x) \/ Erase(x) \/ Resize(x)
        \/ Clear(x) \/ CompactCall(x) \/ Rewind(x) \/ Plus(x) \/ Shift(x)
        \/ GetAndClear(x) \/ Xor(x) \/ Construct(x)
  BY DEF StreamNext
<1>2. StreamOK(ds[x]) /\ StreamOK(ds[Peer(x)])
  BY Streams DEF StreamInv
<1>3. Step(x)
  BY <1>1, <1>2, AppendStep, ReadStep, InsertStep, EraseStep, ResizeStep, RenewStep, RewindStep,
     GetAndClearStep, XorStep
<1> QED
  BY <1>3

\* The streams after a call: one is what the call left, the other as before.
LEMMA After ==
    ASSUME StreamInv, NEW x \in Stream, NEW s, Maps(x, s)
    PROVE  /\ ds' = [y \in Stream |-> ds'[y]] /\ ds'[x] = s /\ ds'[Peer(x)] = ds[Peer(x)]
           /\ \A y \in Stream : y = x \/ y = Peer(x)
<1>1. ds = [y \in Stream |-> ds[y]] /\ ds' = [ds EXCEPT ![x] = s]
  BY DEF StreamInv, Maps
<1>2. Peer(x) \in Stream /\ Peer(x) # x
  BY Streams
<1>3. \A y \in Stream : y = x \/ y = Peer(x)
  BY DEF Stream, Peer
<1> QED
  BY <1>1, <1>2, <1>3

\* Every call keeps the invariant.
LEMMA StreamStepInv == StreamInv /\ [StreamNext]_streamVars => StreamInv'
<1> SUFFICES ASSUME StreamInv, [StreamNext]_streamVars PROVE StreamInv'
  OBVIOUS
<1>1. CASE UNCHANGED streamVars
  <2>1. ds' = ds /\ scall' = scall
    BY <1>1 DEF streamVars
  <2> QED
    BY <2>1 DEF StreamInv, StreamOK, ReadBehind
<1>2. CASE StreamNext
  <2>1. PICK x \in Stream : Step(x)
    BY <1>2, CallSteps
  <2>2. PICK s : Maps(x, s) /\ Hands(x, s)
    BY <2>1 DEF Step
  <2>3. /\ ds' = [y \in Stream |-> ds'[y]] /\ ds'[x] = s /\ ds'[Peer(x)] = ds[Peer(x)]
        /\ \A y \in Stream : y = x \/ y = Peer(x)
    BY <2>2, After
  <2>4. StreamOK(s) /\ scall'.on = x /\ (scall'.by = "read" => ReadBehind(s, scall'.got))
    BY <2>2 DEF Maps, Hands
  <2>5. \A y \in Stream : StreamOK(ds'[y])
    BY <2>3, <2>4 DEF StreamInv
  <2>6. scall'.by = "read" => scall'.on \in Stream /\ ReadBehind(ds'[scall'.on], scall'.got)
    BY <2>3, <2>4
  <2> QED
    BY <2>3, <2>5, <2>6 DEF StreamInv
<1> QED
  BY <1>1, <1>2

\* The invariant holds in every reachable state.
THEOREM StreamInvariance == StreamSpec => []StreamInv
<1>1. StreamInit => StreamInv
  <2> SUFFICES ASSUME StreamInit PROVE StreamInv
    OBVIOUS
  <2>1. \A x \in Stream : ds[x] = Str(<<>>, 0)
    BY DEF StreamInit, Fresh, Str
  <2>2. <<>> \in Seq(StreamByte) /\ 0 \in Nat /\ 0 <= Len(<<>>) /\ Len(<<>>) <= MaxLen
    BY StreamSizes
  <2>3. StreamOK(Str(<<>>, 0))
    BY <2>2 DEF StreamOK, Str
  <2>4. ds = [x \in Stream |-> ds[x]] /\ scall.by = "Init"
    BY DEF StreamInit
  <2> QED
    BY <2>1, <2>3, <2>4 DEF StreamInv
<1> QED
  BY <1>1, StreamStepInv, PTL DEF StreamSpec

\* Every call on two CDataStreams does to their unread bytes what it does to two
\* plain vectors of bytes: no call but operator<< of a partly read stream and Xor
\* on one shows where nReadPos is, whether the bytes in front of it are still
\* there, or which shortcut of insert and erase was taken.
THEOREM StreamsRefined == StreamSpec => ImplementsStreams
<1>1. StreamInit => Vectors!Init
  <2> SUFFICES ASSUME StreamInit PROVE Vectors!Init
    OBVIOUS
  <2>1. \A x \in Stream : Unread(ds[x]) = <<>>
    <3>1. \A x \in Stream : ds[x] = Fresh(<<>>)
      BY DEF StreamInit
    <3>2. Unread(Fresh(<<>>)) = <<>>
      BY DEF Unread, Fresh
    <3> QED
      BY <3>1, <3>2
  <2>2. scall.op = "none"
    BY DEF StreamInit
  <2> QED
    BY <2>1, <2>2 DEF Vectors!Init, Unreads, Stream
<1>2. StreamInv /\ [StreamNext]_streamVars =>
        [Vectors!StreamNext \/ StaleBytes]_<<Unreads, scall>>
  <2> SUFFICES ASSUME StreamInv, [StreamNext]_streamVars
               PROVE  [Vectors!StreamNext \/ StaleBytes]_<<Unreads, scall>>
    OBVIOUS
  <2>1. CASE UNCHANGED streamVars
    <3>1. ds' = ds /\ scall' = scall
      BY <2>1 DEF streamVars
    <3>2. Unreads' = Unreads
      BY <3>1 DEF Unreads, Unread
    <3> QED
      BY <3>1, <3>2
  <2>2. CASE StreamNext
    <3>1. PICK x \in Stream : Step(x)
      BY <2>2, CallSteps
    <3>2. PICK s : Maps(x, s)
      BY <3>1 DEF Step
    <3>3. /\ ds'[x] = s /\ ds'[Peer(x)] = ds[Peer(x)]
          /\ \A y \in Stream : y = x \/ y = Peer(x)
      BY <3>2, After
    <3>4. /\ scall'.on = x
          /\ \/ Unread(s) = Vectors!StreamEffect(scall', Unread(ds[x]), Unread(ds[Peer(x)]))
             \/ StaleOn(scall'.by, x, s)
      BY <3>2 DEF Maps
    <3>v. Stream = {"a", "b"} /\ \A y \in Stream : Vectors!Other(y) = Peer(y) /\ Peer(y) \in Stream
      BY Streams
    <3> DEFINE c == Unreads
               d == [y \in Stream |-> Unread(ds'[y])]
    <3>5. Unreads' = d /\ \A y \in Stream : d[y] = Unread(ds'[y]) /\ c[y] = Unread(ds[y])
      BY DEF Unreads, Unread
    <3>6. d = [y \in Stream |-> d[y]]
      OBVIOUS
    <3> HIDE DEF c, d
    <3>7. CASE Unread(s) = Vectors!StreamEffect(scall', Unread(ds[x]), Unread(ds[Peer(x)]))
      <4>1. ASSUME NEW y \in Stream
            PROVE  d[y] = IF y = scall'.on
                          THEN Vectors!StreamEffect(scall', c[y], c[Vectors!Other(y)])
                          ELSE c[y]
        <5>1. CASE y = x
          BY <3>3, <3>4, <3>5, <3>7, <3>v, <5>1
        <5>2. CASE y # x
          <6>1. d[y] = c[y]
            BY <3>3, <3>5, <5>2
          <6> QED
            BY <3>4, <5>2, <6>1, Zenon
        <5> QED
          BY <5>1, <5>2
      <4>2. d = [y \in {"a", "b"} |-> IF y = scall'.on
               THEN Vectors!StreamEffect(scall', c[y], c[Vectors!Other(y)]) ELSE c[y]]
        BY <3>6, <4>1, <3>v, SMTT(60)
      <4> QED
        BY <3>5, <4>2 DEF Vectors!StreamNext, c
    <3>8. CASE StaleOn(scall'.by, x, s)
      <4>1. d[Peer(x)] = c[Peer(x)] /\ d[x] = Unread(s) /\ c[x] = Unread(ds[x])
            /\ c[Peer(x)] = Unread(ds[Peer(x)])
        BY <3>3, <3>5, <3>v
      <4> QED
        BY <3>4, <3>5, <3>8, <4>1 DEF StaleOn, StaleBytes, c
    <3> QED
      BY <3>4, <3>7, <3>8
  <2> QED
    BY <2>1, <2>2
<1> QED
  BY <1>1, <1>2, StreamInvariance, PTL DEF StreamSpec, ImplementsStreams

\* What read, ignore and GetAndClear hand out is the front of the unread bytes, a
\* call that throws takes nothing, and after a read as many bytes as it took can be
\* rewound, back to where they were, exactly while some are left unread.
THEOREM StreamsDeliver == StreamSpec => StreamDelivers
<1> DEFINE A ==
      LET x == scall'.on IN
      /\ scall'.by \in {"read", "ignore", "GetAndClear"} =>
           scall'.got \o Unreads'[x] = Unreads[x]
      /\ ~scall'.ok => ds' = ds
      /\ LET n == scall'.q  g == scall.got IN
         scall.by = "read" /\ scall'.by = "Rewind" /\ scall.on = x /\ n <= Len(g) =>
           /\ scall'.ok <=> n = 0 \/ Unreads[x] # <<>>
           /\ scall'.ok => Unreads'[x] = SubSeq(g, Len(g) - n + 1, Len(g)) \o Unreads[x]
<1>1. ASSUME StreamInv, StreamNext PROVE A
  <2>1. PICK x \in Stream : Step(x)
    BY <1>1, CallSteps
  <2>2. PICK s : Maps(x, s) /\ Hands(x, s)
    BY <2>1 DEF Step
  <2>3. /\ ds'[x] = s /\ ds' = [y \in Stream |-> ds'[y]] /\ ds'[Peer(x)] = ds[Peer(x)]
        /\ \A y \in Stream : y = x \/ y = Peer(x)
    BY <1>1, <2>2, After
  <2>4. scall'.on = x
    BY <2>2 DEF Maps
  <2>5. Peer(x) \in Stream
    BY Streams
  <2>6. /\ Unreads'[x] = Unread(s) /\ Unreads[x] = Unread(ds[x])
        /\ Unreads[Peer(x)] = Unread(ds[Peer(x)])
    BY <2>3, <2>5 DEF Unreads, Unread
  <2>7. ~scall'.ok => ds' = ds
    <3>1. ~scall'.ok => s = ds[x]
      BY <2>2 DEF Hands
    <3>2. ds = [y \in Stream |-> ds[y]]
      BY <1>1 DEF StreamInv
    <3>3. s = ds[x] => \A y \in Stream : ds'[y] = ds[y]
      BY <2>3
    <3>4. s = ds[x] => ds' = ds
      BY <2>3, <3>2, <3>3
    <3> QED
      BY <3>1, <3>4
  <2>8. /\ scall'.by \in {"read", "ignore", "GetAndClear"} => scall'.got \o Unreads'[x] = Unreads[x]
        /\ scall.by = "read" /\ scall'.by = "Rewind" /\ scall.on = x
             /\ scall'.q <= Len(scall.got) =>
           /\ scall'.ok <=> scall'.q = 0 \/ Unreads[x] # <<>>
           /\ scall'.ok => Unreads'[x] =
                SubSeq(scall.got, Len(scall.got) - scall'.q + 1, Len(scall.got)) \o Unreads[x]
    BY <2>2, <2>6, Zenon DEF Hands, Rewinds
  <2> QED
    BY <2>4, <2>7, <2>8, Zenon
<1>2. StreamInv /\ [StreamNext]_streamVars => [A]_streamVars
  <2> HIDE DEF A
  <2> QED
    BY <1>1
<1> QED
  BY <1>2, StreamInvariance, PTL DEF StreamSpec, StreamDelivers
====
