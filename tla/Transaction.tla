---------------------------- MODULE Transaction ----------------------------
(***************************************************************************)
(* The formats of transactions and blocks                                  *)
(* (src/include/electrumz/bitcoin/transaction.h, block.h).  An integer or  *)
(* hash of fixed width is one byte: only that it takes the same room       *)
(* whatever its value matters.                                             *)
(***************************************************************************)
EXTENDS Serialize

\* What can be read into the fields: no vector is longer than MAX_SIZE.
UpToMax(S)    == {v \in Seq(S) : Len(v) <= MAX_SIZE}
CScripts      == UpToMax(Digit)
CTxWitnesses  == UpToMax(CScripts)
COutPoints    == [hash : Digit, n : Digit]
CTxIns        == [prevout : COutPoints, scriptSig : CScripts, nSequence : Digit,
                  scriptWitness : CTxWitnesses]
CTxOuts       == [nValue : Digit, scriptPubKey : CScripts]
CTransactions == [nVersion : Digit, vin : UpToMax(CTxIns), vout : UpToMax(CTxOuts),
                  nLockTime : Digit]

U(n) == <<n>>
ReadU(r) == ser_readdata(r, 1)

-----------------------------------------------------------------------------
(* Inputs and outputs *)

SerializeOutPoint(o) == U(o.hash) \o U(o.n)
UnserializeOutPoint(r) == Made(ReadU(ReadU(r)), 2, LAMBDA f : [hash |-> f[1], n |-> f[2]])

\* The witness of an input is "only serialized through CTransaction".
SerializeTxIn(i) == SerializeOutPoint(i.prevout) \o SerializeScript(i.scriptSig) \o U(i.nSequence)
UnserializeTxIn(r) ==
    Made(ReadU(UnserializeScript(UnserializeOutPoint(r))), 3, LAMBDA f :
         [prevout |-> f[1], scriptSig |-> f[2], nSequence |-> f[3], scriptWitness |-> <<>>])

SerializeTxOut(o) == U(o.nValue) \o SerializeScript(o.scriptPubKey)
UnserializeTxOut(r) ==
    Made(UnserializeScript(ReadU(r)), 2, LAMBDA f : [nValue |-> f[1], scriptPubKey |-> f[2]])

SerializeStack(st) == SerializeVector([i \in DOMAIN st |-> SerializeBytes(st[i])])
UnserializeStack(r) == UnserializeVector(r, UnserializeBytes)

SerializeIns(vin) == SerializeVector([i \in DOMAIN vin |-> SerializeTxIn(vin[i])])
SerializeOuts(vout) == SerializeVector([i \in DOMAIN vout |-> SerializeTxOut(vout[i])])
UnserializeIns(r) == UnserializeVector(r, UnserializeTxIn)
UnserializeOuts(r) == UnserializeVector(r, UnserializeTxOut)

\* The witnesses of all inputs, without their number.
SerializeWitnesses(vin) ==
    FlattenSeq([i \in DOMAIN vin |-> SerializeStack(vin[i].scriptWitness)])

-----------------------------------------------------------------------------
(* Transactions *)

HasWitness(tx) == \E i \in DOMAIN tx.vin : tx.vin[i].scriptWitness # <<>>

Odd(n) == n % 2 = 1

\* Mutant: the witnesses are written although the format says there are none.
SerializeTransaction_always(tx, fAllowWitness) ==
    U(tx.nVersion)
    \o (IF fAllowWitness /\ HasWitness(tx)
        THEN SerializeIns(<<>>) \o U(1) ELSE <<>>)
    \o SerializeIns(tx.vin)
    \o SerializeOuts(tx.vout)
    \o (IF HasWitness(tx) THEN SerializeWitnesses(tx.vin) ELSE <<>>)
    \o U(tx.nLockTime)

\* The extended format, an empty vector and a flag before the inputs and the
\* witnesses after the outputs, is used when there is a witness to write.
SerializeTransaction(tx, fAllowWitness) ==
    LET extended == fAllowWitness /\ HasWitness(tx) IN
    U(tx.nVersion)
    \o (IF extended THEN SerializeIns(<<>>) \o U(1) ELSE <<>>)
    \o SerializeIns(tx.vin)
    \o SerializeOuts(tx.vout)
    \o (IF extended THEN SerializeWitnesses(tx.vin) ELSE <<>>)
    \o U(tx.nLockTime)

Body(vin, vout, flags) == [vin |-> vin, vout |-> vout, flags |-> flags]

\* Behind an empty vector of inputs and the flags: without any, that was all.
AfterFlags(f) ==
    IF Top(f) = 0 THEN Made(f, 2, LAMBDA g : Body(<<>>, <<>>, 0))
    ELSE Made(UnserializeOuts(UnserializeIns(f)), 4, LAMBDA g : Body(g[3], g[4], g[2]))

\* An empty vector of inputs may be the dummy of the extended format.
AfterIns(i, fAllowWitness) ==
    IF i.ok /\ Top(i) = <<>> /\ fAllowWitness THEN AfterFlags(ReadU(i))
    ELSE Made(UnserializeOuts(i), 2, LAMBDA f : Body(f[1], f[2], 0))

UnserializeWitnesses(b) ==
    LET n == Len(Top(b).vin)
        got[i \in 0..n] ==
            IF i = 0 THEN b
            ELSE Made(UnserializeStack(got[i - 1]), 2,
                      LAMBDA f : [f[1] EXCEPT !.vin[i].scriptWitness = f[2]])
    IN got[n]

\* Mutant: flags that are not known are passed over.
AfterBody_flags(b) == IF b.ok /\ Odd(Top(b).flags) THEN UnserializeWitnesses(b) ELSE b

\* The witnesses, if the lowest flag says that they are there; any other flag is
\* refused.
AfterBody(b) ==
    IF ~b.ok \/ Top(b).flags = 0 THEN b
    ELSE IF Top(b).flags = 1 THEN UnserializeWitnesses(b) ELSE Thrown

UnserializeTransaction(r, fAllowWitness) ==
    Made(ReadU(AfterBody(AfterIns(UnserializeIns(ReadU(r)), fAllowWitness))), 3, LAMBDA f :
         [nVersion |-> f[1], vin |-> f[2].vin, vout |-> f[2].vout, nLockTime |-> f[3]])

\* SerializeHash: a hash stands for the bytes it is made of.
ComputeHash(tx) == SerializeTransaction(tx, FALSE)
ComputeWitnessHash(tx) ==
    IF HasWitness(tx) THEN SerializeTransaction(tx, TRUE) ELSE ComputeHash(tx)

-----------------------------------------------------------------------------
(* Blocks: the header's fields and the transactions. *)

SerializeBlock(b) ==
    b.header \o SerializeVector([i \in DOMAIN b.vtx |-> SerializeTransaction(b.vtx[i], TRUE)])

HeaderFields == 6
CBlocks == [header : [1..HeaderFields -> Digit], vtx : UpToMax(CTransactions)]

UnserializeTxs(r) == UnserializeVector(r, LAMBDA x : UnserializeTransaction(x, TRUE))

UnserializeBlock(r) ==
    Made(UnserializeTxs(ReadBytes(r, HeaderFields)), 2, LAMBDA f : [header |-> f[1], vtx |-> f[2]])
=============================================================================
