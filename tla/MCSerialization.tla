-------------------------- MODULE MCSerialization --------------------------
(***************************************************************************)
(* Streams and encodings, checked side by side: a behaviour either calls   *)
(* methods of the two streams or runs the codecs on one input.             *)
(***************************************************************************)
EXTENDS CDataStream, Codecs, TLC, SequencesExt

\* Bytes of one bit.
MCxor(a, b) == (a + b) % 2

SeqsUpTo(S, n) == UNION {[1..k -> S] : k \in 0..n}
Digits == 0..(Base - 1)

MCInts == 0..(Power[4] + 64)

\* Every string of four bytes, and the long forms of CompactSize.
MCByteStrings ==
    SeqsUpTo(Digits, 4)
    \cup {<<Base - 2>> \o s : s \in [1..4 -> Digits]}
    \cup {<<Base - 1>> \o s : s \in [1..8 -> {0, 1}]}

\* Past the one-byte sizes (Base - 4) and past a chunk.
MCLists == SeqsUpTo({0, Base - 2}, 7) \cup SeqsUpTo(Digits, 2)

\* Inputs with and without a witness, empty items in it included; outputs.
In == [prevout : {[hash |-> 1, n |-> 0]}, scriptSig : {<<>>, <<0, 1>>}, nSequence : {1},
       scriptWitness : {<<>>, <<<<>>>>, <<<<1>>, <<>>>>}]
Out == [nValue : {0, 1}, scriptPubKey : {<<>>, <<1>>}]
MCTxs == [nVersion : {1}, vin : SeqsUpTo(In, 2), vout : SeqsUpTo(Out, 2), nLockTime : {0}]

MCTxBytes ==
    SeqsUpTo({0, 1}, 11) \cup {<<1, 0>> \o s : s \in SeqsUpTo(0..3, 5)}
    \cup {<<1, 0, f, 1, 0, 0, 0, 0, 0>> \o s : f \in 0..3, s \in SeqsUpTo(0..2, 4)}

MCBlocks ==
    LET some == {tx \in MCTxs : Len(tx.vin) = 1 /\ Len(tx.vout) = 1}
    IN [header : {[i \in 1..HeaderFields |-> i]}, vtx : SeqsUpTo(some, 1) \cup
          {<<t, u>> : t \in some, u \in {x \in some : x.vout[1].nValue = 0 /\ x.vin[1].scriptSig = <<>>}}]

-----------------------------------------------------------------------------
(* Outputs of every type, and each with one byte changed, added or lost. *)

Fill(first, n) == [i \in 1..n |-> IF i = 1 THEN first ELSE 7]
Keys == {Fill(2, 33), Fill(4, 65)}
Sols ==
    [PUBKEY |-> {<<k>> : k \in Keys}, PUBKEYHASH |-> {<<Fill(1, 20)>>},
     SCRIPTHASH |-> {<<Fill(1, 20)>>}, WITNESS_V0_KEYHASH |-> {<<Fill(0, 20)>>},
     WITNESS_V0_SCRIPTHASH |-> {<<Fill(1, 32)>>},
     WITNESS_UNKNOWN |-> {<<<<v>>, Fill(9, n)>> : v \in {1, 16}, n \in {2, 20, 32, 40}},
     MULTISIG |-> {<<<<m>>>> \o k \o <<<<Len(k)>>>> :
                     m \in {1}, k \in {<<a>> : a \in Keys}}
                  \cup {<<<<2>>, Fill(3, 33), Fill(2, 33), <<2>>>>}]
MCOutputs ==
    UNION {UNION {{[type |-> t, sol |-> sol, script |-> s] : s \in Templates(t, sol)} :
                    sol \in Sols[t]} : t \in DOMAIN Sols}

Opcodes == {OP_0, 1, 2, 19, 20, 21, 33, 34, OP_PUSHDATA1, OP_PUSHDATA2, OP_1, OP_1 + 1, OP_16,
            OP_16 + 1, OP_RETURN, OP_EQUAL, OP_HASH160, OP_CHECKSIG, OP_CHECKMULTISIG}
Places(s) == {1, 2, 3, 4, 24, 36, 37, Len(s) - 1, Len(s)} \cap DOMAIN s
Near(s) ==
    {[s EXCEPT ![i] = b] : i \in Places(s), b \in Opcodes}
    \cup {SubSeq(s, 1, Len(s) - 1), s \o <<0>>, Tail(s)}
    \cup {SubSeq(s, 1, i) \o <<0>> \o SubSeq(s, i + 1, Len(s)) : i \in {2, 3}}

MCScripts ==
    UNION {Near(o.script) : o \in MCOutputs}
    \cup {<<v, n>> \o Fill(3, n) : v \in {OP_0, OP_1}, n \in {1, 2, 40, 41}}
    \cup {<<OP_RETURN>> \o s : s \in SeqsUpTo({0, 1, OP_PUSHDATA1, OP_16, OP_DUP}, 3)}
    \cup SeqsUpTo({OP_0, OP_1, OP_CHECKMULTISIG}, 3)

-----------------------------------------------------------------------------
MCBinaries == SeqsUpTo({0, 1, 128, 255}, 5) \cup {<<b>> : b \in 0..255}
MCTexts == SeqsUpTo({0, 16, Pad}, 8) \cup SeqsUpTo({0, 4, 10, 63, Pad, Other, Space, Nul}, 4)
           \cup {<<16, 16, Pad, Pad, Nul>> \o s : s \in SeqsUpTo({Nul, 0, Pad}, 2)}
MCNumbers == SeqsUpTo({0, 1, 9, Minus, Point, Exp}, 5)
             \cup {<<1, Exp, Plus_, 1>>, <<1, Exp, Plus_>>, <<1, 0, 0, Point, 0, 1>>, <<Other>>}

-----------------------------------------------------------------------------
Init == StreamInit /\ CodecInit
Next ==
    \/ out = Idle /\ StreamNext /\ UNCHANGED out
    \/ scall.by = "Init" /\ CodecNext /\ UNCHANGED streamVars

Spec == Init /\ [][Next]_<<ds, scall, out>>
=============================================================================
