------------------------------- MODULE Script -------------------------------
(***************************************************************************)
(* Output scripts (src/src/blockchain/bitcoin/script.cpp, script.h): the   *)
(* walk over a script's operations, the classification of an output, the   *)
(* destinations in it, and what of them key_io.cpp makes an address of.    *)
(* A script is the sequence of its bytes; Hash160 is a name for the bytes  *)
(* it hashes.                                                              *)
(***************************************************************************)
EXTENDS StrEncodings

OP_0 == 0
OP_PUSHDATA1 == 76
OP_PUSHDATA2 == 77
OP_PUSHDATA4 == 78
OP_1 == 81
OP_16 == 96
OP_RETURN == 106
OP_DUP == 118
OP_EQUAL == 135
OP_EQUALVERIFY == 136
OP_HASH160 == 169
OP_CHECKSIG == 172
OP_CHECKMULTISIG == 174
OP_INVALIDOPCODE == 255

PUBLIC_KEY_SIZE == 65
COMPRESSED_PUBLIC_KEY_SIZE == 33

Byte(s, i) == s[i + 1]               \* script[i]
Slice(s, i, j) == SubSeq(s, i + 1, j) \* [begin() + i, begin() + j)
Back(s) == s[Len(s)]

\* uint16 and uint32, least significant byte first, as far as a size matters.
ReadLE(s, pc, w) ==
    LET v[i \in 0..w] == IF i = w THEN 0 ELSE Byte(s, pc + i) + 256 * v[i + 1] IN v[0]

-----------------------------------------------------------------------------
(* Operations *)

NoOp(pc) == [ok |-> FALSE, opcode |-> OP_INVALIDOPCODE, data |-> <<>>, pc |-> pc]

\* How many bytes after the opcode hold the size of the data it pushes.
SizeBytes(opcode) ==
    CASE opcode = OP_PUSHDATA1 -> 1 [] opcode = OP_PUSHDATA2 -> 2
      [] opcode = OP_PUSHDATA4 -> 4 [] OTHER -> 0

GetScriptOp(s, pc) ==
    IF pc >= Len(s) THEN NoOp(pc)
    ELSE LET opcode == Byte(s, pc)
             w == SizeBytes(opcode)
             from == pc + 1 + w
         IN IF opcode > OP_PUSHDATA4
            THEN [ok |-> TRUE, opcode |-> opcode, data |-> <<>>, pc |-> pc + 1]
            ELSE IF from > Len(s) THEN NoOp(pc + 1)
            ELSE LET nSize == IF w = 0 THEN opcode ELSE ReadLE(s, pc + 1, w) IN
                 IF Len(s) - from < nSize THEN NoOp(from)
                 ELSE [ok |-> TRUE, opcode |-> opcode, data |-> Slice(s, from, from + nSize),
                       pc |-> from + nSize]

\* The operations from pc on, the one that GetScriptOp refuses included.
Ops(s, start) ==
    LET walk[pc \in Nat] ==
            LET op == GetScriptOp(s, pc) IN
            IF op.ok THEN <<op>> \o walk[op.pc] ELSE IF pc < Len(s) THEN <<op>> ELSE <<>>
    IN walk[start]

DecodeOP_N(opcode) == IF opcode = OP_0 THEN 0 ELSE opcode - (OP_1 - 1)
EncodeOP_N(n) == IF n = 0 THEN OP_0 ELSE OP_1 + n - 1
IsSmallInteger(opcode) == opcode \in OP_1..OP_16

IsPushOnly(s, pc) == \A i \in DOMAIN Ops(s, pc) : Ops(s, pc)[i].ok /\ Ops(s, pc)[i].opcode <= OP_16

IsUnspendable(s) == (Len(s) > 0 /\ Byte(s, 0) = OP_RETURN) \/ Len(s) > 10000

-----------------------------------------------------------------------------
(* Templates *)

IsPayToScriptHash(s) ==
    Len(s) = 23 /\ Byte(s, 0) = OP_HASH160 /\ Byte(s, 1) = 20 /\ Byte(s, 22) = OP_EQUAL

IsPayToWitnessScriptHash(s) == Len(s) = 34 /\ Byte(s, 0) = OP_0 /\ Byte(s, 1) = 32

IsWitnessProgram(s) ==
    /\ Len(s) >= 4 /\ Len(s) <= 42
    /\ Byte(s, 0) = OP_0 \/ IsSmallInteger(Byte(s, 0))
    /\ Byte(s, 1) + 2 = Len(s)

GetLen(chHeader) ==
    IF chHeader \in {2, 3} THEN COMPRESSED_PUBLIC_KEY_SIZE
    ELSE IF chHeader \in {4, 6, 7} THEN PUBLIC_KEY_SIZE ELSE 0
ValidSize(vch) == Len(vch) > 0 /\ GetLen(vch[1]) = Len(vch)

\* <size> key OP_CHECKSIG, for either size of a key.
PubkeyOf(s) == Slice(s, 1, Len(s) - 1)
MatchPayToPubkey(s) ==
    /\ Len(s) \in {PUBLIC_KEY_SIZE + 2, COMPRESSED_PUBLIC_KEY_SIZE + 2}
    /\ Byte(s, 0) = Len(s) - 2 /\ Back(s) = OP_CHECKSIG
    /\ ValidSize(PubkeyOf(s))

MatchPayToPubkeyHash(s) ==
    /\ Len(s) = 25 /\ Byte(s, 0) = OP_DUP /\ Byte(s, 1) = OP_HASH160 /\ Byte(s, 2) = 20
    /\ Byte(s, 23) = OP_EQUALVERIFY /\ Byte(s, 24) = OP_CHECKSIG

\* required, keys, their number, OP_CHECKMULTISIG: the keys are the pushes after
\* the first operation up to the first that has not the size of a key.
KeysIn(ops) ==
    LET key(i) == ops[i].ok /\ ValidSize(ops[i].data)
    IN (CHOOSE n \in 0..Len(ops) :
          /\ \A i \in 2..n : key(i)
          /\ n >= 1 /\ (n < Len(ops) => ~key(n + 1))) - 1

\* Mutant: the number of keys is not compared with the keys.
MultisigOps_count(s, ops, n) ==
    /\ ops[1].ok /\ IsSmallInteger(ops[1].opcode)
    /\ Len(ops) >= n + 2 /\ IsSmallInteger(ops[n + 2].opcode)
    /\ DecodeOP_N(ops[n + 2].opcode) >= DecodeOP_N(ops[1].opcode)
    /\ ops[n + 2].pc + 1 = Len(s)

MultisigOps(s, ops, n) ==
    /\ ops[1].ok /\ IsSmallInteger(ops[1].opcode)
    /\ Len(ops) >= n + 2 /\ IsSmallInteger(ops[n + 2].opcode)
    /\ n = DecodeOP_N(ops[n + 2].opcode) /\ n >= DecodeOP_N(ops[1].opcode)
    /\ ops[n + 2].pc + 1 = Len(s)

MatchMultisig(s) ==
    /\ Len(s) >= 1 /\ Back(s) = OP_CHECKMULTISIG
    /\ LET ops == Ops(s, 0) IN MultisigOps(s, ops, KeysIn(ops))

-----------------------------------------------------------------------------
(* The classification of an output: its type and the data in it. *)

Solved(type, solutions) == [type |-> type, sol |-> solutions]

Solver(s) ==
    IF IsPayToScriptHash(s) THEN Solved("SCRIPTHASH", <<Slice(s, 2, 22)>>)
    ELSE IF IsWitnessProgram(s)
    THEN LET version == DecodeOP_N(Byte(s, 0))  program == Slice(s, 2, Len(s)) IN
         IF version = 0 /\ Len(program) = 20 THEN Solved("WITNESS_V0_KEYHASH", <<program>>)
         ELSE IF version = 0 /\ Len(program) = 32 THEN Solved("WITNESS_V0_SCRIPTHASH", <<program>>)
         ELSE IF version # 0 THEN Solved("WITNESS_UNKNOWN", <<<<version>>, program>>)
         ELSE Solved("NONSTANDARD", <<>>)
    ELSE IF Len(s) >= 1 /\ Byte(s, 0) = OP_RETURN /\ IsPushOnly(s, 1)
    THEN Solved("NULL_DATA", <<>>)
    ELSE IF MatchPayToPubkey(s) THEN Solved("PUBKEY", <<PubkeyOf(s)>>)
    ELSE IF MatchPayToPubkeyHash(s) THEN Solved("PUBKEYHASH", <<Slice(s, 3, 23)>>)
    ELSE IF MatchMultisig(s)
    THEN LET ops == Ops(s, 0)  n == KeysIn(ops) IN
         Solved("MULTISIG", <<<<DecodeOP_N(ops[1].opcode)>>>>
                            \o [i \in 1..n |-> ops[i + 1].data] \o <<<<n>>>>)
    ELSE Solved("NONSTANDARD", <<>>)

Dest(type, data) == [type |-> type, data |-> data, version |-> 0]
CNoDestination == Dest("CNoDestination", <<>>)
CKeyID(h) == Dest("CKeyID", h)
Hash160(vch) == <<"Hash160", vch>>

\* ExtractDestination: the destination in a script that Solver found to be which,
\* or CNoDestination for FALSE.
ExtractDestination(which) ==
    CASE which.type = "PUBKEY"      -> CKeyID(Hash160(which.sol[1]))
      [] which.type = "PUBKEYHASH"  -> CKeyID(which.sol[1])
      [] which.type = "SCRIPTHASH"  -> Dest("CScriptID", which.sol[1])
      [] which.type = "WITNESS_V0_KEYHASH"    -> Dest("WitnessV0KeyHash", which.sol[1])
      [] which.type = "WITNESS_V0_SCRIPTHASH" -> Dest("WitnessV0ScriptHash", which.sol[1])
      [] which.type = "WITNESS_UNKNOWN" ->
           [Dest("WitnessUnknown", which.sol[2]) EXCEPT !.version = which.sol[1][1]]
      [] OTHER -> CNoDestination

\* ExtractDestinations: the destinations and how many of them must sign.
ExtractDestinations(which) ==
    LET none == [ok |-> FALSE, dests |-> <<>>, nRequired |-> 0]
        keys == SubSeq(which.sol, 2, Len(which.sol) - 1)
    IN CASE which.type \in {"NONSTANDARD", "NULL_DATA"} -> none
         [] which.type = "MULTISIG" ->
              IF keys = <<>> THEN none
              ELSE [ok |-> TRUE, nRequired |-> which.sol[1][1],
                    dests |-> [i \in DOMAIN keys |-> CKeyID(Hash160(keys[i]))]]
         [] OTHER -> [ok |-> TRUE, nRequired |-> 1, dests |-> <<ExtractDestination(which)>>]

\* EncodeDestination: what goes into Base58Check (a version byte and the hash) or
\* into Bech32 (the version and the program in groups of five bits); empty for a
\* destination that has no address.
Base58Check(version, hash) == <<"base58", <<version>> \o hash>>
Bech32(version, program) == <<"bc", <<version>> \o ConvertBits(program, 8, 5, TRUE).out>>

EncodeDestination(d) ==
    CASE d.type = "CKeyID"    -> Base58Check(0, d.data)
      [] d.type = "CScriptID" -> Base58Check(5, d.data)
      [] d.type \in {"WitnessV0KeyHash", "WitnessV0ScriptHash"} -> Bech32(0, d.data)
      [] d.type = "WitnessUnknown" /\ d.version \in 1..16 /\ Len(d.data) \in 2..40 ->
           Bech32(d.version, d.data)
      [] OTHER -> <<>>
=============================================================================
