------------------------------- MODULE Codecs -------------------------------
(***************************************************************************)
(* The encodings of Serialize and Transaction, the scripts of Script and   *)
(* the texts of StrEncodings put to work on bounded inputs: a step takes   *)
(* one input, runs the code's functions on it and records what they        *)
(* returned in out.  The properties compare that with reference            *)
(* definitions that do not follow the code.                                *)
(***************************************************************************)
EXTENDS Transaction, Script

CONSTANTS
    Ints,         \* sizes and amounts to encode
    ByteStrings,  \* bytes to decode as integers
    Lists,        \* sequences of digits, to be put in containers
    Txs,          \* transactions
    TxBytes,      \* bytes to decode as a transaction
    Blocks,       \* blocks
    Outputs,      \* [type, sol, script]: outputs built from what they pay to
    Scripts,      \* other scripts
    Binaries,     \* bytes to write as text
    Texts,        \* texts to read
    Numbers,      \* numbers as text
    Decimals      \* places of a fixed point number

\* The integers are those of 64 bits, the strings made of bytes, the lists,
\* transactions and blocks such as can be read, and no number is anywhere near as
\* long as its mantissa may be large.
ASSUME InputsAssumption ==
    /\ Ints \subseteq 0..(Power[8] - 1)
    /\ ByteStrings \subseteq Seq(Digit)
    /\ Lists \subseteq CScripts
    /\ Txs \subseteq CTransactions /\ TxBytes \subseteq Seq(Digit)
    /\ Blocks \subseteq CBlocks
    /\ Binaries \subseteq Seq(0..255) /\ Texts \subseteq Seq(Int)
    /\ Numbers \subseteq Seq(Int) /\ Decimals \subseteq Nat
    /\ \A t \in Numbers, d \in Decimals : Len(t) + d + MaxExp <= UPPER_BOUND

VARIABLE out

Idle == [op |-> "none"]
CodecInit == out = Idle
Run(rec) == out' = rec

EncodeInt == \E n \in Ints :
    Run([op |-> "int", in |-> n, compact |-> WriteCompactSize(n), var |-> WriteVarInt(n)])

DecodeInt == \E s \in ByteStrings :
    Run([op |-> "bytes", in |-> s, compact |-> ReadCompactSize(Start(s)),
         var |-> ReadVarInt(Start(s))])

\* One sequence as a blob, a vector of sizes, a vector of pairs, a map and a set.
Pairs(v) == [i \in DOMAIN v |-> <<v[i], i>>]
AsMap(v) == MapOf(Pairs(v))
AsSet(v) == {v[i] : i \in DOMAIN v}

EncodeContainers == \E v \in Lists :
    Run([op |-> "containers", in |-> v, blob |-> SerializeBytes(v),
         string |-> SerializeString(v),
         vector |-> SerializeSizes(v),
         pairs |-> SerializePairs(Pairs(v)),
         map |-> SerializeMap(AsMap(v)),
         set |-> SerializeSet(AsSet(v))])

EncodeTx == \E tx \in Txs :
    Run([op |-> "tx", in |-> tx, wire |-> SerializeTransaction(tx, TRUE),
         hash |-> ComputeHash(tx), whash |-> ComputeWitnessHash(tx)])

DecodeTx == \E s \in TxBytes :
    Run([op |-> "txbytes", in |-> s, got |-> UnserializeTransaction(Start(s), TRUE)])

EncodeBlock == \E b \in Blocks :
    Run([op |-> "block", in |-> b, wire |-> SerializeBlock(b)])

SolveScript == \E s \in Scripts \cup {o.script : o \in Outputs} :
    Run([op |-> "script", in |-> s, solved |-> Solver(s), dests |-> ExtractDestinations(Solver(s))])

EncodeText == \E b \in Binaries :
    Run([op |-> "binary", in |-> b, base64 |-> EncodeBase64(b), base32 |-> EncodeBase32(b),
         hex |-> HexStr(b)])

DecodeText == \E t \in Texts :
    Run([op |-> "text", in |-> t, base64 |-> DecodeBase64(t), base32 |-> DecodeBase32(t),
         hex |-> ParseHex(t)])

ParseNumber == \E t \in Numbers, d \in Decimals :
    Run([op |-> "number", in |-> t, decimals |-> d, got |-> ParseFixedPoint(t, d)])

CodecNext ==
    /\ out = Idle
    /\ \/ EncodeInt \/ DecodeInt \/ EncodeContainers \/ EncodeTx \/ DecodeTx
       \/ EncodeBlock \/ SolveScript \/ EncodeText \/ DecodeText \/ ParseNumber

CodecSpec == CodecInit /\ [][CodecNext]_out

-----------------------------------------------------------------------------
(* Integers *)

\* Value n was read, and the bytes after it were left.
Reads(r, n, rest) == r.ok /\ r.got = <<n>> /\ r.rest = rest

\* CompactSize and VarInt are one-to-one: every integer within the reader's
\* limit comes back as it was written, in the length GetSizeOf announced, and the
\* reader accepts no other bytes for it - a length that is not in its shortest
\* form, or one past the limit, is refused.
IntegersOneToOne ==
    /\ out.op = "int" =>
         LET n == out.in  rest == <<Base - 1, 0>> IN
         /\ Len(out.compact) = GetSizeOfCompactSize(n) /\ Len(out.var) = GetSizeOfVarInt[n]
         /\ IF n <= MAX_SIZE THEN Reads(ReadCompactSize(Start(out.compact \o rest)), n, rest)
            ELSE ~ReadCompactSize(Start(out.compact \o rest)).ok
         /\ IF n <= VarIntMax THEN Reads(ReadVarInt(Start(out.var \o rest)), n, rest)
            ELSE ~ReadVarInt(Start(out.var \o rest)).ok
    /\ out.op = "bytes" =>
         /\ out.compact.ok => WriteCompactSize(Top(out.compact)) \o out.compact.rest = out.in
         /\ out.var.ok => WriteVarInt(Top(out.var)) \o out.var.rest = out.in

-----------------------------------------------------------------------------
(* Values on the wire *)

\* A value comes back from its bytes, whatever follows them, and from no fewer.
Restores(bytes, R(_), v) ==
    /\ \A rest \in {<<>>, <<0>>, <<1, Base - 1>>} : Reads(R(Start(bytes \o rest)), v, rest)
    /\ \A n \in 0..(Len(bytes) - 1) : ~R(Start(SubSeq(bytes, 1, n))).ok

\* What a transaction without inputs looks like cannot be told from the dummy of
\* the extended format, unless it has no outputs either.
Plain(tx) == tx.vin # <<>> \/ tx.vout = <<>>

\* The extended format of a transaction.
Extended(tx) ==
    <<tx.nVersion, 0, 1>> \o SerializeIns(tx.vin) \o SerializeOuts(tx.vout)
    \o SerializeWitnesses(tx.vin) \o <<tx.nLockTime>>

\* Containers, transactions and blocks survive the wire: what is read back is what
\* was written, the bytes that follow are left alone, and a record that is cut
\* short never passes for another one but throws, which is what the loader's
\* handling of torn block files rests on.  Nor does the reader take more than the
\* two formats of a transaction for one.
WireRoundTrip ==
    /\ out.op = "containers" =>
         LET v == out.in IN
         /\ Restores(out.blob, UnserializeBytes, v)
         /\ Restores(out.string, UnserializeString, v)
         /\ Restores(out.string, LAMBDA r : UnserializeLimited(r, Len(v)), v)
         /\ v # <<>> => ~UnserializeLimited(Start(out.string), Len(v) - 1).ok
         /\ Restores(out.vector, UnserializeSizes, v)
         /\ Restores(out.pairs, UnserializePairs, Pairs(v))
         /\ Restores(out.map, UnserializeMap, AsMap(v))
         /\ Restores(out.set, UnserializeSet, AsSet(v))
    /\ out.op = "tx" /\ Plain(out.in) =>
         Restores(out.wire, LAMBDA r : UnserializeTransaction(r, TRUE), out.in)
    /\ out.op = "block" /\ (\A i \in DOMAIN out.in.vtx : Plain(out.in.vtx[i])) =>
         Restores(out.wire, UnserializeBlock, out.in)
    /\ out.op = "txbytes" /\ out.got.ok =>
         LET used == SubSeq(out.in, 1, Len(out.in) - Len(out.got.rest))
         IN used \in {SerializeTransaction(Top(out.got), TRUE), Extended(Top(out.got))}

Stripped(tx) == [tx EXCEPT !.vin = [i \in DOMAIN @ |-> [@[i] EXCEPT !.scriptWitness = <<>>]]]

\* The txid, under which the index files an output, says everything about a
\* transaction but its witnesses, and nothing about them; the witness hash says
\* everything, and is the txid exactly when there is no witness.
TxidIgnoresWitness ==
    out.op = "tx" =>
        /\ out.hash = ComputeHash(Stripped(out.in))
        /\ Reads(UnserializeTransaction(Start(out.hash), FALSE), Stripped(out.in), <<>>)
        /\ (out.whash = out.hash) = ~HasWitness(out.in)
        /\ HasWitness(out.in) =>
             Reads(UnserializeTransaction(Start(out.whash), TRUE), out.in, <<>>)

-----------------------------------------------------------------------------
(* Outputs *)

LE(n, w) == [i \in 1..w |-> (n \div Pow(256, i - 1)) % 256]

Concats(A, B) == {a \o b : a \in A, b \in B}

\* The ways to push a key, and the scripts of m of the keys.
Pushes(key) ==
    {<<Len(key)>> \o key} \cup
    {<<SizeOp[1]>> \o LE(Len(key), SizeOp[2]) \o key :
        SizeOp \in {<<OP_PUSHDATA1, 1>>, <<OP_PUSHDATA2, 2>>, <<OP_PUSHDATA4, 4>>}}

KeyPushes(keys) ==
    LET upTo[i \in 0..Len(keys)] ==
            IF i = 0 THEN {<<>>} ELSE Concats(upTo[i - 1], Pushes(keys[i]))
    IN upTo[Len(keys)]

\* The scripts that pay to data of a type.
Templates(type, sol) ==
    CASE type = "PUBKEY"     -> {<<Len(sol[1])>> \o sol[1] \o <<OP_CHECKSIG>>}
      [] type = "PUBKEYHASH" -> {<<OP_DUP, OP_HASH160, 20>> \o sol[1]
                                 \o <<OP_EQUALVERIFY, OP_CHECKSIG>>}
      [] type = "SCRIPTHASH" -> {<<OP_HASH160, 20>> \o sol[1] \o <<OP_EQUAL>>}
      [] type \in {"WITNESS_V0_KEYHASH", "WITNESS_V0_SCRIPTHASH"} ->
           {<<OP_0, Len(sol[1])>> \o sol[1]}
      [] type = "WITNESS_UNKNOWN" -> {<<EncodeOP_N(sol[1][1]), Len(sol[2])>> \o sol[2]}
      [] type = "MULTISIG" ->
           {<<EncodeOP_N(sol[1][1])>> \o k \o <<EncodeOP_N(Len(sol) - 2), OP_CHECKMULTISIG>> :
              k \in KeyPushes(SubSeq(sol, 2, Len(sol) - 1))}
      [] OTHER -> {}

\* The data that a type takes: bytes, keys of their size, and of a multisig output
\* as many keys as its last item says, no fewer than have to sign.
Takes(type, sol) ==
    /\ sol \in Seq(Seq(0..255))
    /\ \/ type = "PUBKEY" /\ Len(sol) = 1 /\ ValidSize(sol[1])
       \/ type \in {"PUBKEYHASH", "SCRIPTHASH", "WITNESS_V0_KEYHASH"} /\ Len(sol) = 1
          /\ Len(sol[1]) = 20
       \/ type = "WITNESS_V0_SCRIPTHASH" /\ Len(sol) = 1 /\ Len(sol[1]) = 32
       \/ type = "WITNESS_UNKNOWN" /\ Len(sol) = 2 /\ Len(sol[1]) = 1 /\ sol[1][1] \in 1..16
          /\ Len(sol[2]) \in 2..40
       \/ type = "MULTISIG" /\ Len(sol) \in 3..18 /\ Len(sol[1]) = 1 /\ sol[1][1] \in 1..(Len(sol) - 2)
          /\ sol[Len(sol)] = <<Len(sol) - 2>> /\ \A i \in 2..(Len(sol) - 1) : ValidSize(sol[i])

\* Scripts are made of bytes, and an output's script is one that pays to its data.
ASSUME OutputsAssumption ==
    /\ Scripts \cup {o.script : o \in Outputs} \subseteq Seq(0..255)
    /\ \A o \in Outputs : Takes(o.type, o.sol) /\ o.script \in Templates(o.type, o.sol)

\* Solver reads a type and its data out of a script exactly when the script is
\* that type's template filled with the data; then every destination in it has an
\* address, the address holds all of the data, and between one and all of the
\* destinations have to sign.
SolverExact ==
    out.op = "script" =>
        LET s == out.in  type == out.solved.type  sol == out.solved.sol
            d == out.dests
        IN /\ \A o \in Outputs : o.script = s => type = o.type /\ sol = o.sol
           /\ type \notin {"NONSTANDARD", "NULL_DATA"} <=> d.ok
           /\ type = "NULL_DATA" => IsUnspendable(s)
           /\ d.ok => /\ s \in Templates(type, sol)
                      /\ d.nRequired \in 1..Len(d.dests)
                      /\ \A i \in DOMAIN d.dests :
                           LET a == EncodeDestination(d.dests[i]) IN
                           /\ a # <<>>
                           /\ a[1] = "bc" =>
                                LET bytes == ConvertBits(Tail(a[2]), 5, 8, FALSE) IN
                                /\ bytes.ok /\ bytes.out = d.dests[i].data
                                /\ Len(bytes.out) \in 2..40

-----------------------------------------------------------------------------
(* Texts *)

\* The text ends after s, or goes on with a NUL.
EndsAfter(text, s) ==
    /\ Len(s) <= Len(text) /\ SubSeq(text, 1, Len(s)) = s
    /\ Len(s) < Len(text) => text[Len(s) + 1] = Nul

\* Base64, Base32 and hexadecimal give back the bytes they were made of, and a
\* text that is accepted is the one that its bytes are written as: all of it in
\* hexadecimal, and all up to the first NUL in Base64 and Base32, whose decoders
\* read a C string and accept whatever follows the NUL.
TextRoundTrip ==
    /\ out.op = "binary" =>
         /\ DecodeBase64(out.base64) = [valid |-> TRUE, ret |-> out.in]
         /\ DecodeBase32(out.base32) = [valid |-> TRUE, ret |-> out.in]
         /\ ParseHex(out.hex) = out.in /\ (out.in # <<>> => IsHex(out.hex))
    /\ out.op = "text" =>
         /\ out.base64.valid => EndsAfter(out.in, EncodeBase64(out.base64.ret))
         /\ out.base32.valid => EndsAfter(out.in, EncodeBase32(out.base32.ret))
         /\ IsHex(out.in) => HexStr(out.hex) = out.in

\* The number a text stands for is digits * 10^places; in units of 10^-d it is
\* parsed exactly when it is a whole number within the bound, and to its exact
\* value.  (A zero with a large exponent may be refused.)
FixedPointExact ==
    out.op = "number" =>
        LET p == NumberParts(out.in)
            digits == Decimal(p.int \o p.frac)
            places == (IF p.eneg THEN -Decimal(p.exp) ELSE Decimal(p.exp))
                      - Len(p.frac) + out.decimals
            whole == IF places >= 0 THEN places < MaxExp
                     ELSE -places <= Len(p.int \o p.frac) /\ digits % Pow(10, -places) = 0
            value == IF places >= 0 THEN digits * Pow(10, places) ELSE digits \div Pow(10, -places)
            fits == p.ok /\ whole /\ value <= UPPER_BOUND
        IN /\ out.got.ok => fits /\ out.got.amount = (IF p.neg THEN -value ELSE value)
           /\ fits /\ digits # 0 => out.got.ok
=============================================================================
