---------------------------- MODULE StrEncodings ----------------------------
(***************************************************************************)
(* Bytes and numbers as text (src/src/blockchain/bitcoin/strencodings.cpp, *)
(* util_strencodings.h).  A character is what the tables of the code make  *)
(* of it: the value of a digit, or one of the marks below.  Both cases of  *)
(* a letter that the tables do not tell apart are one character.           *)
(***************************************************************************)
EXTENDS Integers, Sequences

CONSTANTS
    UPPER_BOUND,  \* the largest mantissa of a fixed point number, 10^MaxExp - 1
    MaxExp        \* 18

\* b to the k.
Pow(b, k) ==
    LET power[i \in Nat] == IF i = 0 THEN 1 ELSE b * power[i - 1] IN power[k]

ASSUME StrEncodingsAssumption == MaxExp \in Nat \ {0} /\ UPPER_BOUND = Pow(10, MaxExp) - 1

Other == -1  \* no digit
Pad == -2    \* '='
Space == -3
Minus == -4
Plus_ == -5
Point == -6
Exp == -7    \* 'e' and 'E'
Nul == -8    \* the character 0

At(s, i) == IF i \in DOMAIN s THEN s[i] ELSE Other

\* The first position from i on whose character is not in S.
SkipOver(s, i, S) ==
    CHOOSE j \in i..(Len(s) + 1) :
        /\ \A k \in i..(j - 1) : s[k] \in S
        /\ j <= Len(s) => s[j] \notin S

\* What a function that takes a const char* sees of str.c_str().
CStr(text) == SubSeq(text, 1, SkipOver(text, 1, Int \ {Nul}) - 1)

-----------------------------------------------------------------------------
(* Groups of bits *)

ConvertBits(s, from, to, pad) ==
    LET step[i \in 0..Len(s)] ==
            IF i = 0 THEN [acc |-> 0, bits |-> 0, out |-> <<>>]
            ELSE LET p    == step[i - 1]
                     acc  == (p.acc * Pow(2, from) + s[i]) % Pow(2, from + to - 1)
                     bits == p.bits + from
                 IN [acc |-> acc, bits |-> bits % to,
                     out |-> p.out \o [j \in 1..(bits \div to) |->
                                         (acc \div Pow(2, bits - j * to)) % Pow(2, to)]]
        end  == step[Len(s)]
        last == (end.acc * Pow(2, to - end.bits)) % Pow(2, to)
    IN IF pad
       THEN [ok |-> TRUE, out |-> IF end.bits > 0 THEN Append(end.out, last) ELSE end.out]
       ELSE [ok |-> end.bits < from /\ last = 0, out |-> end.out]

\* Base64 (k = 6, groups of 4) and Base32 (k = 5, groups of 8).
Group(k) == IF k = 6 THEN 4 ELSE 8

EncodeBase(k, bytes) ==
    LET str == ConvertBits(bytes, 8, k, TRUE).out
    IN str \o [i \in 1..((-Len(str)) % Group(k)) |-> Pad]

\* Mutant: bits left over at the end are dropped without a look at them.
DecodeBase_rest(k, text) ==
    LET q == SkipOver(text, 1, 0..(Pow(2, k) - 1))
        p == SkipOver(text, q, {Pad})
    IN [valid |-> p > Len(text) /\ (p - 1) % Group(k) = 0 /\ p - q < Group(k),
        ret   |-> ConvertBits(SubSeq(text, 1, q - 1), k, 8, FALSE).out]

\* The digits are converted as far as they go; the text is valid when nothing
\* but enough padding follows them.
DecodeBase(k, text) ==
    LET q == SkipOver(text, 1, 0..(Pow(2, k) - 1))
        p == SkipOver(text, q, {Pad})
        bits == ConvertBits(SubSeq(text, 1, q - 1), k, 8, FALSE)
    IN [valid |-> bits.ok /\ p > Len(text) /\ (p - 1) % Group(k) = 0 /\ p - q < Group(k),
        ret   |-> bits.out]

EncodeBase64(bytes) == EncodeBase(6, bytes)
DecodeBase64(text)  == DecodeBase(6, CStr(text))
EncodeBase32(bytes) == EncodeBase(5, bytes)
DecodeBase32(text)  == DecodeBase(5, CStr(text))

-----------------------------------------------------------------------------
(* Hexadecimal *)

Hex == 0..15

HexStr(bytes) ==
    [i \in 1..(2 * Len(bytes)) |->
        IF i % 2 = 1 THEN bytes[(i + 1) \div 2] \div 16 ELSE bytes[i \div 2] % 16]

IsHex(text) == (\A i \in DOMAIN text : text[i] \in Hex) /\ Len(text) > 0 /\ Len(text) % 2 = 0

\* Pairs of digits, white space before a pair allowed, up to anything else, the
\* end of the C string included.
ParseHex(text) ==
    LET from[n \in 1..(Len(text) + 1)] ==
            LET i == SkipOver(text, n, {Space}) IN
            IF At(text, i) \in Hex /\ At(text, i + 1) \in Hex
            THEN <<16 * text[i] + text[i + 1]>> \o from[i + 2]
            ELSE <<>>
    IN from[1]

-----------------------------------------------------------------------------
(* Fixed point numbers *)

IsDigit == 0..9

\* Mutant: zeros that were held back are forgotten when a digit follows them.
ProcessMantissaDigit_once(st, ch) ==
    IF ch = 0 THEN [st EXCEPT !.tzeros = @ + 1]
    ELSE [ok |-> st.ok /\ st.mantissa <= UPPER_BOUND \div 10, tzeros |-> 0,
          mantissa |-> st.mantissa * 10 + ch]

\* Zeros are held back until a digit follows them.
ProcessMantissaDigit(st, ch) ==
    IF ch = 0 THEN [st EXCEPT !.tzeros = @ + 1]
    ELSE [ok |-> st.ok /\ \A i \in 0..st.tzeros : st.mantissa * Pow(10, i) <= UPPER_BOUND \div 10,
          tzeros |-> 0, mantissa |-> st.mantissa * Pow(10, st.tzeros + 1) + ch]

Mantissa(digits) ==
    LET upTo[i \in 0..Len(digits)] ==
            IF i = 0 THEN [ok |-> TRUE, mantissa |-> 0, tzeros |-> 0]
            ELSE ProcessMantissaDigit(upTo[i - 1], digits[i])
    IN upTo[Len(digits)]

Decimal(digits) ==
    LET upTo[i \in 0..Len(digits)] == IF i = 0 THEN 0 ELSE 10 * upTo[i - 1] + digits[i]
    IN upTo[Len(digits)]

\* The parts of a number, given where its sign, integer and fraction end.
PartsAt(val, i0, i1, f1) ==
    LET point == At(val, i1) = Point
        exp == At(val, f1) = Exp
        e0 == IF ~exp THEN f1 ELSE IF At(val, f1 + 1) \in {Plus_, Minus} THEN f1 + 2 ELSE f1 + 1
        e1 == IF exp THEN SkipOver(val, e0, IsDigit) ELSE f1
    IN [ok   |-> /\ i0 <= Len(val) /\ i1 > i0
                 /\ (point => f1 > i1 + 1) /\ (exp => e1 > e0) /\ e1 = Len(val) + 1,
        neg  |-> i0 = 2,
        int  |-> IF At(val, i0) = 0 THEN <<>> ELSE SubSeq(val, i0, i1 - 1),
        frac |-> IF point THEN SubSeq(val, i1 + 1, f1 - 1) ELSE <<>>,
        eneg |-> exp /\ At(val, f1 + 1) = Minus,
        exp  |-> SubSeq(val, e0, e1 - 1)]

\* A zero is an integer of its own.
SignEnd(val) == IF At(val, 1) = Minus THEN 2 ELSE 1
IntEnd(val, i0) == IF At(val, i0) = 0 THEN i0 + 1 ELSE SkipOver(val, i0, IsDigit)
FracEnd(val, i1) == IF At(val, i1) = Point THEN SkipOver(val, i1 + 1, IsDigit) ELSE i1

NumberParts(val) ==
    LET i0 == SignEnd(val)  i1 == IntEnd(val, i0) IN PartsAt(val, i0, i1, FracEnd(val, i1))

\* The number in units of 10^-decimals.
ParseFixedPoint(val, decimals) ==
    LET parts == NumberParts(val)
        mant  == Mantissa(parts.int \o parts.frac)
        exponent == (IF parts.eneg THEN -Decimal(parts.exp) ELSE Decimal(parts.exp))
                    - Len(parts.frac) + mant.tzeros + decimals
        expOK == \A n \in 0..(Len(parts.exp) - 1) :
                    Decimal(SubSeq(parts.exp, 1, n)) <= UPPER_BOUND \div 10
        inRange == \A i \in 0..(exponent - 1) : mant.mantissa * Pow(10, i) <= UPPER_BOUND \div 10
        amount == mant.mantissa * Pow(10, exponent)
    IN IF /\ parts.ok /\ mant.ok /\ expOK /\ exponent >= 0 /\ exponent < MaxExp
          /\ inRange /\ amount <= UPPER_BOUND
       THEN [ok |-> TRUE, amount |-> IF parts.neg THEN -amount ELSE amount]
       ELSE [ok |-> FALSE, amount |-> 0]
=============================================================================
