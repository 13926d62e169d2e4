------------------------ MODULE JsonRPCServerProofs ------------------------
(***************************************************************************)
(* Proofs about one connection, for any sizes of buffers, requests and     *)
(* records and any way the stream is cut: the types, the bounds of the     *)
(* internal buffer and, for a client that waits for its replies, that no   *)
(* byte is lost on the way to the parser and that well-formed requests     *)
(* close it for a framing reason only when strchr runs over the end of the *)
(* data.  For every client, TLS or not: the replies come in the order of   *)
(* the requests.                                                           *)
(***************************************************************************)
EXTENDS JsonRPCServer, TLAPS, SequenceTheorems, FiniteSetTheorems,
        WellFoundedInduction

-----------------------------------------------------------------------------
(* The inductive invariant. *)

(* Every byte of text belongs to a request that was sent. *)
KnownBytes == {b \in Bytes : b.from = "text" => b.id \in 1..Len(reqs)}
Recs(T) == [size : Nat \ {0}, data : Seq(T)]
StreamInv ==
    /\ wire \in Seq(KnownBytes)
    /\ buf \in Seq(KnownBytes)
    /\ buf_check \in Seq(KnownBytes)
    /\ records \in Seq(Recs(KnownBytes))

(* mbedtls is in the middle of a record, or waits for the next one. *)
RecordInv ==
    /\ in_rec <= Len(records) + 1
    /\ InRecord => in_left < records[in_rec].size
    /\ ~InRecord => in_left = 0
    /\ \A r \in DOMAIN records : r > 2 => records[r].data # <<>>

(* The flags go with the records of the handshake. *)
FlagInv ==
    /\ state \in {{"START"}, {"NORMAL"}} => in_rec = 1
    /\ state = {"SSL_NORMAL", "SSL_HANDSHAKE"} => in_rec \in {1, 2}
    /\ state = {"SSL_NORMAL"} => in_rec >= 3

(* The internal buffer is empty while HandleRead is at work. *)
ParseInv ==
    /\ pc = "http" => buf_check # <<>> /\ buf_check[1].from = "text"
    /\ pc # "idle" => buf = <<>>
    /\ pc = "idle" => buf_check = <<>>

Inv ==
    /\ TypeOK
    /\ StreamInv
    /\ RecordInv
    /\ FlagInv
    /\ ParseInv
    /\ BufferFits

-----------------------------------------------------------------------------
(* Facts about sequences. *)

(* Cutting a sequence in two. *)
LEMMA Cut ==
    ASSUME NEW S, NEW s \in Seq(S), NEW n \in 0..Len(s)
    PROVE  /\ Take(s, n) \in Seq(S) /\ Len(Take(s, n)) = n
           /\ Drop(s, n) \in Seq(S) /\ Len(Drop(s, n)) = Len(s) - n
           /\ Take(s, n) \o Drop(s, n) = s
           /\ \A i \in 1..n : Take(s, n)[i] = s[i]
  <1>1. /\ Take(s, n) \in Seq(S) /\ Len(Take(s, n)) = n
        /\ \A i \in 1..n : Take(s, n)[i] = s[i]
    <2>1. \A i \in 1..n : s[i] \in S
      BY ElementOfSeq
    <2>2. /\ SubSeq(s, 1, n) \in Seq(S)
          /\ Len(SubSeq(s, 1, n)) = IF 1 <= n THEN n - 1 + 1 ELSE 0
          /\ \A i \in 1..(n - 1 + 1) : SubSeq(s, 1, n)[i] = s[1 + i - 1]
      BY <2>1, SubSeqProperties
    <2>. QED  BY <2>2 DEF Take
  <1>2. Drop(s, n) \in Seq(S) /\ Len(Drop(s, n)) = Len(s) - n
    <2>1. \A i \in (n + 1)..Len(s) : s[i] \in S
      BY ElementOfSeq
    <2>2. /\ SubSeq(s, n + 1, Len(s)) \in Seq(S)
          /\ Len(SubSeq(s, n + 1, Len(s)))
                = IF n + 1 <= Len(s) THEN Len(s) - (n + 1) + 1 ELSE 0
      BY <2>1, SubSeqProperties
    <2>. QED  BY <2>2 DEF Drop
  <1>3. Take(s, n) \o Drop(s, n) = s
    <2>. Len(s) \in Nat
      OBVIOUS
    <2>a. 1 \in 1..(Len(s) + 1) /\ n \in (1 - 1)..Len(s) /\ Len(s) \in n..Len(s)
      OBVIOUS
    <2>1. SubSeq(s, 1, n) \o SubSeq(s, n + 1, Len(s)) = SubSeq(s, 1, Len(s))
      BY <2>a, ConcatAdjacentSubSeq, Zenon
    <2>. QED  BY <2>1, SubSeqFull DEF Take, Drop
  <1>. QED  BY <1>1, <1>2, <1>3

LEMMA DropType ==
    ASSUME NEW S, NEW s \in Seq(S), NEW n \in Nat
    PROVE  Drop(s, n) \in Seq(S)
  <1>1. \A i \in (n + 1)..Len(s) : s[i] \in S
    BY ElementOfSeq
  <1>2. SubSeq(s, n + 1, Len(s)) \in Seq(S)
    BY <1>1, SubSeqProperties
  <1>. QED  BY <1>2 DEF Drop

LEMMA KnownAreBytes == KnownBytes \subseteq Bytes
  BY DEF KnownBytes

(* How many records there are is a number. *)
LEMMA RecordsLen ==
    ASSUME StreamInv
    PROVE  Len(records) \in Nat /\ DOMAIN records = 1..Len(records)
  BY LenProperties DEF StreamInv

-----------------------------------------------------------------------------
(* What the client puts on the wire is known. *)

(* The bytes of the next request, once it is sent. *)
LEMMA NewText ==
    ASSUME TypeOK, NEW size \in Sizes
    PROVE  /\ [k \in 1..size |-> Text(Len(reqs) + 1, k)]
                 \in Seq({b \in Bytes : b.from = "text" => b.id \in 1..(Len(reqs) + 1)})
           /\ Len([k \in 1..size |-> Text(Len(reqs) + 1, k)]) = size
           /\ size >= 2
  <1>1. size \in Nat \ {0, 1}
    BY ServerAssumption DEF ServerAssumption
  <1>2. Len(reqs) + 1 \in Nat \ {0}
    BY DEF TypeOK
  <1>3. \A k \in 1..size :
          Text(Len(reqs) + 1, k)
             \in {b \in Bytes : b.from = "text" => b.id \in 1..(Len(reqs) + 1)}
    BY <1>1, <1>2 DEF Text, Bytes
  <1>. DEFINE T == {b \in Bytes : b.from = "text" => b.id \in 1..(Len(reqs) + 1)}
             f == [k \in 1..size |-> Text(Len(reqs) + 1, k)]
  <1>4. f \in [1..size -> T]
    BY <1>3
  <1>. HIDE DEF T
  <1>5. f \in Seq(T) /\ Len(f) = size
    BY <1>1, <1>4
  <1>. QED  BY <1>1, <1>5 DEF T

LEMMA NewUnits ==
    ASSUME NEW r \in Nat \ {0}, NEW size \in Nat
    PROVE  UnitsOf(r, size) \in Seq(KnownBytes)
  <1>1. \A k \in 1..size : [from |-> "tls", id |-> r, k |-> k] \in KnownBytes
    BY DEF KnownBytes, Bytes
  <1>2. UnitsOf(r, size) \in [1..size -> KnownBytes]
    BY <1>1 DEF UnitsOf
  <1>. QED  BY <1>2

(* What was known stays known when another request is sent. *)
LEMMA KnownGrows ==
    ASSUME TypeOK, NEW q, reqs' = Append(reqs, q)
    PROVE  /\ KnownBytes \subseteq KnownBytes'
           /\ KnownBytes' = {b \in Bytes : b.from = "text" => b.id \in 1..(Len(reqs) + 1)}
  <1>1. Len(reqs') = Len(reqs) + 1 /\ Len(reqs) \in Nat
    BY DEF TypeOK
  <1>. QED  BY <1>1 DEF KnownBytes

-----------------------------------------------------------------------------
(* The invariant holds initially and each step keeps it. *)

LEMMA InitInv == Init => Inv
  <1>. SUFFICES ASSUME Init PROVE Inv
    OBVIOUS
  <1>. USE DEF Init
  <1>1. TypeOK
    <2>1. /\ full \in BOOLEAN /\ secure \in BOOLEAN /\ ssl_config \in BOOLEAN
          /\ stray \in BOOLEAN
      OBVIOUS
    <2>2. /\ reqs \in Seq([kind : Kinds, size : Sizes])
          /\ records \in Seq([size : Nat, data : Seq(Bytes)])
          /\ wire \in Seq(Bytes) /\ ssl_buf \in Seq(Bytes)
          /\ buf \in Seq(Bytes) /\ buf_check \in Seq(Bytes)
          /\ out \in Seq(Replies(reqs))
      BY EmptySeq
    <2>3. nread \in 0..JSONRPC_BUFF_LEN /\ faults \in 0..MaxFaults
      BY ServerAssumption DEF ServerAssumption
    <2>4. /\ window \in 1..MaxWindow /\ state \in States /\ pc = "idle" /\ status = "open"
          /\ in_rec \in Nat \ {0} /\ in_left \in Nat /\ len \in Nat /\ queries \in Nat
      BY DEF States
    <2>. HIDE DEF Init
    <2>. QED  BY <2>1, <2>2, <2>3, <2>4 DEF TypeOK
  <1>2. StreamInv
    BY DEF StreamInv
  <1>3. RecordInv
    BY DEF RecordInv, InRecord
  <1>4. FlagInv
    BY DEF FlagInv
  <1>5. ParseInv
    BY DEF ParseInv
  <1>6. BufferFits
    BY ServerAssumption DEF ServerAssumption, BufferFits
  <1>. QED  BY <1>1, <1>2, <1>3, <1>4, <1>5, <1>6 DEF Inv

(* Closing the connection empties its buffers. *)
LEMMA EndInv ==
    ASSUME Inv, NEW why \in Endings, Close(why), stray' \in BOOLEAN
    PROVE  Inv'
  <1>. USE DEF Inv, Close, clientVars, replyVars
  <1>a. KnownBytes' = KnownBytes
    BY DEF KnownBytes
  <1>1. TypeOK'
    <2>1. 0 \in 0..JSONRPC_BUFF_LEN
      BY ServerAssumption DEF ServerAssumption
    <2>2. /\ full' \in BOOLEAN /\ nread' \in 0..JSONRPC_BUFF_LEN /\ status' \in Endings
          /\ pc' = "idle" /\ stray' \in BOOLEAN
          /\ wire' = <<>> /\ ssl_buf' = <<>> /\ buf' = <<>> /\ buf_check' = <<>>
          /\ UNCHANGED <<secure, window, reqs, records, state, ssl_config, in_rec, in_left,
                         len, out, queries, faults>>
      BY <2>1
    <2>3. TypeOK
      OBVIOUS
    <2>. HIDE DEF Inv, Close
    <2>. QED  BY <2>2, <2>3, EmptySeq DEF TypeOK
  <1>2. StreamInv'
    BY <1>a DEF StreamInv
  <1>3. RecordInv'
    BY DEF RecordInv, InRecord
  <1>4. FlagInv'
    BY DEF FlagInv
  <1>5. ParseInv'
    BY DEF ParseInv
  <1>6. BufferFits'
    BY DEF BufferFits, TypeOK
  <1>. HIDE DEF Inv
  <1>. QED  BY <1>1, <1>2, <1>3, <1>4, <1>5, <1>6 DEF Inv

(* One more request: everything that was known is still known. *)
LEMMA RequestSent ==
    ASSUME Inv, NEW kind \in Kinds, NEW size \in Sizes, UNCHANGED out,
           reqs' = Append(reqs, [kind |-> kind, size |-> size])
    PROVE  /\ reqs' \in Seq([kind : Kinds, size : Sizes])
           /\ Len(reqs') = Len(reqs) + 1
           /\ [k \in 1..size |-> Text(Len(reqs) + 1, k)] \in Seq(KnownBytes')
           /\ KnownBytes \subseteq KnownBytes'
           /\ KnownBytes' \subseteq Bytes
           /\ wire \in Seq(KnownBytes') /\ buf \in Seq(KnownBytes')
           /\ buf_check \in Seq(KnownBytes')
           /\ records \in Seq(Recs(KnownBytes'))
           /\ out' \in Seq(Replies(reqs'))
  <1>. USE DEF Inv
  <1>1. reqs' \in Seq([kind : Kinds, size : Sizes]) /\ Len(reqs') = Len(reqs) + 1
    BY DEF TypeOK
  <1>2. KnownBytes \subseteq KnownBytes'
        /\ [k \in 1..size |-> Text(Len(reqs) + 1, k)] \in Seq(KnownBytes')
    BY KnownGrows, NewText
  <1>3. wire \in Seq(KnownBytes') /\ buf \in Seq(KnownBytes')
        /\ buf_check \in Seq(KnownBytes')
    BY <1>2, SeqMonotonic DEF StreamInv
  <1>4. records \in Seq(Recs(KnownBytes'))
    <2>1. Recs(KnownBytes) \subseteq Recs(KnownBytes')
      BY <1>2, SeqMonotonic DEF Recs
    <2>. QED  BY <2>1, SeqMonotonic DEF StreamInv
  <1>5. KnownBytes' \subseteq Bytes
    BY DEF KnownBytes
  <1>6. out' \in Seq(Replies(reqs'))
    <2>. DEFINE R == Replies(reqs)
               Q == Replies(reqs')
    <2>1. R \subseteq Q
      BY <1>1 DEF TypeOK, Replies
    <2>2. out \in Seq(R)
      BY DEF TypeOK
    <2>. HIDE DEF R, Q
    <2>3. out' \in Seq(Q)
      BY <2>1, <2>2, SeqMonotonic
    <2>. QED  BY <2>3 DEF Q
  <1>. QED  BY <1>1, <1>2, <1>3, <1>4, <1>5, <1>6

(* Sending a request without TLS. *)
LEMMA ClientSendsInv ==
    ASSUME Inv, NEW kind \in Kinds, NEW size \in Sizes, ClientSends(kind, size)
    PROVE  Inv'
  <1>. DEFINE text == [k \in 1..size |-> Text(Len(reqs) + 1, k)]
  <1>u. UNCHANGED <<secure, window, records, full, state, ssl_config, ssl_buf, in_rec,
                    in_left, buf, len, pc, buf_check, nread, status, out, queries, faults, stray>>
    BY DEF ClientSends, serverVars, tlsVars, parseVars, replyVars
  <1>s. /\ reqs' \in Seq([kind : Kinds, size : Sizes])
        /\ text \in Seq(KnownBytes') /\ KnownBytes' \subseteq Bytes
        /\ wire \in Seq(KnownBytes') /\ buf \in Seq(KnownBytes')
        /\ buf_check \in Seq(KnownBytes')
        /\ records \in Seq(Recs(KnownBytes'))
        /\ out' \in Seq(Replies(reqs'))
    BY <1>u, RequestSent DEF ClientSends
  <1>w. wire' = wire \o text
    BY DEF ClientSends
  <1>. HIDE DEF text
  <1>2. StreamInv'
    <2>1. wire' \in Seq(KnownBytes')
      BY <1>s, <1>w, ConcatProperties
    <2>. QED  BY <1>s, <1>u, <2>1 DEF StreamInv
  <1>1. TypeOK'
    <2>1. wire' \in Seq(Bytes)
      BY <1>2, <1>s, SeqMonotonic DEF StreamInv
    <2>. QED  BY <1>u, <1>s, <2>1 DEF Inv, TypeOK
  <1>3. RecordInv'
    BY <1>u DEF Inv, RecordInv, InRecord
  <1>4. FlagInv'
    BY <1>u DEF Inv, FlagInv
  <1>5. ParseInv'
    BY <1>u DEF Inv, ParseInv
  <1>6. BufferFits'
    BY <1>u DEF Inv, BufferFits
  <1>. QED  BY <1>1, <1>2, <1>3, <1>4, <1>5, <1>6 DEF Inv

(* More records, the first of which mbedtls may be waiting for. *)
LEMMA RecordsGrow ==
    ASSUME Inv, UNCHANGED <<in_rec, in_left>>, NEW T, T \subseteq Bytes,
           records \in Seq(Recs(T)),
           NEW more \in Seq(Recs(T)),
           records' = records \o more,
           Len(records) >= 2 => \A r \in DOMAIN more : more[r].data # <<>>,
           Len(records) < 2 => Len(more) = 1
    PROVE  /\ RecordInv'
           /\ records' \in Seq(Recs(T))
           /\ records' \in Seq([size : Nat, data : Seq(Bytes)])
  <1>1. /\ records' \in Seq(Recs(T)) /\ Len(records') = Len(records) + Len(more)
        /\ \A i \in 1..(Len(records) + Len(more)) : records'[i] =
               IF i <= Len(records) THEN records[i] ELSE more[i - Len(records)]
    BY ConcatProperties
  <1>2. Recs(T) \subseteq [size : Nat, data : Seq(Bytes)]
    BY SeqMonotonic DEF Recs
  <1>3. records' \in Seq([size : Nat, data : Seq(Bytes)])
    <2>. DEFINE B == [size : Nat, data : Seq(Bytes)]
    <2>. HIDE DEF B
    <2>1. Recs(T) \subseteq B
      BY <1>2 DEF B
    <2>2. records' \in Seq(B)
      BY <1>1, <2>1, SeqMonotonic
    <2>. QED  BY <2>2 DEF B
  <1>4. Len(records) \in Nat /\ Len(more) \in Nat /\ in_rec \in Nat \ {0} /\ in_left \in Nat
    <2>1. Len(records) \in Nat /\ Len(more) \in Nat
      BY LenProperties
    <2>. QED  BY <2>1 DEF Inv, TypeOK
  <1>5. \A r \in DOMAIN records' : r > 2 => records'[r].data # <<>>
    <2>. SUFFICES ASSUME NEW r \in 1..(Len(records) + Len(more)), r > 2
                  PROVE  records'[r].data # <<>>
      BY <1>1
    <2>1. CASE r <= Len(records)
      BY <1>1, <2>1 DEF Inv, RecordInv
    <2>2. CASE r > Len(records)
      <3>1. Len(records) >= 2
        BY <1>4, <2>2
      <3>2. r - Len(records) \in DOMAIN more
        BY <1>4, <2>2
      <3>. QED  BY <1>1, <1>4, <2>2, <3>1, <3>2
    <2>. QED  BY <1>4, <2>1, <2>2
  <1>6. \A r \in DOMAIN records' : records'[r].size \in Nat \ {0}
    <2>1. \A r \in DOMAIN records' : records'[r] \in Recs(T)
      BY <1>1
    <2>. QED  BY <2>1 DEF Recs
  <1>7. DOMAIN records = 1..Len(records) /\ DOMAIN records' = 1..Len(records')
    BY <1>1
  <1>8. RecordInv'
    <2>1. (in_rec <= Len(records) + 1)'
      BY <1>1, <1>4 DEF Inv, RecordInv
    <2>2. InRecord' => in_left' < records'[in_rec'].size
      BY <1>1, <1>4, <1>6, <1>7, SMTT(60) DEF Inv, RecordInv, InRecord
    <2>3. ~InRecord' => in_left' = 0
      BY <1>1, <1>4, <1>7 DEF Inv, RecordInv, InRecord
    <2>. QED  BY <2>1, <2>2, <2>3, <1>5 DEF RecordInv
  <1>. QED  BY <1>1, <1>3, <1>8

(* Sending a request over TLS, as one record or as two. *)
LEMMA ClientSendsTLSInv ==
    ASSUME Inv, NEW kind \in Kinds, NEW size \in Sizes, NEW c \in 0..(size - 1),
           ClientSendsTLS(kind, size, c)
    PROVE  Inv'
  <1>. DEFINE text == [k \in 1..size |-> Text(Len(reqs) + 1, k)]
             r == Len(records) + 1
  <1>u. UNCHANGED <<secure, window, full, state, ssl_config, ssl_buf, in_rec,
                    in_left, buf, len, pc, buf_check, nread, status, out, queries, faults, stray>>
        /\ reqs' = Append(reqs, [kind |-> kind, size |-> size])
        /\ state = {"SSL_NORMAL"}
    BY DEF ClientSendsTLS, serverVars, tlsVars, parseVars, replyVars
  <1>s. /\ reqs' \in Seq([kind : Kinds, size : Sizes])
        /\ text \in Seq(KnownBytes') /\ KnownBytes' \subseteq Bytes
        /\ wire \in Seq(KnownBytes') /\ buf \in Seq(KnownBytes')
        /\ buf_check \in Seq(KnownBytes')
        /\ records \in Seq(Recs(KnownBytes'))
        /\ out' \in Seq(Replies(reqs'))
    BY <1>u, RequestSent
  <1>l. Len(text) = size /\ size \in Nat /\ size >= 2
    BY NewText, ServerAssumption DEF ServerAssumption, Inv
  <1>r. r \in Nat \ {0} /\ r + 1 \in Nat \ {0} /\ Len(records) >= 2
    <2>1. in_rec \in Nat
      BY DEF Inv, TypeOK
    <2>. QED  BY <1>u, <2>1, RecordsLen DEF Inv, RecordInv, FlagInv
  <1>m. \E more \in Seq(Recs(KnownBytes')) :
           /\ records' = records \o more
           /\ \A i \in DOMAIN more : more[i].data # <<>>
           /\ wire' \in Seq(KnownBytes')
    <2>. HIDE DEF r, text
    <2>a. \A d \in Seq(KnownBytes') : d # <<>> =>
             DataRecord(d) \in Recs(KnownBytes') /\ DataRecord(d).data # <<>>
      BY ServerAssumption DEF ServerAssumption, DataRecord, Recs
    <2>b. \A d \in Recs(KnownBytes') : d.size \in Nat
      BY DEF Recs
    <2>c. \A q \in Nat \ {0}, z \in Nat : UnitsOf(q, z) \in Seq(KnownBytes')
      <3>1. \A q \in Nat \ {0}, z \in Nat : UnitsOf(q, z) \in Seq(KnownBytes)
        BY NewUnits
      <3>2. KnownBytes \subseteq KnownBytes'
        BY <1>u, RequestSent
      <3>. QED  BY <3>1, <3>2, SeqMonotonic
    <2>1. CASE c = 0
      <3>. DEFINE whole == DataRecord(text)
      <3>1. records' = Append(records, whole) /\ wire' = wire \o UnitsOf(r, whole.size)
        BY <2>1 DEF ClientSendsTLS, text, r
      <3>2. text # <<>>
        BY <1>l
      <3>3. whole \in Recs(KnownBytes') /\ whole.data # <<>>
        BY <2>a, <3>2, <1>s
      <3>. HIDE DEF whole
      <3>4. records' = records \o <<whole>> /\ <<whole>> \in Seq(Recs(KnownBytes'))
        BY <3>1, <3>3, <1>s, AppendIsConcat
      <3>5. wire' \in Seq(KnownBytes')
        BY <3>1, <3>3, <2>b, <2>c, <1>r, <1>s, ConcatProperties
      <3>6. \A i \in DOMAIN <<whole>> : <<whole>>[i].data # <<>>
        BY <3>3
      <3>. QED  BY <3>4, <3>5, <3>6
    <2>2. CASE c > 0
      <3>. DEFINE one == DataRecord(Take(text, c))
                 two == DataRecord(Drop(text, c))
      <3>1. /\ records' = records \o <<one, two>>
            /\ wire' = wire \o UnitsOf(r, one.size) \o UnitsOf(r + 1, two.size)
        <4>1. c # 0
          BY <2>2
        <4>. QED  BY <4>1, Zenon DEF ClientSendsTLS, text, r
      <3>2. /\ Take(text, c) \in Seq(KnownBytes') /\ Take(text, c) # <<>>
            /\ Drop(text, c) \in Seq(KnownBytes') /\ Drop(text, c) # <<>>
        <4>1. c \in 0..Len(text)
          BY <1>l
        <4>2. /\ Take(text, c) \in Seq(KnownBytes') /\ Len(Take(text, c)) = c
              /\ Drop(text, c) \in Seq(KnownBytes') /\ Len(Drop(text, c)) = Len(text) - c
          BY <4>1, <1>s, Cut
        <4>. QED  BY <4>2, <2>2, <1>l
      <3>3. /\ one \in Recs(KnownBytes') /\ one.data # <<>>
            /\ two \in Recs(KnownBytes') /\ two.data # <<>>
        BY <2>a, <3>2
      <3>. HIDE DEF one, two
      <3>4. <<one, two>> \in Seq(Recs(KnownBytes'))
        BY <3>3
      <3>5. wire \o UnitsOf(r, one.size) \in Seq(KnownBytes')
        BY <3>3, <2>b, <2>c, <1>r, <1>s, ConcatProperties
      <3>6. wire' \in Seq(KnownBytes')
        BY <3>1, <3>3, <3>5, <2>b, <2>c, <1>r, ConcatProperties
      <3>7. \A i \in DOMAIN <<one, two>> : <<one, two>>[i].data # <<>>
        BY <3>3
      <3>. DEFINE pair == <<one, two>>
      <3>8. /\ pair \in Seq(Recs(KnownBytes')) /\ records' = records \o pair
            /\ \A i \in DOMAIN pair : pair[i].data # <<>>
        BY <3>1, <3>4, <3>7
      <3>. HIDE DEF pair
      <3>9. /\ records' = records \o pair
            /\ \A i \in DOMAIN pair : pair[i].data # <<>>
            /\ wire' \in Seq(KnownBytes')
        BY <3>6, <3>8
      <3>10. pair \in Seq(Recs(KnownBytes'))
        BY <3>8
      <3>. WITNESS pair \in Seq(Recs(KnownBytes'))
      <3>. QED  BY <3>9
    <2>3. c = 0 \/ c > 0
      BY <1>l
    <2>. QED  BY <2>1, <2>2, <2>3, Zenon
  <1>. PICK more \in Seq(Recs(KnownBytes')) :
           /\ records' = records \o more
           /\ \A i \in DOMAIN more : more[i].data # <<>>
           /\ wire' \in Seq(KnownBytes')
    BY <1>m
  <1>g. /\ RecordInv' /\ records' \in Seq(Recs(KnownBytes'))
        /\ records' \in Seq([size : Nat, data : Seq(Bytes)])
    <2>1. ~(Len(records) < 2)
      BY <1>r, RecordsLen DEF Inv
    <2>. QED  BY <1>u, <1>s, <1>r, <2>1, RecordsGrow, Zenon
  <1>1. TypeOK'
    <2>1. wire' \in Seq(Bytes)
      BY <1>s, SeqMonotonic
    <2>. QED  BY <1>u, <1>s, <1>g, <2>1 DEF Inv, TypeOK
  <1>2. StreamInv'
    BY <1>s, <1>u, <1>g DEF StreamInv
  <1>4. FlagInv'
    BY <1>u DEF Inv, FlagInv
  <1>5. ParseInv'
    BY <1>u DEF Inv, ParseInv
  <1>6. BufferFits'
    BY <1>u DEF Inv, BufferFits
  <1>. QED  BY <1>1, <1>2, <1>g, <1>4, <1>5, <1>6 DEF Inv

(* A flight of the client's handshake. *)
LEMMA ClientHandshakeInv ==
    ASSUME Inv, ClientHandshake
    PROVE  Inv'
  <1>u. UNCHANGED <<secure, window, reqs, full, state, ssl_config, ssl_buf, in_rec,
                    in_left, buf, len, pc, buf_check, nread, status, out, queries, faults, stray>>
    BY DEF ClientHandshake, serverVars, tlsVars, parseVars, replyVars
  <1>k. KnownBytes' = KnownBytes
    BY <1>u DEF KnownBytes
  <1>r. Len(records) \in Nat /\ Len(records) < 2
    BY RecordsLen DEF ClientHandshake, Inv
  <1>h. HelloRecord \in Recs(KnownBytes) /\ HelloSize \in Nat
    BY ServerAssumption DEF ServerAssumption, HelloRecord, Recs
  <1>w. wire' \in Seq(KnownBytes)
    <2>1. UnitsOf(Len(records) + 1, HelloSize) \in Seq(KnownBytes)
      BY <1>r, <1>h, NewUnits
    <2>. QED  BY <2>1, ConcatProperties DEF ClientHandshake, Inv, StreamInv
  <1>m. records' = records \o <<HelloRecord>> /\ <<HelloRecord>> \in Seq(Recs(KnownBytes))
    BY <1>h, AppendIsConcat DEF ClientHandshake, Inv, StreamInv
  <1>g. /\ RecordInv' /\ records' \in Seq(Recs(KnownBytes))
        /\ records' \in Seq([size : Nat, data : Seq(Bytes)])
    <2>1. Len(<<HelloRecord>>) = 1 /\ KnownBytes \subseteq Bytes
      BY KnownAreBytes
    <2>2. ~(Len(records) >= 2)
      BY <1>r
    <2>3. records \in Seq(Recs(KnownBytes))
      BY DEF Inv, StreamInv
    <2>. QED  BY <1>u, <1>r, <1>m, <2>1, <2>2, <2>3, RecordsGrow, Zenon
  <1>1. TypeOK'
    <2>1. wire' \in Seq(Bytes)
      BY <1>w, KnownAreBytes, SeqMonotonic
    <2>. QED  BY <1>u, <1>g, <2>1 DEF Inv, TypeOK
  <1>2. StreamInv'
    BY <1>u, <1>k, <1>w, <1>g DEF Inv, StreamInv
  <1>4. FlagInv'
    BY <1>u DEF Inv, FlagInv
  <1>5. ParseInv'
    BY <1>u DEF Inv, ParseInv
  <1>6. BufferFits'
    BY <1>u DEF Inv, BufferFits
  <1>. QED  BY <1>1, <1>2, <1>g, <1>4, <1>5, <1>6 DEF Inv

(***************************************************************************)
(* A read without TLS: what was buffered and what was read become the      *)
(* bytes to look at.                                                       *)
(***************************************************************************)
LEMMA ReadPlainInv ==
    ASSUME Inv, NEW n \in 1..JSONRPC_BUFF_LEN, ReadPlain(n)
    PROVE  Inv'
  <1>u. UNCHANGED <<secure, window, reqs, records, ssl_config, ssl_buf, in_rec, in_left,
                    len, status, out, queries, faults, stray>>
    BY DEF ReadPlain, clientVars, tlsVars, replyVars
  <1>k. KnownBytes' = KnownBytes
    BY <1>u DEF KnownBytes
  <1>n. n \in Nat /\ n \in 0..Len(wire) /\ n >= 1 /\ n \in 0..JSONRPC_BUFF_LEN
    BY ServerAssumption DEF ServerAssumption, ReadPlain, Arrives, Inv, StreamInv
  <1>c. /\ Take(wire, n) \in Seq(KnownBytes) /\ Len(Take(wire, n)) = n
        /\ Drop(wire, n) \in Seq(KnownBytes)
    BY <1>n, Cut DEF Inv, StreamInv
  <1>d. /\ buf \o Take(wire, n) \in Seq(KnownBytes)
        /\ Len(buf \o Take(wire, n)) = Len(buf) + n /\ Len(buf) \in Nat
    BY <1>c, ConcatProperties, LenProperties DEF Inv, StreamInv
  <1>e. buf_check' = buf \o Take(wire, n) /\ buf' = <<>> /\ wire' = Drop(wire, n)
        /\ nread' = n /\ pc' \in {"http", "parse"} /\ full' = (n = JSONRPC_BUFF_LEN)
        /\ (pc' = "http" => StartsHttp(buf \o Take(wire, n)))
    BY DEF ReadPlain, ReadInto, Gather, HttpOrNot
  <1>f. state' = {"NORMAL"} /\ in_rec = 1
    <2>1. state \in {{"START"}, {"NORMAL"}}
      BY DEF ReadPlain, Inv, TypeOK, States
    <2>. QED  BY <2>1 DEF ReadPlain, Inv, FlagInv
  <1>2. StreamInv'
    BY <1>u, <1>k, <1>c, <1>d, <1>e, EmptySeq DEF Inv, StreamInv
  <1>1. TypeOK'
    <2>1. wire' \in Seq(Bytes) /\ buf_check' \in Seq(Bytes) /\ buf' \in Seq(Bytes)
      BY <1>2, <1>k, KnownAreBytes, SeqMonotonic DEF StreamInv
    <2>2. full' \in BOOLEAN
      BY <1>e
    <2>3. state' \in States
      BY <1>f DEF States
    <2>. QED  BY <1>u, <1>e, <1>n, <2>1, <2>2, <2>3 DEF Inv, TypeOK
  <1>3. RecordInv'
    BY <1>u DEF Inv, RecordInv, InRecord
  <1>4. FlagInv'
    BY <1>u, <1>f DEF FlagInv
  <1>5. ParseInv'
    <2>1. buf_check' # <<>>
      BY <1>d, <1>e, <1>n
    <2>. QED  BY <1>e, <2>1 DEF ParseInv, StartsHttp
  <1>6. BufferFits'
    BY <1>u, <1>e DEF Inv, BufferFits, TypeOK
  <1>. QED  BY <1>1, <1>2, <1>3, <1>4, <1>5, <1>6 DEF Inv

(* mbedtls takes what a read brought of a flight of the handshake. *)
LEMMA HandshakeInv ==
    ASSUME Inv, NEW n \in 1..JSONRPC_BUFF_LEN, Arrives(n), ReadInto(n),
           TryHandshake(Take(wire, n), {"SSL_NORMAL", "SSL_HANDSHAKE"}),
           in_rec \in {1, 2},
           UNCHANGED <<clientVars, ssl_config, buf, len, pc, buf_check, status, replyVars, stray>>
    PROVE  Inv'
  <1>u. UNCHANGED <<secure, window, reqs, records, ssl_config, buf, len, pc, buf_check,
                    status, out, queries, faults, stray>>
    BY DEF clientVars, replyVars
  <1>k. KnownBytes' = KnownBytes
    BY <1>u DEF KnownBytes
  <1>n. n \in Nat /\ n \in 0..Len(wire) /\ n \in 0..JSONRPC_BUFF_LEN
    BY ServerAssumption DEF ServerAssumption, Arrives, Inv, StreamInv
  <1>c. /\ Take(wire, n) \in Seq(KnownBytes) /\ Len(Take(wire, n)) = n
        /\ Drop(wire, n) \in Seq(KnownBytes)
    BY <1>n, Cut DEF Inv, StreamInv
  <1>t. in_rec \in Nat \ {0} /\ in_left \in Nat
    BY DEF Inv, TypeOK
  <1>r. InRecord /\ records[in_rec] \in Recs(KnownBytes)
    BY DEF TryHandshake, InRecord, Inv, StreamInv
  <1>m. Missing \in Nat \ {0} /\ records[in_rec].size = Missing + in_left
    BY <1>r, <1>t DEF Missing, Inv, RecordInv, Recs
  <1>e. /\ IF n < Missing THEN in_left' = in_left + n /\ in_rec' = in_rec
                          ELSE in_left' = 0 /\ in_rec' = in_rec + 1
        /\ state' = IF in_rec' = 3 THEN {"SSL_NORMAL", "SSL_HANDSHAKE"} \ {"SSL_HANDSHAKE"}
                                   ELSE {"SSL_NORMAL", "SSL_HANDSHAKE"}
        /\ ssl_buf' = Drop(Take(wire, n), Missing)
    BY <1>c DEF TryHandshake
  <1>f. state' = IF in_rec' = 3 THEN {"SSL_NORMAL"} ELSE {"SSL_NORMAL", "SSL_HANDSHAKE"}
    BY <1>e
  <1>g. wire' = Drop(wire, n) /\ nread' = n /\ full' = (n = JSONRPC_BUFF_LEN)
    BY DEF ReadInto
  <1>2. StreamInv'
    BY <1>u, <1>k, <1>c, <1>g DEF Inv, StreamInv
  <1>1. TypeOK'
    <2>1. wire' \in Seq(Bytes) /\ ssl_buf' \in Seq(Bytes)
      <3>1. ssl_buf' \in Seq(KnownBytes)
        BY <1>c, <1>e, <1>m, DropType
      <3>. QED  BY <3>1, <1>c, <1>g, KnownAreBytes, SeqMonotonic
    <2>2. full' \in BOOLEAN
      BY <1>g
    <2>3. state' \in States
      BY <1>f DEF States
    <2>4. in_rec' \in Nat \ {0} /\ in_left' \in Nat
      BY <1>e, <1>t, <1>n
    <2>. QED  BY <1>u, <1>g, <1>n, <2>1, <2>2, <2>3, <2>4 DEF Inv, TypeOK
  <1>3. RecordInv'
    <2>1. Len(records) \in Nat /\ DOMAIN records = 1..Len(records)
      BY RecordsLen DEF Inv
    <2>2. \A r \in DOMAIN records : records[r].size \in Nat \ {0}
      <3>1. \A r \in DOMAIN records : records[r] \in Recs(KnownBytes)
        BY DEF Inv, StreamInv
      <3>. QED  BY <3>1 DEF Recs
    <2>3. CASE n < Missing
      BY <1>u, <1>e, <1>r, <1>m, <1>n, <1>t, <2>1, <2>3 DEF Inv, RecordInv, InRecord
    <2>4. CASE ~(n < Missing)
      BY <1>u, <1>e, <1>r, <1>t, <2>1, <2>2, <2>4 DEF Inv, RecordInv, InRecord
    <2>. QED  BY <2>3, <2>4
  <1>4. FlagInv'
    <2>1. in_rec' \in {1, 2, 3}
      BY <1>e
    <2>. QED  BY <1>f, <2>1 DEF FlagInv
  <1>5. ParseInv'
    BY <1>u DEF Inv, ParseInv
  <1>6. BufferFits'
    BY <1>u DEF Inv, BufferFits
  <1>. QED  BY <1>1, <1>2, <1>3, <1>4, <1>5, <1>6 DEF Inv

(* A record of data: its plaintext takes the place of what was read. *)
LEMMA ReadRecordInv ==
    ASSUME Inv, NEW n \in 1..JSONRPC_BUFF_LEN, ReadRecord(n)
    PROVE  Inv'
  <1>u. UNCHANGED <<secure, window, reqs, records, ssl_config, state, len, status,
                    out, queries, faults, stray>>
    BY DEF ReadRecord, clientVars, replyVars
  <1>k. KnownBytes' = KnownBytes
    BY <1>u DEF KnownBytes
  <1>n. n \in Nat /\ n \in 0..Len(wire) /\ n \in 0..JSONRPC_BUFF_LEN
    BY ServerAssumption DEF ServerAssumption, ReadRecord, Arrives, Inv, StreamInv
  <1>c. /\ Take(wire, n) \in Seq(KnownBytes) /\ Len(Take(wire, n)) = n
        /\ Drop(wire, n) \in Seq(KnownBytes)
    BY <1>n, Cut DEF Inv, StreamInv
  <1>t. in_rec \in Nat \ {0} /\ in_left \in Nat
    BY DEF Inv, TypeOK
  <1>r. /\ InRecord /\ records[in_rec] \in Recs(KnownBytes)
        /\ in_rec >= 3 /\ state = {"SSL_NORMAL"}
    BY DEF ReadRecord, InRecord, Inv, StreamInv, FlagInv
  <1>m. Missing \in Nat \ {0}
    BY <1>r, <1>t DEF Missing, Inv, RecordInv, Recs
  <1>. DEFINE data == records[in_rec].data
  <1>d. data \in Seq(KnownBytes) /\ data # <<>>
    <2>1. data \in Seq(KnownBytes)
      BY <1>r DEF Recs
    <2>2. data # <<>>
      BY <1>r, <1>t DEF Inv, RecordInv, InRecord
    <2>. QED  BY <2>1, <2>2
  <1>e. buf_check' = buf \o data /\ buf' = <<>> /\ wire' = Drop(wire, n)
        /\ nread' = n /\ pc' \in {"http", "parse"} /\ full' = (n = JSONRPC_BUFF_LEN)
        /\ (pc' = "http" => StartsHttp(buf \o data))
        /\ in_rec' = in_rec + 1 /\ in_left' = 0
        /\ ssl_buf' = Drop(Take(wire, n), Missing)
    BY DEF ReadRecord, ReadInto, Gather, HttpOrNot
  <1>. HIDE DEF data
  <1>b. buf \o data \in Seq(KnownBytes) /\ buf \o data # <<>>
    BY <1>d, ConcatProperties, ConcatEqualIffEmpty DEF Inv, StreamInv
  <1>2. StreamInv'
    BY <1>u, <1>k, <1>c, <1>b, <1>e, EmptySeq DEF Inv, StreamInv
  <1>1. TypeOK'
    <2>1. wire' \in Seq(Bytes) /\ buf_check' \in Seq(Bytes) /\ buf' \in Seq(Bytes)
      BY <1>2, <1>k, KnownAreBytes, SeqMonotonic DEF StreamInv
    <2>2. full' \in BOOLEAN
      BY <1>e
    <2>3. ssl_buf' \in Seq(Bytes)
      <3>1. ssl_buf' \in Seq(KnownBytes)
        BY <1>c, <1>e, <1>m, DropType
      <3>. QED  BY <3>1, KnownAreBytes, SeqMonotonic
    <2>4. in_rec' \in Nat \ {0} /\ in_left' \in Nat
      BY <1>e, <1>t
    <2>. QED  BY <1>u, <1>e, <1>n, <2>1, <2>2, <2>3, <2>4 DEF Inv, TypeOK
  <1>3. RecordInv'
    <2>1. Len(records) \in Nat /\ DOMAIN records = 1..Len(records)
      BY RecordsLen DEF Inv
    <2>2. \A r \in DOMAIN records : records[r].size \in Nat \ {0}
      <3>1. \A r \in DOMAIN records : records[r] \in Recs(KnownBytes)
        BY DEF Inv, StreamInv
      <3>. QED  BY <3>1 DEF Recs
    <2>. QED  BY <1>u, <1>e, <1>r, <1>t, <2>1, <2>2 DEF Inv, RecordInv, InRecord
  <1>4. FlagInv'
    <2>1. /\ state' # {"START"} /\ state' # {"NORMAL"}
          /\ state' # {"SSL_NORMAL", "SSL_HANDSHAKE"}
      <3>1. "SSL_NORMAL" \in state' /\ "SSL_HANDSHAKE" \notin state'
        BY <1>u, <1>r
      <3>. QED  BY <3>1
    <2>2. in_rec' >= 3
      BY <1>r, <1>e, <1>t
    <2>. QED  BY <2>1, <2>2 DEF FlagInv
  <1>5. ParseInv'
    BY <1>e, <1>b DEF ParseInv, StartsHttp
  <1>6. BufferFits'
    BY <1>u, <1>e DEF Inv, BufferFits, TypeOK
  <1>. QED  BY <1>1, <1>2, <1>3, <1>4, <1>5, <1>6 DEF Inv

(* What is written, or lost, comes behind what was. *)
LEMMA WriteInternalType ==
    ASSUME TypeOK, NEW r \in Replies(reqs), r.body # "lost", WriteInternal(r)
    PROVE  /\ out' \in Seq(Replies(reqs))
           /\ Len(out') = Len(out) + 1
           /\ \A j \in 1..Len(out) : out'[j] = out[j]
           /\ out'[Len(out) + 1].req = r.req
           /\ faults' \in 0..MaxFaults
  <1>1. [r EXCEPT !.body = "lost"] \in Replies(reqs) /\ [r EXCEPT !.body = "lost"].req = r.req
    BY DEF Replies
  <1>3. out \in Seq(Replies(reqs))
    BY DEF TypeOK, Replies
  <1>4. PICK q \in Replies(reqs) : out' = Append(out, q) /\ q.req = r.req
    BY <1>1, Zenon DEF WriteInternal
  <1>5. faults' \in 0..MaxFaults
    BY ServerAssumption, SMTT(60) DEF ServerAssumption, WriteInternal, TypeOK
  <1>6. /\ out' \in Seq(Replies(reqs)) /\ Len(out') = Len(out) + 1
        /\ \A j \in 1..Len(out) : out'[j] = out[j]
        /\ out'[Len(out) + 1] = q
    BY <1>3, <1>4, AppendProperties
  <1>. QED  BY <1>4, <1>5, <1>6

(* A reply, or the page: to a request that was sent. *)
LEMMA WriteReplyType ==
    ASSUME TypeOK, NEW i \in 1..Len(reqs), WriteReply(i) \/ WritePage(i)
    PROVE  /\ out' \in Seq(Replies(reqs))
           /\ Len(out') = Len(out) + 1
           /\ \A j \in 1..Len(out) : out'[j] = out[j]
           /\ out'[Len(out) + 1].req = i
           /\ faults' \in 0..MaxFaults
  <1>. DEFINE page == [req |-> i, body |-> "result", tls |-> "SSL_NORMAL" \in state]
  <1>0. i \in 0..Len(reqs)
    BY LenProperties DEF TypeOK
  <1>1. Reply(i) \in Replies(reqs) /\ Reply(i).req = i /\ Reply(i).body # "lost"
    BY <1>0 DEF Reply, Replies
  <1>2. page \in Replies(reqs) /\ page.req = i /\ page.body # "lost"
    <2>1. ("SSL_NORMAL" \in state) \in BOOLEAN
      OBVIOUS
    <2>. QED  BY <1>0, <2>1 DEF Replies
  <1>3. CASE WriteReply(i)
    BY <1>1, <1>3, WriteInternalType DEF WriteReply
  <1>4. CASE WritePage(i)
    <2>1. WriteInternal(page)
      BY <1>4 DEF WritePage
    <2>. HIDE DEF page
    <2>. QED  BY <1>2, <2>1, WriteInternalType
  <1>. QED  BY <1>3, <1>4

(* The byte a message starts with names its request. *)
LEMMA FirstByte ==
    ASSUME Inv, buf_check # <<>>, buf_check[1].from = "text"
    PROVE  buf_check[1].id \in 1..Len(reqs)
  <1>1. buf_check[1] \in KnownBytes
    BY DEF Inv, StreamInv
  <1>. QED  BY <1>1 DEF KnownBytes

LEMMA AnswerHttpInv ==
    ASSUME Inv, AnswerHttp
    PROVE  Inv'
  <1>u. UNCHANGED <<secure, window, reqs, records, wire, full, state, ssl_config, ssl_buf,
                    in_rec, in_left, buf, len, nread, status, queries, stray>>
    BY DEF AnswerHttp, clientVars, tlsVars
  <1>k. KnownBytes' = KnownBytes
    BY <1>u DEF KnownBytes
  <1>a. pc' = "idle" /\ buf_check' = <<>>
    BY DEF AnswerHttp
  <1>o. /\ out' \in Seq(Replies(reqs))
        /\ faults' \in 0..MaxFaults
    <2>1. buf_check[1].id \in 1..Len(reqs)
      BY FirstByte DEF AnswerHttp, Inv, ParseInv
    <2>. QED  BY <2>1, WriteReplyType DEF AnswerHttp, Inv
  <1>1. TypeOK'
    BY <1>u, <1>a, <1>o, EmptySeq DEF Inv, TypeOK
  <1>2. StreamInv'
    BY <1>u, <1>k, <1>a, EmptySeq DEF Inv, StreamInv
  <1>3. RecordInv'
    BY <1>u DEF Inv, RecordInv, InRecord
  <1>4. FlagInv'
    BY <1>u DEF Inv, FlagInv
  <1>5. ParseInv'
    BY <1>a DEF ParseInv
  <1>6. BufferFits'
    BY <1>u DEF Inv, BufferFits
  <1>. QED  BY <1>1, <1>2, <1>3, <1>4, <1>5, <1>6 DEF Inv

(* The first delimiter is one, and nothing before it is. *)
LEMMA FirstDelimDef ==
    ASSUME NEW S, NEW s \in Seq(S), HasDelim(s)
    PROVE  /\ FirstDelim(s) \in 1..Len(s)
           /\ IsDelim(s[FirstDelim(s)])
           /\ \A j \in 1..(FirstDelim(s) - 1) : ~IsDelim(s[j])
           /\ s # <<>>
  <1>. DEFINE D == {i \in DOMAIN s : IsDelim(s[i])}
  <1>1. DOMAIN s = 1..Len(s) /\ Len(s) \in Nat
    BY LenProperties
  <1>2. D # {} /\ D \subseteq Nat
    BY <1>1 DEF HasDelim
  <1>3. PICK i \in D : \A j \in D : ~(<<j, i>> \in OpToRel(<, Nat))
    <2>. HIDE DEF D
    <2>. QED  BY <1>2, WFMin, NatLessThanWellFounded
  <1>4. \A j \in D : ~(j < i)
    BY <1>2, <1>3 DEF OpToRel
  <1>5. i \in DOMAIN s /\ IsDelim(s[i]) /\ \A j \in 1..(i - 1) : ~IsDelim(s[j])
    BY <1>1, <1>4
  <1>6. /\ FirstDelim(s) \in DOMAIN s /\ IsDelim(s[FirstDelim(s)])
        /\ \A j \in 1..(FirstDelim(s) - 1) : ~IsDelim(s[j])
    BY <1>5, Zenon DEF FirstDelim
  <1>. QED  BY <1>1, <1>6

(* A message: its reply is out, what follows it is left to look at. *)
LEMMA ParseMessageInv ==
    ASSUME Inv, ParseMessage
    PROVE  Inv'
  <1>. DEFINE nl == FirstDelim(buf_check)
  <1>u. UNCHANGED <<secure, window, reqs, records, wire, full, state, ssl_config, ssl_buf,
                    in_rec, in_left, buf, len, nread, status, stray>>
    BY DEF ParseMessage, clientVars, tlsVars
  <1>k. KnownBytes' = KnownBytes
    BY <1>u DEF KnownBytes
  <1>b. buf_check \in Seq(KnownBytes)
    BY DEF Inv, StreamInv
  <1>d. nl \in 1..Len(buf_check) /\ buf_check # <<>> /\ Len(buf_check) \in Nat
    BY <1>b, FirstDelimDef, LenProperties DEF ParseMessage, MessageAtHand
  <1>p. /\ Parses(Take(buf_check, nl))
        /\ HandleCommand(buf_check[1].id)
        /\ \/ pc' = "parse" /\ buf_check' = Drop(buf_check, nl)
           \/ pc' = "idle" /\ buf_check' = <<>>
    BY DEF ParseMessage, MessageAtHand, NextOffset
  <1>. HIDE DEF nl
  <1>i. buf_check[1].id \in 1..Len(reqs)
    <2>0. nl \in 0..Len(buf_check) /\ 1 \in 1..nl
      BY <1>d
    <2>1. Take(buf_check, nl)[1] = buf_check[1]
      BY <1>b, <2>0, Cut
    <2>2. buf_check[1].from = "text"
      BY <1>p, <2>1 DEF Parses
    <2>. QED  BY <1>d, <2>2, FirstByte
  <1>o. /\ out' \in Seq(Replies(reqs))
        /\ faults' \in 0..MaxFaults
    BY <1>i, <1>p, WriteReplyType DEF HandleCommand, Inv
  <1>q. queries' \in Nat
    BY <1>p DEF HandleCommand, Inv, TypeOK
  <1>c. buf_check' \in Seq(KnownBytes) /\ pc' \in {"idle", "parse"}
        /\ (pc' = "idle" => buf_check' = <<>>)
    <2>1. nl \in Nat
      BY <1>d
    <2>2. Drop(buf_check, nl) \in Seq(KnownBytes)
      BY <1>b, <2>1, DropType
    <2>. QED  BY <1>p, <2>2, EmptySeq
  <1>1. TypeOK'
    <2>1. buf_check' \in Seq(Bytes)
      BY <1>c, KnownAreBytes, SeqMonotonic
    <2>. QED  BY <1>u, <1>c, <1>o, <1>q, <2>1 DEF Inv, TypeOK
  <1>2. StreamInv'
    BY <1>u, <1>k, <1>c DEF Inv, StreamInv
  <1>3. RecordInv'
    BY <1>u DEF Inv, RecordInv, InRecord
  <1>4. FlagInv'
    BY <1>u DEF Inv, FlagInv
  <1>5. ParseInv'
    BY <1>u, <1>c DEF Inv, ParseInv, ParseMessage, MessageAtHand
  <1>6. BufferFits'
    BY <1>u DEF Inv, BufferFits
  <1>. QED  BY <1>1, <1>2, <1>3, <1>4, <1>5, <1>6 DEF Inv

(* A stray message leaves nothing to look at. *)
LEMMA StrayRequestInv ==
    ASSUME Inv, StrayRequest
    PROVE  Inv'
  <1>. DEFINE reply == [req |-> 0, body |-> "result", tls |-> FALSE]
  <1>u. UNCHANGED <<secure, window, reqs, records, wire, full, state, ssl_config, ssl_buf,
                    in_rec, in_left, buf, len, nread, status>>
    BY DEF StrayRequest, clientVars, tlsVars
  <1>k. KnownBytes' = KnownBytes
    BY <1>u DEF KnownBytes
  <1>a. buf_check' = <<>> /\ pc' \in {"idle", "parse"} /\ stray' = TRUE /\ pc = "parse"
        /\ WriteInternal(reply) /\ queries' \in {queries, queries + 1}
    BY DEF StrayRequest
  <1>o. /\ out' \in Seq(Replies(reqs))
        /\ faults' \in 0..MaxFaults
    <2>1. 0 \in 0..Len(reqs)
      BY LenProperties DEF Inv, TypeOK
    <2>2. reply \in Replies(reqs) /\ reply.body # "lost"
      BY <2>1 DEF Replies
    <2>. HIDE DEF reply
    <2>. QED  BY <1>a, <2>2, WriteInternalType DEF Inv
  <1>q. queries' \in Nat
    BY <1>a DEF Inv, TypeOK
  <1>1. TypeOK'
    BY <1>u, <1>a, <1>o, <1>q, EmptySeq DEF Inv, TypeOK, Replies
  <1>2. StreamInv'
    BY <1>u, <1>k, <1>a, EmptySeq DEF Inv, StreamInv
  <1>3. RecordInv'
    BY <1>u DEF Inv, RecordInv, InRecord
  <1>4. FlagInv'
    BY <1>u DEF Inv, FlagInv
  <1>5. ParseInv'
    BY <1>u, <1>a DEF Inv, ParseInv
  <1>6. BufferFits'
    BY <1>u DEF Inv, BufferFits
  <1>. QED  BY <1>1, <1>2, <1>3, <1>4, <1>5, <1>6 DEF Inv

(***************************************************************************)
(* AppendBuffer: the internal buffer is empty when it is called, so that   *)
(* what is copied is what is left to look at, and the new capacity is less *)
(* than one JSONRPC_BUFF_LEN more than the size that was checked.          *)
(***************************************************************************)
LEMMA AppendBufferInv ==
    ASSUME Inv, AppendBuffer
    PROVE  Inv'
  <1>u. UNCHANGED <<secure, window, reqs, records, wire, full, state, ssl_config, ssl_buf,
                    in_rec, in_left, nread, status, out, queries, faults, stray>>
    BY DEF AppendBuffer, clientVars, tlsVars, replyVars
  <1>k. KnownBytes' = KnownBytes
    BY <1>u DEF KnownBytes
  <1>b. buf = <<>> /\ buf_check \in Seq(KnownBytes) /\ Len(buf_check) \in Nat /\ len \in Nat
    BY LenProperties DEF Inv, StreamInv, ParseInv, AppendBuffer, TypeOK
  <1>e. /\ buf' = buf_check /\ pc' = "idle" /\ buf_check' = <<>>
        /\ len' = IF Grows THEN NewLen(MinSize) ELSE len
        /\ (Grows => MinSize <= JSONRPC_MAX_BUFFER)
    BY <1>b, ConcatEmptySeq DEF AppendBuffer
  <1>m. MinSize = Len(buf_check) + 1 /\ (Grows <=> Len(buf_check) > len)
    BY <1>b DEF MinSize, Grows
  <1>n. NewLen(MinSize) \in MinSize..(MinSize + JSONRPC_BUFF_LEN - 1)
    <2>1. MinSize % JSONRPC_BUFF_LEN \in 0..(JSONRPC_BUFF_LEN - 1)
      BY <1>b, <1>m, ServerAssumption DEF ServerAssumption
    <2>2. MinSize \in Nat /\ JSONRPC_BUFF_LEN \in Nat
      BY <1>b, <1>m, ServerAssumption DEF ServerAssumption
    <2>. QED  BY <2>1, <2>2 DEF NewLen
  <1>l. len' \in Nat /\ Len(buf_check) <= len' /\ len' < JSONRPC_MAX_BUFFER + JSONRPC_BUFF_LEN
    BY <1>b, <1>e, <1>m, <1>n, ServerAssumption DEF ServerAssumption, Inv, BufferFits
  <1>1. TypeOK'
    <2>1. buf' \in Seq(Bytes)
      BY <1>b, <1>e, KnownAreBytes, SeqMonotonic
    <2>. QED  BY <1>u, <1>e, <1>l, <2>1, EmptySeq DEF Inv, TypeOK
  <1>2. StreamInv'
    BY <1>u, <1>k, <1>b, <1>e, EmptySeq DEF Inv, StreamInv
  <1>3. RecordInv'
    BY <1>u DEF Inv, RecordInv, InRecord
  <1>4. FlagInv'
    BY <1>u DEF Inv, FlagInv
  <1>5. ParseInv'
    BY <1>e DEF ParseInv
  <1>6. BufferFits'
    BY <1>e, <1>l DEF BufferFits
  <1>. QED  BY <1>1, <1>2, <1>3, <1>4, <1>5, <1>6 DEF Inv

LEMMA StutterInv ==
    ASSUME Inv, UNCHANGED vars
    PROVE  Inv'
  <1>u. UNCHANGED <<secure, window, reqs, records, wire, full, state, ssl_config, ssl_buf,
                    in_rec, in_left, buf, len, pc, buf_check, nread, status, out, queries,
                    faults, stray>>
    BY DEF vars, clientVars, tlsVars, parseVars, replyVars
  <1>1. TypeOK'
    BY <1>u DEF Inv, TypeOK
  <1>2. StreamInv'
    BY <1>u DEF Inv, StreamInv, KnownBytes
  <1>3. RecordInv'
    BY <1>u DEF Inv, RecordInv, InRecord
  <1>4. FlagInv'
    BY <1>u DEF Inv, FlagInv
  <1>5. ParseInv'
    BY <1>u DEF Inv, ParseInv
  <1>6. BufferFits'
    BY <1>u DEF Inv, BufferFits
  <1>. QED  BY <1>1, <1>2, <1>3, <1>4, <1>5, <1>6 DEF Inv

(* Every step of the client, the server and the environment keeps it. *)
LEMMA NextInv == Inv /\ [Next]_vars => Inv'
  <1>. SUFFICES ASSUME Inv, [Next]_vars PROVE Inv'
    OBVIOUS
  <1>1. CASE Client
    <2>1. ASSUME NEW kind \in Kinds, NEW size \in Sizes, ClientSends(kind, size)
          PROVE  Inv'
      BY <2>1, ClientSendsInv
    <2>2. ASSUME NEW kind \in Kinds, NEW size \in Sizes, NEW c \in 0..(size - 1),
                 ClientSendsTLS(kind, size, c)
          PROVE  Inv'
      BY <2>2, ClientSendsTLSInv
    <2>3. CASE ClientHandshake
      BY <2>3, ClientHandshakeInv
    <2>. QED  BY <1>1, <2>1, <2>2, <2>3 DEF Client
  <1>2. ASSUME NEW n \in 1..JSONRPC_BUFF_LEN, Read(n)
        PROVE  Inv'
    <2>1. CASE ReadPlain(n)
      BY <2>1, ReadPlainInv
    <2>2. CASE ReadHello(n)
      <3>1. in_rec \in {1, 2}
        <4>1. state = {"START"}
          <5>1. "START" \in state
            BY <2>2 DEF ReadHello
          <5>2. state \in States
            BY DEF Inv, TypeOK
          <5>. QED  BY <5>1, <5>2 DEF States
        <4>. QED  BY <4>1 DEF Inv, FlagInv
      <3>. QED  BY <2>2, <3>1, HandshakeInv DEF ReadHello
    <2>3. CASE ReadHandshake(n)
      <3>1. state = {"SSL_NORMAL", "SSL_HANDSHAKE"}
        BY <2>3 DEF ReadHandshake, Inv, TypeOK, States
      <3>2. in_rec \in {1, 2}
        BY <3>1 DEF Inv, FlagInv
      <3>. QED  BY <2>3, <3>1, <3>2, HandshakeInv DEF ReadHandshake
    <2>4. CASE ReadRecord(n)
      BY <2>4, ReadRecordInv
    <2>5. CASE RefuseHello(n) \/ ReadPartRecord(n) \/ AssertFails(n)
      <3>1. ASSUME NEW why \in Endings, End(why) PROVE Inv'
        BY <3>1, EndInv DEF End, Inv, TypeOK
      <3>. QED  BY <2>5, <3>1 DEF RefuseHello, ReadPartRecord, AssertFails, Endings
    <2>. QED  BY <1>2, <2>1, <2>2, <2>3, <2>4, <2>5 DEF Read
  <1>3. CASE AnswerHttp
    BY <1>3, AnswerHttpInv
  <1>4. CASE ParseMessage
    BY <1>4, ParseMessageInv
  <1>5. CASE AppendBuffer
    BY <1>5, AppendBufferInv
  <1>e. ASSUME NEW why \in Endings, End(why) PROVE Inv'
    BY <1>e, EndInv DEF End, Inv, TypeOK
  <1>6. CASE \/ ReadNothing \/ HashAssertFails \/ ParserException
             \/ AppendNothing \/ AppendTooMuch
    BY <1>6, <1>e DEF ReadNothing, HashAssertFails, ParserException, AppendNothing,
                      AppendTooMuch, Endings
  <1>7. CASE Environment
    <2>1. CASE StrayDelim
      BY <2>1, EndInv DEF StrayDelim, Endings
    <2>2. CASE StrayRequest
      BY <2>2, StrayRequestInv
    <2>3. CASE \/ SocketError \/ WriteKills
               \/ \E n \in 1..JSONRPC_BUFF_LEN : HandshakeFails(n)
      BY <2>3, <1>e DEF SocketError, WriteKills, HandshakeFails, Endings
    <2>. QED  BY <1>7, <2>1, <2>2, <2>3 DEF Environment
  <1>8. CASE UNCHANGED vars
    BY <1>8, StutterInv
  <1>. QED  BY <1>1, <1>2, <1>3, <1>4, <1>5, <1>6, <1>7, <1>8 DEF Next, Server

(* The invariant of one connection, however the client sends and the network cuts. *)
THEOREM ConnectionInvariance == Spec => []Inv
  BY InitInv, NextInv, PTL DEF Spec

(***************************************************************************)
(* Type correctness: among others, that every reply answers a request that *)
(* was sent, and that state is one of the four combinations of flags.      *)
(***************************************************************************)
THEOREM ConnectionTypeCorrect == Spec => []TypeOK
  <1>1. Inv => TypeOK
    BY DEF Inv
  <1>. QED  BY <1>1, ConnectionInvariance, PTL

(***************************************************************************)
(* AppendBuffer's memcpy stays inside the allocation, and the allocation   *)
(* below JSONRPC_MAX_BUFFER + JSONRPC_BUFF_LEN, for every size of the two. *)
(***************************************************************************)
THEOREM BufferStaysInside == Spec => []BufferFits
  <1>1. Inv => BufferFits
    BY DEF Inv
  <1>. QED  BY <1>1, ConnectionInvariance, PTL

-----------------------------------------------------------------------------
(* The framing: no byte is lost between the socket and the parser, and a client
   that sends well-formed requests is not closed for a framing reason unless
   strchr runs over the end of the data. *)

(* The replies are those of the requests so far, or of all but the last. *)
ReplyInv ==
    /\ Len(out) = Len(reqs) \/ Len(out) = Len(reqs) - 1
    /\ \A j \in 1..Len(out) : out[j].req = j

(***************************************************************************)
(* While HandleRead looks at data it has at least what the last read       *)
(* brought: what makes mlen < nread - 1 false at the end of a request.     *)
(***************************************************************************)
ReadInv ==
    /\ pc \in {"idle", "parse"}
    /\ pc = "parse" => buf_check # <<>> /\ nread <= Len(buf_check)

FramingInv == status = "open" /\ Framed =>
    /\ buf \o buf_check \o wire = Pending
    /\ ReplyInv
    /\ ReadInv
    /\ state = {"START"} \/ state = {"NORMAL"}

StepInv == FramingInv /\ LockStepKept

-----------------------------------------------------------------------------
(* Facts about the replies and the bytes. *)

(* The lengths of what there is are numbers. *)
LEMMA Lengths ==
    ASSUME Inv
    PROVE  /\ Len(reqs) \in Nat /\ DOMAIN reqs = 1..Len(reqs)
           /\ Len(out) \in Nat /\ DOMAIN out = 1..Len(out)
           /\ Len(buf) \in Nat /\ Len(buf_check) \in Nat /\ Len(wire) \in Nat
           /\ buf \in Seq(Bytes) /\ buf_check \in Seq(Bytes) /\ wire \in Seq(Bytes)
           /\ \A i \in 1..Len(reqs) : reqs[i].size \in Nat \ {0, 1}
  <1>1. \A i \in 1..Len(reqs) : reqs[i].size \in Nat \ {0, 1}
    <2>. DEFINE R == [kind : Kinds, size : Sizes]
    <2>1. reqs \in Seq(R)
      BY DEF Inv, TypeOK
    <2>. HIDE DEF R
    <2>2. \A i \in 1..Len(reqs) : reqs[i] \in R
      BY <2>1, ElementOfSeq
    <2>. QED  BY <2>2, ServerAssumption DEF ServerAssumption, R
  <1>2. Len(reqs) \in Nat /\ DOMAIN reqs = 1..Len(reqs)
    BY LenProperties DEF Inv, TypeOK
  <1>3. Len(out) \in Nat /\ DOMAIN out = 1..Len(out)
    BY LenProperties DEF Inv, TypeOK
  <1>4. buf \in Seq(Bytes) /\ buf_check \in Seq(Bytes) /\ wire \in Seq(Bytes)
    BY DEF Inv, TypeOK
  <1>5. Len(buf) \in Nat /\ Len(buf_check) \in Nat /\ Len(wire) \in Nat
    BY <1>4, LenProperties
  <1>. QED  BY <1>1, <1>2, <1>3, <1>4, <1>5

(* Which requests were handled, and so what is pending. *)
LEMMA PendingIs ==
    ASSUME Inv, ReplyInv
    PROVE  /\ Handled = 1..Len(out)
           /\ Len(out) = Len(reqs) => Pending = <<>>
           /\ Len(out) # Len(reqs) => Pending = BytesOf(Len(reqs)) /\ Len(reqs) \in Nat \ {0}
  <1>1. Handled = 1..Len(out)
    BY Lengths, ZenonT(60) DEF ReplyInv, Handled
  <1>2. CASE Len(out) = Len(reqs)
    <2>1. Len(reqs) \in {0} \cup Handled
      BY <1>1, <1>2, Lengths
    <2>. QED  BY <1>1, <1>2, <2>1 DEF Pending
  <1>3. CASE Len(out) # Len(reqs)
    <2>1. Len(out) = Len(reqs) - 1
      BY <1>3 DEF ReplyInv
    <2>2. Len(reqs) \in Nat \ {0}
      BY <2>1, Lengths
    <2>3. Len(reqs) \notin {0} \cup Handled
      BY <1>1, <2>1, <2>2, Lengths
    <2>. QED  BY <1>1, <1>3, <2>2, <2>3 DEF Pending
  <1>. QED  BY <1>1, <1>2, <1>3, SMTT(60)

(* The bytes of a request. *)
LEMMA BytesOfRequest ==
    ASSUME Inv, NEW i \in 1..Len(reqs)
    PROVE  /\ BytesOf(i) \in Seq(Bytes)
           /\ Len(BytesOf(i)) = reqs[i].size
           /\ \A k \in 1..reqs[i].size : BytesOf(i)[k] = Text(i, k)
  <1>. DEFINE z == reqs[i].size
  <1>1. z \in Nat /\ i \in Nat \ {0}
    BY Lengths
  <1>. HIDE DEF z
  <1>2. \A k \in 1..z : Text(i, k) \in Bytes
    BY <1>1 DEF Text, Bytes
  <1>3. [k \in 1..z |-> Text(i, k)] \in [1..z -> Bytes]
    BY <1>2
  <1>4. /\ [k \in 1..z |-> Text(i, k)] \in Seq(Bytes)
        /\ Len([k \in 1..z |-> Text(i, k)]) = z
    BY <1>1, <1>3
  <1>5. BytesOf(i) = [k \in 1..z |-> Text(i, k)]
    BY DEF BytesOf, z
  <1>. QED  BY <1>4, <1>5 DEF z

(* A byte of a concatenation of three sequences of bytes. *)
LEMMA Concat3 ==
    ASSUME NEW S, NEW a \in Seq(S), NEW b \in Seq(S), NEW c \in Seq(S)
    PROVE  /\ a \o b \o c \in Seq(S)
           /\ Len(a \o b \o c) = Len(a) + Len(b) + Len(c)
           /\ \A i \in 1..Len(b) : (a \o b \o c)[Len(a) + i] = b[i]
           /\ \A i \in 1..Len(c) : (a \o b \o c)[Len(a) + Len(b) + i] = c[i]
  <1>0. Len(a) \in Nat /\ Len(b) \in Nat /\ Len(c) \in Nat
    BY LenProperties
  <1>1. /\ a \o b \in Seq(S) /\ Len(a \o b) = Len(a) + Len(b)
        /\ \A i \in 1..(Len(a) + Len(b)) :
              (a \o b)[i] = IF i <= Len(a) THEN a[i] ELSE b[i - Len(a)]
    BY ConcatProperties
  <1>2. /\ (a \o b) \o c \in Seq(S) /\ Len((a \o b) \o c) = Len(a \o b) + Len(c)
        /\ \A i \in 1..(Len(a \o b) + Len(c)) :
              ((a \o b) \o c)[i] = IF i <= Len(a \o b) THEN (a \o b)[i]
                                                       ELSE c[i - Len(a \o b)]
    BY <1>1, ConcatProperties
  <1>. DEFINE ab == a \o b
             abc == ab \o c
  <1>. HIDE DEF ab, abc
  <1>3. ASSUME NEW i \in 1..Len(b) PROVE abc[Len(a) + i] = b[i]
    <2>1. Len(a) + i \in 1..(Len(a) + Len(b)) /\ ~(Len(a) + i <= Len(a))
          /\ (Len(a) + i) - Len(a) = i
      BY <1>0
    <2>2. ab[Len(a) + i] = b[i]
      BY <1>1, <2>1 DEF ab
    <2>3. abc[Len(a) + i] = ab[Len(a) + i]
      BY <1>0, <1>1, <1>2, <2>1 DEF ab, abc
    <2>. QED  BY <2>2, <2>3
  <1>4. ASSUME NEW i \in 1..Len(c) PROVE abc[Len(a) + Len(b) + i] = c[i]
    <2>1. /\ Len(a) + Len(b) + i \in 1..(Len(ab) + Len(c))
          /\ ~(Len(a) + Len(b) + i <= Len(ab))
          /\ (Len(a) + Len(b) + i) - Len(ab) = i
      BY <1>0, <1>1 DEF ab
    <2>. QED  BY <1>2, <2>1 DEF ab, abc
  <1>5. abc \in Seq(S) /\ Len(abc) = Len(a) + Len(b) + Len(c)
    BY <1>1, <1>2 DEF ab, abc
  <1>. QED  BY <1>3, <1>4, <1>5 DEF ab, abc

(***************************************************************************)
(* What is on its way in a lock-step connection: nothing, or the bytes of  *)
(* the last request, cut anywhere.                                         *)
(***************************************************************************)
LEMMA OnTheWay ==
    ASSUME Inv, FramingInv, status = "open", Framed,
           buf # <<>> \/ buf_check # <<>> \/ wire # <<>>
    PROVE  /\ Len(out) = Len(reqs) - 1 /\ Len(reqs) \in Nat \ {0}
           /\ buf \o buf_check \o wire = BytesOf(Len(reqs))
           /\ Len(buf) + Len(buf_check) + Len(wire) = reqs[Len(reqs)].size
           /\ \A i \in 1..Len(buf_check) :
                 buf_check[i] = Text(Len(reqs), Len(buf) + i)
           /\ \A i \in 1..Len(wire) :
                 wire[i] = Text(Len(reqs), Len(buf) + Len(buf_check) + i)
  <1>. DEFINE s == buf \o buf_check \o wire
             n == Len(reqs)
  <1>1. s = Pending /\ ReplyInv
    BY DEF FramingInv
  <1>2. /\ Len(s) = Len(buf) + Len(buf_check) + Len(wire)
        /\ \A i \in 1..Len(buf_check) : s[Len(buf) + i] = buf_check[i]
        /\ \A i \in 1..Len(wire) : s[Len(buf) + Len(buf_check) + i] = wire[i]
    BY Lengths, Concat3
  <1>3. Len(s) # 0
    BY <1>2, Lengths, EmptySeq
  <1>. HIDE DEF s
  <1>4. Len(out) # n
    <2>. SUFFICES ASSUME Len(out) = n PROVE FALSE
      OBVIOUS
    <2>1. s = <<>>
      BY <1>1, PendingIs
    <2>. QED  BY <1>3, <2>1
  <1>5. n \in Nat \ {0} /\ s = BytesOf(n) /\ Len(out) = n - 1
    BY <1>1, <1>4, PendingIs DEF ReplyInv
  <1>6. n \in 1..Len(reqs)
    BY <1>5
  <1>7. Len(s) = reqs[n].size /\ \A k \in 1..reqs[n].size : s[k] = Text(n, k)
    BY <1>5, <1>6, BytesOfRequest
  <1>. HIDE DEF n
  <1>8. /\ Len(buf) \in Nat /\ Len(buf_check) \in Nat /\ Len(wire) \in Nat
        /\ reqs[n].size \in Nat
    BY <1>6, Lengths DEF n
  <1>9. \A i \in 1..Len(buf_check) : buf_check[i] = Text(n, Len(buf) + i)
    <2>1. \A i \in 1..Len(buf_check) : Len(buf) + i \in 1..reqs[n].size
      BY <1>2, <1>7, <1>8
    <2>. QED  BY <1>2, <1>7, <2>1
  <1>10. \A i \in 1..Len(wire) : wire[i] = Text(n, Len(buf) + Len(buf_check) + i)
    <2>1. \A i \in 1..Len(wire) : Len(buf) + Len(buf_check) + i \in 1..reqs[n].size
      BY <1>2, <1>7, <1>8
    <2>. QED  BY <1>2, <1>7, <2>1
  <1>. QED  BY <1>2, <1>5, <1>7, <1>9, <1>10 DEF n, s

(***************************************************************************)
(* The delimiter is the last byte of the request and the last byte there   *)
(* is: what HandleRead takes for the message is all of the request.        *)
(***************************************************************************)
LEMMA DelimEndsRequest ==
    ASSUME Inv, FramingInv, status = "open", Framed, pc = "parse", HasDelim(buf_check)
    PROVE  /\ Len(out) = Len(reqs) - 1 /\ Len(reqs) \in Nat \ {0}
           /\ buf_check = BytesOf(Len(reqs)) /\ wire = <<>>
           /\ FirstDelim(buf_check) = Len(buf_check)
           /\ buf_check[1] = Text(Len(reqs), 1)
           /\ ~ParseAgain(FirstDelim(buf_check) - 1)
  <1>. DEFINE n == Len(reqs)
             nl == FirstDelim(buf_check)
  <1>1. buf = <<>> /\ buf_check # <<>> /\ nread <= Len(buf_check) /\ nread \in Nat
    BY ServerAssumption DEF ServerAssumption, Inv, ParseInv, FramingInv, ReadInv, TypeOK
  <1>2. /\ Len(out) = n - 1 /\ n \in Nat \ {0}
        /\ buf \o buf_check \o wire = BytesOf(n)
        /\ Len(buf) + Len(buf_check) + Len(wire) = reqs[n].size
        /\ \A i \in 1..Len(buf_check) : buf_check[i] = Text(n, Len(buf) + i)
    BY <1>1, OnTheWay
  <1>3. nl \in 1..Len(buf_check) /\ IsDelim(buf_check[nl])
    BY Lengths, FirstDelimDef
  <1>4. Len(buf) = 0 /\ Len(buf_check) \in Nat /\ Len(wire) \in Nat /\ reqs[n].size \in Nat
    <2>1. n \in 1..Len(reqs)
      BY <1>2
    <2>. QED  BY <1>1, <2>1, Lengths
  <1>. HIDE DEF n, nl
  <1>5. buf_check[nl] = Text(n, nl)
    BY <1>2, <1>3, <1>4
  <1>6. nl = reqs[n].size
    BY <1>3, <1>5 DEF IsDelim, Text
  <1>7. nl = Len(buf_check) /\ Len(wire) = 0
    BY <1>2, <1>3, <1>4, <1>6
  <1>8. wire = <<>> /\ buf_check = BytesOf(n)
    <2>1. wire = <<>>
      BY <1>7, Lengths, EmptySeq
    <2>2. buf \o buf_check \o wire = buf_check
      BY <1>1, <2>1, Lengths, ConcatEmptySeq
    <2>. QED  BY <1>2, <2>1, <2>2
  <1>9. buf_check[1] = Text(n, 1)
    BY <1>2, <1>3, <1>4
  <1>10. ~ParseAgain(nl - 1)
    BY <1>1, <1>4, <1>7 DEF ParseAgain
  <1>. QED  BY <1>2, <1>7, <1>8, <1>9, <1>10 DEF n, nl

-----------------------------------------------------------------------------
(* The invariant holds initially and each step keeps it. *)

LEMMA InitStepInv == Init => StepInv
  <1>. SUFFICES ASSUME Init PROVE StepInv
    OBVIOUS
  <1>1. /\ Len(out) = 0 /\ Len(reqs) = 0
        /\ buf \o buf_check \o wire = <<>> /\ Pending = <<>>
    BY DEF Init, Pending
  <1>2. ReplyInv /\ ReadInv
    BY <1>1 DEF ReplyInv, ReadInv, Init
  <1>3. FramingInv
    BY <1>1, <1>2 DEF FramingInv, Init
  <1>4. LockStepKept
    BY DEF LockStepKept, Init
  <1>. QED  BY <1>3, <1>4 DEF StepInv

(* The last request is answered before the client sends the next one. *)
LEMMA SendsWhenAnswered ==
    ASSUME Inv, FramingInv, Framed, MaySend
    PROVE  Len(out) = Len(reqs) /\ buf = <<>> /\ buf_check = <<>> /\ wire = <<>> /\ pc = "idle"
  <1>1. ReplyInv /\ status = "open" /\ ReadInv
    BY DEF FramingInv, MaySend
  <1>2. IsFiniteSet(DOMAIN out) /\ Cardinality(DOMAIN out) = Len(out)
    <2>0. 1 \in Int /\ Len(out) \in Int /\ Len(out) \in Nat
      BY Lengths
    <2>1. IsFiniteSet(1..Len(out)) /\ Cardinality(1..Len(out)) = Len(out)
      <3>1. /\ IsFiniteSet(1..Len(out))
            /\ Cardinality(1..Len(out)) = IF 1 > Len(out) THEN 0 ELSE Len(out) - 1 + 1
        BY <2>0, FS_Interval, Zenon
      <3>. QED  BY <2>0, <3>1
    <2>. QED  BY <2>1, Lengths
  <1>3. Cardinality(Answered) <= Len(out) /\ Cardinality(Answered) \in Nat
    <2>1. Answered \subseteq DOMAIN out
      BY DEF Answered
    <2>. QED  BY <1>2, <2>1, FS_Subset, FS_CardinalityType
  <1>4. Len(out) = Len(reqs)
    <2>1. Len(reqs) - Cardinality(Answered) < 1
      BY DEF MaySend, Framed, LockStep
    <2>2. Len(reqs) \in Nat /\ Len(out) \in Nat
      BY Lengths
    <2>3. Len(out) = Len(reqs) \/ Len(out) = Len(reqs) - 1
      BY <1>1 DEF ReplyInv
    <2>. QED  BY <1>3, <2>1, <2>2, <2>3
  <1>5. buf = <<>> /\ buf_check = <<>> /\ wire = <<>>
    <2>. SUFFICES ASSUME buf # <<>> \/ buf_check # <<>> \/ wire # <<>> PROVE FALSE
      OBVIOUS
    <2>1. Len(out) = Len(reqs) - 1
      BY <1>1, OnTheWay
    <2>. QED  BY <1>4, <2>1, Lengths
  <1>. QED  BY <1>1, <1>4, <1>5 DEF ReadInv

LEMMA ClientSendsStep ==
    ASSUME Inv, StepInv, NEW kind \in Kinds, NEW size \in Sizes, ClientSends(kind, size)
    PROVE  StepInv'
  <1>u. UNCHANGED <<secure, window, records, full, state, ssl_config, ssl_buf, in_rec,
                    in_left, buf, len, pc, buf_check, nread, status, out, queries, faults, stray>>
    BY DEF ClientSends, serverVars, tlsVars, parseVars, replyVars
  <1>o. status = "open" /\ MaySend
    BY DEF ClientSends, MaySend
  <1>r. /\ Len(reqs') = Len(reqs) + 1 /\ DOMAIN reqs' = 1..(Len(reqs) + 1)
        /\ \A i \in 1..Len(reqs) : reqs'[i] = reqs[i]
        /\ reqs'[Len(reqs) + 1].size = size
    <2>. DEFINE R == [kind : Kinds, size : Sizes]
               q == [kind |-> kind, size |-> size]
    <2>1. reqs \in Seq(R) /\ q \in R /\ q.size = size
      BY DEF Inv, TypeOK
    <2>2. reqs' = Append(reqs, q)
      BY DEF ClientSends
    <2>. HIDE DEF R, q
    <2>. QED  BY <2>1, <2>2, AppendProperties, LenProperties
  <1>n. Len(reqs) \in Nat /\ DOMAIN reqs = 1..Len(reqs)
    BY Lengths
  <1>k. LockStepKept'
    BY <1>u, <1>o DEF LockStepKept
  <1>. SUFFICES ASSUME Framed' PROVE FramingInv'
    BY <1>k DEF StepInv, FramingInv
  <1>l. Framed
    <2>1. \A i \in DOMAIN reqs : reqs'[i] = reqs[i] /\ i \in DOMAIN reqs'
      BY <1>n, <1>r
    <2>. QED  BY <1>u, <2>1 DEF Framed, LockStep
  <1>f. FramingInv /\ ReplyInv
    BY <1>o, <1>l DEF StepInv, FramingInv
  <1>e. Len(out) = Len(reqs) /\ buf = <<>> /\ buf_check = <<>> /\ wire = <<>> /\ pc = "idle"
    BY <1>l, <1>o, <1>f, SendsWhenAnswered
  <1>1. ReplyInv'
    BY <1>u, <1>r, <1>e, <1>f, <1>n DEF ReplyInv
  <1>2. ReadInv'
    BY <1>u, <1>e DEF ReadInv
  <1>3. (buf \o buf_check \o wire)' = [k \in 1..size |-> Text(Len(reqs) + 1, k)]
    <2>. DEFINE text == [k \in 1..size |-> Text(Len(reqs) + 1, k)]
    <2>1. text \in Seq(KnownBytes') /\ wire' = wire \o text
      BY <1>u, RequestSent DEF ClientSends
    <2>. HIDE DEF text
    <2>2. buf' \o buf_check' \o wire' = text
      BY <1>u, <1>e, <2>1, ConcatEmptySeq, EmptySeq
    <2>. QED  BY <2>2 DEF text
  <1>4. Pending' = [k \in 1..size |-> Text(Len(reqs) + 1, k)]
    <2>1. Handled = 1..Len(out)
      BY <1>f, PendingIs
    <2>2. Handled' = Handled
      BY <1>u DEF Handled
    <2>3. Len(reqs') \notin {0} \cup Handled'
      BY <1>r, <1>n, <1>e, <2>1, <2>2
    <2>4. Pending' = [k \in 1..reqs'[Len(reqs')].size |-> Text(Len(reqs'), k)]
      BY <2>3 DEF Pending, BytesOf
    <2>. QED  BY <2>4, <1>r
  <1>5. state' = {"START"} \/ state' = {"NORMAL"}
    BY <1>u, <1>o, <1>l, <1>f DEF FramingInv
  <1>. QED  BY <1>1, <1>2, <1>3, <1>4, <1>5 DEF FramingInv

(* The bytes of a read are those that were next. *)
LEMMA ReadPlainStep ==
    ASSUME Inv, StepInv, NEW n \in 1..JSONRPC_BUFF_LEN, ReadPlain(n)
    PROVE  StepInv'
  <1>u. UNCHANGED <<secure, window, reqs, status, out, stray>>
    BY DEF ReadPlain, clientVars, replyVars
  <1>o. status = "open" /\ pc = "idle"
    BY DEF ReadPlain, Arrives
  <1>k. LockStepKept'
    BY <1>u, <1>o DEF LockStepKept
  <1>. SUFFICES ASSUME Framed' PROVE FramingInv'
    BY <1>k DEF StepInv, FramingInv
  <1>l. Framed
    BY <1>u DEF Framed, LockStep
  <1>f. FramingInv /\ ReplyInv /\ buf_check = <<>> /\ buf \o buf_check \o wire = Pending
    BY <1>o, <1>l DEF StepInv, FramingInv, Inv, ParseInv
  <1>n. n \in Nat /\ n \in 0..Len(wire) /\ n >= 1
    BY Lengths, ServerAssumption DEF ServerAssumption, ReadPlain, Arrives
  <1>c. /\ Take(wire, n) \in Seq(KnownBytes) /\ Len(Take(wire, n)) = n
        /\ Drop(wire, n) \in Seq(KnownBytes)
        /\ Take(wire, n) \o Drop(wire, n) = wire
    BY <1>n, Cut DEF Inv, StreamInv
  <1>d. /\ buf \in Seq(KnownBytes) /\ buf \o Take(wire, n) \in Seq(KnownBytes)
        /\ Len(buf \o Take(wire, n)) = Len(buf) + n /\ Len(buf) \in Nat
    BY <1>c, ConcatProperties, LenProperties DEF Inv, StreamInv
  <1>e. buf_check' = buf \o Take(wire, n) /\ buf' = <<>> /\ wire' = Drop(wire, n)
        /\ nread' = n /\ pc' \in HttpOrNot(buf \o Take(wire, n))
    BY DEF ReadPlain, ReadInto, Gather
  <1>h. ~StartsHttp(buf \o Take(wire, n))
    <2>. DEFINE s == buf \o Take(wire, n)
    <2>1. s \in Seq(KnownBytes) /\ Len(s) >= 1 /\ Len(s) \in Nat
      BY <1>d, <1>n
    <2>. HIDE DEF s
    <2>2. s[1] \in KnownBytes
      BY <2>1, ElementOfSeq
    <2>3. s[1].from = "text" => s[1].id \in DOMAIN reqs
      BY <2>2, Lengths DEF KnownBytes
    <2>4. ~StartsHttp(s)
      BY <2>3, <1>l DEF StartsHttp, Framed, LockStep
    <2>. QED  BY <2>4 DEF s
  <1>1. ReplyInv'
    BY <1>u, <1>f DEF ReplyInv
  <1>2. ReadInv'
    BY <1>d, <1>e, <1>h, <1>n DEF ReadInv, HttpOrNot
  <1>3. buf' \o buf_check' \o wire' = Pending
    <2>. DEFINE t == Take(wire, n)
               d == Drop(wire, n)
    <2>1. t \in Seq(KnownBytes) /\ d \in Seq(KnownBytes) /\ t \o d = wire
      BY <1>c
    <2>. HIDE DEF t, d
    <2>2. (buf \o t) \o d = buf \o (t \o d)
      <3>1. buf \in Seq(KnownBytes)
        BY <1>d
      <3>2. t \in Seq(KnownBytes) /\ d \in Seq(KnownBytes)
        BY <2>1
      <3>3. \A a, b, c \in Seq(KnownBytes) : (a \o b) \o c = a \o (b \o c)
        BY ConcatAssociative, SMTT(60)
      <3>. QED  BY <3>1, <3>2, <3>3, Zenon
    <2>3. <<>> \o (buf \o t) = buf \o t
      <3>1. buf \o t \in Seq(KnownBytes)
        BY <1>d, <2>1, ConcatProperties
      <3>. QED  BY <3>1, ConcatEmptySeq
    <2>4. buf \o <<>> = buf
      BY <1>d, ConcatEmptySeq
    <2>5. buf \o wire = Pending
      BY <1>f, <2>4
    <2>. QED  BY <1>e, <2>1, <2>2, <2>3, <2>5 DEF t, d
  <1>4. Pending' = Pending
    BY <1>u DEF Pending, Handled, BytesOf
  <1>5. state' = {"NORMAL"}
    <2>1. state = {"START"} \/ state = {"NORMAL"}
      BY <1>f, <1>o, <1>l DEF FramingInv
    <2>. QED  BY <2>1 DEF ReadPlain
  <1>. QED  BY <1>1, <1>2, <1>3, <1>4, <1>5 DEF FramingInv

(* A message is the whole request, and after it there is nothing left. *)
LEMMA ParseMessageStep ==
    ASSUME Inv, StepInv, ParseMessage
    PROVE  StepInv'
  <1>u. UNCHANGED <<secure, window, reqs, status, wire, buf, state, nread, stray>>
    BY DEF ParseMessage, clientVars
  <1>o. status = "open" /\ pc = "parse" /\ HasDelim(buf_check)
    BY DEF ParseMessage, MessageAtHand
  <1>k. LockStepKept'
    BY <1>u, <1>o DEF LockStepKept
  <1>. SUFFICES ASSUME Framed' PROVE FramingInv'
    BY <1>k DEF StepInv, FramingInv
  <1>l. Framed
    BY <1>u DEF Framed, LockStep
  <1>f. FramingInv /\ ReplyInv /\ buf = <<>>
    BY <1>o, <1>l DEF StepInv, FramingInv, Inv, ParseInv
  <1>d. /\ Len(out) = Len(reqs) - 1 /\ Len(reqs) \in Nat \ {0}
        /\ wire = <<>> /\ buf_check[1] = Text(Len(reqs), 1)
        /\ ~ParseAgain(FirstDelim(buf_check) - 1)
    BY <1>f, <1>o, <1>l, DelimEndsRequest
  <1>e. pc' = "idle" /\ buf_check' = <<>> /\ WriteReply(Len(reqs))
    BY <1>d DEF ParseMessage, HandleCommand, Text
  <1>w. /\ Len(out') = Len(out) + 1
        /\ \A j \in 1..Len(out) : out'[j] = out[j]
        /\ out'[Len(out) + 1].req = Len(reqs)
    <2>1. Len(reqs) \in 1..Len(reqs)
      BY <1>d
    <2>. QED  BY <1>e, <2>1, WriteReplyType DEF Inv
  <1>1. ReplyInv'
    BY <1>u, <1>d, <1>w, <1>f, Lengths, SMTT(60) DEF ReplyInv
  <1>2. ReadInv'
    BY <1>e DEF ReadInv
  <1>3. buf' \o buf_check' \o wire' = <<>>
    BY <1>u, <1>d, <1>e, <1>f
  <1>4. Pending' = <<>>
    <2>1. Inv'
      BY ParseMessageInv
    <2>2. Len(out') = Len(reqs')
      BY <1>u, <1>d, <1>w, Lengths
    <2>3. (Len(out) = Len(reqs) => Pending = <<>>)'
      BY <1>1, <2>1, PendingIs, PTL
    <2>. QED  BY <2>2, <2>3
  <1>5. state' = {"START"} \/ state' = {"NORMAL"}
    BY <1>u, <1>o, <1>l, <1>f DEF FramingInv
  <1>. QED  BY <1>1, <1>2, <1>3, <1>4, <1>5 DEF FramingInv

(* A request that is not complete is put aside. *)
LEMMA AppendBufferStep ==
    ASSUME Inv, StepInv, AppendBuffer
    PROVE  StepInv'
  <1>u. UNCHANGED <<secure, window, reqs, status, wire, state, out, stray>>
    BY DEF AppendBuffer, clientVars, replyVars
  <1>o. status = "open" /\ pc = "parse" /\ buf = <<>>
    BY DEF AppendBuffer, Inv, ParseInv
  <1>k. LockStepKept'
    BY <1>u, <1>o DEF LockStepKept
  <1>. SUFFICES ASSUME Framed' PROVE FramingInv'
    BY <1>k DEF StepInv, FramingInv
  <1>l. Framed
    BY <1>u DEF Framed, LockStep
  <1>f. FramingInv /\ ReplyInv /\ buf \o buf_check \o wire = Pending
    BY <1>o, <1>l DEF StepInv, FramingInv
  <1>e. pc' = "idle" /\ buf_check' = <<>> /\ buf' = buf \o buf_check
    BY DEF AppendBuffer
  <1>1. ReplyInv'
    BY <1>u, <1>f DEF ReplyInv
  <1>2. ReadInv'
    BY <1>e DEF ReadInv
  <1>3. buf' \o buf_check' \o wire' = Pending
    <2>1. buf \o buf_check \in Seq(Bytes)
      BY Lengths, ConcatProperties
    <2>2. (buf \o buf_check) \o <<>> = buf \o buf_check
      BY <2>1, ConcatEmptySeq
    <2>. QED  BY <1>u, <1>e, <1>f, <2>2
  <1>4. Pending' = Pending
    BY <1>u DEF Pending, Handled, BytesOf
  <1>5. state' = {"START"} \/ state' = {"NORMAL"}
    BY <1>u, <1>o, <1>l, <1>f DEF FramingInv
  <1>. QED  BY <1>1, <1>2, <1>3, <1>4, <1>5 DEF FramingInv

(* A connection that ends for another reason. *)
LEMMA EndStep ==
    ASSUME Inv, StepInv, NEW why \in Endings, End(why), status = "open",
           why \notin {"parser exception", "empty"}
    PROVE  StepInv'
  <1>1. status' = why /\ why # "open"
    BY DEF End, Close, Endings
  <1>. QED  BY <1>1 DEF StepInv, FramingInv, LockStepKept

(* A well-formed request parses. *)
LEMMA ParserExceptionStep ==
    ASSUME Inv, StepInv, ParserException
    PROVE  StepInv'
  <1>u. UNCHANGED <<secure, window, reqs, stray>> /\ status' = "parser exception"
    BY DEF ParserException, End, Close, clientVars
  <1>o. status = "open" /\ pc = "parse" /\ HasDelim(buf_check)
    BY DEF ParserException
  <1>1. FramingInv'
    BY <1>u DEF FramingInv
  <1>. SUFFICES ASSUME Framed', (\A i \in DOMAIN reqs : reqs[i].kind # "garbage")'
                PROVE  FALSE
    BY <1>1, <1>u DEF StepInv, LockStepKept, Framed
  <1>l. Framed /\ \A i \in DOMAIN reqs : reqs[i].kind # "garbage"
    BY <1>u DEF Framed, LockStep
  <1>d. /\ Len(reqs) \in Nat \ {0}
        /\ buf_check = BytesOf(Len(reqs))
        /\ FirstDelim(buf_check) = Len(buf_check)
        /\ buf_check[1] = Text(Len(reqs), 1)
    BY <1>o, <1>l, DelimEndsRequest DEF StepInv
  <1>2. Take(buf_check, FirstDelim(buf_check)) = buf_check
    BY <1>d, Lengths, SubSeqFull DEF Take
  <1>3. Len(reqs) \in DOMAIN reqs
    BY <1>d, Lengths
  <1>4. Parses(buf_check)
    BY <1>d, <1>l, <1>3 DEF Parses, Text, Framed, LockStep
  <1>. QED  BY <1>2, <1>4 DEF ParserException

(* There is always something to append. *)
LEMMA AppendNothingStep ==
    ASSUME Inv, StepInv, AppendNothing
    PROVE  StepInv'
  <1>u. UNCHANGED <<secure, window, reqs, stray>> /\ status' = "empty"
    BY DEF AppendNothing, End, Close, clientVars
  <1>o. status = "open" /\ pc = "parse" /\ buf_check = <<>>
    BY DEF AppendNothing
  <1>1. ~Framed
    BY <1>o DEF StepInv, FramingInv, ReadInv
  <1>2. ~Framed'
    BY <1>u, <1>1 DEF Framed, LockStep
  <1>. QED  BY <1>2, <1>u DEF StepInv, FramingInv, LockStepKept, Framed

(***************************************************************************)
(* When strchr has run over the end of the data there is no more to show:  *)
(* every way such a connection may end is allowed.                         *)
(***************************************************************************)
LEMMA StrayStep ==
    ASSUME StrayDelim \/ StrayRequest
    PROVE  StepInv'
  <1>1. stray' = TRUE
    BY DEF StrayDelim, StrayRequest
  <1>. QED  BY <1>1 DEF StepInv, FramingInv, LockStepKept, Framed

(* A client that opened TLS is none of this kind. *)
LEMMA OtherClientStep ==
    ASSUME secure, secure' = secure, status = "open", status' = status
    PROVE  StepInv'
  <1>1. ~Framed'
    BY DEF Framed, LockStep
  <1>. QED  BY <1>1 DEF StepInv, FramingInv, LockStepKept

(* In such a connection nothing is or looks like TLS. *)
LEMMA TLSStep ==
    ASSUME Inv, StepInv, NEW n \in 1..JSONRPC_BUFF_LEN,
           ReadHello(n) \/ ReadHandshake(n) \/ ReadRecord(n)
    PROVE  StepInv'
  <1>u. UNCHANGED <<secure, window, reqs, status, stray>> /\ status = "open" /\ pc = "idle"
    BY DEF ReadHello, ReadHandshake, ReadRecord, clientVars, Arrives
  <1>. SUFFICES ASSUME Framed' PROVE FALSE
    BY <1>u DEF StepInv, FramingInv, LockStepKept
  <1>l. Framed
    BY <1>u DEF Framed, LockStep
  <1>s. FramingInv /\ (state = {"START"} \/ state = {"NORMAL"})
    BY <1>u, <1>l DEF StepInv, FramingInv
  <1>1. "SSL_HANDSHAKE" \notin state /\ "SSL_NORMAL" \notin state
    BY <1>s
  <1>2. ReadHello(n)
    BY <1>1 DEF ReadHandshake, ReadRecord
  <1>n. n \in 0..Len(wire) /\ n >= 1 /\ n \in Nat /\ Len(wire) \in Nat
    BY <1>2, Lengths, ServerAssumption DEF ServerAssumption, ReadHello, Arrives
  <1>3. Take(wire, n)[1] = wire[1]
    <2>1. 1 \in 1..n
      BY <1>n
    <2>. QED  BY <1>n, <2>1, Lengths, Cut
  <1>4. wire[1].from = "text"
    <2>1. wire # <<>> /\ 1 \in 1..Len(wire)
      BY <1>n
    <2>2. wire[1] = Text(Len(reqs), Len(buf) + Len(buf_check) + 1)
      BY <1>u, <1>l, <1>s, <2>1, OnTheWay
    <2>. QED  BY <2>2 DEF Text
  <1>. QED  BY <1>2, <1>3, <1>4 DEF ReadHello, IsTLSClientHello

(* Every step of the client, the server and the environment keeps it. *)
LEMMA NextStepInv == Inv /\ StepInv /\ [Next]_vars => StepInv'
  <1>. SUFFICES ASSUME Inv, StepInv, [Next]_vars PROVE StepInv'
    OBVIOUS
  <1>1. CASE Client
    <2>1. ASSUME NEW kind \in Kinds, NEW size \in Sizes, ClientSends(kind, size)
          PROVE  StepInv'
      BY <2>1, ClientSendsStep
    <2>2. ASSUME NEW kind \in Kinds, NEW size \in Sizes, NEW c \in 0..(size - 1),
                 ClientSendsTLS(kind, size, c)
          PROVE  StepInv'
      <3>1. UNCHANGED <<secure, window, status>> /\ status = "open" /\ secure
        BY <2>2 DEF ClientSendsTLS, MaySend, serverVars
      <3>. QED  BY <3>1, OtherClientStep
    <2>3. CASE ClientHandshake
      <3>1. UNCHANGED <<secure, window, status>> /\ status = "open" /\ secure
        BY <2>3 DEF ClientHandshake, serverVars
      <3>. QED  BY <3>1, OtherClientStep
    <2>. QED  BY <1>1, <2>1, <2>2, <2>3 DEF Client
  <1>2. ASSUME NEW n \in 1..JSONRPC_BUFF_LEN, Read(n)
        PROVE  StepInv'
    <2>1. CASE ReadPlain(n)
      BY <2>1, ReadPlainStep
    <2>2. CASE ReadHello(n) \/ ReadHandshake(n) \/ ReadRecord(n)
      BY <2>2, TLSStep
    <2>3. CASE RefuseHello(n) \/ ReadPartRecord(n) \/ AssertFails(n)
      BY <2>3, EndStep DEF RefuseHello, ReadPartRecord, AssertFails, Endings, Arrives
    <2>. QED  BY <1>2, <2>1, <2>2, <2>3 DEF Read
  <1>3. CASE AnswerHttp
    <2>1. UNCHANGED <<secure, window, status, stray>> /\ status = "open" /\ pc = "http"
          /\ UNCHANGED reqs
      BY <1>3 DEF AnswerHttp, clientVars
    <2>2. ~Framed
      BY <2>1 DEF StepInv, FramingInv, ReadInv
    <2>3. ~Framed'
      BY <2>1, <2>2 DEF Framed, LockStep
    <2>. QED  BY <2>1, <2>3 DEF StepInv, FramingInv, LockStepKept
  <1>4. CASE ParseMessage
    BY <1>4, ParseMessageStep
  <1>5. CASE AppendBuffer
    BY <1>5, AppendBufferStep
  <1>6. CASE ParserException
    BY <1>6, ParserExceptionStep
  <1>7. CASE AppendNothing
    BY <1>7, AppendNothingStep
  <1>8. CASE ReadNothing \/ HashAssertFails \/ AppendTooMuch
    BY <1>8, EndStep DEF ReadNothing, HashAssertFails, MessageAtHand, AppendTooMuch, Endings
  <1>9. CASE Environment
    <2>1. CASE StrayDelim \/ StrayRequest
      BY <2>1, StrayStep
    <2>2. CASE \/ SocketError \/ WriteKills
               \/ \E n \in 1..JSONRPC_BUFF_LEN : HandshakeFails(n)
      BY <2>2, EndStep DEF SocketError, WriteKills, MessageAtHand, HandshakeFails, Arrives,
                           Endings
    <2>. QED  BY <1>9, <2>1, <2>2 DEF Environment
  <1>10. CASE UNCHANGED vars
    <2>1. UNCHANGED <<secure, window, reqs, wire, state, buf, pc, buf_check, nread, status, out,
                     stray>>
      BY <1>10 DEF vars, clientVars, parseVars, replyVars
    <2>2. Pending' = Pending /\ Framed' = Framed /\ LockStep' = LockStep
      BY <2>1 DEF Pending, Handled, BytesOf, Framed, LockStep
    <2>3. FramingInv'
      BY <2>1, <2>2 DEF StepInv, FramingInv, ReplyInv, ReadInv
    <2>4. LockStepKept'
      BY <2>1, <2>2 DEF StepInv, LockStepKept
    <2>. QED  BY <2>3, <2>4 DEF StepInv
  <1>. QED  BY <1>1, <1>2, <1>3, <1>4, <1>5, <1>6, <1>7, <1>8, <1>9, <1>10 DEF Next, Server

(* The invariant of a connection whose client waits for its replies. *)
THEOREM FramingInvariance == Spec => []StepInv
  BY ConnectionInvariance, InitStepInv, NextStepInv, PTL DEF Spec

(***************************************************************************)
(* Whatever the lengths and the cuts: the internal buffer, what HandleRead *)
(* looks at and what is on the wire are exactly the request that waits.    *)
(***************************************************************************)
THEOREM BytesAreKept == Spec => []NoByteLost
  <1>1. StepInv => NoByteLost
    BY DEF StepInv, FramingInv, NoByteLost
  <1>. QED  BY <1>1, FramingInvariance, PTL

(***************************************************************************)
(* A client that waits for its replies and sends well-formed requests is   *)
(* closed by the parser, or for want of data, only after strchr has run    *)
(* over the end of a request that was cut.                                 *)
(***************************************************************************)
THEOREM WellFormedClientKept == Spec => []LockStepKept
  <1>1. StepInv => LockStepKept
    BY DEF StepInv
  <1>. QED  BY <1>1, FramingInvariance, PTL

-----------------------------------------------------------------------------
(* The order of the replies, for every client. *)

(* Of two bytes of text the first was sent before the second. *)
Prec(b, c) == b.from = "text" /\ c.from = "text" => (b.id < c.id \/ (b.id = c.id /\ b.k < c.k))

(* Every byte of s was sent before the ones behind it, or before all of t. *)
InOrder(s)  == \A i, j \in 1..Len(s) : i < j => Prec(s[i], s[j])
Ahead(s, t) == \A i \in 1..Len(s), j \in 1..Len(t) : Prec(s[i], t[j])

(* No byte of s begins a request that has a reply in o, or is of one before that. *)
FreshByte(o, b) ==
    \A j \in 1..Len(o) : b.from = "text" =>
        (o[j].req < b.id \/ (o[j].req = b.id /\ 1 < b.k))
Fresh(o, s) == \A i \in 1..Len(s) : FreshByte(o, s[i])

(* The records mbedtls has still to decrypt. *)
Coming == in_rec..Len(records)

(***************************************************************************)
(* The text comes to the parser in the order it was sent, over the wire or *)
(* in records, and what is still to come lies behind the last reply.       *)
(***************************************************************************)
HeldInv ==
    /\ InOrder(buf) /\ Fresh(out, buf)
    /\ InOrder(buf_check) /\ Fresh(out, buf_check)
    /\ pc = "http" => buf_check[1].k = 1
WireInv ==
    /\ InOrder(wire) /\ Fresh(out, wire)
    /\ Ahead(buf, wire) /\ Ahead(buf_check, wire)
    /\ secure => \A i \in 1..Len(wire) : wire[i].from = "tls"
ComingInv ==
    /\ \A r \in Coming : /\ InOrder(records[r].data) /\ Fresh(out, records[r].data)
                         /\ Ahead(buf, records[r].data) /\ Ahead(buf_check, records[r].data)
    /\ \A r, q \in Coming : r < q => Ahead(records[r].data, records[q].data)
    /\ ~secure => records = <<>>
OrderInv == HeldInv /\ WireInv /\ ComingInv /\ RepliesInOrder

(* Parts and concatenations. *)
LEMMA OrderOfConcat ==
    ASSUME NEW S, NEW s \in Seq(S), NEW t \in Seq(S), NEW u \in Seq(S), NEW o
    PROVE  /\ InOrder(s) /\ InOrder(t) /\ Ahead(s, t) => InOrder(s \o t)
           /\ Ahead(s, u) /\ Ahead(t, u) => Ahead(s \o t, u)
           /\ Ahead(u, s) /\ Ahead(u, t) => Ahead(u, s \o t)
           /\ Fresh(o, s) /\ Fresh(o, t) => Fresh(o, s \o t)
  <1>0. Len(s) \in Nat /\ Len(t) \in Nat /\ Len(u) \in Nat
    OBVIOUS
  <1>. DEFINE w == s \o t
  <1>1. /\ Len(w) = Len(s) + Len(t)
        /\ \A i \in 1..(Len(s) + Len(t)) : w[i] = IF i <= Len(s) THEN s[i] ELSE t[i - Len(s)]
    BY ConcatProperties
  <1>2. \A i \in 1..Len(w) : \/ i \in 1..Len(s) /\ w[i] = s[i]
                             \/ i - Len(s) \in 1..Len(t) /\ w[i] = t[i - Len(s)] /\ i > Len(s)
    BY <1>0, <1>1
  <1>. HIDE DEF w
  <1>3. ASSUME InOrder(s), InOrder(t), Ahead(s, t) PROVE InOrder(w)
    <2>. SUFFICES ASSUME NEW i \in 1..Len(w), NEW j \in 1..Len(w), i < j PROVE Prec(w[i], w[j])
      BY DEF InOrder
    <2>1. CASE i \in 1..Len(s) /\ w[i] = s[i] /\ j \in 1..Len(s) /\ w[j] = s[j]
      BY <2>1, <1>3 DEF InOrder
    <2>2. CASE i \in 1..Len(s) /\ w[i] = s[i] /\ j - Len(s) \in 1..Len(t) /\ w[j] = t[j - Len(s)]
      BY <2>2, <1>3 DEF Ahead
    <2>3. CASE i - Len(s) \in 1..Len(t) /\ w[i] = t[i - Len(s)] /\ j - Len(s) \in 1..Len(t) /\ w[j] = t[j - Len(s)]
      <3>1. i - Len(s) < j - Len(s)
        BY <1>0
      <3>. QED  BY <2>3, <3>1, <1>3 DEF InOrder
    <2>4. ~(i > Len(s) /\ j \in 1..Len(s))
      BY <1>0
    <2>. QED  BY <1>2, <2>1, <2>2, <2>3, <2>4
  <1>4. ASSUME Ahead(s, u), Ahead(t, u) PROVE Ahead(w, u)
    BY <1>2, <1>4 DEF Ahead
  <1>5. ASSUME Ahead(u, s), Ahead(u, t) PROVE Ahead(u, w)
    BY <1>2, <1>5 DEF Ahead
  <1>6. ASSUME Fresh(o, s), Fresh(o, t) PROVE Fresh(o, w)
    BY <1>2, <1>6 DEF Fresh
  <1>. QED  BY <1>3, <1>4, <1>5, <1>6 DEF w

LEMMA DropPlaces ==
    ASSUME NEW S, NEW s \in Seq(S), NEW n \in 0..Len(s)
    PROVE  /\ Len(Drop(s, n)) = Len(s) - n
           /\ \A i \in 1..(Len(s) - n) : Drop(s, n)[i] = s[i + n] /\ i + n \in 1..Len(s)
  <1>1. /\ Len(SubSeq(s, n + 1, Len(s))) = Len(s) - n
        /\ \A m \in 1..(Len(s) - n) : SubSeq(s, n + 1, Len(s))[m] = s[m + n]
    OBVIOUS
  <1>2. \A m \in 1..(Len(s) - n) : m + n \in 1..Len(s)
    OBVIOUS
  <1>. QED  BY <1>1, <1>2 DEF Drop

LEMMA OrderOfParts ==
    ASSUME NEW S, NEW s \in Seq(S), NEW u \in Seq(S), NEW n \in 0..Len(s), NEW o
    PROVE  /\ InOrder(s) => InOrder(Take(s, n)) /\ InOrder(Drop(s, n)) /\ Ahead(Take(s, n), Drop(s, n))
           /\ Ahead(s, u) => Ahead(Take(s, n), u) /\ Ahead(Drop(s, n), u)
           /\ Ahead(u, s) => Ahead(u, Take(s, n)) /\ Ahead(u, Drop(s, n))
           /\ Fresh(o, s) => Fresh(o, Take(s, n)) /\ Fresh(o, Drop(s, n))
  <1>. DEFINE a == Take(s, n)
             b == Drop(s, n)
  <1>0. Len(s) \in Nat /\ n \in Nat /\ n <= Len(s) /\ Len(u) \in Nat
    OBVIOUS
  <1>1. Len(a) = n /\ \A i \in 1..Len(a) : a[i] = s[i] /\ i \in 1..Len(s)
    <2>1. Len(a) = n /\ \A i \in 1..n : a[i] = s[i]
      BY Cut
    <2>2. \A i \in 1..n : i \in 1..Len(s)
      BY <1>0
    <2>. QED  BY <2>1, <2>2
  <1>2. Len(b) = Len(s) - n /\ \A i \in 1..Len(b) : b[i] = s[i + n] /\ i + n \in 1..Len(s)
    BY DropPlaces
  <1>. HIDE DEF a, b
  <1>3. ASSUME InOrder(s) PROVE InOrder(a) /\ InOrder(b) /\ Ahead(a, b)
    <2>1. InOrder(a)
      BY <1>1, <1>3 DEF InOrder
    <2>2. InOrder(b)
      <3>. SUFFICES ASSUME NEW i \in 1..Len(b), NEW j \in 1..Len(b), i < j PROVE Prec(b[i], b[j])
        BY DEF InOrder
      <3>1. i + n < j + n
        BY <1>0
      <3>. QED  BY <1>2, <1>3, <3>1 DEF InOrder
    <2>3. Ahead(a, b)
      <3>. SUFFICES ASSUME NEW i \in 1..Len(a), NEW j \in 1..Len(b) PROVE Prec(a[i], b[j])
        BY DEF Ahead
      <3>1. i < j + n
        BY <1>0, <1>1
      <3>. QED  BY <1>1, <1>2, <1>3, <3>1 DEF InOrder
    <2>. QED  BY <2>1, <2>2, <2>3
  <1>4. ASSUME Ahead(s, u) PROVE Ahead(a, u) /\ Ahead(b, u)
    BY <1>1, <1>2, <1>4 DEF Ahead
  <1>5. ASSUME Ahead(u, s) PROVE Ahead(u, a) /\ Ahead(u, b)
    BY <1>1, <1>2, <1>5 DEF Ahead
  <1>6. ASSUME Fresh(o, s) PROVE Fresh(o, a) /\ Fresh(o, b)
    BY <1>1, <1>2, <1>6 DEF Fresh
  <1>. QED  BY <1>3, <1>4, <1>5, <1>6 DEF a, b

(* Nothing is said of an empty sequence, nor of the bytes of records. *)
LEMMA OrderOfNothing ==
    ASSUME NEW S, NEW s \in Seq(S), NEW o
    PROVE  InOrder(<<>>) /\ Ahead(<<>>, s) /\ Ahead(s, <<>>) /\ Fresh(o, <<>>)
  <1>1. Len(<<>>) = 0
    OBVIOUS
  <1>. QED  BY <1>1 DEF InOrder, Ahead, Fresh

LEMMA OrderOfUnits ==
    ASSUME NEW S, NEW s \in Seq(S), NEW t \in Seq(S), NEW o,
           \A i \in 1..Len(s) : s[i].from = "tls"
    PROVE  InOrder(s) /\ Ahead(s, t) /\ Ahead(t, s) /\ Fresh(o, s)
  <1>1. \A i \in 1..Len(s) : s[i].from # "text"
    OBVIOUS
  <1>2. \A i \in 1..Len(s) : \A b : Prec(s[i], b) /\ Prec(b, s[i])
    BY <1>1 DEF Prec
  <1>3. \A i \in 1..Len(s) : FreshByte(o, s[i])
    BY <1>1 DEF FreshByte
  <1>. QED  BY <1>1, <1>2, <1>3 DEF InOrder, Ahead, Fresh

(* The next request is behind everything that is known. *)
LEMMA OrderOfNewText ==
    ASSUME Inv, NEW size \in Sizes, NEW text, text = [k \in 1..size |-> Text(Len(reqs) + 1, k)]
    PROVE  /\ InOrder(text) /\ Fresh(out, text)
           /\ \A s \in Seq(KnownBytes) : Ahead(s, text)
  <1>1. size \in Nat /\ Len(reqs) \in Nat
    BY ServerAssumption, Lengths DEF ServerAssumption
  <1>2. Len(text) = size
    BY <1>1
  <1>3. \A k \in 1..size : text[k].from = "text" /\ text[k].id = Len(reqs) + 1 /\ text[k].k = k
    BY DEF Text
  <1>4. InOrder(text)
    BY <1>1, <1>2, <1>3 DEF InOrder, Prec
  <1>5. \A j \in 1..Len(out) : out[j].req \in 0..Len(reqs)
    <2>. DEFINE R == Replies(reqs)
    <2>1. out \in Seq(R)
      BY DEF Inv, TypeOK
    <2>. HIDE DEF R
    <2>2. \A j \in 1..Len(out) : out[j] \in R
      BY <2>1, ElementOfSeq
    <2>. QED  BY <2>2 DEF R, Replies
  <1>6. Fresh(out, text)
    BY <1>1, <1>2, <1>3, <1>5 DEF Fresh, FreshByte
  <1>7. ASSUME NEW s \in Seq(KnownBytes) PROVE Ahead(s, text)
    <2>1. \A i \in 1..Len(s) : s[i] \in KnownBytes
      BY ElementOfSeq
    <2>2. \A i \in 1..Len(s) : s[i].from = "text" => s[i].id \in 1..Len(reqs)
      BY <2>1 DEF KnownBytes
    <2>. QED  BY <1>1, <1>2, <1>3, <2>2 DEF Ahead, Prec
  <1>. QED  BY <1>4, <1>6, <1>7

(* What the invariant looks at, with its types. *)
LEMMA Parts ==
    ASSUME Inv
    PROVE  /\ buf \in Seq(KnownBytes) /\ buf_check \in Seq(KnownBytes) /\ wire \in Seq(KnownBytes)
           /\ \A r \in 1..Len(records) : records[r].data \in Seq(KnownBytes)
           /\ Len(records) \in Nat /\ in_rec \in Nat \ {0}
           /\ Coming \subseteq 1..Len(records)
  <1>1. Len(records) \in Nat /\ in_rec \in Nat \ {0}
    BY RecordsLen DEF Inv, TypeOK
  <1>2. \A r \in 1..Len(records) : records[r] \in Recs(KnownBytes)
    BY ElementOfSeq DEF Inv, StreamInv
  <1>3. \A r \in 1..Len(records) : records[r].data \in Seq(KnownBytes)
    BY <1>2 DEF Recs
  <1>4. Coming \subseteq 1..Len(records)
    BY <1>1 DEF Coming
  <1>. QED  BY <1>1, <1>3, <1>4 DEF Inv, StreamInv

LEMMA EndOrder ==
    ASSUME Inv, OrderInv, NEW why, Close(why)
    PROVE  OrderInv'
  <1>1. /\ buf' = <<>> /\ wire' = <<>> /\ buf_check' = <<>> /\ pc' = "idle"
        /\ UNCHANGED <<secure, records, in_rec, out>>
    BY DEF Close, clientVars, replyVars
  <1>2. Coming' = Coming
    BY <1>1 DEF Coming
  <1>3. InOrder(<<>>) /\ Ahead(<<>>, <<>>) /\ Fresh(out, <<>>) /\ Len(<<>>) = 0
    <2>1. <<>> \in Seq(KnownBytes) /\ Len(<<>>) = 0
      OBVIOUS
    <2>. QED  BY <2>1, OrderOfNothing
  <1>4. \A r \in Coming : Ahead(<<>>, records[r].data)
    BY Parts, OrderOfNothing
  <1>5. HeldInv'
    BY <1>1, <1>3 DEF HeldInv
  <1>6. WireInv'
    BY <1>1, <1>3 DEF WireInv
  <1>7. ComingInv'
    BY <1>1, <1>2, <1>4 DEF OrderInv, ComingInv
  <1>8. RepliesInOrder'
    BY <1>1 DEF OrderInv, RepliesInOrder
  <1>. QED  BY <1>5, <1>6, <1>7, <1>8 DEF OrderInv

(* A read takes bytes off the wire, and perhaps mbedtls the rest of a record. *)
LEMMA ReadOrder ==
    ASSUME Inv, OrderInv, NEW n \in 0..Len(wire), wire' = Drop(wire, n)
    PROVE  /\ InOrder(wire') /\ Fresh(out, wire') /\ Ahead(buf, wire') /\ Ahead(buf_check, wire')
           /\ secure => \A i \in 1..Len(wire') : wire'[i].from = "tls"
  <1>1. wire \in Seq(KnownBytes) /\ buf \in Seq(KnownBytes) /\ buf_check \in Seq(KnownBytes)
    BY Parts
  <1>2. InOrder(wire) /\ Fresh(out, wire) /\ Ahead(buf, wire) /\ Ahead(buf_check, wire)
    BY DEF OrderInv, WireInv
  <1>3. InOrder(Drop(wire, n)) /\ Fresh(out, Drop(wire, n))
    BY <1>1, <1>2, OrderOfParts
  <1>4. Ahead(buf, Drop(wire, n))
    BY <1>1, <1>2, OrderOfParts
  <1>5. Ahead(buf_check, Drop(wire, n))
    BY <1>1, <1>2, OrderOfParts
  <1>6. ASSUME secure PROVE \A i \in 1..Len(Drop(wire, n)) : Drop(wire, n)[i].from = "tls"
    <2>1. \A i \in 1..Len(wire) : wire[i].from = "tls"
      BY <1>6 DEF OrderInv, WireInv
    <2>2. /\ Len(Drop(wire, n)) = Len(wire) - n
          /\ \A i \in 1..(Len(wire) - n) : Drop(wire, n)[i] = wire[i + n] /\ i + n \in 1..Len(wire)
      BY <1>1, DropPlaces
    <2>. DEFINE d == Drop(wire, n)
               m == Len(wire) - n
    <2>. HIDE DEF d, m
    <2>3. Len(d) = m /\ \A i \in 1..m : d[i] = wire[i + n] /\ i + n \in 1..Len(wire)
      BY <2>2 DEF d, m
    <2>4. \A i \in 1..Len(d) : d[i].from = "tls"
      BY <2>1, <2>3
    <2>. QED  BY <2>4 DEF d
  <1>. QED  BY <1>3, <1>4, <1>5, <1>6

LEMMA HandshakeOrder ==
    ASSUME Inv, OrderInv, NEW n \in 1..JSONRPC_BUFF_LEN, Arrives(n), ReadInto(n),
           in_rec' = in_rec \/ in_rec' = in_rec + 1,
           UNCHANGED <<secure, records, buf, buf_check, pc, out>>
    PROVE  OrderInv'
  <1>0. n \in 0..Len(wire) /\ wire' = Drop(wire, n)
    BY Lengths, ServerAssumption DEF Arrives, ReadInto, ServerAssumption
  <1>1. Coming' \subseteq Coming
    BY Parts DEF Coming
  <1>2. HeldInv'
    BY DEF OrderInv, HeldInv
  <1>3. WireInv'
    BY <1>0, ReadOrder DEF WireInv
  <1>4. ComingInv'
    BY <1>1 DEF OrderInv, ComingInv
  <1>5. RepliesInOrder'
    BY DEF OrderInv, RepliesInOrder
  <1>. QED  BY <1>2, <1>3, <1>4, <1>5 DEF OrderInv

(* The data of a read goes behind what was buffered. *)
LEMMA GatherOrder ==
    ASSUME Inv, OrderInv, NEW n \in 0..Len(wire), wire' = Drop(wire, n),
           NEW data \in Seq(KnownBytes), Gather(data),
           in_rec' = in_rec \/ in_rec' = in_rec + 1,
           UNCHANGED <<secure, records, out>>,
           InOrder(data), Fresh(out, data), Ahead(buf, data), Ahead(data, wire'),
           \A r \in in_rec'..Len(records) : Ahead(data, records[r].data)
    PROVE  OrderInv'
  <1>1. /\ buf_check' = buf \o data /\ buf' = <<>>
        /\ pc' = "http" => StartsHttp(buf_check')
    BY DEF Gather, HttpOrNot
  <1>2. /\ buf \in Seq(KnownBytes) /\ wire' \in Seq(KnownBytes)
        /\ \A r \in 1..Len(records) : records[r].data \in Seq(KnownBytes)
    BY Parts, Cut
  <1>3. Coming' \subseteq Coming /\ Coming' = in_rec'..Len(records) /\ Coming' \subseteq 1..Len(records)
    BY Parts DEF Coming
  <1>4. InOrder(buf) /\ Fresh(out, buf)
    BY DEF OrderInv, HeldInv
  <1>5. InOrder(buf \o data) /\ Fresh(out, buf \o data)
    BY <1>2, <1>4, OrderOfConcat
  <1>6. InOrder(<<>>) /\ Fresh(out, <<>>) /\ Ahead(<<>>, wire')
    BY <1>2, OrderOfNothing
  <1>7. /\ InOrder(wire') /\ Fresh(out, wire') /\ Ahead(buf, wire')
        /\ secure => \A i \in 1..Len(wire') : wire'[i].from = "tls"
    BY ReadOrder
  <1>8. Ahead(buf \o data, wire')
    BY <1>2, <1>7, OrderOfConcat
  <1>9. HeldInv'
    <2>1. (pc = "http" => buf_check[1].k = 1)'
      BY <1>1 DEF StartsHttp
    <2>. QED  BY <1>1, <1>5, <1>6, <2>1 DEF HeldInv
  <1>10. WireInv'
    BY <1>1, <1>6, <1>7, <1>8 DEF WireInv
  <1>11. ASSUME NEW r \in Coming'
         PROVE  Ahead(<<>>, records[r].data) /\ Ahead(buf \o data, records[r].data)
    <2>1. records[r].data \in Seq(KnownBytes) /\ Ahead(data, records[r].data)
      BY <1>2, <1>3
    <2>2. Ahead(buf, records[r].data)
      BY <1>3 DEF OrderInv, ComingInv
    <2>. QED  BY <1>2, <2>1, <2>2, OrderOfConcat, OrderOfNothing
  <1>12. ComingInv'
    BY <1>1, <1>3, <1>11 DEF OrderInv, ComingInv
  <1>13. RepliesInOrder'
    BY DEF OrderInv, RepliesInOrder
  <1>. QED  BY <1>9, <1>10, <1>12, <1>13 DEF OrderInv

LEMMA ReadPlainOrder ==
    ASSUME Inv, OrderInv, NEW n \in 1..JSONRPC_BUFF_LEN, ReadPlain(n)
    PROVE  OrderInv'
  <1>. DEFINE data == Take(wire, n)
  <1>0. n \in 0..Len(wire) /\ wire' = Drop(wire, n) /\ Gather(data)
        /\ UNCHANGED <<secure, records, in_rec, out>>
    BY Lengths, ServerAssumption
       DEF ReadPlain, Arrives, ReadInto, ServerAssumption, clientVars, tlsVars, replyVars
  <1>1. /\ wire \in Seq(KnownBytes) /\ buf \in Seq(KnownBytes)
        /\ \A r \in 1..Len(records) : records[r].data \in Seq(KnownBytes)
    BY Parts
  <1>2. /\ data \in Seq(KnownBytes) /\ Len(data) = n /\ \A i \in 1..n : data[i] = wire[i]
    BY <1>0, <1>1, Cut
  <1>3. InOrder(wire) /\ Fresh(out, wire) /\ Ahead(buf, wire)
    BY DEF OrderInv, WireInv
  <1>4. InOrder(data) /\ Fresh(out, data) /\ Ahead(data, wire')
    BY <1>0, <1>1, <1>3, OrderOfParts
  <1>5. Ahead(buf, data)
    BY <1>0, <1>1, <1>3, OrderOfParts
  <1>. HIDE DEF data
  <1>6. ASSUME NEW r \in in_rec'..Len(records) PROVE Ahead(data, records[r].data)
    <2>1. r \in 1..Len(records)
      BY <1>0, Parts DEF Coming
    <2>2. secure
      <3>1. records # <<>>
        BY <2>1
      <3>. QED  BY <3>1 DEF OrderInv, ComingInv
    <2>3. \A i \in 1..Len(data) : data[i].from = "tls"
      <3>1. \A i \in 1..Len(wire) : wire[i].from = "tls"
        BY <2>2 DEF OrderInv, WireInv
      <3>2. \A i \in 1..n : i \in 1..Len(wire)
        BY <1>0, Lengths
      <3>. QED  BY <1>2, <3>1, <3>2
    <2>. QED  BY <1>1, <1>2, <2>1, <2>3, OrderOfUnits
  <1>. QED  BY <1>0, <1>2, <1>4, <1>5, <1>6, GatherOrder

LEMMA ReadRecordOrder ==
    ASSUME Inv, OrderInv, NEW n \in 1..JSONRPC_BUFF_LEN, ReadRecord(n)
    PROVE  OrderInv'
  <1>. DEFINE data == records[in_rec].data
  <1>0. n \in 0..Len(wire) /\ wire' = Drop(wire, n) /\ Gather(data) /\ in_rec' = in_rec + 1
        /\ UNCHANGED <<secure, records, out>>
    BY Lengths, ServerAssumption
       DEF ReadRecord, Arrives, ReadInto, ServerAssumption, clientVars, replyVars
  <1>1. in_rec \in 1..Len(records) /\ in_rec \in Coming /\ \A r \in in_rec'..Len(records) : r \in Coming /\ in_rec < r
    <2>1. in_rec \in 1..Len(records)
      BY RecordsLen DEF ReadRecord, InRecord, Inv
    <2>. QED  BY <1>0, <2>1, Parts DEF Coming
  <1>2. /\ wire' \in Seq(KnownBytes) /\ data \in Seq(KnownBytes)
    BY <1>0, <1>1, Parts, Cut
  <1>3. InOrder(data) /\ Fresh(out, data) /\ Ahead(buf, data)
    BY <1>1 DEF OrderInv, ComingInv
  <1>4. \A r \in in_rec'..Len(records) : Ahead(data, records[r].data)
    BY <1>1 DEF OrderInv, ComingInv
  <1>5. Ahead(data, wire')
    <2>1. secure
      BY <1>1 DEF OrderInv, ComingInv
    <2>2. \A i \in 1..Len(wire') : wire'[i].from = "tls"
      BY <1>0, <2>1, ReadOrder
    <2>. QED  BY <1>2, <2>2, OrderOfUnits
  <1>. HIDE DEF data
  <1>. QED  BY <1>0, <1>2, <1>3, <1>4, <1>5, GatherOrder

LEMMA AppendBufferOrder ==
    ASSUME Inv, OrderInv, AppendBuffer
    PROVE  OrderInv'
  <1>1. /\ buf' = buf \o buf_check /\ buf_check' = <<>> /\ pc' = "idle"
        /\ UNCHANGED <<secure, records, in_rec, out, wire>>
    BY DEF AppendBuffer, clientVars, tlsVars, replyVars
  <1>2. buf = <<>>
    BY DEF AppendBuffer, Inv, ParseInv
  <1>3. buf' = buf_check
    BY <1>1, <1>2, Parts, ConcatEmptySeq
  <1>4. InOrder(<<>>) /\ Fresh(out, <<>>) /\ Ahead(<<>>, wire)
    BY Parts, OrderOfNothing
  <1>5. Coming' = Coming
    BY <1>1 DEF Coming
  <1>6. \A r \in Coming : Ahead(<<>>, records[r].data)
    BY Parts, OrderOfNothing
  <1>7. HeldInv'
    BY <1>1, <1>3, <1>4 DEF OrderInv, HeldInv
  <1>8. WireInv'
    BY <1>1, <1>3, <1>4 DEF OrderInv, WireInv
  <1>9. ComingInv'
    BY <1>1, <1>3, <1>5, <1>6 DEF OrderInv, ComingInv
  <1>10. RepliesInOrder'
    BY <1>1 DEF OrderInv, RepliesInOrder
  <1>. QED  BY <1>7, <1>8, <1>9, <1>10 DEF OrderInv

(* The client sends a request, in the clear. *)
LEMMA ClientSendsOrder ==
    ASSUME Inv, OrderInv, NEW kind \in Kinds, NEW size \in Sizes, ClientSends(kind, size)
    PROVE  OrderInv'
  <1>. DEFINE text == [k \in 1..size |-> Text(Len(reqs) + 1, k)]
  <1>1. /\ UNCHANGED <<secure, records, in_rec, buf, pc, buf_check, out>> /\ ~secure
        /\ wire' = wire \o text
    BY DEF ClientSends, serverVars, tlsVars, parseVars, replyVars
  <1>2. /\ InOrder(text) /\ Fresh(out, text)
        /\ Ahead(wire, text) /\ Ahead(buf, text) /\ Ahead(buf_check, text)
    BY OrderOfNewText, Parts
  <1>3. wire \in Seq(Bytes) /\ buf \in Seq(Bytes) /\ buf_check \in Seq(Bytes) /\ text \in Seq(Bytes)
    <2>1. \A b \in {b \in Bytes : b.from = "text" => b.id \in 1..(Len(reqs) + 1)} : b \in Bytes
      OBVIOUS
    <2>. DEFINE T == {b \in Bytes : b.from = "text" => b.id \in 1..(Len(reqs) + 1)}
    <2>2. text \in Seq(T) /\ T \subseteq Bytes
      BY NewText DEF Inv
    <2>. HIDE DEF T, text
    <2>3. text \in Seq(Bytes)
      BY <2>2, SeqMonotonic
    <2>. QED  BY <2>3, Lengths
  <1>. HIDE DEF text
  <1>4. InOrder(wire) /\ Fresh(out, wire) /\ Ahead(buf, wire) /\ Ahead(buf_check, wire)
    BY DEF OrderInv, WireInv
  <1>5. InOrder(wire \o text) /\ Fresh(out, wire \o text)
    BY <1>2, <1>3, <1>4, OrderOfConcat
  <1>6. Ahead(buf, wire \o text)
    BY <1>2, <1>3, <1>4, OrderOfConcat
  <1>7. Ahead(buf_check, wire \o text)
    BY <1>2, <1>3, <1>4, OrderOfConcat
  <1>8. HeldInv'
    BY <1>1 DEF OrderInv, HeldInv
  <1>9. WireInv'
    BY <1>1, <1>5, <1>6, <1>7 DEF WireInv
  <1>10. ComingInv'
    BY <1>1 DEF OrderInv, ComingInv, Coming
  <1>11. RepliesInOrder'
    BY <1>1 DEF OrderInv, RepliesInOrder
  <1>. QED  BY <1>8, <1>9, <1>10, <1>11 DEF OrderInv

(* The client sends records, whose bytes on the wire say nothing of the text. *)
LEMMA RecordsOrder ==
    ASSUME Inv, OrderInv, secure, UNCHANGED <<secure, in_rec, buf, buf_check, pc, out>>,
           wire' \in Seq(KnownBytes), \A i \in 1..Len(wire') : wire'[i].from = "tls",
           NEW T, NEW more \in Seq(T), records \in Seq(T), records' = records \o more,
           \A i \in 1..Len(more) :
              /\ InOrder(more[i].data) /\ Fresh(out, more[i].data)
              /\ \A s \in Seq(KnownBytes) : Ahead(s, more[i].data),
           \A i, j \in 1..Len(more) : i < j => Ahead(more[i].data, more[j].data)
    PROVE  OrderInv'
  <1>0. Len(records) \in Nat /\ Len(more) \in Nat /\ in_rec \in Nat \ {0}
    BY Parts
  <1>1. /\ Len(records') = Len(records) + Len(more)
        /\ \A i \in 1..(Len(records) + Len(more)) : records'[i] =
               IF i <= Len(records) THEN records[i] ELSE more[i - Len(records)]
    BY ConcatProperties
  <1>2. ASSUME NEW r \in Coming'
        PROVE  \/ r \in Coming /\ r \in 1..Len(records) /\ records'[r] = records[r]
               \/ /\ r - Len(records) \in 1..Len(more) /\ r > Len(records)
                  /\ records'[r] = more[r - Len(records)]
    BY <1>0, <1>1 DEF Coming
  <1>3. /\ buf \in Seq(KnownBytes) /\ buf_check \in Seq(KnownBytes)
        /\ \A r \in 1..Len(records) : records[r].data \in Seq(KnownBytes)
    BY Parts
  <1>4. ASSUME NEW r \in Coming'
        PROVE  /\ InOrder(records'[r].data) /\ Fresh(out, records'[r].data)
               /\ Ahead(buf, records'[r].data) /\ Ahead(buf_check, records'[r].data)
    <2>1. CASE r \in Coming /\ r \in 1..Len(records) /\ records'[r] = records[r]
      BY <2>1 DEF OrderInv, ComingInv
    <2>2. CASE /\ r - Len(records) \in 1..Len(more) /\ r > Len(records)
               /\ records'[r] = more[r - Len(records)]
      BY <2>2, <1>3
    <2>. QED  BY <1>2, <2>1, <2>2
  <1>5. ASSUME NEW r \in Coming', NEW q \in Coming', r < q
        PROVE  Ahead(records'[r].data, records'[q].data)
    <2>1. CASE /\ r \in Coming /\ r \in 1..Len(records) /\ records'[r] = records[r]
               /\ q \in Coming /\ q \in 1..Len(records) /\ records'[q] = records[q]
      BY <2>1, <1>5 DEF OrderInv, ComingInv
    <2>2. CASE /\ r \in Coming /\ r \in 1..Len(records) /\ records'[r] = records[r]
               /\ q - Len(records) \in 1..Len(more) /\ records'[q] = more[q - Len(records)]
      BY <2>2, <1>3
    <2>3. CASE /\ r - Len(records) \in 1..Len(more) /\ records'[r] = more[r - Len(records)]
               /\ q - Len(records) \in 1..Len(more) /\ records'[q] = more[q - Len(records)]
      <3>1. r - Len(records) < q - Len(records)
        BY <1>0, <1>1, <1>5 DEF Coming
      <3>. QED  BY <2>3, <3>1
    <2>4. ~(r > Len(records) /\ q \in 1..Len(records))
      BY <1>0, <1>1, <1>5 DEF Coming
    <2>. QED  BY <1>2, <2>1, <2>2, <2>3, <2>4
  <1>6. HeldInv'
    BY DEF OrderInv, HeldInv
  <1>7. WireInv'
    <2>1. InOrder(wire') /\ Fresh(out, wire') /\ Ahead(buf, wire') /\ Ahead(buf_check, wire')
      BY <1>3, OrderOfUnits
    <2>. QED  BY <2>1 DEF WireInv
  <1>8. ComingInv'
    BY <1>4, <1>5 DEF ComingInv
  <1>9. RepliesInOrder'
    BY DEF OrderInv, RepliesInOrder
  <1>. QED  BY <1>6, <1>7, <1>8, <1>9 DEF OrderInv

LEMMA UnitsAdded ==
    ASSUME NEW s \in Seq(KnownBytes), \A i \in 1..Len(s) : s[i].from = "tls",
           NEW r \in Nat \ {0}, NEW size \in Nat
    PROVE  /\ s \o UnitsOf(r, size) \in Seq(KnownBytes)
           /\ \A i \in 1..Len(s \o UnitsOf(r, size)) : (s \o UnitsOf(r, size))[i].from = "tls"
  <1>. DEFINE u == UnitsOf(r, size)
  <1>1. u \in Seq(KnownBytes) /\ Len(u) \in Nat /\ Len(s) \in Nat
    BY NewUnits
  <1>2. \A i \in 1..Len(u) : u[i].from = "tls"
    BY DEF UnitsOf
  <1>. HIDE DEF u
  <1>3. /\ s \o u \in Seq(KnownBytes) /\ Len(s \o u) = Len(s) + Len(u)
        /\ \A i \in 1..(Len(s) + Len(u)) : (s \o u)[i] = IF i <= Len(s) THEN s[i] ELSE u[i - Len(s)]
    BY <1>1, ConcatProperties
  <1>4. ASSUME NEW i \in 1..(Len(s) + Len(u)) PROVE (s \o u)[i].from = "tls"
    <2>1. CASE i <= Len(s)
      <3>1. i \in 1..Len(s)
        BY <1>1, <2>1
      <3>. QED  BY <2>1, <3>1, <1>3
    <2>2. CASE ~(i <= Len(s))
      <3>1. i - Len(s) \in 1..Len(u)
        BY <1>1, <2>2
      <3>. QED  BY <2>2, <3>1, <1>2, <1>3
    <2>. QED  BY <2>1, <2>2
  <1>. QED  BY <1>3, <1>4 DEF u

LEMMA ClientSendsTLSOrder ==
    ASSUME Inv, OrderInv, NEW kind \in Kinds, NEW size \in Sizes, NEW c \in 0..(size - 1),
           ClientSendsTLS(kind, size, c)
    PROVE  OrderInv'
  <1>. DEFINE text == [k \in 1..size |-> Text(Len(reqs) + 1, k)]
             r == Len(records) + 1
             A == Seq(KnownBytes)
             D(q) == /\ InOrder(q) /\ Fresh(out, q)
                     /\ \A s \in A : Ahead(s, q)
             T == [size : Int, data : Seq(Bytes)]
  <1>u. UNCHANGED <<secure, in_rec, buf, pc, buf_check, out>> /\ secure
    BY DEF ClientSendsTLS, serverVars, tlsVars, parseVars, replyVars
  <1>c. /\ \/ c = 0 /\ records' = Append(records, DataRecord(text))
               /\ wire' = wire \o UnitsOf(r, DataRecord(text).size)
           \/ /\ records' = records \o <<DataRecord(Take(text, c)), DataRecord(Drop(text, c))>>
              /\ wire' = wire \o UnitsOf(r, DataRecord(Take(text, c)).size)
                              \o UnitsOf(r + 1, DataRecord(Drop(text, c)).size)
    BY DEF ClientSendsTLS
  <1>d. D(text)
    BY OrderOfNewText
  <1>t. text \in Seq(Bytes) /\ Len(text) = size /\ size \in Nat
    <2>. DEFINE B == {b \in Bytes : b.from = "text" => b.id \in 1..(Len(reqs) + 1)}
    <2>1. text \in Seq(B) /\ B \subseteq Bytes /\ Len(text) = size
      BY NewText DEF Inv
    <2>2. size \in Nat
      BY ServerAssumption DEF ServerAssumption
    <2>. HIDE DEF B, text
    <2>. QED  BY <2>1, <2>2, SeqMonotonic
  <1>n. r \in Nat \ {0} /\ r + 1 \in Nat \ {0} /\ c \in 0..Len(text)
    BY Parts, <1>t
  <1>r. records \in Seq(T)
    <2>1. \A q \in [size : Nat, data : Seq(Bytes)] : q \in T
      OBVIOUS
    <2>2. records \in Seq([size : Nat, data : Seq(Bytes)])
      BY DEF Inv, TypeOK
    <2>. DEFINE N == [size : Nat, data : Seq(Bytes)]
    <2>. HIDE DEF T, N
    <2>3. N \subseteq T /\ records \in Seq(N)
      BY <2>1, <2>2 DEF N
    <2>. QED  BY <2>3, SeqMonotonic
  <1>w. wire \in A /\ \A i \in 1..Len(wire) : wire[i].from = "tls"
    BY <1>u, Parts DEF OrderInv, WireInv
  <1>a. \A s \in A : s \in Seq(Bytes)
    BY KnownAreBytes, SeqMonotonic
  <1>. HIDE DEF text, r
  <1>z. ASSUME NEW d \in Seq(Bytes)
        PROVE  DataRecord(d) \in T /\ DataRecord(d).data = d /\ DataRecord(d).size \in Nat
    BY ServerAssumption DEF ServerAssumption, DataRecord
  <1>1. CASE c = 0 /\ records' = Append(records, DataRecord(text))
             /\ wire' = wire \o UnitsOf(r, DataRecord(text).size)
    <2>. DEFINE one == DataRecord(text)
               more == <<one>>
    <2>1. one \in T /\ one.data = text /\ one.size \in Nat
      BY <1>z, <1>t
    <2>2. wire' \in A /\ \A i \in 1..Len(wire') : wire'[i].from = "tls"
      <3>. DEFINE z == one.size
      <3>1. wire' = wire \o UnitsOf(r, z) /\ z \in Nat /\ r \in Nat \ {0}
        BY <1>1, <1>n, <2>1
      <3>. HIDE DEF z
      <3>. QED  BY <1>w, <3>1, UnitsAdded
    <2>. HIDE DEF one, T, A
    <2>3. more \in Seq(T) /\ Len(more) = 1 /\ more[1] = one
      BY <2>1
    <2>4. records' = records \o more
      BY <1>1, <1>r, <2>1, AppendIsConcat DEF one
    <2>. HIDE DEF more, D
    <2>5. \A i \in 1..Len(more) : D(more[i].data)
      BY <1>d, <2>1, <2>3
    <2>6. \A i, j \in 1..Len(more) : i < j => Ahead(more[i].data, more[j].data)
      BY <2>3
    <2>. QED  BY <1>u, <1>r, <2>2, <2>3, <2>4, <2>5, <2>6, RecordsOrder DEF A, D
  <1>2. CASE /\ records' = records \o <<DataRecord(Take(text, c)), DataRecord(Drop(text, c))>>
             /\ wire' = wire \o UnitsOf(r, DataRecord(Take(text, c)).size)
                             \o UnitsOf(r + 1, DataRecord(Drop(text, c)).size)
    <2>. DEFINE one == DataRecord(Take(text, c))
               two == DataRecord(Drop(text, c))
               more == <<one, two>>
    <2>0. Take(text, c) \in Seq(Bytes) /\ Drop(text, c) \in Seq(Bytes)
      BY <1>n, <1>t, Cut
    <2>1. /\ one \in T /\ one.data = Take(text, c) /\ one.size \in Nat
          /\ two \in T /\ two.data = Drop(text, c) /\ two.size \in Nat
      BY <1>z, <2>0
    <2>2. wire' \in A /\ \A i \in 1..Len(wire') : wire'[i].from = "tls"
      <3>. DEFINE z == one.size
                 y == two.size
                 q == r + 1
                 w == wire \o UnitsOf(r, z)
      <3>0. z \in Nat /\ y \in Nat /\ r \in Nat \ {0} /\ q \in Nat \ {0}
        BY <1>n, <2>1
      <3>2. wire' = w \o UnitsOf(q, y)
        BY <1>2
      <3>. HIDE DEF z, y, q
      <3>1. w \in A /\ \A i \in 1..Len(w) : w[i].from = "tls"
        BY <1>w, <3>0, UnitsAdded
      <3>. HIDE DEF w
      <3>. QED  BY <3>0, <3>1, <3>2, UnitsAdded
    <2>4. records' = records \o more
      BY <1>2
    <2>5. D(Take(text, c)) /\ D(Drop(text, c)) /\ Ahead(Take(text, c), Drop(text, c))
      <3>1. InOrder(Take(text, c)) /\ InOrder(Drop(text, c)) /\ Ahead(Take(text, c), Drop(text, c))
        BY <1>n, <1>t, <1>d, OrderOfParts
      <3>2. Fresh(out, Take(text, c)) /\ Fresh(out, Drop(text, c))
        BY <1>n, <1>t, <1>d, OrderOfParts
      <3>3. \A s \in A : Ahead(s, Take(text, c)) /\ Ahead(s, Drop(text, c))
        BY <1>n, <1>t, <1>d, <1>a, OrderOfParts
      <3>. QED  BY <3>1, <3>2, <3>3
    <2>. HIDE DEF one, two, T, A, D
    <2>3. more \in Seq(T) /\ Len(more) = 2 /\ more[1] = one /\ more[2] = two
      BY <2>1
    <2>. HIDE DEF more
    <2>6. \A i \in 1..Len(more) : D(more[i].data)
      BY <2>1, <2>3, <2>5
    <2>7. \A i, j \in 1..Len(more) : i < j => Ahead(more[i].data, more[j].data)
      <3>1. \A i, j \in 1..Len(more) : i < j => i = 1 /\ j = 2
        BY <2>3
      <3>. QED  BY <2>1, <2>3, <2>5, <3>1
    <2>. QED  BY <1>u, <1>r, <2>2, <2>3, <2>4, <2>6, <2>7, RecordsOrder DEF A, D
  <1>. QED  BY <1>c, <1>1, <1>2

LEMMA ClientHandshakeOrder ==
    ASSUME Inv, OrderInv, ClientHandshake
    PROVE  OrderInv'
  <1>. DEFINE more == <<HelloRecord>>
             T == Recs(KnownBytes)
  <1>u. UNCHANGED <<secure, in_rec, buf, pc, buf_check, out>> /\ secure
    BY DEF ClientHandshake, serverVars, tlsVars, parseVars, replyVars
  <1>h. HelloRecord \in T /\ HelloSize \in Nat /\ HelloRecord.data = <<>>
    BY ServerAssumption DEF ServerAssumption, HelloRecord, Recs
  <1>w. wire' \in Seq(KnownBytes) /\ \A i \in 1..Len(wire') : wire'[i].from = "tls"
    <2>1. wire \in Seq(KnownBytes) /\ \A i \in 1..Len(wire) : wire[i].from = "tls"
      BY <1>u, Parts DEF OrderInv, WireInv
    <2>2. wire' = wire \o UnitsOf(Len(records) + 1, HelloSize) /\ Len(records) + 1 \in Nat \ {0}
      BY Parts DEF ClientHandshake
    <2>. QED  BY <1>h, <2>1, <2>2, UnitsAdded
  <1>r. records \in Seq(T)
    BY DEF Inv, StreamInv
  <1>. HIDE DEF T
  <1>m. more \in Seq(T) /\ Len(more) = 1 /\ more[1] = HelloRecord
    BY <1>h
  <1>a. records' = records \o more
    BY <1>h, <1>r, AppendIsConcat DEF ClientHandshake
  <1>. HIDE DEF more
  <1>1. \A i \in 1..Len(more) : more[i].data = <<>>
    BY <1>h, <1>m
  <1>2. InOrder(<<>>) /\ Fresh(out, <<>>) /\ \A s \in Seq(KnownBytes) : Ahead(s, <<>>)
    <2>1. <<>> \in Seq(KnownBytes)
      OBVIOUS
    <2>2. InOrder(<<>>) /\ Fresh(out, <<>>)
      BY <2>1, OrderOfNothing
    <2>3. ASSUME NEW s \in Seq(KnownBytes) PROVE Ahead(s, <<>>)
      BY OrderOfNothing
    <2>. QED  BY <2>2, <2>3
  <1>3. \A i, j \in 1..Len(more) : ~(i < j)
    BY <1>m
  <1>. QED  BY <1>u, <1>w, <1>r, <1>m, <1>a, <1>1, <1>2, <1>3, RecordsOrder

-----------------------------------------------------------------------------
(* A reply goes behind the others, and what is left behind it. *)

LEMMA ReplyOrder ==
    ASSUME Inv, OrderInv, buf_check # <<>>, buf_check[1].from = "text", buf_check[1].k = 1,
           WriteReply(buf_check[1].id) \/ WritePage(buf_check[1].id)
    PROVE  /\ RepliesInOrder'
           /\ \A s \in Seq(KnownBytes) :
                 /\ Fresh(out, s)
                 /\ \A i \in 1..Len(s) : Prec(buf_check[1], s[i])
                 => Fresh(out', s)
  <1>. DEFINE id == buf_check[1].id
  <1>1. id \in 1..Len(reqs) /\ id \in Nat
    BY FirstByte, Lengths
  <1>2. /\ Len(out') = Len(out) + 1 /\ Len(out) \in Nat
        /\ \A j \in 1..Len(out) : out'[j] = out[j]
        /\ out'[Len(out) + 1].req = id
        /\ DOMAIN out' = 1..Len(out') /\ DOMAIN out = 1..Len(out)
    BY <1>1, WriteReplyType, Lengths, SMTT(60) DEF Inv
  <1>3. 1 \in 1..Len(buf_check)
    BY Lengths, EmptySeq
  <1>. DEFINE R == Replies(reqs)
  <1>4. \A j \in 1..Len(out) : out[j].req \in Nat
    <2>1. out \in Seq(R)
      BY DEF Inv, TypeOK
    <2>. HIDE DEF R
    <2>2. \A j \in 1..Len(out) : out[j] \in R
      BY <2>1, ElementOfSeq
    <2>. QED  BY <2>2, Lengths DEF R, Replies
  <1>5. \A j \in 1..Len(out) : out[j].req < id
    <2>1. FreshByte(out, buf_check[1])
      BY <1>3 DEF OrderInv, HeldInv, Fresh
    <2>. QED  BY <2>1 DEF FreshByte
  <1>6. \A j \in 1..Len(out') : (j \in 1..Len(out) /\ out'[j] = out[j]) \/ j = Len(out) + 1
    BY <1>2
  <1>7. RepliesInOrder'
    <2>. SUFFICES ASSUME NEW a \in 1..Len(out'), NEW b \in 1..Len(out'), a < b,
                         out'[a].req # 0, out'[b].req # 0
                  PROVE  out'[a].req < out'[b].req
      BY <1>2 DEF RepliesInOrder
    <2>1. a \in 1..Len(out) /\ out'[a] = out[a]
      BY <1>2
    <2>2. CASE b \in 1..Len(out) /\ out'[b] = out[b]
      BY <1>2, <2>1, <2>2 DEF OrderInv, RepliesInOrder
    <2>3. CASE b = Len(out) + 1
      BY <1>2, <1>5, <2>1, <2>3
    <2>. QED  BY <1>6, <2>2, <2>3
  <1>8. ASSUME NEW s \in Seq(KnownBytes), Fresh(out, s),
               \A i \in 1..Len(s) : Prec(buf_check[1], s[i])
        PROVE  Fresh(out', s)
    <2>. SUFFICES ASSUME NEW i \in 1..Len(s), NEW j \in 1..Len(out'), s[i].from = "text"
                  PROVE  out'[j].req < s[i].id \/ (out'[j].req = s[i].id /\ 1 < s[i].k)
      BY DEF Fresh, FreshByte
    <2>1. CASE j \in 1..Len(out) /\ out'[j] = out[j]
      BY <1>8, <2>1 DEF Fresh, FreshByte
    <2>2. CASE j = Len(out) + 1
      <3>1. Prec(buf_check[1], s[i])
        BY <1>8
      <3>2. id < s[i].id \/ (id = s[i].id /\ 1 < s[i].k)
        BY <3>1 DEF Prec
      <3>. QED  BY <1>2, <2>2, <3>2
    <2>. QED  BY <1>6, <2>1, <2>2
  <1>. QED  BY <1>7, <1>8

(* The bytes a reply leaves to look at, and those still to come. *)
LEMMA RepliedOrder ==
    ASSUME Inv, OrderInv, pc # "idle",
           buf_check # <<>>, buf_check[1].from = "text", buf_check[1].k = 1,
           WriteReply(buf_check[1].id) \/ WritePage(buf_check[1].id), pc' # "http",
           UNCHANGED <<secure, records, in_rec, wire, buf>>,
           \/ buf_check' = <<>>
           \/ \E n \in 1..Len(buf_check) : buf_check' = Drop(buf_check, n)
    PROVE  OrderInv'
  <1>. DEFINE b1 == buf_check[1]
             A == Seq(KnownBytes)
             Behind(s) == \A i \in 1..Len(s) : Prec(b1, s[i])
  <1>0. buf = <<>> /\ 1 \in 1..Len(buf_check) /\ Len(buf_check) \in Nat
    BY Lengths, EmptySeq DEF Inv, ParseInv
  <1>1. /\ buf_check \in A /\ wire \in A
        /\ \A r \in Coming : records[r].data \in A
        /\ Coming' = Coming
    BY Parts DEF Coming
  <1>2. RepliesInOrder' /\ \A s \in A : Fresh(out, s) /\ Behind(s) => Fresh(out', s)
    BY ReplyOrder
  <1>3. Behind(wire) /\ \A r \in Coming : Behind(records[r].data)
    BY <1>0 DEF OrderInv, WireInv, ComingInv, Ahead
  <1>4. Fresh(out', wire)
    BY <1>1, <1>2, <1>3 DEF OrderInv, WireInv
  <1>5. \A r \in Coming : Fresh(out', records[r].data)
    BY <1>1, <1>2, <1>3 DEF OrderInv, ComingInv
  <1>6. /\ <<>> \in A /\ InOrder(<<>>) /\ Fresh(out', <<>>) /\ Ahead(<<>>, wire)
        /\ \A r \in Coming : Ahead(<<>>, records[r].data)
    <2>1. <<>> \in A
      OBVIOUS
    <2>. HIDE DEF A
    <2>. QED  BY <1>1, <2>1, OrderOfNothing DEF A
  <1>7. /\ InOrder(buf_check') /\ Fresh(out', buf_check') /\ Ahead(buf_check', wire)
        /\ \A r \in Coming : Ahead(buf_check', records[r].data)
    <2>1. CASE buf_check' = <<>>
      BY <1>6, <2>1
    <2>2. ASSUME NEW n \in 1..Len(buf_check), buf_check' = Drop(buf_check, n)
          PROVE  <1>7!:
      <3>. DEFINE d == Drop(buf_check, n)
      <3>0. n \in 0..Len(buf_check) /\ n \in Nat /\ n >= 1
        BY <1>0
      <3>1. InOrder(buf_check) /\ Fresh(out, buf_check) /\ Ahead(buf_check, wire)
        BY DEF OrderInv, HeldInv, WireInv
      <3>2. InOrder(d) /\ Fresh(out, d) /\ d \in A
        BY <1>1, <3>0, <3>1, OrderOfParts, Cut
      <3>3. Ahead(d, wire)
        BY <1>1, <3>0, <3>1, OrderOfParts
      <3>4. ASSUME NEW r \in Coming PROVE Ahead(d, records[r].data)
        <4>1. Ahead(buf_check, records[r].data) /\ records[r].data \in A
          BY <1>1 DEF OrderInv, ComingInv
        <4>. QED  BY <1>1, <3>0, <4>1, OrderOfParts
      <3>5. /\ Len(d) = Len(buf_check) - n
            /\ \A i \in 1..(Len(buf_check) - n) : d[i] = buf_check[i + n] /\ i + n \in 1..Len(buf_check)
        BY <1>1, <3>0, DropPlaces
      <3>. HIDE DEF d
      <3>6. Behind(d)
        <4>. SUFFICES ASSUME NEW i \in 1..Len(d) PROVE Prec(b1, d[i])
          OBVIOUS
        <4>1. i + n \in 1..Len(buf_check) /\ d[i] = buf_check[i + n]
          BY <3>5
        <4>2. 1 < i + n
          BY <3>0, <3>5, <1>0
        <4>. QED  BY <1>0, <3>1, <4>1, <4>2 DEF InOrder
      <3>7. Fresh(out', d)
        BY <1>2, <3>2, <3>6
      <3>. QED  BY <2>2, <3>2, <3>3, <3>4, <3>7 DEF d
    <2>. QED  BY <2>1, <2>2
  <1>8. HeldInv'
    BY <1>0, <1>6, <1>7 DEF HeldInv
  <1>9. WireInv'
    BY <1>0, <1>4, <1>6, <1>7 DEF OrderInv, WireInv
  <1>10. ComingInv'
    BY <1>0, <1>1, <1>5, <1>6, <1>7 DEF OrderInv, ComingInv
  <1>. QED  BY <1>2, <1>8, <1>9, <1>10 DEF OrderInv

LEMMA AnswerHttpOrder ==
    ASSUME Inv, OrderInv, AnswerHttp
    PROVE  OrderInv'
  <1>1. /\ buf_check # <<>> /\ buf_check[1].from = "text" /\ buf_check[1].k = 1
        /\ pc = "http"
    BY DEF AnswerHttp, Inv, ParseInv, OrderInv, HeldInv
  <1>2. /\ WritePage(buf_check[1].id) /\ pc' = "idle" /\ buf_check' = <<>>
        /\ UNCHANGED <<secure, records, in_rec, wire, buf>>
    BY DEF AnswerHttp, clientVars, tlsVars
  <1>. QED  BY <1>1, <1>2, RepliedOrder

(* A message that parses begins with the first byte of its request. *)
LEMMA ParseMessageOrder ==
    ASSUME Inv, OrderInv, ParseMessage
    PROVE  OrderInv'
  <1>. DEFINE nl == FirstDelim(buf_check)
             m == Take(buf_check, nl)
  <1>u. UNCHANGED <<secure, records, in_rec, wire, buf>> /\ pc = "parse"
    BY DEF ParseMessage, MessageAtHand, clientVars, tlsVars
  <1>d. nl \in 1..Len(buf_check) /\ buf_check # <<>> /\ Len(buf_check) \in Nat
    BY Lengths, FirstDelimDef DEF ParseMessage, MessageAtHand
  <1>p. /\ Parses(m) /\ WriteReply(buf_check[1].id)
        /\ \/ pc' = "parse" /\ buf_check' = Drop(buf_check, nl)
           \/ pc' = "idle" /\ buf_check' = <<>>
    BY DEF ParseMessage, MessageAtHand, NextOffset, HandleCommand
  <1>1. m[1] = buf_check[1] /\ buf_check[1].from = "text"
    <2>0. nl \in 0..Len(buf_check) /\ 1 \in 1..nl
      BY <1>d
    <2>1. m[1] = buf_check[1]
      BY <2>0, Lengths, Cut
    <2>. QED  BY <1>p, <2>1 DEF Parses
  <1>2. buf_check[1].k = 1
    <2>. DEFINE i == buf_check[1].id
    <2>1. i \in 1..Len(reqs)
      BY <1>1, <1>d, FirstByte
    <2>2. m = BytesOf(i)
      BY <1>p, <1>1 DEF Parses
    <2>. HIDE DEF i, m
    <2>3. 1 \in 1..reqs[i].size
      BY <2>1, Lengths
    <2>4. m[1] = Text(i, 1)
      BY <2>1, <2>2, <2>3, BytesOfRequest
    <2>. QED  BY <1>1, <2>4 DEF Text
  <1>. HIDE DEF nl, m
  <1>. QED  BY <1>u, <1>d, <1>p, <1>1, <1>2, RepliedOrder

(* A stray message takes all there was to look at; its reply has no number. *)
LEMMA StrayRequestOrder ==
    ASSUME Inv, OrderInv, StrayRequest
    PROVE  OrderInv'
  <1>. DEFINE reply == [req |-> 0, body |-> "result", tls |-> FALSE]
  <1>u. UNCHANGED <<secure, records, in_rec, wire, buf>> /\ pc' # "http" /\ buf_check' = <<>>
    BY DEF StrayRequest, clientVars, tlsVars
  <1>1. reply \in Replies(reqs) /\ reply.body # "lost" /\ reply.req = 0 /\ WriteInternal(reply)
    <2>1. 0 \in 0..Len(reqs)
      BY Lengths
    <2>. QED  BY <2>1 DEF StrayRequest, Replies
  <1>. HIDE DEF reply
  <1>2. /\ Len(out') = Len(out) + 1 /\ Len(out) \in Nat
        /\ \A j \in 1..Len(out) : out'[j] = out[j]
        /\ out'[Len(out) + 1].req = 0
        /\ DOMAIN out' = 1..Len(out') /\ DOMAIN out = 1..Len(out)
    <2>1. /\ out' \in Seq(Replies(reqs)) /\ Len(out') = Len(out) + 1
          /\ \A j \in 1..Len(out) : out'[j] = out[j]
          /\ out'[Len(out) + 1].req = reply.req
      BY <1>1, WriteInternalType DEF Inv
    <2>. QED  BY <1>1, <2>1, Lengths, LenProperties
  <1>3. \A j \in 1..Len(out') : (j \in 1..Len(out) /\ out'[j] = out[j]) \/ out'[j].req = 0
    BY <1>2
  <1>4. RepliesInOrder'
    BY <1>2, <1>3 DEF OrderInv, RepliesInOrder
  <1>5. ASSUME NEW s \in Seq(KnownBytes), Fresh(out, s) PROVE Fresh(out', s)
    <2>. SUFFICES ASSUME NEW i \in 1..Len(s), NEW j \in 1..Len(out'), s[i].from = "text"
                  PROVE  out'[j].req < s[i].id \/ (out'[j].req = s[i].id /\ 1 < s[i].k)
      BY DEF Fresh, FreshByte
    <2>1. CASE j \in 1..Len(out) /\ out'[j] = out[j]
      BY <1>5, <2>1 DEF Fresh, FreshByte
    <2>2. CASE out'[j].req = 0
      <3>1. s[i] \in KnownBytes
        BY ElementOfSeq
      <3>2. s[i].id \in Nat \ {0}
        BY <3>1 DEF KnownBytes, Bytes
      <3>. QED  BY <2>2, <3>2
    <2>. QED  BY <1>3, <2>1, <2>2
  <1>6. /\ buf \in Seq(KnownBytes) /\ wire \in Seq(KnownBytes) /\ <<>> \in Seq(KnownBytes)
        /\ \A r \in Coming : records[r].data \in Seq(KnownBytes)
        /\ Coming' = Coming
    BY <1>u, Parts, EmptySeq DEF Coming
  <1>7. /\ InOrder(<<>>) /\ Fresh(out', <<>>) /\ Ahead(<<>>, wire)
        /\ \A r \in Coming : Ahead(<<>>, records[r].data)
    BY <1>6, OrderOfNothing
  <1>8. Fresh(out', buf) /\ Fresh(out', wire) /\ \A r \in Coming : Fresh(out', records[r].data)
    BY <1>5, <1>6 DEF OrderInv, HeldInv, WireInv, ComingInv
  <1>9. HeldInv'
    BY <1>u, <1>7, <1>8 DEF OrderInv, HeldInv
  <1>10. WireInv'
    BY <1>u, <1>7, <1>8 DEF OrderInv, WireInv
  <1>11. ComingInv'
    BY <1>u, <1>6, <1>7, <1>8 DEF OrderInv, ComingInv
  <1>. QED  BY <1>4, <1>9, <1>10, <1>11 DEF OrderInv

-----------------------------------------------------------------------------
(* The order holds initially and every step keeps it. *)

LEMMA InitOrder == Init => OrderInv
  <1>. SUFFICES ASSUME Init PROVE OrderInv
    OBVIOUS
  <1>1. /\ buf = <<>> /\ buf_check = <<>> /\ wire = <<>> /\ records = <<>> /\ out = <<>>
        /\ pc = "idle" /\ in_rec = 1
    BY DEF Init
  <1>2. InOrder(<<>>) /\ Ahead(<<>>, <<>>) /\ Fresh(out, <<>>) /\ Len(<<>>) = 0
    <2>1. <<>> \in Seq(KnownBytes) /\ Len(<<>>) = 0
      OBVIOUS
    <2>. QED  BY <2>1, OrderOfNothing
  <1>3. Coming = {}
    BY <1>1 DEF Coming
  <1>4. RepliesInOrder
    BY <1>1 DEF RepliesInOrder
  <1>. QED  BY <1>1, <1>2, <1>3, <1>4 DEF OrderInv, HeldInv, WireInv, ComingInv

LEMMA NextOrder == Inv /\ OrderInv /\ [Next]_vars => OrderInv'
  <1>. SUFFICES ASSUME Inv, OrderInv, [Next]_vars PROVE OrderInv'
    OBVIOUS
  <1>1. CASE Client
    BY <1>1, ClientSendsOrder, ClientSendsTLSOrder, ClientHandshakeOrder DEF Client
  <1>2. ASSUME NEW n \in 1..JSONRPC_BUFF_LEN, Read(n)
        PROVE  OrderInv'
    <2>1. CASE ReadPlain(n)
      BY <2>1, ReadPlainOrder
    <2>2. CASE ReadRecord(n)
      BY <2>2, ReadRecordOrder
    <2>3. CASE ReadHello(n) \/ ReadHandshake(n)
      <3>1. /\ Arrives(n) /\ ReadInto(n)
            /\ UNCHANGED <<secure, records, buf, buf_check, pc, out>>
            /\ in_rec' = in_rec \/ in_rec' = in_rec + 1
        BY <2>3 DEF ReadHello, ReadHandshake, TryHandshake, clientVars, replyVars
      <3>. QED  BY <3>1, HandshakeOrder
    <2>4. CASE RefuseHello(n) \/ ReadPartRecord(n) \/ AssertFails(n)
      BY <2>4, EndOrder DEF RefuseHello, ReadPartRecord, AssertFails, End
    <2>. QED  BY <1>2, <2>1, <2>2, <2>3, <2>4 DEF Read
  <1>3. CASE AnswerHttp
    BY <1>3, AnswerHttpOrder
  <1>4. CASE ParseMessage
    BY <1>4, ParseMessageOrder
  <1>5. CASE AppendBuffer
    BY <1>5, AppendBufferOrder
  <1>6. CASE \/ ReadNothing \/ HashAssertFails \/ ParserException
             \/ AppendNothing \/ AppendTooMuch
    BY <1>6, EndOrder
       DEF ReadNothing, HashAssertFails, ParserException, AppendNothing, AppendTooMuch, End
  <1>7. CASE Environment
    BY <1>7, EndOrder, StrayRequestOrder
       DEF Environment, SocketError, WriteKills, StrayDelim, HandshakeFails, End
  <1>8. CASE UNCHANGED vars
    <2>1. UNCHANGED <<secure, records, in_rec, wire, buf, pc, buf_check, out>>
      BY <1>8 DEF vars, clientVars, tlsVars, parseVars, replyVars
    <2>. QED  BY <2>1 DEF OrderInv, HeldInv, WireInv, ComingInv, Coming, RepliesInOrder
  <1>. QED  BY <1>1, <1>2, <1>3, <1>4, <1>5, <1>6, <1>7, <1>8 DEF Next, Server

(***************************************************************************)
(* The text reaches the parser in the order in which it was sent, plain or *)
(* in TLS records, and nothing of it lies before the last reply.           *)
(***************************************************************************)
THEOREM OrderInvariance == Spec => []OrderInv
  BY ConnectionInvariance, InitOrder, NextOrder, PTL DEF Spec

(***************************************************************************)
(* For every client, also one that sends ahead of the replies, and every   *)
(* cut of the stream into reads and records: HandleRead answers no request *)
(* twice, and none before one that was sent earlier.                       *)
(***************************************************************************)
THEOREM RepliesKeepOrder == Spec => []RepliesInOrder
  <1>1. OrderInv => RepliesInOrder
    BY DEF OrderInv
  <1>. QED  BY <1>1, OrderInvariance, PTL
=============================================================================
