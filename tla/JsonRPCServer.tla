--------------------------- MODULE JsonRPCServer ---------------------------
(***************************************************************************)
(* One client connection of the Electrum server (JsonRPCServer.cxx).       *)
(* libuv's read callback gets at most JSONRPC_BUFF_LEN bytes at a time,    *)
(* cut anywhere; HandleRead recognises a TLS ClientHello, puts what was    *)
(* buffered in front of what was read, and handles one request per line.   *)
(* Everything runs on the event loop's thread, so that only the client and *)
(* the network interleave with it.                                         *)
(*                                                                         *)
(* A request is its number, what HandleCommand makes of it and how many    *)
(* bytes it has, the last of which is JSONRPC_DELIM.  libuv and mbedtls    *)
(* are modelled from how the code uses them; the client is the environment.*)
(***************************************************************************)
EXTENDS Integers, Sequences, FiniteSets

CONSTANTS
    JSONRPC_BUFF_LEN,    \* the buffer libuv reads into
    JSONRPC_MAX_BUFFER,  \* the size AppendBuffer refuses to go beyond
    Kinds,               \* the kinds of requests the client sends
    Sizes,               \* the lengths of its requests, delimiter included
    MaxRequests,         \* bound: requests on the connection
    MaxWindow,           \* bound: requests the client sends ahead of the replies
    TLSOverhead,         \* bytes a TLS record adds to its plaintext
    HelloSize,           \* bytes of a record of the handshake
    HelloMin,            \* bytes IsTLSClientHello wants to see
    MaxFaults            \* bound: uv_write calls that fail

(***************************************************************************)
(* What HandleRead and HandleCommand make of a request: a method with a    *)
(* reply; block.header, which also asks bitcoind; an unknown method, params*)
(* that are no array or a null request, which get an error; a              *)
(* scripthash.subscribe whose hash has another length than a uint256; text *)
(* that does not parse or has a method or id of the wrong type; an HTTP    *)
(* GET.                                                                    *)
(***************************************************************************)
AllKinds == {"method", "header", "refused", "badhash", "garbage", "http"}

ASSUME ServerAssumption ==
    /\ JSONRPC_BUFF_LEN \in Nat \ {0}
    /\ JSONRPC_MAX_BUFFER \in Nat \ {0}
    /\ Kinds \subseteq AllKinds
    /\ Sizes \subseteq Nat \ {0, 1}
    /\ MaxRequests \in Nat
    /\ MaxWindow \in Nat \ {0}
    /\ TLSOverhead \in Nat \ {0}
    /\ HelloMin \in Nat \ {0}
    /\ HelloSize \in Nat /\ HelloSize >= HelloMin
    /\ MaxFaults \in Nat

VARIABLES
    secure, window,  \* the client: opens TLS; how far it sends ahead
    reqs,            \* the requests it sent
    records,         \* the TLS records it sent
    wire,            \* bytes on their way to the server
    full,            \* the last read filled its buffer, so that libuv reads again
    state,           \* the JsonRPCState flags
    ssl_config,      \* a certificate is configured
    ssl_buf,         \* what mbedtls has not yet taken of the last read
    in_rec, in_left, \* mbedtls: the record it is in, and how much of it it has
    buf, len,        \* the internal buffer: its content (offset bytes) and capacity
    pc,              \* where HandleRead is between two reads or two messages
    buf_check,       \* the bytes HandleRead has still to look at
    nread,           \* what the last read returned
    status,          \* "open", or why the connection ended
    out,             \* what was written to the client
    queries,         \* queries passed on to bitcoind's RPCClient
    stray,           \* history: strchr found a newline behind the data
    faults           \* history: how much of MaxFaults is used

clientVars == <<secure, window, reqs, records>>
tlsVars    == <<ssl_buf, in_rec, in_left>>
parseVars  == <<pc, buf_check, nread>>
replyVars  == <<out, queries, faults>>
vars == <<clientVars, wire, full, state, ssl_config, tlsVars, buf, len, parseVars,
          status, replyVars, stray>>

-----------------------------------------------------------------------------
(* Bytes, requests and records. *)

Bytes == [from : {"text", "tls"}, id : Nat \ {0}, k : Nat \ {0}]
Text(i, k) == [from |-> "text", id |-> i, k |-> k]
BytesOf(i) == [k \in 1..reqs[i].size |-> Text(i, k)]
IsDelim(b) == b.from = "text" /\ b.k = reqs[b.id].size

UnitsOf(r, size) == [k \in 1..size |-> [from |-> "tls", id |-> r, k |-> k]]
DataRecord(data) == [size |-> TLSOverhead + Len(data), data |-> data]
HelloRecord == [size |-> HelloSize, data |-> <<>>]

Take(s, n) == SubSeq(s, 1, n)
Drop(s, n) == SubSeq(s, n + 1, Len(s))

Handled  == {out[j].req : j \in DOMAIN out}

(* The replies the client can read: over TLS none that mbedtls did not write. *)
Answered == {j \in DOMAIN out : out[j].body # "lost" /\ (secure => out[j].tls)}

Init ==
    /\ secure \in BOOLEAN /\ window \in 1..MaxWindow
    /\ ssl_config \in BOOLEAN
    /\ reqs = <<>> /\ records = <<>> /\ wire = <<>> /\ full = FALSE
    /\ state = {"START"}
    /\ ssl_buf = <<>> /\ in_rec = 1 /\ in_left = 0
    /\ buf = <<>> /\ len = 0
    /\ pc = "idle" /\ buf_check = <<>> /\ nread = 0
    /\ status = "open" /\ out = <<>> /\ queries = 0 /\ faults = 0
    /\ stray = FALSE

-----------------------------------------------------------------------------
(* The client. *)

serverVars == <<full, state, ssl_config, tlsVars, buf, len, parseVars, status, replyVars,
                stray>>

(* It has at most window requests without a reply. *)
MaySend ==
    /\ status = "open"
    /\ Len(reqs) < MaxRequests
    /\ Len(reqs) - Cardinality(Answered) < window

ClientSends(kind, size) ==
    /\ MaySend /\ ~secure
    /\ kind = "http" => size > 3
    /\ reqs' = Append(reqs, [kind |-> kind, size |-> size])
    /\ wire' = wire \o [k \in 1..size |-> Text(Len(reqs) + 1, k)]
    /\ UNCHANGED <<secure, window, records, serverVars>>

(* Over TLS a request is one record, or two when it is cut after c bytes. *)
ClientSendsTLS(kind, size, c) ==
    LET bytes == [k \in 1..size |-> Text(Len(reqs) + 1, k)]
        r     == Len(records) + 1
        whole == DataRecord(bytes)
        one   == DataRecord(Take(bytes, c))
        two   == DataRecord(Drop(bytes, c))
    IN  /\ MaySend /\ secure /\ state = {"SSL_NORMAL"}
        /\ kind = "http" => size > 3
        /\ reqs' = Append(reqs, [kind |-> kind, size |-> size])
        /\ \/ /\ c = 0
              /\ records' = Append(records, whole)
              /\ wire' = wire \o UnitsOf(r, whole.size)
           \/ /\ c > 0
              /\ records' = records \o <<one, two>>
              /\ wire' = wire \o UnitsOf(r, one.size) \o UnitsOf(r + 1, two.size)
        /\ UNCHANGED <<secure, window, serverVars>>

(* The client's two flights of a handshake; the second answers the server's. *)
ClientHandshake ==
    /\ status = "open" /\ secure
    /\ \/ records = <<>>
       \/ Len(records) = 1 /\ in_rec = 2
    /\ records' = Append(records, HelloRecord)
    /\ wire' = wire \o UnitsOf(Len(records) + 1, HelloSize)
    /\ UNCHANGED <<secure, window, reqs, serverVars>>

-----------------------------------------------------------------------------
(* End: read_stop, free the TLS context and the buffer, uv_close. *)

Close(why) ==
    /\ status' = why
    /\ buf' = <<>> /\ ssl_buf' = <<>> /\ wire' = <<>>
    /\ pc' = "idle" /\ buf_check' = <<>> /\ nread' = 0 /\ full' = FALSE
    /\ UNCHANGED <<clientVars, state, ssl_config, in_rec, in_left, len, replyVars>>

End(why) == Close(why) /\ UNCHANGED stray

(* The peer closed or reset the connection: nread < 0. *)
SocketError ==
    /\ status = "open" /\ pc = "idle"
    /\ End("peer")

(***************************************************************************)
(* After a read that filled the buffer libuv reads again at once; when     *)
(* nothing is there it calls back with nread = 0, which HandleRead treats  *)
(* like a closed socket.                                                   *)
(***************************************************************************)
ReadNothing ==
    /\ status = "open" /\ pc = "idle"
    /\ full /\ wire = <<>>
    /\ End("nothing")

-----------------------------------------------------------------------------
(* HandleRead: TLS or not, and what there is to parse. *)

Arrives(n) ==
    /\ status = "open" /\ pc = "idle"
    /\ n <= Len(wire)

(* The read callback takes n bytes off the wire. *)
ReadInto(n) ==
    /\ wire' = Drop(wire, n)
    /\ full' = (n = JSONRPC_BUFF_LEN)
    /\ nread' = n

IsTLSClientHello(data) ==
    Len(data) >= HelloMin /\ data[1].from = "tls" /\ data[1].k = 1

(***************************************************************************)
(* Three bytes are compared.  Where there are less, strstr takes what lies *)
(* behind them in memory, which may or may not complete "GET".             *)
(***************************************************************************)
StartsHttp(s) ==
    /\ s[1].from = "text" /\ s[1].k = 1 /\ reqs[s[1].id].kind = "http"
    /\ \A k \in {2, 3} \cap DOMAIN s : s[k] = Text(s[1].id, k)
HttpOrNot(s) ==
    IF ~StartsHttp(s) THEN {"parse"}
    ELSE IF Len(s) >= 3 THEN {"http"} ELSE {"http", "parse"}

(* Mutant of Gather: the internal buffer is used and not cleared. *)
GatherKeepsBuffer(data) ==
    /\ buf_check' = buf \o data
    /\ buf' = buf
    /\ pc' \in HttpOrNot(buf \o data)

(* The internal buffer goes in front of the data and its offset back to 0. *)
Gather(data) ==
    /\ buf_check' = buf \o data
    /\ buf' = <<>>
    /\ pc' \in HttpOrNot(buf \o data)

(* Mutant of ReadPlain: the first-read flag stays. *)
ReadPlainStart(n) ==
    /\ Arrives(n)
    /\ "SSL_NORMAL" \notin state
    /\ "START" \in state => ~IsTLSClientHello(Take(wire, n))
    /\ state' = state \cup {"NORMAL"}
    /\ ReadInto(n)
    /\ Gather(Take(wire, n))
    /\ UNCHANGED <<clientVars, ssl_config, tlsVars, len, status, replyVars, stray>>

ReadPlain(n) ==
    /\ Arrives(n)
    /\ "SSL_NORMAL" \notin state
    /\ "START" \in state => ~IsTLSClientHello(Take(wire, n))
    /\ state' = (state \ {"START"}) \cup {"NORMAL"}
    /\ ReadInto(n)
    /\ Gather(Take(wire, n))
    /\ UNCHANGED <<clientVars, ssl_config, tlsVars, len, status, replyVars, stray>>

(* mbedtls gets bytes of the record it is in; what is missing of that one. *)
InRecord == in_rec \in DOMAIN records
Missing  == records[in_rec].size - in_left

(***************************************************************************)
(* TryHandshake: mbedtls takes the bytes of the client's flight; with the  *)
(* second one complete the handshake is done.                              *)
(***************************************************************************)
TryHandshake(data, flags) ==
    /\ InRecord
    /\ IF Len(data) < Missing
       THEN in_left' = in_left + Len(data) /\ in_rec' = in_rec
       ELSE in_left' = 0 /\ in_rec' = in_rec + 1
    /\ ssl_buf' = Drop(data, Missing)
    /\ state' = IF in_rec' = 3 THEN flags \ {"SSL_HANDSHAKE"} ELSE flags

ReadHello(n) ==
    /\ Arrives(n)
    /\ "START" \in state /\ IsTLSClientHello(Take(wire, n))
    /\ ssl_config
    /\ TryHandshake(Take(wire, n), {"SSL_NORMAL", "SSL_HANDSHAKE"})
    /\ ReadInto(n)
    /\ UNCHANGED <<clientVars, ssl_config, buf, len, pc, buf_check, status, replyVars,
                   stray>>

(* "Client tried to open SSL connection on non-SSL enabled port.." *)
RefuseHello(n) ==
    /\ Arrives(n)
    /\ "START" \in state /\ IsTLSClientHello(Take(wire, n))
    /\ ~ssl_config
    /\ End("refused")

ReadHandshake(n) ==
    /\ Arrives(n)
    /\ "SSL_HANDSHAKE" \in state /\ ssl_buf = <<>>
    /\ TryHandshake(Take(wire, n), state)
    /\ ReadInto(n)
    /\ UNCHANGED <<clientVars, ssl_config, buf, len, pc, buf_check, status, replyVars,
                   stray>>

(* mbedtls rejects what the client sent: session_reset, and the end. *)
HandshakeFails(n) ==
    /\ Arrives(n)
    /\ \/ "SSL_HANDSHAKE" \in state /\ ssl_buf = <<>>
       \/ "START" \in state /\ IsTLSClientHello(Take(wire, n)) /\ ssl_config
    /\ End("handshake")

(***************************************************************************)
(* mbedtls_ssl_read returns the plaintext of one record and leaves the     *)
(* rest of the read in ssl_buf.                                            *)
(***************************************************************************)
ReadRecord(n) ==
    /\ Arrives(n)
    /\ state = {"SSL_NORMAL"} /\ ssl_buf = <<>>
    /\ InRecord /\ n >= Missing
    /\ ssl_buf' = Drop(Take(wire, n), Missing)
    /\ in_rec' = in_rec + 1 /\ in_left' = 0
    /\ Gather(records[in_rec].data)
    /\ ReadInto(n)
    /\ UNCHANGED <<clientVars, ssl_config, state, len, status, replyVars, stray>>

(* Part of a record: AppendBuffer(MBEDTLS_ERR_SSL_WANT_READ, ..) returns 0. *)
ReadPartRecord(n) ==
    /\ Arrives(n)
    /\ state = {"SSL_NORMAL"} /\ ssl_buf = <<>>
    /\ InRecord /\ n < Missing
    /\ End("partial record")

(* assert(this->ssl_buf == nullptr) *)
AssertFails(n) ==
    /\ Arrives(n)
    /\ "SSL_NORMAL" \in state /\ ssl_buf # <<>>
    /\ End("aborted")

-----------------------------------------------------------------------------
(* HandleRead: the messages. *)

(* Mutant of HasDelim: the search stops one byte early. *)
HasDelimShort(s) == \E i \in 1..(Len(s) - 1) : IsDelim(s[i])

HasDelim(s) == \E i \in DOMAIN s : IsDelim(s[i])
FirstDelim(s) == CHOOSE i \in DOMAIN s : IsDelim(s[i]) /\ \A j \in 1..(i - 1) : ~IsDelim(s[j])

(* The request of a message; bytes that are no whole request do not parse. *)
Parses(m) ==
    /\ m[1].from = "text" /\ m = BytesOf(m[1].id)
    /\ reqs[m[1].id].kind \notin {"garbage", "http"}

(* WriteInternal: uv_write takes the reply or, rarely, fails and drops it. *)
WriteInternal(reply) ==
    \/ /\ out' = Append(out, reply)
       /\ UNCHANGED faults
    \/ /\ faults < MaxFaults
       /\ faults' = faults + 1
       /\ out' = Append(out, [reply EXCEPT !.body = "lost"])

(* A reply of HandleCommand goes to the socket as it is, TLS or not. *)
Reply(i) ==
    [req |-> i, body |-> IF reqs[i].kind = "refused" THEN "error" ELSE "result",
     tls |-> FALSE]
WriteReply(i) == WriteInternal(Reply(i))

(* Write: over TLS the page is encrypted. *)
WritePage(i) ==
    WriteInternal([req |-> i, body |-> "result", tls |-> "SSL_NORMAL" \in state])

(***************************************************************************)
(* HandleCommand: one reply for every request, CommandSuccess or           *)
(* CommandError; block.header first passes a query to RPCClient and does   *)
(* not wait for its answer.                                                *)
(***************************************************************************)
HandleCommand(i) ==
    /\ queries' = IF reqs[i].kind = "header" THEN queries + 1 ELSE queries
    /\ WriteReply(i)

(* "nothing to do for http": everything that was read is dropped. *)
AnswerHttp ==
    /\ status = "open" /\ pc = "http"
    /\ WritePage(buf_check[1].id)
    /\ pc' = "idle" /\ buf_check' = <<>>
    /\ UNCHANGED <<clientVars, wire, full, state, ssl_config, tlsVars, buf, len, nread,
                   status, queries, stray>>

(* Mutant of ParseAgain: off by one. *)
ParseAgainLate(mlen) == mlen <= nread - 1

(* Whether HandleRead looks for another message after one of mlen bytes. *)
ParseAgain(mlen) == mlen < nread - 1

(* Mutant of NextOffset: readOffset is not moved past the message. *)
NextOffsetSame(nl) == 0
NextOffset(nl) == nl

(* The next delimiter ends a request that parses and gets a reply. *)
MessageAtHand ==
    /\ status = "open" /\ pc = "parse"
    /\ HasDelim(buf_check)
    /\ Parses(Take(buf_check, FirstDelim(buf_check)))

ParseMessage ==
    /\ MessageAtHand
    /\ reqs[buf_check[1].id].kind # "badhash"
    /\ LET nl == FirstDelim(buf_check)
       IN  /\ HandleCommand(buf_check[1].id)
           /\ IF ParseAgain(nl - 1)
              THEN pc' = "parse" /\ buf_check' = Drop(buf_check, NextOffset(nl))
              ELSE pc' = "idle"  /\ buf_check' = <<>>
    /\ UNCHANGED <<clientVars, wire, full, state, ssl_config, tlsVars, buf, len, nread,
                   status, stray>>

(* The constructor of uint256 asserts the length of the hash. *)
HashAssertFails ==
    /\ MessageAtHand
    /\ reqs[buf_check[1].id].kind = "badhash"
    /\ End("hash assertion")

(* "Parser exception": also thrown when method or id has the wrong type. *)
ParserException ==
    /\ status = "open" /\ pc = "parse"
    /\ HasDelim(buf_check)
    /\ ~Parses(Take(buf_check, FirstDelim(buf_check)))
    /\ End("parser exception")

(***************************************************************************)
(* The peer has reset the connection while its request was still to be     *)
(* handled: the write of the reply raises SIGPIPE, which nothing ignores.  *)
(***************************************************************************)
WriteKills ==
    /\ \/ status = "open" /\ pc = "http"
       \/ MessageAtHand /\ reqs[buf_check[1].id].kind # "badhash"
    /\ End("killed")

(***************************************************************************)
(* strchr is not told where the data ends: it may find a newline in the    *)
(* memory behind it.  What then lies between does not parse, or fails the  *)
(* assertion on a hash, ...                                                *)
(***************************************************************************)
StrayDelim ==
    /\ status = "open" /\ pc = "parse"
    /\ ~HasDelim(buf_check)
    /\ stray' = TRUE
    /\ \E why \in {"parser exception", "hash assertion"} : Close(why)

(***************************************************************************)
(* ... or what an earlier request left there completes one that is handled *)
(* (for request 0: none the client sent).  The message is at least as long *)
(* as what there was to look at, of which nothing is left.  Bound: once on *)
(* a connection.                                                           *)
(***************************************************************************)
StrayRequest ==
    /\ status = "open" /\ pc = "parse"
    /\ ~HasDelim(buf_check) /\ ~stray
    /\ stray' = TRUE
    /\ WriteInternal([req |-> 0, body |-> "result", tls |-> FALSE])
    /\ queries' \in {queries, queries + 1}
    /\ buf_check' = <<>>
    /\ \/ pc' = "idle"
       \/ ParseAgain(Len(buf_check)) /\ pc' = "parse"
    /\ UNCHANGED <<clientVars, wire, full, state, ssl_config, tlsVars, buf, len, nread,
                   status>>

-----------------------------------------------------------------------------
(* AppendBuffer, for what is left without a delimiter. *)

MinSize == Len(buf) + Len(buf_check) + 1
Grows == Len(buf_check) + Len(buf) > len

(* Mutant of NewLen: rounded down. *)
NewLenDown(size) == size - (size % JSONRPC_BUFF_LEN)
NewLen(size) == size + (size % JSONRPC_BUFF_LEN)

AppendBuffer ==
    /\ status = "open" /\ pc = "parse"
    /\ ~HasDelim(buf_check) /\ buf_check # <<>>
    /\ Grows => MinSize <= JSONRPC_MAX_BUFFER
    /\ len' = IF Grows THEN NewLen(MinSize) ELSE len
    /\ buf' = buf \o buf_check
    /\ pc' = "idle" /\ buf_check' = <<>>
    /\ UNCHANGED <<clientVars, wire, full, state, ssl_config, tlsVars, nread, status,
                   replyVars, stray>>

(* Nothing is left to append: the connection is closed. *)
AppendNothing ==
    /\ status = "open" /\ pc = "parse"
    /\ buf_check = <<>>
    /\ End("empty")

(* More than JSONRPC_MAX_BUFFER: "close and exit". *)
AppendTooMuch ==
    /\ status = "open" /\ pc = "parse"
    /\ ~HasDelim(buf_check) /\ buf_check # <<>>
    /\ Grows /\ MinSize > JSONRPC_MAX_BUFFER
    /\ End("limit")

-----------------------------------------------------------------------------
Client ==
    \/ \E kind \in Kinds, size \in Sizes :
          \/ ClientSends(kind, size)
          \/ \E c \in 0..(size - 1) : ClientSendsTLS(kind, size, c)
    \/ ClientHandshake

Read(n) ==
    \/ ReadPlain(n) \/ ReadHello(n) \/ RefuseHello(n) \/ ReadHandshake(n)
    \/ ReadRecord(n) \/ ReadPartRecord(n) \/ AssertFails(n)

Server ==
    \/ \E n \in 1..JSONRPC_BUFF_LEN : Read(n)
    \/ ReadNothing
    \/ AnswerHttp \/ ParseMessage \/ HashAssertFails \/ ParserException
    \/ AppendBuffer \/ AppendNothing \/ AppendTooMuch

(* What the network, mbedtls and the heap may do and need not. *)
Environment ==
    \/ SocketError \/ WriteKills \/ StrayDelim \/ StrayRequest
    \/ \E n \in 1..JSONRPC_BUFF_LEN : HandshakeFails(n)

Next == Client \/ Server \/ Environment

Spec == Init /\ [][Next]_vars

(* The event loop calls back for every byte that arrives. *)
FairSpec == Spec /\ WF_vars(Server)

-----------------------------------------------------------------------------
(* What holds. *)

Endings == {"peer", "nothing", "refused", "handshake", "partial record", "aborted",
            "hash assertion", "parser exception", "killed", "empty", "limit"}
Replies(sent) ==
    [req : 0..Len(sent), body : {"result", "error", "lost"}, tls : BOOLEAN]
States == {{"START"}, {"NORMAL"}, {"SSL_NORMAL", "SSL_HANDSHAKE"}, {"SSL_NORMAL"}}

(***************************************************************************)
(* The types of the connection's state; the flags of JsonRPCState only     *)
(* ever form the four combinations the code tests for, although they are   *)
(* set and toggled one by one.                                             *)
(***************************************************************************)
TypeOK ==
    /\ secure \in BOOLEAN /\ ssl_config \in BOOLEAN /\ window \in 1..MaxWindow
    /\ reqs \in Seq([kind : Kinds, size : Sizes])
    /\ records \in Seq([size : Nat, data : Seq(Bytes)])
    /\ wire \in Seq(Bytes) /\ full \in BOOLEAN
    /\ state \in States
    /\ ssl_buf \in Seq(Bytes) /\ in_rec \in Nat \ {0} /\ in_left \in Nat
    /\ buf \in Seq(Bytes) /\ len \in Nat
    /\ pc \in {"idle", "http", "parse"}
    /\ buf_check \in Seq(Bytes) /\ nread \in 0..JSONRPC_BUFF_LEN
    /\ status \in Endings \cup {"open"}
    /\ out \in Seq(Replies(reqs))
    /\ queries \in Nat /\ faults \in 0..MaxFaults /\ stray \in BOOLEAN

(***************************************************************************)
(* memcpy into the internal buffer stays inside what was allocated, and    *)
(* less than one read's worth is ever allocated beyond the limit.          *)
(***************************************************************************)
BufferFits ==
    /\ Len(buf) <= len
    /\ len < JSONRPC_MAX_BUFFER + JSONRPC_BUFF_LEN

(***************************************************************************)
(* However the stream is cut, and also when the client sends ahead, no     *)
(* request is handled twice and none is handled before an earlier one: the *)
(* replies, which carry no other order, come in the order of the requests. *)
(***************************************************************************)
RepliesInOrder ==
    \A a, b \in DOMAIN out :
        a < b /\ out[a].req # 0 /\ out[b].req # 0 => out[a].req < out[b].req

(* A client that waits for each reply, as the test client does, without TLS. *)
LockStep == window = 1 /\ ~secure /\ \A i \in DOMAIN reqs : reqs[i].kind # "http"

(* Such a client, and strchr has found nothing behind the data. *)
Framed == LockStep /\ ~stray

(* The bytes of the request that is still without a reply. *)
Pending == IF Len(reqs) \in {0} \cup Handled THEN <<>> ELSE BytesOf(Len(reqs))

(***************************************************************************)
(* For such a client no byte is lost or duplicated between the socket, the *)
(* internal buffer and the parser: together they hold exactly the request  *)
(* that is waiting for its reply, or nothing.                              *)
(***************************************************************************)
NoByteLost == status = "open" /\ Framed => buf \o buf_check \o wire = Pending

(***************************************************************************)
(* For such a client the end of a message is the end of the data: when it  *)
(* only sends well-formed requests, the parser closes its connection only  *)
(* in one way, by running over the end of a request that is cut (277-287), *)
(* and the want of anything behind a message never does.                   *)
(***************************************************************************)
LockStepKept ==
    LockStep /\ (\A i \in DOMAIN reqs : reqs[i].kind # "garbage")
        => /\ status = "parser exception" => stray
           /\ status = "empty" => stray

(***************************************************************************)
(* Every request of such a client is handled in the end, or the connection *)
(* is closed: no way of cutting it into reads leaves it in the buffer.     *)
(***************************************************************************)
RequestsHandled ==
    \A i \in 1..MaxRequests :
        (LockStep /\ Len(reqs) >= i) ~> (i \in Handled \/ status # "open")

-----------------------------------------------------------------------------
(* What the code says of itself and does not keep. *)

(***************************************************************************)
(* JSONRPC_DELIM is the "delim for each json rcp command"                  *)
(* (JsonRPCServer.cxx:26): on a connection that is open and idle, every    *)
(* command that has arrived with its delimiter was handled, also when      *)
(* strchr never ran over the end of the data.                              *)
(***************************************************************************)
EveryCommandHandled ==
    status = "open" /\ pc = "idle" /\ wire = <<>> /\ ~full /\ ~secure /\ ~stray
        => DOMAIN reqs = Handled

(* assert(this->ssl_buf == nullptr) (JsonRPCServer.cxx:176) never fails. *)
SslBufTaken == status # "aborted"

(***************************************************************************)
(* "return 0; //socket closed" (JsonRPCServer.cxx:170): the branch is only *)
(* taken when the peer closed the socket.                                  *)
(***************************************************************************)
EndedByPeer == status # "nothing"
=============================================================================
