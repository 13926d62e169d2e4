# TLA+ verification of electrumz

electrumz is an Electrum server: it reads Bitcoin Core's block files into an LMDB
database of transaction outputs and answers Electrum's JSON-RPC requests over TCP or
TLS, with a connection to bitcoind for what the database does not hold. This directory
holds TLA+ models of its own logic, the TLC runs that check them on small instances and
the TLAPS proofs that hold for every instance. Paths below are relative to the
repository; `TXODB.cxx` is `src/blockchain/TXODB.cxx`, `JsonRPCServer.cxx`,
`RPCClient.cxx` and `NetWorker.cxx` are in `src/net/`.

## 1. The system

| component | state | operations | works with |
|---|---|---|---|
| main (`electrumz.cxx`) | none | Open, three GetTXOStats, then PreLoadBlocks or the server | TXODB, NetWorker |
| TXODB (`TXODB.cxx`, `TXO.h`) | three LMDB tables (txo, addr, blk), the map size, `resize_lock`; during a preload the list of files, `blks_pop_lock`, a pool of threads | Open, GetTXOStats, StartTXOTxn, PreLoadBlocks, IncreaseMapSize, InternalSpendTXO, GetTXOs | its threads share LMDB's one writer and the map |
| JsonRPCServer | per connection: flags, the TLS context and `ssl_buf`, the internal buffer (`buf`, `len`, `offset`) | read callback, HandleRead, TryHandshake, AppendBuffer, HandleCommand, Write, End | libuv calls it; asks TXODB and RPCClient |
| RPCClient | connection state, socket, `_queryMap`, `cmdId`, the futures handed out | Connect and its callback, HandleRead, HandleResponse, Query, SendQuery, CompleteQuery | called by connections; talks to bitcoind |
| NetWorker | event loop, listening socket, TLS configuration, the RPCClient | constructor, Init, Work, OnConnect, Join | makes a JsonRPCServer per connection |
| Config | settings, `config.json` | the constructor reads the file, or writes a sample | read by NetWorker |
| CBufferedFile (`streams.h`) | a ring buffer, two positions, a limit, the file | read, FindByte, eof, SetPos, Seek, SetLimit, fclose | the loader reads a block file through it |
| CDataStream (`streams.h`) | bytes and a reading position | read, write, ignore, Rewind, Compact, the vector interface, Xor | carries serialized values |
| prevector (`prevector.h`) | `_size` and a union of elements and heap pointer | std::vector's methods | holds every CScript |
| serialization, transactions, blocks (`serialize.h`, `transaction.h`, `block.h`) | none | CompactSize, VarInt, containers, both formats of a transaction | `bf >> blk` |
| script, strencodings, key_io | none | GetScriptOp, Solver, ExtractDestinations; hex, Base64, Base32, ParseFixedPoint | outputs and addresses |
| hashes, byte helpers | none | stateless | |

What is hard, and what would make each part correct:

* **TXODB**. Several threads, three locks (one of them inside LMDB), a resource that
  runs out in the middle of a block and is enlarged by whoever notices, calls that fail,
  and a process that may die. Correct: each file is read once, what is committed is
  always a consistent set of whole blocks, the map only grows, a preload that reports
  success has loaded everything, and it ends.
* **JsonRPCServer**. A byte stream cut anywhere, perhaps encrypted, a buffer with a
  limit, several requests in one read. Correct: no byte is lost or used twice, replies
  come once and in order, copies stay inside the buffer, a well-behaved client keeps its
  connection and gets its answers.
* **RPCClient**. Answers that come late, in pieces, with an error or not at all; queries
  before the connection is up and after it is lost. Correct: a query is completed once, with
  its own answer, and none is forgotten by the client itself.
* **NetWorker**. A constructor with many early returns. Correct: what it hands to a
  connection was initialised.
* **CBufferedFile**. One index modulo the size of the ring, two positions, rewinds and
  failing reads. Correct: whatever was asked before, a read delivers the file's bytes.
* **prevector, streams**. Two layouts over the same bytes; a front that is left in place when
  it has been read. Correct: seen from outside, vectors.
* **The encodings**. Correct: decoding inverts encoding, and accepts nothing else; a record
  that is cut short throws.

The hazards are listed, each at its line, in `PROJECT.json`.

## 2. Modules

| module | what it is |
|---|---|
| `Chain` | the block files and the rows an output leaves in the indexes: the constants of the database models |
| `TXODB` | main's startup, the two passes of PreLoadBlocks, the threads, LMDB's writer and map, faults and crashes |
| `TXOIndex` | the abstract specification: the committed tables change by whole blocks |
| `MCTXODB` | a small chain for TLC |
| `TXODBProofs` | types, hand-out of the files, growth of the map; consistency of the indexes, completeness, refinement of `TXOIndex` |
| `JsonRPCServer` | one connection and its client |
| `MCJsonRPCServer` | the instance for TLC |
| `JsonRPCServerProofs` | types and the bounds of the internal buffer; no byte lost, a well-formed client is kept, replies in order |
| `RPCClient` | the connection to bitcoind, the open queries, the futures |
| `RPCQueries` | the abstract specification: a future gets at most one value, the answer to its call |
| `Config` | what the constructor makes of `config.json` |
| `NetWorker` | main's path to the server, composed of `Config`, the constructor, the loop and `RPCClient` |
| `MCNetWorker` | configuration files for TLC |
| `NetWorkerProofs` | the queries and their futures, refinement of `RPCQueries`, the causes of a crash, types |
| `CBufferedFile` | the ring buffer over a file that may fail |
| `BlockFileScan` | its clients: the loader's read loop over a block file, and one that makes any call |
| `MCBlockFileScan` | small block files for TLC |
| `StdVectors` | the abstract specification of a pair of vectors |
| `ByteStreams` | the same with what streams.h says of `<<` and Xor |
| `PreVector` | the two layouts of prevector and its methods |
| `MCPreVector` | the instance for TLC |
| `PreVectorProofs` | the layout, refinement of `StdVectors`, the capacity, the order |
| `CDataStream` | two streams and the calls on them |
| `StreamsProofs` | of `CBufferedFile` the types, the ring, what reads deliver, FindByte, the limit, the blocks the loader finds; of `CDataStream` the refinement of `ByteStreams`, what a stream delivers |
| `Serialize`, `Transaction`, `Script`, `StrEncodings` | the encodings, as operators |
| `Codecs` | runs them on one input and states what they must satisfy |
| `CodecsProofs` | CompactSize and VarInt are one-to-one; transactions come back, and what the two hashes say of them |
| `WireProofs` | no other bytes are accepted: containers, transactions and blocks survive the wire |
| `TextProofs` | bytes and texts come back in Base64, Base32 and hex; fixed point numbers are exact; scripts are solved exactly |
| `MCSerialization` | the inputs, and `CDataStream` beside `Codecs` |

### TXODB

`main` follows electrumz.cxx: `Open` (the map is raised to one unit), `GetTXOStats` once
per table, `StartPreload`. The statistics calls matter because StartTXOTxn opens each
table with `MDB_CREATE` alone; a table keeps the flags it is made with (`mdb_dbi_open`).

A thread of the pool (`pc[t]`) goes through the steps at which another thread can
interfere, that is where it takes or gives up a lock:

* `NoMoreFiles`, `TakeFile`, `AdvancePos`: the section under `blks_pop_lock`
  (TXODB.cxx:330-351);
* `EndOfFile`, `SkipRecord`, `FoundBlock`: the read loop (353-390). `Chain` abstracts a
  file to the sequence of what each round of the loop finds: a block, a record with no
  block, an unreadable one, or the zero tail at which reading stops;
* `TxnBegin` (waits for LMDB's writer), `WriteHeader`, `WriteRow` (one output or one
  input), `Commit`. `work` is the writer's view, `disk` what is committed;
* `MapFull`: a put answers `MDB_MAP_FULL`, the transaction is aborted;
  `ReadMapSize` and `SetMapSize` are IncreaseMapSize under `resize_lock`, after which the
  block is tried again; `SetMapSizeFails` is the answer EINVAL that LMDB gives while
  another thread has a write transaction open, and the thread exits.

`TxnBeginFails`, `PutFails`, `CommitFails`, `ResizeFails` and `StartupFails` are LMDB
calls that fail for reasons the model does not have. `PutFails` returns without
mdb_txn_abort, as the code does: the writer's mutex stays with a thread that is gone
(`Abandoned`). LMDB's mutexes are robust: the next mdb_txn_begin finds the owner dead and
answers MDB_PANIC (`TxnBeginPanics`). The commit's result is ignored by the code and so by
`CommitFails`. `Crash` kills the process; what was committed survives. GetTXOStats tests what
StartTXOTxn returns the wrong way round (TXODB.cxx:65), so a transaction or table that could not
be opened is handed to mdb_stat uninitialised; `StartupFails` takes it that this answers an error or
ends the process, and not that what the stack held looks like an open table.

Space is counted in rows, so that a map of so many rows is full with one more. A
hash, an address and a block are names. Amounts are left out, since no decision reads
them.

### JsonRPCServer

The variables are the fields of the class and what is between it and the client: the
bytes on the `wire` and, when the client uses TLS, the `records` they are cut from. A byte
is known by the request (or record) it belongs to and its place in it; the delimiter is a
request's last byte. Actions:

* the client sends a request (`ClientSends`, over TLS `ClientSendsTLS` as one record or
  two), or a flight of the handshake; it is at most `window` requests ahead of its replies;
* the read callback takes any number of bytes up to `JSONRPC_BUFF_LEN`. HandleRead is one
  action per branch up to the point where it has bytes to parse (`ReadPlain`,
  `ReadHello`, `ReadHandshake`, `ReadRecord`, `ReadPartRecord`, `RefuseHello`,
  `AssertFails`), then one action per message (`ParseMessage`) and one for its end
  (`AppendBuffer`, `AppendNothing`, `AppendTooMuch`, `ParserException`, `AnswerHttp`);
* `ReadNothing`: after a read that filled its buffer libuv reads again at once and calls
  back with `nread = 0` when nothing is there;
* `SocketError` and `HandshakeFails` are what the peer and mbedtls may do. A `uv_write`
  that fails loses the reply; one to a peer that has reset the connection raises SIGPIPE, which
  nothing ignores (`WriteKills`);
* `StrayDelim` and `StrayRequest`: `strchr` is not told where the data ends. The newline it finds in the
  memory behind a cut request makes HandleRead parse what lies between: that throws (the same
  "Parser exception" as bad text), fails an assertion, or is a request nobody sent, which gets a
  reply. `stray` records it, and at most one `StrayRequest` is explored on a connection.

HandleCommand sends its replies as they are, also when the connection is encrypted
(JsonRPCServer.cxx:342); only the HTTP page goes through `Write` and mbedtls. A client over
TLS therefore never gets a reply it can read (`Answered`). A hash of the wrong length in
scripthash.subscribe fails uint256's assertion (`HashAssertFails`). "GET" is looked for with
`strstr`, which with less than three bytes looks at the memory behind them (`HttpOrNot`).

Everything happens on the event loop's thread, so the steps of one callback interleave
with nothing of the server's; splitting a callback into several actions only adds
moments at which the client may send.

### RPCClient and NetWorker

`NetWorker` follows one process at a time: `ReadConfig`, `Construct` (one disjunct per early
return of the constructor), `Work` (which main starts whatever the constructor did),
`OnConnect`, then the callbacks of the loop. `ssl_config` and `rpcClient` are "garbage" until
the constructor assigns them; `rpc_port`, which Config does not initialise, starts with any
value. `HeaderRequest` and `TLSHello` are what a connection does with the pointers it was
given. `Restart` starts the program again after it ended, with the `config.json` it left.

`RPCClient` has the connect callback and its two failures, `Query`, and `HandleRead`. A request
carries its id and the number of the call, an answer as well, so that an answer in the wrong
future would show. An answer is a header and a body of two units: a read may end between them,
and http_parser then calls on_body twice, HandleResponse parses half a text and the exception
ends the process (`died = "parse"`). bitcoind answers in order, with a result, an error object,
only a status (wrong credentials) or a body that is not what HandleResponse expects (no JSON, no
member `error`: `j.at` throws), and may close the connection and lose what was on its
way. The code does not connect again, and the state stays Connected: a later query writes to a closed
socket, and the SIGPIPE ends the process (`died = "sigpipe"`). Config tests its file only after
opening it, so that the sample may be cut short by a full disk and is then no JSON at the next start.

### CBufferedFile and BlockFileScan

`read` and `FindByte` are loops, so a call stays open over several steps: `Fill` (or `FillEnds`,
`FillFails`) when the ring has nothing to give, `ReadChunk` or `FindChunk` otherwise. A read of the
file may fail at any time and any number of times, before its first byte (`FillFails`) or after some
(`FillShort`), and feof says nothing of it. `disk` is the file; the history variables
`from`, `kept`, `base` and `hi` record where a call began and whether the rewind guarantee
("the ability to rewind a given number of bytes", streams.h:712) covers that position, `failed`
whether a read has failed. electrumz itself never calls FindByte, Seek or SetLimit; their
properties are about the class as it stands.

The loader's client is TXODB.cxx:347-385: magic, length, four bytes that are looked at and
given back with SetPos, the block. A word has `Word` bytes and a block is a count and that many
bytes, since its size follows from its own bytes and not from `len`. `BlocksFrom` is the
reference: the blocks read straight from the file's bytes.

### PreVector, CDataStream, StdVectors and ByteStreams

`PreVector` has the object as the code lays it out: `_size`, and a union of elements with
pointer and capacity, in which writing one half makes `Junk` of the other. Every method is an
operator on that memory. `CDataStream` keeps the bytes already read in front of `nReadPos` until
the end is reached. Both record the last call, and the refinement mapping takes the elements
as the contents of `StdVectors`, the unread bytes as those of `ByteStreams`, which computes `<<` and Xor
from the comments of streams.h: `<<` is `+=` (445), Xor goes over the contents of the stream (472).
The code does otherwise for a stream of which a part was read, which the loader and the server never do:
`<<` writes its whole vector, with the bytes that were already read (streams.h:447), and Xor counts the
unread bytes and starts at the front of the vector, where those are (480), so that it leaves as many
unread bytes at the end as they were. `StaleBytes` describes these two calls, and `ImplementsStreams` lets in no others.

### The encodings

A reader takes a stream (the bytes left, the values read so far, whether it threw) to the stream
behind what it read, so `s >> a >> b` is `ReadB(ReadA(s))`. `Serialize` takes the base of a byte as a parameter: with base 8 every marker of CompactSize,
its longest forms and VarInt's overflow check are within reach of exhaustive inputs; the proofs are for
every even base from 8 on, 256 included. The exclusive or of two bytes is a constant operator: the
code's properties need none of its laws.
`Script` walks real bytes. In `StrEncodings` a character is what the code's tables make of it; the overloads
of DecodeBase64 and DecodeBase32 for a std::string decode its `c_str()`, so a text ends for them at its first
NUL (`CStr`).

## 3. Runs

| run | instance | result |
|---|---|---|
| `preload` | 2 threads, 3 blocks in 2 files, a map that has to grow twice, 1 fault, 1 crash | 43,397 states, all properties hold |
| `preload_race` | the same without fault or crash | violates `AllOutputsLoaded` |
| `preload_outputs` | 1 thread, a large map | violates `EveryOutputStored` |
| `preload_spends` | 1 thread, a large map | violates `SpentOutputsMarked` |
| `connection` | reads of up to 4 bytes, a limit of 6, requests of 3 and 8 bytes (a header query, a hash of the wrong length, garbage, HTTP), window 1 and 2, plain and TLS, 1 failing write | 360,590 states, all properties hold |
| `connection_pipelined` | two requests sent ahead, no fault | violates `EveryCommandHandled` |
| `connection_tls` | two requests over TLS | violates `SslBufTaken` |
| `connection_full` | one request that fills a read exactly | violates `EndedByPeer` |
| `rpc` | 10 configuration files, 2 starts, 1 connection, 3 queries, reads of up to 7 units | 42,612 states, all properties hold |
| `blockfile` | a ring of 5 bytes, rewind 2, files of up to three records, reads failing anywhere, 1 Seek | 642,880 states, all properties hold |
| `prevector` | 2 elements in the object, 3 in all, 2 values in one call | 102,100 states, all properties hold |
| `serialization` | streams of up to 3 bits, and every input of the codecs given below | 160,800 states, all properties hold |

**What holds.** `preload`: `EachFileOnce` (a file goes to one thread, the progress count
is exact), `IndexConsistent` (every committed row belongs to an output of a stored block
and every address leads to a stored transaction), `LoadedUnlessLost` (when "All outputs
are loaded!" is logged and no thread gave up and no commit failed, every block is
indexed), `MapGrows`, `CommitsWholeBlocks` (the loader implements `TXOIndex`),
`PreloadEnds`. `connection`: `BufferFits` (copies stay inside the allocation),
`RepliesInOrder` (replies come once and in the order of the requests, for every client),
and for a client that waits for its replies without TLS, `NoByteLost` (while `strchr` has stayed within
the data), `LockStepKept` (when its requests are well formed, the parser closes its connection only
after `strchr` has run over the end of a cut request) and `RequestsHandled`.

`rpc`: `OpenQueriesAccounted` (the request or the answer of an open query is on its way, or
bitcoind refused it or gave it no body to read, or the network lost it), `WaitersAreOpen` (a future waits exactly while its
query is in `_queryMap`), `ImplementsQueries` (`RPCQueries`), `CrashesExplained` (of each way the process may die, the states in which it does: a query before the
connection is up or, by SIGPIPE, after bitcoind has closed it; an answer with a bad or a torn body;
pointers the constructor never set; a config.json that is no JSON),
`SampleKeepsDefaults` (the sample file means what no file means), and under fairness
`AnswersComplete` and `StartSettles`. These say what the code does guarantee; what it does not
(a query with an error answer stays open, a lost connection is never made again, a body in two
reads ends the process, and so does a query after bitcoind has closed) are disjuncts of these properties and hazards of `PROJECT.json`.

`blockfile`: `RingHolds` (Fill overwrites nothing that SetPos may go back to),
`ReadsAreFileBytes`, `FindStopsAtFirst`, `LimitKept`, and for the loader `ScanExact` (it finds
exactly the blocks of the file while the file delivers) and `ScanEnds` (it gets to the end if reads fail
only finitely often). The condition is needed: feof is what ends the loop, a failed fread does not
set it, and the exception is caught inside the loop (TXODB.cxx:588), so that a thread whose file
cannot be read any more (a bad sector, a directory named blk*) never ends. `PreloadEnds` is about files
that can be read.

`prevector`: `LayoutOK` (the elements are in the half of the union that `_size` names, a block has
one owner and none is leaked), `OrderTotal` (`==` and `<` are an equality and an order of the
contents), `ImplementsVectors`, `EraseKeepsCapacity` ("Erase is not allowed to the
change the object's capacity", prevector.h:386).

`serialization`: `IntegersOneToOne` (one encoding per integer, and no other bytes are accepted),
`WireRoundTrip`, `TxidIgnoresWitness`, `SolverExact` (a type and its data are read out of a script
exactly when the script is that type's template filled with them), `TextRoundTrip` (an accepted text is,
up to its first NUL, the one its bytes are written as; what stands behind the NUL is not looked at),
`FixedPointExact`, and for the streams `ImplementsStreams` (`ByteStreams`, but for `<<` of a partly read
stream and Xor on one) and `StreamDelivers` (bytes come out once and in order, and Rewind brings back what
the last read took while there is something left behind it). `WireRoundTrip` excludes a transaction that has outputs and no inputs: its bytes cannot
be told from the dummy of the extended format, in Bitcoin Core too.

**What does not hold.** Six statements the code makes about itself are refuted; the
findings in `PROJECT.json` quote them.

* A thread that finds the map full aborts, and before it resizes another thread begins a
  transaction; the resize fails, the thread exits, and "All outputs are loaded!" is logged
  with blocks missing (TXODB.cxx:448).
* The tables are created by the statistics calls without `MDB_DUPSORT`, so that one output
  per transaction and one per address survive (TXODB.cxx:138, 397).
* InternalSpendTXO marks nothing (TXODB.cxx:148).
* After a message HandleRead compares its length with the size of the last read and not
  with what is left; with a buffered beginning a whole second request in the same read is
  dropped (JsonRPCServer.cxx:289).
* A read with more than one TLS record leaves bytes in `ssl_buf`, and the assertion at the
  next read fails (JsonRPCServer.cxx:176).
* `nread = 0` is taken for a closed socket (JsonRPCServer.cxx:168).

Four more follow directly from the model and got no run: `<<` and Xor contradict their comments for a
stream of which a part was read (`StaleBytes`); over TLS `nread` is the length
of the ciphertext, so that after a request that came in one record HandleRead looks for
another message, finds nothing and closes the connection; a TLS record that arrives in two reads closes it as
well (line 233); and the buffer may exceed `JSONRPC_MAX_BUFFER` by less than one
`JSONRPC_BUFF_LEN` (`BufferFits` states the bound that holds).

**Bounds.** Two threads and two files are enough for each race here: it takes one thread
in a critical section and one outside. Three blocks give a file with several blocks, a
second file, a transaction with two outputs and a spent output. The map unit of 3 rows
makes the map fill inside a block and twice in a preload. One crash and one
fault let each happen at every point; the second run after the crash starts from every
committed state. For the connection, 4-byte reads cut a 3-byte request into one, two or
three pieces and let two share a read; the 8-byte request exceeds the limit of 6, and its
buffered beginning makes the buffer grow more than once. `MaxRequests`, `MaxWindow`,
`MaxFaults` and `MaxCrashes` only bound the exploration; the proofs are for every value. In TXODB
`MaxFaults` also bounds how often `PreloadEnds` is disturbed; each fault ends a thread or a record, so
there are no more of them in a run than there are threads and records. Failing reads of a block file are not
bounded at all; `ScanEnds` states its condition.

For `rpc`, three queries are a first one by the connect callback and two by clients, so that
answers share a read, and one may be lost or refused with others behind it; two starts let the
second read what the first wrote, or what a full disk left of it. `MaxCalls <= IdRange` is assumed: `cmdId`, an atomic int, has
not wrapped while a process lives (after 2^32 queries an open id could be given out again). A ring
of 5 bytes is filled and wraps several times in a file of three records, in pieces that are not
multiples of a word. With 2 elements in the object and 3 in all, prevector changes its layout
in both directions and grows while it is on the heap. The inputs of the codecs are all byte
strings up to 4 digits of base 8 and the longer forms, all integers to `8^4 + 64`, vectors of up
to 7 elements in chunks of 2, transactions with up to 2 inputs and outputs. `UInt`, `VarIntMax`
and `UPPER_BOUND` are the code's limits, scaled so that inputs reach beyond them.

`MCNetWorker`, `MCBlockFileScan` and `MCSerialization` say `CHECK_DEADLOCK FALSE` since a dead or
finished process, a closed file and a codec that has run make no more steps.
`MCJsonRPCServer*.cfg` say `CHECK_DEADLOCK FALSE` since a closed connection makes no more
steps; the runs of the preload and of prevector check deadlock.

**Fairness.** `WF(MainStep)` and `WF(ThreadStep(t))` for each thread: the operating system
runs threads that can run, and a mutex that is free is given to a thread that waits. Faults
and crashes are not fair. `WF(Server)`: libuv calls back when there are bytes to read, and a
callback runs to its end. Nothing is assumed of the client, nor that a write succeeds.
`NetWorker`: main and Work run to their end, and uv_run calls back for a connection that was made
or refused and for data that has arrived; nothing is assumed of clients, bitcoind or the operator.
`BlockFileScan`: the loader's thread keeps running; that reads stop failing is a premise of `ScanEnds`, not of the specification.

## 4. Proofs

All theorems hold for every value of the constants that satisfies the named assumptions of the
modules, which TLC evaluates in the runs: sequences and functions of the right types, a non-empty
pool, positive units and buffer sizes, requests of at least two bytes (a byte and its delimiter), and
no more queries in one process than there are ids. Six are more than types.
`ReadsFitAssumption`: a read of the loader and the bytes that can be rewound fit into the ring together
(128 MB against reads of at most 5 MB). `SerializeAssumption`: the base is even and at least 8 (so
that the three markers are above every one-byte size), and a VarInt's largest value ends in digits
that are all ones, as `2^w - 1` does. `SizeAssumption`: `MAX_SIZE` is at least the base and fits into
eight bytes (256 <= 0x02000000 < 256^8). `InputsAssumption`: the integers to encode have 64 bits, the strings
to decode are made of bytes, and the lists, transactions and blocks to encode are such as can be read, that is
no vector in them is longer than `MAX_SIZE` (a longer one is written and refused by the reader); texts are sequences of
characters, and no number is as long as its mantissa may be large. `StrEncodingsAssumption`: that bound is made of nines
(10^18 - 1 in the code). `OutputsAssumption`: a script is made of bytes, and each output to recognise is given with the type and
the data its script was made from, data of the sizes that type takes (`Takes`); it limits what the outputs are compared with,
not the scripts to solve.

| theorem | statement | invariant it rests on |
|---|---|---|
| `TypeCorrect` | `TypeOK` of TXODB | `Inv` |
| `FilesHandedOutOnce` | `EachFileOnce` | `Inv` |
| `MapOnlyGrows` | `MapGrows` | `Inv` |
| `IndexesAgree` | `IndexConsistent` | `IndexInv` |
| `LoadsEveryBlock` | `LoadedUnlessLost` | `IndexInv` |
| `ImplementsIndex` | `CommitsWholeBlocks` | `IndexInv` |
| `ConnectionTypeCorrect` | `TypeOK` of JsonRPCServer | `Inv` |
| `BufferStaysInside` | `BufferFits` | `Inv` |
| `BytesAreKept` | `NoByteLost` | `StepInv` |
| `WellFormedClientKept` | `LockStepKept` | `StepInv` |
| `RepliesKeepOrder` | `RepliesInOrder` | `Inv`, `OrderInv` |
| `FileTypeCorrect` | `FileTypeOK` of CBufferedFile | `Inv` |
| `RingKept` | `RingHolds` | `Inv` |
| `ReadsDeliverFile` | `ReadsAreFileBytes` | `Inv` |
| `SearchStopsAtFirst` | `FindStopsAtFirst` | `Inv` |
| `ReadsStayWithinLimit` | `LimitKept` | `Inv` |
| `ScanFindsBlocks` | `ScanExact` | `Inv`, `ScanInv` |
| `NetTypeCorrect` | `TypeOK` of NetWorker | `IInv`, `WorkTypes` |
| `WaitersAreOpenHolds` | `WaitersAreOpen` | `IInv` |
| `OpenQueriesAccountedHolds` | `OpenQueriesAccounted` | `IInv` |
| `QueriesRefined` | `ImplementsQueries` | `IInv` |
| `CrashesExplainedHolds` | `CrashesExplained` | `IInv` |
| `SampleKeepsDefaultsHolds` | `SampleKeepsDefaults` | none |
| `LayoutOKHolds` | `LayoutOK` | `IInv` |
| `VectorsRefined` | `ImplementsVectors` | `IInv` |
| `EraseKeepsCapacityHolds` | `EraseKeepsCapacity` | `IInv` |
| `OrderTotalHolds` | `OrderTotal` | `IInv` |
| `StreamsRefined` | `ImplementsStreams` | `StreamInv` |
| `StreamsDeliver` | `StreamDelivers` | `StreamInv` |
| `IntegersOneToOneHolds` | `IntegersOneToOne` | itself |
| `TxidIgnoresWitnessHolds` | `TxidIgnoresWitness` | itself |
| `WireRoundTripHolds` | `WireRoundTrip` | itself |
| `TextRoundTripHolds` | `TextRoundTrip` | itself |
| `FixedPointExactHolds` | `FixedPointExact` | itself |
| `SolverExactHolds` | `SolverExact` | itself |

**The threads** (`TXODBProofs`). `EachFileOnce` alone is not inductive: it needs that a
mutex is held exactly by the thread inside its section (`LockInv`), that nothing is held
before the pool is started (`PhaseInv`), that inside the hand-out `pos_txo` is still the
thread's file (`PopInv`), and that the size IncreaseMapSize read is still the map's
(`ResizeInv`), from which `MapGrows` follows: the new size is computed from the current one.

**The tables** (`TXODBProofs`, second part). `TxnInv` says what an open transaction has added to
the committed tables: the header and the rows of the outputs so far, in terms of
`TXOIndex`'s `Written`. So a commit is one `IndexBlock` (first pass) or one `StoreHeader`
(second), and every other step leaves `disk` alone: the refinement. `FlagsInv` says that
the tables are plain, which decides what a put does. `LoadInv` follows the first pass: a
file that was handed out is in a thread's hands, with everything before its record
indexed, or completely indexed; a thread that is done saw the end of the list.

**The connection** (`JsonRPCServerProofs`). `Inv` says which bytes can be where (text of
requests that were sent), that mbedtls is inside a record or between two, how the flags go
with the records, and that the internal buffer is empty whenever HandleRead is at work.
With the last, AppendBuffer copies exactly what is left, and its new capacity is the checked
size plus a remainder below `JSONRPC_BUFF_LEN`.

**The framing** (`JsonRPCServerProofs`, second part). For the client that waits, and until `strchr` finds a
newline behind the data, `FramingInv` adds to `NoByteLost` that the replies are those of all requests but possibly the last, and
that while HandleRead has data it has at least what the last read brought. `OnTheWay`
gives every byte its place in the one pending request; so a delimiter, wherever the
stream was cut, is the last byte there is (`DelimEndsRequest`), the whole request is
handled, and `mlen < nread - 1` is false: the comparison that drops requests of other
clients is harmless for this one. For every client, also over TLS and sending ahead, `OrderInv` says
that the text on the wire, in the records still to be decrypted and in the buffers is ordered by
request and place, each of these behind the ones before it, and that a request with a reply has at
most its tail left there. A message begins with the first byte of the data, so the request it is
handled for is a later one than that of the last reply, whatever was dropped in between.

**The ring** (`StreamsProofs`), for every size of the ring, every rewind below it and every
file. Positions less than `BufSize` apart never share a cell (`ModApart`); Fill writes at most
`BufSize - nRewind` bytes ahead of the reading position, so what it overwrites lies more than
`nRewind` behind. `CallInv` adds what a call in progress has done: a covered read has delivered the
file's bytes from where it began, FindByte has passed no match, the bytes left fit under the
limit. `LoaderInv` says that what the loader uses of its reads was delivered, so that it never
asks for a position or a count that is not there. For `ScanExact`, `Progress` says at every point of
the round that the blocks found and those that the file still has from there on are together the
blocks of the file; `RewindInv` that the loader is never more than a word behind the furthest
position, so that its rewinds are covered; `EndInv` that without a failure a read throws only at the
end of the file. The reference `BlocksFrom` is a recursive function of a position; that it is what
its definition says (`Rounds` and the lemmas before it) is shown by induction on the distance to the end.

**The queries** (`NetWorkerProofs`), for every number of calls, every size of a read and every set of
configuration files. `TableInv` ties the three tables together: the k-th call has the id k - 1, and
its entry is in `_queryMap` exactly while its future has no value. `SocketInv` ties the socket and its peer
to the connection's state, which is what tells a SIGPIPE from a missing socket. `LinkInv` says that whatever is on
its way carries the id its call was given, so `CompleteQuery` can only reach the caller's own promise:
the refinement. For `OpenQueriesAccounted`, `AnswerInv` adds that a call is on its way at most once and
that the second half of a body follows its first half; a read that takes the second half without
dying took both (`ReadBodies`), so it completed the query or the answer was an error. `BodyInv` says when a second half can be
the first unit on the wire, for the causes of a torn body. `PointersInv` and `ConnInv` carry
the reasons for a garbage pointer or a missing socket from the constructor to the crash.

**The vectors** (`PreVectorProofs`), for every number `N` of elements in the object and every set of
values. A method is an operator on a memory, so it is proved about on its own: from a good memory it
makes a good one, with the contents a std::vector would have, and leaves the blocks of others alone.
The calls follow from the methods, and `IInv` (the layout, and that the heap's blocks come from
`malloc`) from the calls. `EraseKeepsCapacity` and the refinement are read off the same lemmas. That
`Less` is an order, though it compares element by element, follows from the least place at which the
contents differ.

**The streams** (`StreamsProofs`, second part). `StreamInv` says that the position is within the vector and that
the bytes of the last read still stand behind the position, unless the stream was emptied by it: the
second is what Rewind needs. For each call the unread bytes after it are shown to be what
`ByteStreams` makes of the unread bytes before it, shortcut by shortcut; for `<<` and Xor that takes a position
of 0, and otherwise the step is `StaleBytes`. The theorems are about `StreamSpec`,
the steps of the streams alone; `MCSerialization` interleaves it with `CodecSpec`, each leaving the
variables of the other alone.

**The integers** (`CodecsProofs`), for every even base from 8 on. Fixed widths: the digits of n and the sum
of digits times powers are inverse to each other (`ValueOfWritten`, `WrittenOfValue`). CompactSize: a
marker tells the width and the least value for it, so a value is written with the only width the
reader lets through for it (`CompactReads`, `CompactAccepts`). VarInt: after the leading digits of m the
reader has m + 1 or has thrown because m + 1 is past the limit (`AfterLeading`); conversely, bytes that ask for
more are the leading digits of the value so far less one (`MoreIsLeading`). The overflow checks are exact
because the largest value ends in all ones (`VarIntTop`). The invariant is inductive as it stands: a step starts
from the idle state and runs one codec.

**Transactions** (`CodecsProofs`, second part), for every transaction that can be read and every length of
the chunks a vector is read in. Every reader is shown to take a stream that starts with what the writer wrote to the stream
behind it, with the value on top of those read before (`BytesRead`, `TxInReads`, `InsRead`, `WitnessesRead`,
`ExtendedReads`); a vector or a run of chunks goes by induction along the reader's steps, in which what is left is the
flattened rest of the parts (`Flattened`, `Along`). The format without witnesses reads back as `Stripped(tx)` and the extended one
as `tx`; so a transaction with a witness has two different hashes, since its two formats read back as different values.

**The wire** (`WireProofs`). The converse is shown reader by reader as well: what is accepted, was written. If a reader does not throw,
the bytes it used are those the writer writes for the value it returns (`SizeTells`, `BytesTell`, `InsTell`, `WitnessesTell`,
`TxTells`; for vectors `AllVectorsTell`). For a transaction that leaves two forms, the plain one, only if there is no witness and the
inputs are not empty unless the outputs are, and the extended one. From both directions it follows that a reader
does not depend on what stands behind the bytes it used (`Grows`): the same value is read, and what was put behind is left. That settles
cutting short (`Restoring`): were a proper part of a record accepted, it would be accepted in front of the missing bytes too, and
leave them, but the whole record leaves nothing. Sets and maps need that `Sorted` lists every element once: an increasing
listing exists by induction on the bound of the elements, it is injective, and an injection between sets of one cardinality is
onto (`SortedIs`); so every key of `MapOf` finds its own entry (`EntriesMake`).

**Texts** (`TextProofs`), for bytes and texts of every length. Bytes are digits in base 2^8, the characters of Base64 and
Base32 in base 2^6 and 2^5. After each group ConvertBits has read, the groups it has written and the bits it still holds
stand for the number read so far (`BitsRead`, `BitsGoOn`), although its accumulator forgets the bits that were written.
With padding the text stands for the bytes' number times a power of two (`PaddedIs`); without, the bits left over are
refused unless they are zero and fewer than a group, so the bytes' number is the text's divided by that power
(`UnpaddedIs`). Since digits of a given length are told by their number (`NumberTells`), the two are inverse to each other in both
directions (`BitsBack`, `BitsOnly`), and the number of `=` is the only one that fills the last group. A text that was encoded has
no NUL and is its own C string (`EncodedCStr`); of any other `CStrEnds` gives the part that is decoded.

**Fixed point numbers** (`TextProofs`, second part). `Held`: the digits read so far stand for the mantissa times a power of ten,
the mantissa does not end in a zero, and it is within the bound exactly if no check has failed. So a number with negative places
is whole just when there are enough zeros held back (`NoMoreZeros`), and the checks of the products before the last one follow from
the last (`ProductsFit`). The exponent's own check refuses only exponents past the bound (`Prefix`); that such a number does not
fit anyway takes `InputsAssumption`: no text is as long as its mantissa may be large (10^18 in the code).

**Scripts** (`TextProofs`, third part), for every script. Each template is given a shape, byte by byte (`PubkeyShapes`,
`ProgramShapes`, ...), so "the script is the template filled with the data" becomes a statement about its bytes (`Looks`,
`FitsLooks`). One direction (`LooksSolved`): a script that looks so passes Solver's test for its type and, since the first bytes or the
length tell, none that stands before it. The other (`SolvedLooks`): whatever passes a test looks so. For keys and hashes that is arithmetic;
for a multisig output it needs the walk over the operations. `OpsTrace`: Ops lists what GetScriptOp returns, each at the place where the
one before it stopped, up to the end or to the first refusal. `KeyRead`: GetScriptOp returns a key just when one of the four pushes of that key
lies there. So the operations after the first are those keys if and only if the bytes between are their pushes (`PushesRead`,
`ReadIsPushed`), and KeysIn, which stops at the first operation that is no key, counts them all because the number behind them is none
(`MultiRead`, `MultiKnown`). That a multisig script is never taken for the witness program it begins like is a matter of its length
(`MultiNoProgram`). Addresses: what Bech32 gets is the program in groups of five bits, from which `BitsBack` returns it
(`ProgramAddressed`); the sizes that the templates allow are those EncodeDestination takes (`PaysAddressed`).

**Induction over data.** The library's induction theorems have an operator as a parameter and cannot be
used here. Where a proof needs induction it goes over a *set* of numbers: what is not in it has a least element
(`LeastNumber`, `Induct`), and a recursive function exists because a chain of its values does (`Recursion`,
`Chains`). This reaches functions of a number or of a position.

**Checked by TLC only**: `PreloadEnds`, `RequestsHandled`, `AnswersComplete`, `StartSettles` and
`ScanEnds`: liveness under fairness is beyond the prover. Every invariant and every action property of the passing runs has a theorem.

## 5. Not modelled

* GetTXOs: reads the tables for scripthash.subscribe and changes nothing; waits for the
  composition of the database with the connection. InternalAddTXO is never called and
  PushBlockTip is empty.
* Of `streams.h` CAutoFile, CVectorWriter, VectorReader, OverrideStream and the bit streams, which
  electrumz never makes.
* Of the encodings: floating point values, smart pointers and ToString; SanitizeString, ParseInt32
  and its kin (wrappers of strtol), SplitHostPort, FormatParagraph; the digits and checksums of
  base58 and bech32. base58, bech32 and key_io are not compiled into electrumz; what
  EncodeDestination hands to them is modelled.
* fopen's result is not checked before the file is read (TXODB.cxx:347): the model's files open.
* The wording of replies, the to_json functions of Commands.cxx, the peer's name, logging:
  no state.
* What LMDB, libuv, mbedtls and http_parser do inside; their interface is modelled from its
  use. A crash of the operating system with `MDB_NOSYNC` may leave pages of different age:
  outside the program.
* A pool of zero threads (`hardware_concurrency()` may return 0): a preload that loads
  nothing and reports success.
* Hashes: a hash is a name, or the bytes it is made of.

## 6. Plan

Done: the database (`Chain`, `TXODB`, `TXOIndex`, proofs), the connection (`JsonRPCServer`,
proofs), the client to bitcoind with configuration and start (`RPCClient`, `RPCQueries`, `Config`,
`NetWorker`, proofs), block files (`CBufferedFile`, `BlockFileScan`, proofs), vectors and streams
(`PreVector`, `CDataStream`, proofs), the encodings, and proofs about integers, containers, transactions,
blocks, texts, numbers and scripts. Left:

1. GetTXOs over the tables, composed with TXODB's transactions.

## 7. Running

    tlc -workers 2 -config MCTXODB.cfg MCTXODB
    tlc -workers 2 -config MCJsonRPCServer.cfg MCJsonRPCServer
    tlc -workers 2 -config MCNetWorker.cfg MCNetWorker
    tlc -workers 2 -config MCBlockFileScan.cfg MCBlockFileScan
    tlc -workers 2 -config MCPreVector.cfg MCPreVector
    tlc -workers 2 -config MCSerialization.cfg MCSerialization
    tlapm TXODBProofs.tla
    tlapm JsonRPCServerProofs.tla
    tlapm StreamsProofs.tla
    tlapm NetWorkerProofs.tla
    tlapm PreVectorProofs.tla
    tlapm CodecsProofs.tla
    tlapm WireProofs.tla
    tlapm TextProofs.tla

`PROJECT.json` names the run, the properties and the configuration of each check, maps
each definition to the lines it models, and gives for every property a mutation of the
model that violates it.
