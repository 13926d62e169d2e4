------------------------------ MODULE RPCClient ------------------------------
(***************************************************************************)
(* RPCClient (src/src/net/RPCClient.cxx, RPCClient.h): the one connection  *)
(* to bitcoind, the map of open queries, and the futures of its callers.   *)
(* Everything runs on NetWorker's loop thread.  bitcoind, TCP, libuv and   *)
(* http_parser are external: bitcoind answers the requests of a connection *)
(* in order, with a result, an error object, a bare status line (wrong     *)
(* credentials), or a body HandleResponse cannot read ("bad": the text of  *)
(* a full work queue, an object without the member error), and may close   *)
(* the connection at any time.                                             *)
(*                                                                         *)
(* The k-th call of Query asks "k"; its answer carries the id the request  *)
(* had and the value k.  An answer is a header and a body of two units, so *)
(* that a read may end inside a body.                                      *)
(***************************************************************************)
EXTENDS Naturals, Sequences, FiniteSets

CONSTANTS
    MaxCalls,   \* bound on the calls of Query in one process
    IdRange,    \* values of cmdId, a std::atomic_int: 2^32 in the code
    ReadMax     \* units one read brings at most (RPC_READ_BUFF_SIZE)

ASSUME RPCAssumption ==
    /\ MaxCalls \in Nat /\ IdRange \in Nat /\ ReadMax \in Nat \ {0}
    /\ MaxCalls <= IdRange  \* cmdId has not wrapped

VARIABLES
    state,      \* _state
    socket,     \* "nullptr", "deaf" (uv_read_start failed) or "open" (being read)
    peer,       \* bitcoind still holds its end of the connection
    cmdId,      \* id of the next query
    queryMap,   \* _queryMap: open id -> the call whose promise it holds
    futures,    \* futures[k]: value of the k-th call's future, 0 for none
    toNode,     \* requests on their way to bitcoind: [id, ask]
    wire,       \* units on their way back: [id, ask, kind, part]
    answered,   \* history: kind of bitcoind's answer to each call, "no" before
    lost,       \* history: calls whose request or answer the network lost
    died        \* why the process died, "" while it lives

clientVars == <<state, socket, peer, cmdId, queryMap, futures, toNode, wire,
                answered, lost, died>>
linkVars   == <<socket, peer, toNode, wire, answered, lost>>
tableVars  == <<cmdId, queryMap, futures>>

Ids   == 0..(IdRange - 1)
Calls == 1..MaxCalls
Kinds == {"result", "error", "none", "bad"}
States == {"Init", "Connecting", "Connected", "Disconnected"}

Requests == [id : Ids, ask : Calls]
Units    == [id : Ids, ask : Calls, kind : Kinds, part : {"h", "b1", "b2"}]

RPCInit ==
    /\ state = "Init" /\ socket = "nullptr" /\ peer = FALSE
    /\ cmdId = 0 /\ queryMap = <<>> /\ futures = <<>>
    /\ toNode = <<>> /\ wire = <<>>
    /\ answered = [k \in Calls |-> "no"] /\ lost = {}
    /\ died = ""

-----------------------------------------------------------------------------
(* Queries *)

\* WriteInternal: uv_write on a null stream kills the process, and so does the
\* SIGPIPE of a write to a connection bitcoind has closed and reset, which main
\* does not ignore.  Any other failed write, reported at once or to the write
\* callback, is only logged.  sock and up are the socket and the peer at the time
\* of the call.
WriteInternal(sock, up, req) ==
    \/ /\ sock = "nullptr"
       /\ died' = "write"
       /\ UNCHANGED <<toNode, lost>>
    \/ /\ sock # "nullptr" /\ ~up
       /\ died' = "sigpipe"
       /\ UNCHANGED <<toNode, lost>>
    \/ /\ sock # "nullptr" /\ up
       /\ toNode' = Append(toNode, req)
       /\ UNCHANGED <<lost, died>>
    \/ /\ sock # "nullptr"
       /\ lost' = lost \cup {req.ask}
       /\ UNCHANGED <<toNode, died>>

\* AddQuery: emplace leaves an entry that is already there.
AddQuery(id, k) ==
    queryMap' = [i \in DOMAIN queryMap \cup {id} |->
                     IF i \in DOMAIN queryMap THEN queryMap[i] ELSE k]

(* Mutant of SendQuery: cmdId instead of cmdId++. *)
SendQuerySameId(sock, up) ==
    LET k == Len(futures) + 1 IN
    /\ k <= MaxCalls
    /\ UNCHANGED cmdId
    /\ futures' = Append(futures, 0)
    /\ AddQuery(cmdId, k)
    /\ WriteInternal(sock, up, [id |-> cmdId, ask |-> k])

\* Query and SendQuery: number the query, enter it in the map, send it.
SendQuery(sock, up) ==
    LET k == Len(futures) + 1 IN
    /\ k <= MaxCalls
    /\ cmdId' = (cmdId + 1) % IdRange
    /\ futures' = Append(futures, 0)
    /\ AddQuery(cmdId, k)
    /\ WriteInternal(sock, up, [id |-> cmdId, ask |-> k])

-----------------------------------------------------------------------------
(* The connection *)

(* Mutant of Connect: a failure leaves the state of a connection being closed. *)
ConnectClosing(addrOk) ==
    /\ state \in {"Init", "Disconnected"}
    /\ \/ addrOk /\ state' = "Connecting"
       \/ state' = "Disconnecting"
    /\ UNCHANGED <<linkVars, tableVars, died>>

\* Connect: every failure leaves Disconnected; otherwise the callback follows.
\* addrOk: the configured address parses.
Connect(addrOk) ==
    /\ state \in {"Init", "Disconnected"}
    /\ \/ addrOk /\ state' = "Connecting"
       \/ state' = "Disconnected"
    /\ UNCHANGED <<linkVars, tableVars, died>>

ConnectFailed ==
    /\ state = "Connecting"
    /\ state' = "Disconnected"
    /\ UNCHANGED <<linkVars, tableVars, died>>

ReadStartFailed ==
    /\ state = "Connecting"
    /\ state' = "Disconnected" /\ socket' = "deaf" /\ peer' \in BOOLEAN
    /\ UNCHANGED <<tableVars, toNode, wire, answered, lost, died>>

(* Mutant of ConnectCallback: the first query before the socket is stored. *)
ConnectCallbackEarly ==
    /\ state = "Connecting"
    /\ state' = "Connected" /\ socket' = "open" /\ peer' \in BOOLEAN
    /\ SendQuery(socket, peer)
    /\ UNCHANGED <<wire, answered>>

\* The connect callback stores the socket, starts reading and asks for
\* getblockchaininfo.  bitcoind may have closed the connection by then.
ConnectCallback ==
    /\ state = "Connecting"
    /\ state' = "Connected" /\ socket' = "open"
    /\ \E up \in BOOLEAN : peer' = up /\ SendQuery("open", up)
    /\ UNCHANGED <<wire, answered>>

\* A query on behalf of a client of the server.
Query ==
    /\ SendQuery(socket, peer)
    /\ UNCHANGED <<state, socket, peer, wire, answered>>

-----------------------------------------------------------------------------
(* bitcoind *)

AnswerUnits(req, kind) ==
    LET Unit(p) == [id |-> req.id, ask |-> req.ask, kind |-> kind, part |-> p]
    IN IF kind = "none" THEN <<Unit("h")>> ELSE <<Unit("h"), Unit("b1"), Unit("b2")>>

NodeAnswers(kind) ==
    /\ peer /\ toNode # <<>>
    /\ toNode' = Tail(toNode)
    /\ wire' = wire \o AnswerUnits(Head(toNode), kind)
    /\ answered' = [answered EXCEPT ![Head(toNode).ask] = kind]
    /\ UNCHANGED <<state, socket, peer, lost, tableVars, died>>

\* bitcoind closes the connection and the last units on the wire may not
\* arrive.  The client's read callback, called with nread < 0, only logs.
NodeCloses(n) ==
    /\ peer
    /\ peer' = FALSE
    /\ toNode' = <<>>
    /\ wire' = SubSeq(wire, 1, n)
    /\ lost' = lost \cup {toNode[i].ask : i \in DOMAIN toNode}
                    \cup {wire[i].ask : i \in (n + 1)..Len(wire)}
    /\ UNCHANGED <<state, socket, answered, tableVars, died>>

-----------------------------------------------------------------------------
(* Reading *)

\* http_parser calls on_body once for each body piece in the data of a read.
WholeBodies(u) == {i \in 1..(Len(u) - 1) : u[i].part = "b1" /\ u[i + 1].part = "b2"}
TornBody(u)    == u[1].part = "b2" \/ u[Len(u)].part = "b1"
Throws(u)      == TornBody(u) \/ \E i \in WholeBodies(u) : u[i].kind = "bad"

(* Mutant of Handled: the test of HandleResponse the other way round. *)
HandledErrors(u) == {u[i] : i \in {j \in WholeBodies(u) : u[j].kind = "error"}}

\* HandleResponse: an answer with an error returns before CompleteQuery.  A body
\* that is not JSON, or without the member error, throws.
Handled(u) == {u[i] : i \in {j \in WholeBodies(u) : u[j].kind = "result"}}

(* Mutants of CompleteQueries: without erase, and without set_value. *)
CompleteQueriesKept(H) ==
    /\ futures' = [k \in DOMAIN futures |->
                     IF \E h \in H : h.id \in DOMAIN queryMap /\ queryMap[h.id] = k
                     THEN k ELSE futures[k]]
    /\ UNCHANGED queryMap
CompleteQueriesSilent(H) ==
    /\ queryMap' = [i \in DOMAIN queryMap \ {h.id : h \in H} |-> queryMap[i]]
    /\ UNCHANGED futures

\* CompleteQuery for every answer handled: set_value, then erase; an id that is
\* not in the map is only logged.
CompleteQueries(H) ==
    LET known == {h \in H : h.id \in DOMAIN queryMap}
        done  == {h.id : h \in known}
    IN /\ futures' = [k \in DOMAIN futures |->
                        IF \E h \in known : queryMap[h.id] = k
                        THEN (CHOOSE h \in known : queryMap[h.id] = k).ask
                        ELSE futures[k]]
       /\ queryMap' = [i \in DOMAIN queryMap \ done |-> queryMap[i]]

\* HandleRead: a piece of a body is parsed as if it were the whole.  Its exception,
\* or that of a bad body, leaves through the C callbacks and ends the process.
HandleRead(n) ==
    LET u == SubSeq(wire, 1, n) IN
    /\ socket = "open"
    /\ wire' = SubSeq(wire, n + 1, Len(wire))
    /\ IF Throws(u)
       THEN died' = "parse" /\ UNCHANGED <<queryMap, futures>>
       ELSE CompleteQueries(Handled(u)) /\ UNCHANGED died
    /\ UNCHANGED <<state, socket, peer, cmdId, toNode, answered, lost>>

ReadCallback ==
    \E n \in 1..ReadMax : n <= Len(wire) /\ HandleRead(n)

-----------------------------------------------------------------------------
\* The loop's callbacks and bitcoind.
ClientStep ==
    \/ ConnectFailed
    \/ ReadStartFailed
    \/ ConnectCallback
    \/ ReadCallback
    \/ \E kind \in Kinds : NodeAnswers(kind)
    \/ \E n \in 0..Len(wire) : NodeCloses(n)
=============================================================================
