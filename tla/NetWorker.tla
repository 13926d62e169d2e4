------------------------------ MODULE NetWorker ------------------------------
(***************************************************************************)
(* The server path of main (src/src/electrumz.cxx), Config and NetWorker   *)
(* (src/src/net/NetWorker.cxx), composed with RPCClient: reading the       *)
(* configuration, the constructor with its early returns, the worker       *)
(* thread, the connections it accepts and the queries they pass on.  The   *)
(* main thread and the worker thread never run at the same time: main      *)
(* only waits in Join.  A client connection is modelled in JsonRPCServer;  *)
(* here it is what it does with the pointers it was given.                 *)
(***************************************************************************)
EXTENDS RPCClient, Config

CONSTANTS
    Files,       \* the contents config.json may have at the first start
    MaxClients,  \* bound on the connections accepted in one process
    MaxStarts    \* bound on the starts of the process

ASSUME NetAssumption ==
    Files \subseteq ConfigFiles /\ MaxClients \in Nat /\ MaxStarts \in Nat \ {0}

VARIABLES
    proc,       \* where main is: "main", "configured", "constructed", "running", "exited"
    config,     \* config.json on disk
    cfg,        \* the Config object
    inited,     \* members of NetWorker the constructor has initialized
    ssl_config, \* "garbage", "nullptr", "empty" (no certificate loaded) or "loaded"
    rpcClient,  \* "garbage" or "object"
    clients,    \* connections that hold these two pointers
    starts      \* starts of the process so far

workerVars == <<proc, config, cfg, inited, ssl_config, rpcClient, clients, starts>>
vars == <<clientVars, workerVars>>

Alive == died = ""

Init ==
    /\ RPCInit
    /\ proc = "main" /\ config \in Files /\ cfg = Default(0)
    /\ inited = {} /\ ssl_config = "garbage" /\ rpcClient = "garbage"
    /\ clients = 0 /\ starts = 1

\* Config's constructor.  Without a file the defaults are used and written out
\* if that is possible, and cut short if the disk is full, which nothing tests
\* for; a file that is not a JSON object ends the process with an uncaught
\* exception.
ReadConfig ==
    /\ proc = "main"
    /\ \E port \in Ports :
         \/ /\ config = NoFile
            /\ cfg' = Default(port)
            /\ config' \in {NoFile, NotJson, Holds(to_json(cfg'))}
            /\ proc' = "configured" /\ UNCHANGED died
         \/ /\ config = NotJson
            /\ died' = "config" /\ UNCHANGED <<proc, config, cfg>>
         \/ /\ config.is = "object"
            /\ cfg' = from_json(config.json, port)
            /\ proc' = "configured" /\ UNCHANGED <<config, died>>
    /\ UNCHANGED <<inited, ssl_config, rpcClient, clients, starts>>
    /\ UNCHANGED <<state, linkVars, tableVars>>

RpcConfigured(c) ==
    c.rpchost # "" /\ c.rpc_port # 0 /\ c.rpcusername # "" /\ c.rpcpassword # ""
SslConfigured(c) == c.ssl_cert # "" /\ c.ssl_key # ""

\* The constructor returns early, after the members in done.
CtorReturns(done, ssl) ==
    /\ inited' = done /\ ssl_config' = ssl /\ rpcClient' = "garbage"
    /\ UNCHANGED clientVars

\* The constructor reaches its end, with or without a client to bitcoind.
CtorEnds(ssl) ==
    /\ inited' = {"loop", "server", "addr"} /\ ssl_config' = ssl
    /\ \/ /\ RpcConfigured(cfg)
          /\ rpcClient' = "object" /\ Connect(cfg.rpchost = "good")
       \/ /\ ~RpcConfigured(cfg)
          /\ rpcClient' = "garbage" /\ UNCHANGED clientVars

\* NetWorker::NetWorker.  uv_loop_init and uv_tcp_init may fail; the address,
\* the certificate and the key are as configured.
Construct ==
    /\ proc = "configured"
    /\ proc' = "constructed"
    /\ \/ CtorReturns({}, "garbage")
       \/ CtorReturns({"loop"}, "garbage")
       \/ /\ cfg.host = "bad"
          /\ CtorReturns({"loop", "server"}, "garbage")
       \/ /\ cfg.host = "good" /\ SslConfigured(cfg)
          /\ cfg.ssl_cert = "bad" \/ cfg.ssl_key = "bad"
          /\ CtorReturns({"loop", "server", "addr"}, "empty")
       \/ /\ cfg.host = "good" /\ SslConfigured(cfg)
          /\ cfg.ssl_cert = "good" /\ cfg.ssl_key = "good"
          /\ CtorEnds("loaded")
       \/ /\ cfg.host = "good" /\ ~SslConfigured(cfg)
          /\ CtorEnds("nullptr")
    /\ UNCHANGED <<config, cfg, clients, starts>>

(* Mutant of Work: a failed bind does not end the thread. *)
WorkWaits ==
    /\ proc = "constructed"
    /\ {"loop", "server"} \subseteq inited
    /\ proc' = "running"
    /\ UNCHANGED <<config, cfg, inited, ssl_config, rpcClient, clients, starts>>
    /\ UNCHANGED clientVars

\* Init and Work: main starts the thread whatever the constructor did.  bind
\* and listen may fail, and then Work returns, Join returns and main ends.  On
\* handles that were never initialized anything may happen; on an address that
\* was never set, bind may fail or not.
Work ==
    /\ proc = "constructed"
    /\ \/ proc' = "exited" /\ UNCHANGED died
       \/ {"loop", "server"} \subseteq inited /\ proc' = "running" /\ UNCHANGED died
       \/ ~({"loop", "server"} \subseteq inited) /\ died' = "handle" /\ UNCHANGED proc
    /\ UNCHANGED <<config, cfg, inited, ssl_config, rpcClient, clients, starts>>
    /\ UNCHANGED <<state, linkVars, tableVars>>

\* OnConnect: an error status or a failed accept leaves nothing behind but the
\* handle; otherwise a JsonRPCServer gets the pointers as they are.
OnConnect ==
    /\ proc = "running" /\ clients < MaxClients
    /\ clients' = clients + 1
    /\ UNCHANGED <<proc, config, cfg, inited, ssl_config, rpcClient, starts>>
    /\ UNCHANGED clientVars

\* A client's blockchain.block.header is passed on to bitcoind through the
\* pointer its connection holds.
HeaderRequest ==
    /\ proc = "running" /\ clients > 0
    /\ \/ rpcClient = "object" /\ Query
       \/ rpcClient = "garbage" /\ died' = "rpcClient"
          /\ UNCHANGED <<state, linkVars, tableVars>>
    /\ UNCHANGED workerVars

\* A client that speaks TLS: the connection sets up a session with ssl_config
\* unless it is null.
TLSHello ==
    /\ proc = "running" /\ clients > 0 /\ ssl_config = "garbage"
    /\ died' = "ssl_config"
    /\ UNCHANGED <<state, linkVars, tableVars, workerVars>>

LoopStep == proc = "running" /\ ClientStep /\ UNCHANGED workerVars

\* The operator starts electrumz again after it has ended.
Restart ==
    /\ ~Alive \/ proc = "exited"
    /\ starts < MaxStarts
    /\ starts' = starts + 1
    /\ proc' = "main" /\ inited' = {} /\ ssl_config' = "garbage"
    /\ rpcClient' = "garbage" /\ clients' = 0
    /\ state' = "Init" /\ socket' = "nullptr" /\ peer' = FALSE
    /\ cmdId' = 0 /\ queryMap' = <<>> /\ futures' = <<>>
    /\ toNode' = <<>> /\ wire' = <<>>
    /\ answered' = [k \in Calls |-> "no"] /\ lost' = {} /\ died' = ""
    /\ UNCHANGED <<config, cfg>>

Step == ReadConfig \/ Construct \/ Work \/ OnConnect \/ HeaderRequest
            \/ TLSHello \/ LoopStep

Next == (Alive /\ Step) \/ Restart

Spec == Init /\ [][Next]_vars

\* main and Work run to their end, and uv_run calls back for a connection that
\* is made or refused and for data that has arrived.  Nothing is assumed of
\* clients, bitcoind or the operator.
Fairness ==
    /\ WF_vars(Alive /\ (ReadConfig \/ Construct \/ Work))
    /\ WF_vars(Alive /\ proc = "running" /\ UNCHANGED workerVars
                 /\ (ConnectFailed \/ ReadStartFailed \/ ConnectCallback))
    /\ WF_vars(Alive /\ proc = "running" /\ UNCHANGED workerVars /\ ReadCallback)

FairSpec == Spec /\ Fairness

-----------------------------------------------------------------------------
(* Properties *)

\* The types of main's, NetWorker's and RPCClient's state; the state of a client
\* is never Disconnecting, which no code sets.
TypeOK ==
    /\ state \in States /\ socket \in {"nullptr", "deaf", "open"} /\ peer \in BOOLEAN
    /\ cmdId \in Ids \cup {0}
    /\ DOMAIN queryMap \subseteq Ids /\ \A i \in DOMAIN queryMap : queryMap[i] \in Calls
    /\ futures \in Seq(Calls \cup {0})
    /\ toNode \in Seq(Requests) /\ wire \in Seq(Units)
    /\ answered \in [Calls -> Kinds \cup {"no"}] /\ lost \subseteq Calls
    /\ died \in {"", "write", "sigpipe", "parse", "config", "handle", "rpcClient", "ssl_config"}
    /\ proc \in {"main", "configured", "constructed", "running", "exited"}
    /\ config \in ConfigFiles /\ cfg \in Settings
    /\ inited \subseteq {"loop", "server", "addr"}
    /\ ssl_config \in {"garbage", "nullptr", "empty", "loaded"}
    /\ rpcClient \in {"garbage", "object"}
    /\ clients \in Nat /\ starts \in Nat

\* Every open query is accounted for: its request is on its way to bitcoind, its
\* answer is on its way back, bitcoind refused it (HandleResponse returns before
\* CompleteQuery), or the network lost it.  The client itself forgets none.
OpenQueriesAccounted ==
    Alive => \A i \in DOMAIN queryMap :
        LET k == queryMap[i] IN
        \/ \E n \in DOMAIN toNode : toNode[n] = [id |-> i, ask |-> k]
        \/ \E n \in DOMAIN wire : wire[n].ask = k /\ wire[n].id = i /\ wire[n].part = "b2"
        \/ answered[k] \in {"error", "none"}
        \/ k \in lost

\* A future without a value belongs to an open query, and only to one: the
\* promise of a caller that still waits is in _queryMap until its answer comes.
WaitersAreOpen ==
    Alive => \A k \in DOMAIN futures :
        futures[k] = 0 <=> \E i \in DOMAIN queryMap : queryMap[i] = k

\* The futures' contract: RPCClient implements RPCQueries.
Queries == INSTANCE RPCQueries WITH results <- futures
ImplementsQueries == Queries!Spec

\* Every way the process can die has its cause.  A query kills it only while the
\* connection failed or has not been reported yet (write), or after bitcoind has
\* closed its end, which the connection's state does not tell (sigpipe).  An
\* answer kills it only if its body was bad or came in two pieces (parse): the
\* rest is still on the wire, or was lost with the connection.  The pointers
\* NetWorker hands out are garbage only if the configuration is incomplete or the
\* address or certificate is bad, and its handles only if libuv failed.
CrashesExplained ==
    /\ died = "write" => state \in {"Connecting", "Disconnected"} /\ socket = "nullptr"
    /\ died = "sigpipe" => ~peer /\ state \in {"Connected", "Disconnected"}
    /\ died = "parse" =>
         /\ state = "Connected"
         /\ \/ \E k \in Calls : answered[k] = "bad"
            \/ wire # <<>> /\ wire[1].part = "b2"
            \/ ~peer /\ lost # {}
    /\ died = "rpcClient" =>
         \/ ~RpcConfigured(cfg)
         \/ cfg.host = "bad"
         \/ SslConfigured(cfg) /\ (cfg.ssl_cert = "bad" \/ cfg.ssl_key = "bad")
    /\ died = "ssl_config" => cfg.host = "bad"
    /\ died = "handle" => ~({"loop", "server"} \subseteq inited)
    /\ died = "config" => config = NotJson

\* The sample configuration that Config's constructor writes when there is no
\* file means the same as no file: a second start reads the settings the first
\* one used, but for rpc_port, which neither sets.
SampleKeepsDefaults ==
    [][(proc = "main" /\ starts > 1 /\ proc' = "configured" /\ config = Holds(to_json(Default(0))))
         => \E port \in Ports : cfg' = Default(port)]_vars

\* An answer with a result that has reached the client's socket completes its
\* query, unless the process dies or bitcoind closes the connection first.
AnswerOnWire(k) ==
    /\ Alive /\ socket = "open" /\ futures # <<>>
    /\ \E n \in DOMAIN wire : wire[n].ask = k /\ wire[n].kind = "result"

AnswersComplete ==
    \A k \in Calls :
        AnswerOnWire(k) ~> \/ ~Alive \/ k \in lost
                           \/ k \in DOMAIN futures /\ futures[k] = k

\* A start comes to something: the process ends, or it runs and the attempt to
\* reach bitcoind, if any, has an outcome.
StartSettles ==
    Alive ~> \/ ~Alive \/ proc = "exited"
             \/ proc = "running" /\ state # "Connecting"
=============================================================================
