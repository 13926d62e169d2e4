-------------------------------- MODULE Config --------------------------------
(***************************************************************************)
(* Config (src/src/util/Config.cxx, Config.h): what the constructor makes  *)
(* of config.json.  A setting's value is what the program tells apart: an  *)
(* address or a path is "" (empty), "good" (it parses, it loads) or "bad";  *)
(* a name or password is "" or "set"; rpc_port is 0 or 1 (any other port). *)
(* A key that is missing, or whose JSON type is wrong, is "absent".  The   *)
(* listening port and the zmq addresses decide nothing and are left out.   *)
(***************************************************************************)

Texts == {"", "good", "bad"}
Names == {"", "set"}
Ports == {0, 1}

Settings == [host : Texts \ {""}, rpchost : Texts, rpc_port : Ports,
             rpcusername : Names, rpcpassword : Names,
             ssl_cert : Texts, ssl_key : Texts]

\* A JSON object that config.json may hold.
JsonObjects == [host : Texts \cup {"absent"}, rpc_host : Texts \cup {"absent"},
                rpc_port : {"absent", "0", "port"},
                rpc_username : Names \cup {"absent"},
                rpc_password : Names \cup {"absent"},
                ssl_cert : Texts \cup {"absent"}, ssl_key : Texts \cup {"absent"}]

\* config.json on disk: missing, not a JSON object, or an object.  A file that
\* holds null is read as the object without keys.
EmptyObject == [k \in {"host", "rpc_host", "rpc_port", "rpc_username",
                       "rpc_password", "ssl_cert", "ssl_key"} |-> "absent"]
NoFile  == [is |-> "missing", json |-> EmptyObject]
NotJson == [is |-> "broken", json |-> EmptyObject]
Holds(j) == [is |-> "object", json |-> j]
ConfigFiles == {NoFile, NotJson} \cup {Holds(j) : j \in JsonObjects}

\* The members' initializers.  rpc_port has none: it holds whatever the memory
\* held.
Default(port) ==
    [host |-> "good", rpchost |-> "", rpc_port |-> port, rpcusername |-> "",
     rpcpassword |-> "", ssl_cert |-> "", ssl_key |-> ""]

(* Mutant of to_json: the rpc host written as the host. *)
to_json_host(c) ==
    [host |-> c.rpchost, rpc_host |-> "absent", rpc_port |-> "absent",
     rpc_username |-> "absent", rpc_password |-> "absent",
     ssl_cert |-> c.ssl_cert, ssl_key |-> c.ssl_key]

\* to_json: the rpc settings are not written.
to_json(c) ==
    [host |-> c.host, rpc_host |-> "absent", rpc_port |-> "absent",
     rpc_username |-> "absent", rpc_password |-> "absent",
     ssl_cert |-> c.ssl_cert, ssl_key |-> c.ssl_key]

\* from_json: a key of the right type replaces the member.  An empty host is
\* an address that does not parse.
from_json(j, port) ==
    LET d == Default(port)
        Take(v, old) == IF v = "absent" THEN old ELSE v
    IN [host        |-> IF j.host = "" THEN "bad" ELSE Take(j.host, d.host),
        rpchost     |-> Take(j.rpc_host, d.rpchost),
        rpc_port    |-> CASE j.rpc_port = "absent" -> d.rpc_port
                          [] j.rpc_port = "0"      -> 0
                          [] j.rpc_port = "port"   -> 1,
        rpcusername |-> Take(j.rpc_username, d.rpcusername),
        rpcpassword |-> Take(j.rpc_password, d.rpcpassword),
        ssl_cert    |-> Take(j.ssl_cert, d.ssl_cert),
        ssl_key     |-> Take(j.ssl_key, d.ssl_key)]
=============================================================================
