---------------------------- MODULE MCNetWorker ----------------------------
(***************************************************************************)
(* Instance of NetWorker: config.json is missing, broken, complete, or     *)
(* complete but for the values of one or two settings.                     *)
(***************************************************************************)
EXTENDS NetWorker

Complete == [host |-> "good", rpc_host |-> "good", rpc_port |-> "port",
             rpc_username |-> "set", rpc_password |-> "set",
             ssl_cert |-> "absent", ssl_key |-> "absent"]

MCObjects == {Complete,
              [Complete EXCEPT !.host = "bad"],
              [Complete EXCEPT !.rpc_host = "bad"],
              [Complete EXCEPT !.rpc_port = "absent"],
              [Complete EXCEPT !.rpc_port = "0"],
              [Complete EXCEPT !.rpc_password = ""],
              [Complete EXCEPT !.ssl_cert = "good", !.ssl_key = "good"],
              [Complete EXCEPT !.ssl_cert = "bad", !.ssl_key = "good"]}

MCFiles == {NoFile, NotJson} \cup {Holds(j) : j \in MCObjects}
=============================================================================
