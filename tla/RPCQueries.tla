----------------------------- MODULE RPCQueries -----------------------------
(***************************************************************************)
(* What RPCClient promises its callers: every call of Query hands out a    *)
(* future; a future gets a value at most once, and the value is bitcoind's *)
(* answer to that very call.  A new process starts with no futures.        *)
(*                                                                         *)
(* results[k] is the value of the k-th call's future: 0 while it has none, *)
(* k when it holds the answer to the k-th call.                            *)
(***************************************************************************)
EXTENDS Naturals, Sequences

VARIABLE results

Init == results = <<>>

Ask == results' = Append(results, 0)

\* One read may bring the answers to several calls.
Answer ==
    \E S \in SUBSET DOMAIN results :
        /\ \A k \in S : results[k] = 0
        /\ results' = [k \in DOMAIN results |-> IF k \in S THEN k ELSE results[k]]

NewProcess == results' = <<>>

Next == Ask \/ Answer \/ NewProcess

Spec == Init /\ [][Next]_results
=============================================================================
