-------------------------- MODULE NetWorkerProofs --------------------------
(***************************************************************************)
(* Proofs about NetWorker and RPCClient, for every number of calls, every  *)
(* set of configuration files and every size of a read: no query of        *)
(* RPCClient is forgotten or answered with another's answer, the futures   *)
(* keep RPCQueries' contract, and a crash has one of the causes that       *)
(* CrashesExplained names.                                                 *)
(***************************************************************************)
EXTENDS NetWorker, TLAPS

\* A request or a unit of an answer carries the id its call was given.
Paired(r) == r.ask \in 1..Len(futures) /\ r.id = r.ask - 1

\* The k-th call has the id k - 1, and its entry is in the map exactly while its
\* future has no value; a value it has is its own.
TableInv ==
    /\ futures \in Seq(Calls \cup {0}) /\ Len(futures) <= MaxCalls
    /\ Len(futures) < IdRange => cmdId = Len(futures)
    /\ \A i \in DOMAIN queryMap :
         i \in Nat /\ i + 1 \in 1..Len(futures) /\ futures[i + 1] = 0 /\ queryMap[i] = i + 1
    /\ \A k \in 1..Len(futures) :
         futures[k] \in {0, k} /\ (futures[k] = 0 => k - 1 \in DOMAIN queryMap)

\* What is on its way belongs to a call that was made.
LinkInv ==
    /\ toNode \in Seq(Requests) /\ wire \in Seq(Units)
    /\ \A n \in 1..Len(toNode) : Paired(toNode[n])
    /\ \A n \in 1..Len(wire) : Paired(wire[n])

\* A call is on its way to bitcoind at most once and then not on its way back;
\* an answer on its way back is of the kind bitcoind gave, and the second half
\* of a body follows the first.
AnswerInv ==
    /\ answered \in [Calls -> Kinds \cup {"no"}] /\ lost \subseteq Calls
    /\ \A m, n \in 1..Len(toNode) : toNode[m].ask = toNode[n].ask => m = n
    /\ \A m \in 1..Len(wire), n \in 1..Len(toNode) : wire[m].ask # toNode[n].ask
    /\ \A m \in 1..Len(wire) : answered[wire[m].ask] = wire[m].kind
    /\ \A m \in 2..Len(wire) : wire[m].part = "b2" =>
         /\ wire[m - 1].part = "b1" /\ wire[m - 1].ask = wire[m].ask
         /\ wire[m - 1].id = wire[m].id /\ wire[m - 1].kind = wire[m].kind

\* What OpenQueriesAccounted says of the entry i.
Accounted(i) ==
    \/ \E n \in 1..Len(toNode) : toNode[n].id = i /\ toNode[n].ask = i + 1
    \/ \E n \in 1..Len(wire) : wire[n].id = i /\ wire[n].ask = i + 1 /\ wire[n].part = "b2"
    \/ answered[i + 1] \in {"error", "none"}
    \/ i + 1 \in lost

AccountInv == Alive => \A i \in DOMAIN queryMap : Accounted(i)

QueryInv == TableInv /\ LinkInv /\ AnswerInv /\ AccountInv

-----------------------------------------------------------------------------
(* Sequences *)

LEMMA AppendFacts ==
  ASSUME NEW S, NEW s \in Seq(S), NEW e \in S
  PROVE  /\ Append(s, e) \in Seq(S) /\ Len(Append(s, e)) = Len(s) + 1
         /\ \A n \in 1..Len(s) : Append(s, e)[n] = s[n]
         /\ Append(s, e)[Len(s) + 1] = e
OBVIOUS

LEMMA TailFacts ==
  ASSUME NEW S, NEW s \in Seq(S), s # <<>>
  PROVE  /\ Tail(s) \in Seq(S) /\ Len(Tail(s)) = Len(s) - 1 /\ Len(s) \in Nat \ {0}
         /\ \A n \in 1..(Len(s) - 1) : Tail(s)[n] = s[n + 1]
         /\ Head(s) = s[1] /\ Head(s) \in S
OBVIOUS

LEMMA PrefixFacts ==
  ASSUME NEW S, NEW s \in Seq(S), NEW n \in 0..Len(s)
  PROVE  /\ SubSeq(s, 1, n) \in Seq(S) /\ Len(SubSeq(s, 1, n)) = n
         /\ \A m \in 1..n : SubSeq(s, 1, n)[m] = s[m]
OBVIOUS

LEMMA SuffixFacts ==
  ASSUME NEW S, NEW s \in Seq(S), NEW n \in 0..Len(s)
  PROVE  /\ SubSeq(s, n + 1, Len(s)) \in Seq(S) /\ Len(SubSeq(s, n + 1, Len(s))) = Len(s) - n
         /\ \A m \in 1..(Len(s) - n) : SubSeq(s, n + 1, Len(s))[m] = s[m + n]
OBVIOUS

LEMMA ConcatFacts ==
  ASSUME NEW S, NEW s \in Seq(S), NEW t \in Seq(S)
  PROVE  /\ s \o t \in Seq(S) /\ Len(s \o t) = Len(s) + Len(t)
         /\ \A n \in 1..Len(s) : (s \o t)[n] = s[n]
         /\ \A n \in 1..Len(t) : (s \o t)[Len(s) + n] = t[n]
OBVIOUS

LEMMA SeqByPlaces ==
  ASSUME NEW S, NEW n \in Nat, NEW f, f = [k \in 1..n |-> f[k]], \A k \in 1..n : f[k] \in S
  PROVE  f \in Seq(S) /\ Len(f) = n
<1>1. f \in [1..n -> S]
  OBVIOUS
<1> QED
  BY <1>1

-----------------------------------------------------------------------------
(* The steps that change what the queries are about *)

\* Everything QueryInv looks at is left alone, and no dead process comes alive.
Aside == /\ UNCHANGED <<tableVars, toNode, wire, answered, lost>>
         /\ died' = "" => died = ""

Asks == /\ died = ""
        /\ \E sock \in {"nullptr", "deaf", "open"}, up \in BOOLEAN : SendQuery(sock, up)
        /\ UNCHANGED <<wire, answered>>

LEMMA QuerySteps ==
  ASSUME [Next]_vars, socket \in {"nullptr", "deaf", "open"}, peer \in BOOLEAN
  PROVE  \/ Aside \/ Asks \/ Restart
         \/ died = "" /\ ReadCallback
         \/ \E kind \in Kinds : NodeAnswers(kind)
         \/ \E n \in 0..Len(wire) : NodeCloses(n)
<1>1. CASE UNCHANGED vars
  BY <1>1 DEF vars, clientVars, Aside, tableVars
<1>2. CASE Restart
  BY <1>2
<1>3. ASSUME Alive, ReadConfig PROVE Aside
  BY <1>3 DEF ReadConfig, Alive, Aside, linkVars
<1>4. ASSUME Alive, Construct PROVE Aside
  BY <1>4 DEF Construct, CtorReturns, CtorEnds, Connect, Alive, Aside, linkVars, clientVars, tableVars
<1>5. ASSUME Alive, Work PROVE Aside
  BY <1>5 DEF Work, Alive, Aside, linkVars
<1>6. ASSUME Alive, OnConnect \/ TLSHello PROVE Aside
  BY <1>6 DEF OnConnect, TLSHello, Alive, Aside, linkVars, clientVars, tableVars
<1>7. ASSUME Alive, HeaderRequest PROVE Aside \/ Asks
  <2>1. CASE Query
    BY <1>7, <2>1 DEF Query, Asks, Alive
  <2>2. CASE ~Query
    BY <1>7, <2>2 DEF HeaderRequest, Alive, Aside, linkVars
  <2> QED
    BY <2>1, <2>2
<1>8. ASSUME Alive, ConnectCallback PROVE Asks
  BY <1>8 DEF ConnectCallback, Asks, Alive
<1>9. ASSUME Alive, ConnectFailed \/ ReadStartFailed PROVE Aside
  BY <1>9 DEF ConnectFailed, ReadStartFailed, Alive, Aside, linkVars, tableVars
<1> QED
  BY <1>1, <1>2, <1>3, <1>4, <1>5, <1>6, <1>7, <1>8, <1>9
  DEF Next, Step, LoopStep, ClientStep, Alive

LEMMA Sizes == MaxCalls \in Nat /\ IdRange \in Nat /\ MaxCalls <= IdRange
BY RPCAssumption

LEMMA AsideStep == ASSUME QueryInv, Aside PROVE QueryInv'
<1>1. TableInv'
  BY DEF QueryInv, Aside, TableInv, tableVars
<1>2. LinkInv'
  BY DEF QueryInv, Aside, LinkInv, Paired, tableVars
<1>3. AnswerInv'
  BY DEF QueryInv, Aside, AnswerInv
<1>4. AccountInv'
  BY DEF QueryInv, Aside, AccountInv, Accounted, Alive, tableVars
<1> QED
  BY <1>1, <1>2, <1>3, <1>4 DEF QueryInv

LEMMA RestartStep == ASSUME Restart PROVE QueryInv'
<1>1. /\ futures' = <<>> /\ queryMap' = <<>> /\ toNode' = <<>> /\ wire' = <<>> /\ cmdId' = 0
      /\ answered' = [k \in Calls |-> "no"] /\ lost' = {}
  BY DEF Restart
<1>2. /\ Len(futures') = 0 /\ Len(toNode') = 0 /\ Len(wire') = 0 /\ DOMAIN queryMap' = {}
      /\ toNode' \in Seq(Requests) /\ wire' \in Seq(Units) /\ futures' \in Seq(Calls \cup {0})
  BY <1>1
<1>3. TableInv'
  BY <1>1, <1>2, Sizes DEF TableInv
<1>4. LinkInv'
  BY <1>2 DEF LinkInv
<1>5. AnswerInv'
  BY <1>1, <1>2 DEF AnswerInv
<1>6. AccountInv'
  BY <1>2 DEF AccountInv
<1> QED
  BY <1>3, <1>4, <1>5, <1>6 DEF QueryInv

\* A new call gets the next number and the id before it, which no other has.
LEMMA AsksStep == ASSUME QueryInv, Asks PROVE QueryInv'
<1> DEFINE k == Len(futures) + 1
           req == [id |-> cmdId, ask |-> k]
<1> USE Sizes
<1>t. /\ futures \in Seq(Calls \cup {0}) /\ Len(futures) \in Nat
      /\ toNode \in Seq(Requests) /\ Len(toNode) \in Nat /\ wire \in Seq(Units) /\ Len(wire) \in Nat
  BY DEF QueryInv, TableInv, LinkInv
<1>1. PICK sock \in {"nullptr", "deaf", "open"}, up \in BOOLEAN : SendQuery(sock, up)
  BY DEF Asks
<1>2. /\ k <= MaxCalls /\ cmdId = Len(futures) /\ cmdId' = (cmdId + 1) % IdRange
      /\ futures' = Append(futures, 0) /\ AddQuery(cmdId, k) /\ WriteInternal(sock, up, req)
  BY <1>1, <1>t DEF SendQuery, QueryInv, TableInv
<1>3. /\ futures' \in Seq(Calls \cup {0}) /\ Len(futures') = k /\ futures'[k] = 0
      /\ \A j \in 1..Len(futures) : futures'[j] = futures[j]
  BY <1>2, <1>t, AppendFacts
<1>4. /\ cmdId \notin DOMAIN queryMap
      /\ DOMAIN queryMap' = DOMAIN queryMap \cup {cmdId}
      /\ queryMap'[cmdId] = k
      /\ \A i \in DOMAIN queryMap : queryMap'[i] = queryMap[i]
  <2>1. cmdId \notin DOMAIN queryMap
    BY <1>2, <1>t DEF QueryInv, TableInv
  <2> QED
    BY <1>2, <2>1 DEF AddQuery
<1>5. TableInv'
  <2>1. Len(futures') <= MaxCalls /\ (Len(futures') < IdRange => cmdId' = Len(futures'))
    <3>1. k < IdRange => k % IdRange = k
      BY <1>t, SMTT(60)
    <3> QED
      BY <1>2, <1>3, <3>1, <1>t
  <2>2. ASSUME NEW i \in DOMAIN queryMap'
        PROVE  i \in Nat /\ i + 1 \in 1..k /\ futures'[i + 1] = 0 /\ queryMap'[i] = i + 1
    <3>1. CASE i = cmdId
      BY <3>1, <1>2, <1>3, <1>4, <1>t
    <3>2. CASE i \in DOMAIN queryMap
      <4>1. i \in Nat /\ i + 1 \in 1..Len(futures) /\ futures[i + 1] = 0 /\ queryMap[i] = i + 1
        BY <3>2 DEF QueryInv, TableInv
      <4> QED
        BY <4>1, <3>2, <1>3, <1>4, <1>t
    <3> QED
      BY <3>1, <3>2, <1>4
  <2>3. ASSUME NEW j \in 1..k
        PROVE  futures'[j] \in {0, j} /\ (futures'[j] = 0 => j - 1 \in DOMAIN queryMap')
    <3>1. CASE j = k
      BY <3>1, <1>2, <1>3, <1>4, <1>t
    <3>2. CASE j \in 1..Len(futures)
      BY <3>2, <1>3, <1>4 DEF QueryInv, TableInv
    <3> QED
      BY <3>1, <3>2, <1>t
  <2> QED
    BY <1>3, <2>1, <2>2, <2>3 DEF TableInv
<1>r. req \in Requests /\ req.ask = k /\ req.id = k - 1 /\ req.id = cmdId
  BY <1>2, <1>t DEF Requests, Ids, Calls
<1>w. wire' = wire /\ answered' = answered
  BY DEF Asks
<1>6. \/ toNode' = toNode /\ lost' = lost /\ died' \in {"write", "sigpipe"}
      \/ toNode' = toNode /\ lost' = lost \cup {k}
      \/ toNode' = Append(toNode, req) /\ lost' = lost
  BY <1>2, <1>r DEF WriteInternal
<1>m. /\ Len(toNode) + 1 \in 1..(Len(toNode) + 1)
      /\ \A n \in 1..Len(toNode) : n \in 1..(Len(toNode) + 1)
  BY <1>t
<1>k. k \in Calls
  BY <1>2, <1>t DEF Calls
<1>l. lost \subseteq Calls
  BY DEF QueryInv, AnswerInv
<1>7. toNode' = Append(toNode, req) =>
        /\ toNode' \in Seq(Requests) /\ Len(toNode') = Len(toNode) + 1
        /\ \A n \in 1..Len(toNode) : toNode'[n] = toNode[n]
        /\ toNode'[Len(toNode) + 1] = req
  BY <1>r, <1>t, AppendFacts
<1>o. /\ \A n \in 1..Len(toNode) : toNode[n].ask \in 1..Len(futures) /\ toNode[n].id = toNode[n].ask - 1
      /\ \A n \in 1..Len(wire) : wire[n].ask \in 1..Len(futures) /\ wire[n].id = wire[n].ask - 1
  BY DEF QueryInv, LinkInv, Paired
<1>8. LinkInv'
  <2>1. toNode' \in Seq(Requests)
    BY <1>6, <1>7, <1>t
  <2>2. ASSUME NEW n \in 1..Len(toNode')
        PROVE  toNode'[n].ask \in 1..k /\ toNode'[n].id = toNode'[n].ask - 1
    <3>1. CASE toNode' = toNode
      BY <3>1, <1>o, <1>t
    <3>2. CASE toNode' = Append(toNode, req)
      <4>1. CASE n \in 1..Len(toNode)
        BY <4>1, <3>2, <1>7, <1>o, <1>t
      <4>2. CASE n = Len(toNode) + 1
        BY <4>2, <3>2, <1>7, <1>r, <1>t
      <4> QED
        BY <4>1, <4>2, <3>2, <1>7, <1>t
    <3> QED
      BY <3>1, <3>2, <1>6
  <2>3. \A n \in 1..Len(wire') : wire'[n].ask \in 1..k /\ wire'[n].id = wire'[n].ask - 1
    BY <1>o, <1>w, <1>t
  <2> QED
    BY <2>1, <2>2, <2>3, <1>3, <1>t, <1>w DEF LinkInv, Paired
<1>9. AnswerInv'
  <2>1. CASE toNode' = toNode
    <3>1. lost' \subseteq Calls
      BY <1>6, <1>k, <1>l, Zenon
    <3> QED
      BY <3>1, <2>1, <1>w DEF QueryInv, AnswerInv
  <2>2. CASE toNode' = Append(toNode, req)
    <3>1. lost' \subseteq Calls
      BY <1>6, <1>k, <1>l, Zenon
    <3>2. \A m, n \in 1..Len(toNode') : toNode'[m].ask = toNode'[n].ask => m = n
      <4>1. \A m, n \in 1..Len(toNode) : toNode[m].ask = toNode[n].ask => m = n
        BY DEF QueryInv, AnswerInv
      <4>2. \A n \in 1..Len(toNode') : n \in 1..Len(toNode) \/ n = Len(toNode) + 1
        BY <2>2, <1>7, <1>t
      <4>3. \A n \in 1..Len(toNode) : toNode[n].ask # k
        BY <1>o, <1>t
      <4> QED
        BY <4>1, <4>2, <4>3, <2>2, <1>7, <1>r
    <3>3. \A m \in 1..Len(wire), n \in 1..Len(toNode') : wire[m].ask # toNode'[n].ask
      <4>1. \A m \in 1..Len(wire), n \in 1..Len(toNode) : wire[m].ask # toNode[n].ask
        BY DEF QueryInv, AnswerInv
      <4>2. \A n \in 1..Len(toNode') : n \in 1..Len(toNode) \/ n = Len(toNode) + 1
        BY <2>2, <1>7, <1>t
      <4>3. \A n \in 1..Len(wire) : wire[n].ask # k
        BY <1>o, <1>t
      <4> QED
        BY <4>1, <4>2, <4>3, <2>2, <1>7, <1>r
    <3> QED
      BY <3>1, <3>2, <3>3, <1>w DEF QueryInv, AnswerInv
  <2> QED
    BY <2>1, <2>2, <1>6
<1>10. AccountInv'
  <2> SUFFICES ASSUME died' = "", NEW i \in DOMAIN queryMap' PROVE Accounted(i)'
    BY DEF AccountInv, Alive
  <2>1. CASE i = cmdId
    <3>1. i + 1 = k
      BY <2>1, <1>2, <1>t
    <3>2. CASE toNode' = Append(toNode, req)
      <4>1. Len(toNode) + 1 \in 1..Len(toNode')
        <5>1. Len(toNode') = Len(toNode) + 1
          BY <3>2, <1>7
        <5> QED
          BY <5>1, <1>m, Zenon
      <4> QED
        BY <4>1, <3>1, <3>2, <2>1, <1>7, <1>r DEF Accounted
    <3>3. CASE lost' = lost \cup {k}
      BY <3>1, <3>3 DEF Accounted
    <3> QED
      BY <3>2, <3>3, <1>6
  <2>2. CASE i \in DOMAIN queryMap
    <3>1. Accounted(i)
      BY <2>2 DEF QueryInv, AccountInv, Alive, Asks
    <3>2. lost \subseteq lost'
      BY <1>6
    <3>3. ASSUME NEW n \in 1..Len(toNode) PROVE n \in 1..Len(toNode') /\ toNode'[n] = toNode[n]
      <4>1. CASE toNode' = toNode
        BY <4>1
      <4>2. CASE toNode' = Append(toNode, req)
        <5>1. Len(toNode') = Len(toNode) + 1 /\ toNode'[n] = toNode[n]
          BY <4>2, <1>7
        <5> QED
          BY <5>1, <1>m, Zenon
      <4> QED
        BY <4>1, <4>2, <1>6
    <3> QED
      BY <3>1, <3>2, <3>3, <1>w DEF Accounted
  <2> QED
    BY <2>1, <2>2, <1>4
<1> QED
  BY <1>5, <1>8, <1>9, <1>10 DEF QueryInv

\* An answer: units of one call, of one kind, the second half of its body last.
LEMMA AnswerFacts ==
  ASSUME NEW r \in Requests, NEW kind \in Kinds
  PROVE  LET t == AnswerUnits(r, kind) IN
         /\ t \in Seq(Units) /\ Len(t) \in {1, 3}
         /\ \A j \in 1..Len(t) : t[j].id = r.id /\ t[j].ask = r.ask /\ t[j].kind = kind
         /\ kind # "none" => Len(t) = 3 /\ t[3].part = "b2" /\ t[2].part = "b1"
         /\ \A j \in 1..Len(t) : t[j].part = "b2" => j = 3 /\ t[2].part = "b1"
<1> DEFINE u(p) == [id |-> r.id, ask |-> r.ask, kind |-> kind, part |-> p]
<1>1. u("h") \in Units /\ u("b1") \in Units /\ u("b2") \in Units
  BY DEF Units, Requests
<1>2. CASE kind = "none"
  <2>1. AnswerUnits(r, kind) = <<u("h")>>
    BY <1>2 DEF AnswerUnits
  <2> QED
    BY <2>1, <1>1, <1>2
<1>3. CASE kind # "none"
  <2>1. AnswerUnits(r, kind) = <<u("h"), u("b1"), u("b2")>>
    BY <1>3 DEF AnswerUnits
  <2> QED
    BY <2>1, <1>1, <1>3
<1> QED
  BY <1>2, <1>3

\* bitcoind takes the first request and puts its answer on the wire.
LEMMA NodeAnswersStep ==
  ASSUME QueryInv, NEW kind \in Kinds, NodeAnswers(kind) PROVE QueryInv'
<1> DEFINE h == toNode[1]
           t == AnswerUnits(h, kind)
<1> USE Sizes
<1>t. /\ toNode \in Seq(Requests) /\ wire \in Seq(Units) /\ Len(wire) \in Nat
      /\ toNode # <<>> /\ tableVars' = tableVars /\ lost' = lost /\ died' = died
  BY DEF QueryInv, LinkInv, NodeAnswers
<1>1. /\ Tail(toNode) \in Seq(Requests) /\ Len(Tail(toNode)) = Len(toNode) - 1
      /\ Len(toNode) \in Nat \ {0}
      /\ \A n \in 1..(Len(toNode) - 1) : Tail(toNode)[n] = toNode[n + 1]
      /\ Head(toNode) = h /\ h \in Requests
  <2>1. /\ Tail(toNode) \in Seq(Requests) /\ Len(Tail(toNode)) = Len(toNode) - 1
        /\ Len(toNode) \in Nat \ {0}
        /\ \A n \in 1..(Len(toNode) - 1) : Tail(toNode)[n] = toNode[n + 1]
        /\ Head(toNode) = toNode[1] /\ Head(toNode) \in Requests
    BY <1>t, TailFacts
  <2> QED
    BY <2>1
<1>2. /\ t \in Seq(Units) /\ Len(t) \in {1, 3}
      /\ \A j \in 1..Len(t) : t[j].id = h.id /\ t[j].ask = h.ask /\ t[j].kind = kind
      /\ kind # "none" => Len(t) = 3 /\ t[3].part = "b2" /\ t[2].part = "b1"
      /\ \A j \in 1..Len(t) : t[j].part = "b2" => j = 3 /\ t[2].part = "b1"
  BY <1>1, AnswerFacts
<1>h. h.ask \in 1..Len(futures) /\ h.id = h.ask - 1 /\ h.ask \in Calls
  BY <1>1 DEF QueryInv, LinkInv, Paired, Requests
<1> HIDE DEF h, t
<1>3. /\ toNode' = Tail(toNode) /\ wire' = wire \o t
      /\ answered' = [answered EXCEPT ![h.ask] = kind]
  BY <1>1 DEF NodeAnswers, t
<1>4. /\ toNode' \in Seq(Requests) /\ Len(toNode') = Len(toNode) - 1
      /\ \A n \in 1..(Len(toNode) - 1) : toNode'[n] = toNode[n + 1]
  BY <1>1, <1>3, Zenon
<1>5. /\ wire' \in Seq(Units) /\ Len(wire') = Len(wire) + Len(t)
      /\ \A n \in 1..Len(wire) : wire'[n] = wire[n]
      /\ \A j \in 1..Len(t) : wire'[Len(wire) + j] = t[j]
  <2>1. /\ wire \o t \in Seq(Units) /\ Len(wire \o t) = Len(wire) + Len(t)
        /\ \A n \in 1..Len(wire) : (wire \o t)[n] = wire[n]
        /\ \A j \in 1..Len(t) : (wire \o t)[Len(wire) + j] = t[j]
    BY <1>t, <1>2, ConcatFacts
  <2> QED
    BY <2>1, <1>3, Zenon
\* Where a place of the new sequences comes from.
<1>6. ASSUME NEW n \in 1..(Len(toNode) - 1)
      PROVE  n + 1 \in 1..Len(toNode) /\ n + 1 # 1 /\ toNode'[n] = toNode[n + 1]
  BY <1>1, <1>4
<1>7. ASSUME NEW m \in 1..(Len(wire) + Len(t))
      PROVE  \/ m \in 1..Len(wire) /\ wire'[m] = wire[m]
             \/ \E j \in 1..Len(t) : m = Len(wire) + j /\ wire'[m] = t[j]
  <2>1. Len(t) \in Nat
    BY <1>2
  <2>2. m \in 1..Len(wire) \/ (m - Len(wire) \in 1..Len(t) /\ m = Len(wire) + (m - Len(wire)))
    BY <2>1, <1>t
  <2> QED
    BY <2>2, <1>5
<1>f. futures' = futures /\ queryMap' = queryMap /\ cmdId' = cmdId
  BY <1>t DEF tableVars
<1>a. /\ answered \in [Calls -> Kinds \cup {"no"}] /\ lost \subseteq Calls
      /\ \A m, n \in 1..Len(toNode) : toNode[m].ask = toNode[n].ask => m = n
      /\ \A m \in 1..Len(wire), n \in 1..Len(toNode) : wire[m].ask # toNode[n].ask
      /\ \A m \in 1..Len(wire) : answered[wire[m].ask] = wire[m].kind
      /\ \A m \in 2..Len(wire) : wire[m].part = "b2" =>
           /\ wire[m - 1].part = "b1" /\ wire[m - 1].ask = wire[m].ask
           /\ wire[m - 1].id = wire[m].id /\ wire[m - 1].kind = wire[m].kind
  BY DEF QueryInv, AnswerInv
<1>o. /\ \A n \in 1..Len(toNode) : toNode[n].ask \in 1..Len(futures) /\ toNode[n].id = toNode[n].ask - 1
      /\ \A n \in 1..Len(wire) : wire[n].ask \in 1..Len(futures) /\ wire[n].id = wire[n].ask - 1
  BY DEF QueryInv, LinkInv, Paired
<1>c. \A n \in 1..Len(wire) : wire[n].ask \in Calls
  <2>1. \A s \in Seq(Units) : \A n \in 1..Len(s) : s[n] \in Units
    OBVIOUS
  <2>2. \A n \in 1..Len(wire) : wire[n] \in Units
    BY <2>1, <1>t, Zenon
  <2> QED
    BY <2>2 DEF Units
<1>8. TableInv'
  BY <1>f DEF QueryInv, TableInv
<1>9. LinkInv'
  <2>1. \A n \in 1..Len(toNode') : toNode'[n].ask \in 1..Len(futures) /\ toNode'[n].id = toNode'[n].ask - 1
    BY <1>6, <1>4, <1>o, Zenon
  <2>2. \A m \in 1..Len(wire') : wire'[m].ask \in 1..Len(futures) /\ wire'[m].id = wire'[m].ask - 1
    <3> SUFFICES ASSUME NEW m \in 1..(Len(wire) + Len(t))
                 PROVE  wire'[m].ask \in 1..Len(futures) /\ wire'[m].id = wire'[m].ask - 1
      BY <1>5, Zenon
    <3>1. CASE m \in 1..Len(wire) /\ wire'[m] = wire[m]
      BY <3>1, <1>o, Zenon
    <3>2. CASE \E j \in 1..Len(t) : m = Len(wire) + j /\ wire'[m] = t[j]
      BY <3>2, <1>2, <1>h, Zenon
    <3> QED
      BY <3>1, <3>2, <1>7
  <2> QED
    BY <2>1, <2>2, <1>4, <1>5, <1>f DEF LinkInv, Paired
<1>10. AnswerInv'
  <2>1. answered' \in [Calls -> Kinds \cup {"no"}] /\ lost' \subseteq Calls
    BY <1>3, <1>a, <1>t
  <2>2. \A m, n \in 1..Len(toNode') : toNode'[m].ask = toNode'[n].ask => m = n
    <3> SUFFICES ASSUME NEW m \in 1..(Len(toNode) - 1), NEW n \in 1..(Len(toNode) - 1),
                        toNode'[m].ask = toNode'[n].ask
                 PROVE  m = n
      BY <1>4, Zenon
    <3>1. m + 1 = n + 1
      BY <1>6, <1>a
    <3> QED
      BY <3>1, <1>1
  <2>3. \A m \in 1..Len(wire'), n \in 1..Len(toNode') : wire'[m].ask # toNode'[n].ask
    <3> SUFFICES ASSUME NEW m \in 1..(Len(wire) + Len(t)), NEW n \in 1..(Len(toNode) - 1)
                 PROVE  wire'[m].ask # toNode'[n].ask
      BY <1>4, <1>5, Zenon
    <3>1. CASE m \in 1..Len(wire) /\ wire'[m] = wire[m]
      BY <3>1, <1>6, <1>a
    <3>2. CASE \E j \in 1..Len(t) : m = Len(wire) + j /\ wire'[m] = t[j]
      <4>1. wire'[m].ask = toNode[1].ask
        BY <3>2, <1>2 DEF h
      <4>2. 1 \in 1..Len(toNode)
        BY <1>1
      <4> QED
        BY <4>1, <4>2, <1>6, <1>a
    <3> QED
      BY <3>1, <3>2, <1>7
  <2>4. \A m \in 1..Len(wire') : answered'[wire'[m].ask] = wire'[m].kind
    <3> SUFFICES ASSUME NEW m \in 1..(Len(wire) + Len(t))
                 PROVE  answered'[wire'[m].ask] = wire'[m].kind
      BY <1>5, Zenon
    <3>1. CASE m \in 1..Len(wire) /\ wire'[m] = wire[m]
      <4>1. wire[m].ask # h.ask /\ wire[m].ask \in Calls
        BY <3>1, <1>1, <1>a, <1>c DEF h
      <4> QED
        BY <4>1, <3>1, <1>3, <1>a
    <3>2. CASE \E j \in 1..Len(t) : m = Len(wire) + j /\ wire'[m] = t[j]
      BY <3>2, <1>2, <1>3, <1>a, <1>h, ZenonT(60)
    <3> QED
      BY <3>1, <3>2, <1>7
  <2>5. ASSUME NEW m \in 2..(Len(wire) + Len(t)), wire'[m].part = "b2"
        PROVE  /\ wire'[m - 1].part = "b1" /\ wire'[m - 1].ask = wire'[m].ask
               /\ wire'[m - 1].id = wire'[m].id /\ wire'[m - 1].kind = wire'[m].kind
    <3>1. m \in 1..(Len(wire) + Len(t))
      BY <1>2, <1>t
    <3>2. CASE m \in 1..Len(wire) /\ wire'[m] = wire[m]
      <4>1. m - 1 \in 1..Len(wire) /\ m \in 2..Len(wire)
        BY <3>2, <1>t
      <4>2. wire'[m - 1] = wire[m - 1]
        BY <4>1, <1>5
      <4> QED
        BY <4>1, <4>2, <3>2, <2>5, <1>a
    <3>3. ASSUME NEW j \in 1..Len(t), m = Len(wire) + j, wire'[m] = t[j]
          PROVE  /\ wire'[m - 1].part = "b1" /\ wire'[m - 1].ask = wire'[m].ask
                 /\ wire'[m - 1].id = wire'[m].id /\ wire'[m - 1].kind = wire'[m].kind
      <4>1. j = 3 /\ t[2].part = "b1"
        BY <3>3, <2>5, <1>2
      <4>2. 2 \in 1..Len(t) /\ m - 1 = Len(wire) + 2
        BY <4>1, <3>3, <1>2, <1>t
      <4>3. wire'[m - 1] = t[2]
        BY <4>2, <1>5
      <4> QED
        BY <4>1, <4>2, <4>3, <3>3, <1>2
    <3> QED
      BY <3>1, <3>2, <3>3, <1>7
  <2> QED
    BY <2>1, <2>2, <2>3, <2>4, <2>5, <1>5 DEF AnswerInv
<1>11. AccountInv'
  <2> SUFFICES ASSUME NEW i \in Nat, i + 1 \in Calls, Accounted(i) PROVE Accounted(i)'
    <3>1. \A i \in DOMAIN queryMap : i \in Nat /\ i + 1 \in 1..Len(futures)
      BY DEF QueryInv, TableInv
    <3>2. \A i \in DOMAIN queryMap : i \in Nat /\ i + 1 \in Calls
      <4>1. Len(futures) \in Nat /\ Len(futures) <= MaxCalls
        BY DEF QueryInv, TableInv
      <4> QED
        BY <3>1, <4>1 DEF Calls
    <3> QED
      BY <3>2, <1>f, <1>t, Zenon DEF QueryInv, AccountInv, Alive
  <2>1. Accounted(i)
    OBVIOUS
  <2>2. CASE i + 1 = h.ask /\ i = h.id
    <3>1. CASE kind = "none"
      <4>1. answered'[i + 1] = "none"
        BY <2>2, <3>1, <1>3, <1>a, <1>h
      <4> QED
        BY <4>1 DEF Accounted
    <3>2. CASE kind # "none"
      <4>0. Len(t) = 3 /\ t[3].part = "b2"
        BY <3>2, <1>2, Zenon
      <4>1. 3 \in 1..Len(t) /\ Len(wire) + 3 \in 1..(Len(wire) + Len(t)) /\ t[3].part = "b2"
        <5>1. \A w \in Nat : 3 \in 1..3 /\ w + 3 \in 1..(w + 3)
          OBVIOUS
        <5> QED
          BY <4>0, <5>1, <1>t, Zenon
      <4>2. /\ Len(wire) + 3 \in 1..Len(wire') /\ wire'[Len(wire) + 3] = t[3]
            /\ t[3].id = h.id /\ t[3].ask = h.ask
        BY <4>1, <1>5, <1>2, Zenon
      <4> QED
        BY <4>1, <4>2, <2>2, Zenon DEF Accounted
    <3> QED
      BY <3>1, <3>2
  <2>3. CASE ~(i + 1 = h.ask /\ i = h.id)
    <3>0. i + 1 # h.ask
      BY <2>3, <1>h
    <3>1. ASSUME NEW n \in 1..Len(toNode), toNode[n].id = i, toNode[n].ask = i + 1
          PROVE  \E m \in 1..Len(toNode') : toNode'[m].id = i /\ toNode'[m].ask = i + 1
      <4>1. n # 1
        BY <3>1, <2>3 DEF h
      <4>2. n - 1 \in 1..(Len(toNode) - 1) /\ (n - 1) + 1 = n
        BY <4>1, <1>1
      <4>3. n - 1 \in 1..Len(toNode') /\ toNode'[n - 1] = toNode[n]
        BY <4>2, <1>4, Zenon
      <4> QED
        BY <4>3, <3>1, Zenon
    <3>2. ASSUME NEW n \in 1..Len(wire), wire[n].id = i, wire[n].ask = i + 1, wire[n].part = "b2"
          PROVE  \E m \in 1..Len(wire') : wire'[m].id = i /\ wire'[m].ask = i + 1 /\ wire'[m].part = "b2"
      <4>1. n \in 1..(Len(wire) + Len(t))
        BY <1>2, <1>t
      <4>2. n \in 1..Len(wire') /\ wire'[n] = wire[n]
        BY <4>1, <1>5, Zenon
      <4> QED
        BY <4>2, <3>2, Zenon
    <3>3. answered'[i + 1] = answered[i + 1]
      BY <3>0, <1>3, <1>a
    <3> QED
      BY <2>1, <3>1, <3>2, <3>3, <1>t DEF Accounted
  <2> QED
    BY <2>2, <2>3
<1> QED
  BY <1>8, <1>9, <1>10, <1>11 DEF QueryInv

\* bitcoind closes: what was on its way is either still there or counted as lost.
LEMMA NodeClosesStep ==
  ASSUME QueryInv, NEW n \in 0..Len(wire), NodeCloses(n) PROVE QueryInv'
<1> USE Sizes
<1>t. /\ toNode \in Seq(Requests) /\ wire \in Seq(Units) /\ Len(wire) \in Nat /\ Len(toNode) \in Nat
      /\ tableVars' = tableVars /\ answered' = answered /\ died' = died
  BY DEF QueryInv, LinkInv, NodeCloses
<1>f. futures' = futures /\ queryMap' = queryMap /\ cmdId' = cmdId
  BY <1>t DEF tableVars
<1>1. toNode' = <<>> /\ Len(toNode') = 0 /\ toNode' \in Seq(Requests)
  BY DEF NodeCloses
<1>2. /\ wire' \in Seq(Units) /\ Len(wire') = n
      /\ \A m \in 1..n : wire'[m] = wire[m]
  <2>1. /\ SubSeq(wire, 1, n) \in Seq(Units) /\ Len(SubSeq(wire, 1, n)) = n
        /\ \A m \in 1..n : SubSeq(wire, 1, n)[m] = wire[m]
    BY <1>t, PrefixFacts
  <2> QED
    BY <2>1, Zenon DEF NodeCloses
<1>3. \A m \in 1..n : m \in 1..Len(wire) /\ wire'[m] = wire[m]
  BY <1>2, <1>t
<1>l. lost' = lost \cup {toNode[i].ask : i \in 1..Len(toNode)}
                   \cup {wire[i].ask : i \in (n + 1)..Len(wire)}
  <2>1. DOMAIN toNode = 1..Len(toNode)
    BY <1>t
  <2> QED
    BY <2>1 DEF NodeCloses
<1>c. /\ \A m \in 1..Len(toNode) : toNode[m].ask \in Calls
      /\ \A m \in 1..Len(wire) : wire[m].ask \in Calls
  <2>1. \A S : \A s \in Seq(S) : \A m \in 1..Len(s) : s[m] \in S
    OBVIOUS
  <2>2. /\ \A m \in 1..Len(wire) : wire[m] \in Units
        /\ \A m \in 1..Len(toNode) : toNode[m] \in Requests
    BY <2>1, <1>t, Zenon
  <2> QED
    BY <2>2 DEF Units, Requests
<1>4. TableInv'
  BY <1>f DEF QueryInv, TableInv
<1>5. LinkInv'
  <2>1. \A m \in 1..Len(wire) : Paired(wire[m])
    BY DEF QueryInv, LinkInv
  <2>2. \A m \in 1..n : Paired(wire[m])'
    BY <2>1, <1>3, <1>f DEF Paired
  <2>3. \A m \in 1..Len(toNode') : Paired(toNode[m])'
    BY <1>1
  <2> QED
    BY <2>2, <2>3, <1>1, <1>2 DEF LinkInv
<1>6. AnswerInv'
  <2>1. lost' \subseteq Calls
    <3>1. lost \subseteq Calls
      BY DEF QueryInv, AnswerInv
    <3>2. \A i \in (n + 1)..Len(wire) : i \in 1..Len(wire)
      BY <1>t
    <3> QED
      BY <3>1, <3>2, <1>l, <1>c
  <2>2. \A m \in 1..n : answered'[wire'[m].ask] = wire'[m].kind
    BY <1>3, <1>t DEF QueryInv, AnswerInv
  <2>3. ASSUME NEW m \in 2..n, wire'[m].part = "b2"
        PROVE  /\ wire'[m - 1].part = "b1" /\ wire'[m - 1].ask = wire'[m].ask
               /\ wire'[m - 1].id = wire'[m].id /\ wire'[m - 1].kind = wire'[m].kind
    <3>1. m \in 1..n /\ m - 1 \in 1..n /\ m \in 2..Len(wire)
      BY <1>t
    <3>2. wire'[m] = wire[m] /\ wire'[m - 1] = wire[m - 1]
      BY <3>1, <1>2
    <3>3. \A j \in 2..Len(wire) : wire[j].part = "b2" =>
            /\ wire[j - 1].part = "b1" /\ wire[j - 1].ask = wire[j].ask
            /\ wire[j - 1].id = wire[j].id /\ wire[j - 1].kind = wire[j].kind
      BY DEF QueryInv, AnswerInv
    <3> QED
      BY <3>1, <3>2, <3>3, <2>3
  <2>4. 1..Len(toNode') = {}
    BY <1>1
  <2>5. answered' \in [Calls -> Kinds \cup {"no"}]
    BY <1>t DEF QueryInv, AnswerInv
  <2> QED
    BY <2>1, <2>2, <2>3, <2>4, <2>5, <1>2 DEF AnswerInv
<1>7. AccountInv'
  <2>1. ASSUME NEW i, Accounted(i) PROVE Accounted(i)'
    <3>1. ASSUME NEW m \in 1..Len(toNode), toNode[m].ask = i + 1 PROVE i + 1 \in lost'
      BY <3>1, <1>l
    <3>2. ASSUME NEW m \in 1..Len(wire), wire[m].ask = i + 1, wire[m].id = i, wire[m].part = "b2"
          PROVE  \/ i + 1 \in lost'
                 \/ \E j \in 1..Len(wire') : wire'[j].id = i /\ wire'[j].ask = i + 1 /\ wire'[j].part = "b2"
      <4>1. m \in 1..n \/ m \in (n + 1)..Len(wire)
        BY <1>t
      <4> QED
        BY <4>1, <3>2, <1>l, <1>2, Zenon
    <3>3. lost \subseteq lost'
      BY <1>l
    <3> QED
      BY <2>1, <3>1, <3>2, <3>3, <1>t DEF Accounted
  <2> QED
    BY <2>1, <1>f, <1>t DEF QueryInv, AccountInv, Alive
<1> QED
  BY <1>4, <1>5, <1>6, <1>7 DEF QueryInv

\* CompleteQuery for the answers H: each goes to the future of its own call, and
\* exactly the entries of those calls leave the map.
LEMMA CompleteFacts ==
  ASSUME TableInv, NEW H, \A h \in H : Paired(h), CompleteQueries(H)
  PROVE  /\ DOMAIN futures' = 1..Len(futures)
         /\ \A k \in 1..Len(futures) :
              futures'[k] = IF k - 1 \in DOMAIN queryMap /\ \E h \in H : h.ask = k
                            THEN k ELSE futures[k]
         /\ \A i \in DOMAIN queryMap' : i \in DOMAIN queryMap /\ queryMap'[i] = queryMap[i]
         /\ \A i \in DOMAIN queryMap :
              i \in DOMAIN queryMap' <=> ~\E h \in H : h.ask = i + 1
<1> DEFINE known == {h \in H : h.id \in DOMAIN queryMap}
           done == {h.id : h \in known}
           Of(k) == CHOOSE h \in known : queryMap[h.id] = k
<1>1. /\ futures' = [k \in DOMAIN futures |->
                        IF \E h \in known : queryMap[h.id] = k THEN Of(k).ask ELSE futures[k]]
      /\ queryMap' = [i \in DOMAIN queryMap \ done |-> queryMap[i]]
  BY Zenon DEF CompleteQueries
<1>2. \A h \in known : h.id \in Nat /\ h.ask = h.id + 1 /\ queryMap[h.id] = h.ask
  <2>1. \A h \in known : Paired(h) /\ h.id \in DOMAIN queryMap
    OBVIOUS
  <2>2. \A i \in DOMAIN queryMap : i \in Nat /\ queryMap[i] = i + 1
    BY DEF TableInv
  <2>3. \A h \in known : h.ask \in Nat /\ h.id = h.ask - 1
    BY <2>1 DEF Paired
  <2> QED
    BY <2>1, <2>2, <2>3
<1>3. DOMAIN futures = 1..Len(futures)
  BY DEF TableInv
<1>4. ASSUME NEW k \in 1..Len(futures)
      PROVE  futures'[k] = IF k - 1 \in DOMAIN queryMap /\ \E h \in H : h.ask = k
                           THEN k ELSE futures[k]
  <2>1. (\E h \in known : queryMap[h.id] = k) <=> (k - 1 \in DOMAIN queryMap /\ \E h \in H : h.ask = k)
    <3>1. ASSUME NEW h \in known, queryMap[h.id] = k
          PROVE  k - 1 \in DOMAIN queryMap /\ h \in H /\ h.ask = k
      <4>1. h \in H /\ h.id \in DOMAIN queryMap
        OBVIOUS
      <4>2. h.id = k - 1 /\ h.ask = k
        BY <3>1, <1>2
      <4> QED
        BY <4>1, <4>2
    <3>2. ASSUME k - 1 \in DOMAIN queryMap, NEW h \in H, h.ask = k
          PROVE  h \in known /\ queryMap[h.id] = k
      <4>1. h.id = k - 1
        BY <3>2 DEF Paired
      <4>2. h \in known
        BY <4>1, <3>2
      <4> QED
        BY <4>2, <3>2, <1>2
    <3> QED
      BY <3>1, <3>2, Zenon
  <2>2. (\E h \in known : queryMap[h.id] = k) => Of(k) \in known /\ queryMap[Of(k).id] = k
    BY Zenon
  <2>3. (\E h \in known : queryMap[h.id] = k) => Of(k).ask = k
    BY <2>2, <1>2, Zenon
  <2>4. futures'[k] = IF \E h \in known : queryMap[h.id] = k THEN Of(k).ask ELSE futures[k]
    BY <1>1, <1>3, Zenon
  <2> QED
    BY <2>1, <2>3, <2>4, Zenon
<1>5. ASSUME NEW i \in DOMAIN queryMap
      PROVE  i \in DOMAIN queryMap' <=> ~\E h \in H : h.ask = i + 1
  <2>0. i \in Nat
    BY DEF TableInv
  <2>1. i \in DOMAIN queryMap' <=> i \notin done
    BY <1>1
  <2>2. ASSUME NEW h \in H, h.ask = i + 1 PROVE i \in done
    <3>1. h.id = i
      BY <2>2, <2>0 DEF Paired
    <3> QED
      BY <3>1
  <2>3. ASSUME NEW h \in known, h.id = i PROVE h \in H /\ h.ask = i + 1
    BY <2>3, <1>2
  <2> QED
    BY <2>1, <2>2, <2>3
<1> QED
  BY <1>1, <1>3, <1>4, <1>5

\* HandleRead takes the first n units.  A second half of a body among them comes
\* after its first half, or the process dies.
LEMMA HandleReadStep ==
  ASSUME QueryInv, NEW n \in Nat, n <= Len(wire), n # 0, HandleRead(n) PROVE QueryInv'
<1> DEFINE u == SubSeq(wire, 1, n)
<1> USE Sizes
<1>t. /\ toNode \in Seq(Requests) /\ wire \in Seq(Units) /\ Len(wire) \in Nat
      /\ futures \in Seq(Calls \cup {0}) /\ Len(futures) \in Nat
      /\ toNode' = toNode /\ answered' = answered /\ lost' = lost /\ cmdId' = cmdId
  BY DEF QueryInv, LinkInv, TableInv, HandleRead
<1>1. /\ Len(u) = n /\ \A m \in 1..n : u[m] = wire[m]
  <2>1. n \in 0..Len(wire)
    BY <1>t
  <2> QED
    BY <2>1, <1>t, PrefixFacts
<1>2. /\ wire' \in Seq(Units) /\ Len(wire') = Len(wire) - n
      /\ \A m \in 1..(Len(wire) - n) : wire'[m] = wire[m + n]
  <2>1. n \in 0..Len(wire)
    BY <1>t
  <2>2. /\ SubSeq(wire, n + 1, Len(wire)) \in Seq(Units)
        /\ Len(SubSeq(wire, n + 1, Len(wire))) = Len(wire) - n
        /\ \A m \in 1..(Len(wire) - n) : SubSeq(wire, n + 1, Len(wire))[m] = wire[m + n]
    BY <2>1, <1>t, SuffixFacts
  <2> QED
    BY <2>2, Zenon DEF HandleRead
<1>3. ASSUME NEW m \in 1..(Len(wire) - n) PROVE m + n \in 1..Len(wire) /\ wire'[m] = wire[m + n]
  BY <1>2, <1>t
<1>a. /\ \A m \in 1..Len(wire) : answered[wire[m].ask] = wire[m].kind
      /\ \A m \in 2..Len(wire) : wire[m].part = "b2" =>
           /\ wire[m - 1].part = "b1" /\ wire[m - 1].ask = wire[m].ask
           /\ wire[m - 1].id = wire[m].id /\ wire[m - 1].kind = wire[m].kind
      /\ \A m \in 1..Len(wire), j \in 1..Len(toNode) : wire[m].ask # toNode[j].ask
  BY DEF QueryInv, AnswerInv
<1>p. /\ \A m \in 1..Len(wire) : Paired(wire[m])
      /\ \A m \in 1..Len(toNode) : Paired(toNode[m])
  BY DEF QueryInv, LinkInv
<1> HIDE DEF u
<1>h. \A h \in Handled(u) : \E m \in 1..n : h = wire[m] /\ h.kind = "result"
  <2>1. \A m \in WholeBodies(u) : m \in 1..n
    BY <1>1 DEF WholeBodies
  <2> QED
    BY <2>1, <1>1 DEF Handled
<1>H. \A h \in Handled(u) : Paired(h)
  <2>1. \A m \in 1..n : m \in 1..Len(wire)
    BY <1>t
  <2> QED
    BY <2>1, <1>h, <1>p, Zenon
<1>4. AnswerInv'
  <2>1. \A m \in 1..(Len(wire) - n) : answered'[wire'[m].ask] = wire'[m].kind
    BY <1>3, <1>a, <1>t, ZenonT(60)
  <2>2. ASSUME NEW m \in 2..(Len(wire) - n), wire'[m].part = "b2"
        PROVE  /\ wire'[m - 1].part = "b1" /\ wire'[m - 1].ask = wire'[m].ask
               /\ wire'[m - 1].id = wire'[m].id /\ wire'[m - 1].kind = wire'[m].kind
    <3>1. /\ m \in 1..(Len(wire) - n) /\ m - 1 \in 1..(Len(wire) - n)
          /\ m + n \in 2..Len(wire) /\ (m - 1) + n = (m + n) - 1
      BY <1>t
    <3>2. wire'[m] = wire[m + n] /\ wire'[m - 1] = wire[(m + n) - 1]
      BY <3>1, <1>2
    <3> QED
      BY <3>1, <3>2, <2>2, <1>a
  <2>3. \A m \in 1..(Len(wire) - n), j \in 1..Len(toNode') : wire'[m].ask # toNode'[j].ask
    <3>1. ASSUME NEW m \in 1..(Len(wire) - n), NEW j \in 1..Len(toNode)
          PROVE  wire'[m].ask # toNode[j].ask
      <4>1. m + n \in 1..Len(wire) /\ wire'[m] = wire[m + n]
        BY <1>3
      <4> QED
        BY <4>1, <1>a, ZenonT(60)
    <3> QED
      BY <3>1, <1>t, Zenon
  <2>4. /\ answered' \in [Calls -> Kinds \cup {"no"}] /\ lost' \subseteq Calls
        /\ \A m, j \in 1..Len(toNode') : toNode'[m].ask = toNode'[j].ask => m = j
    BY <1>t DEF QueryInv, AnswerInv
  <2> QED
    BY <2>1, <2>2, <2>3, <2>4, <1>2 DEF AnswerInv
<1>5. ASSUME Len(futures') = Len(futures) PROVE LinkInv'
  <2>1. \A m \in 1..(Len(wire) - n) : Paired(wire[m])'
    BY <1>3, <1>p, <1>5 DEF Paired
  <2>2. \A m \in 1..Len(toNode') : Paired(toNode[m])'
    BY <1>t, <1>p, <1>5 DEF Paired
  <2> QED
    BY <2>1, <2>2, <1>2, <1>t DEF LinkInv
<1>6. CASE Throws(u)
  <2>1. died' = "parse" /\ queryMap' = queryMap /\ futures' = futures
    BY <1>6 DEF HandleRead, u
  <2>2. TableInv'
    BY <2>1, <1>t DEF QueryInv, TableInv
  <2>3. AccountInv'
    BY <2>1 DEF AccountInv, Alive
  <2> QED
    BY <2>1, <2>2, <2>3, <1>4, <1>5 DEF QueryInv
<1>7. CASE ~Throws(u)
  <2>0. CompleteQueries(Handled(u)) /\ died' = died
    BY <1>7 DEF HandleRead, u
  <2>1. /\ DOMAIN futures' = 1..Len(futures)
        /\ \A k \in 1..Len(futures) :
             futures'[k] = IF k - 1 \in DOMAIN queryMap /\ \E h \in Handled(u) : h.ask = k
                           THEN k ELSE futures[k]
        /\ \A i \in DOMAIN queryMap' : i \in DOMAIN queryMap /\ queryMap'[i] = queryMap[i]
        /\ \A i \in DOMAIN queryMap :
             i \in DOMAIN queryMap' <=> ~\E h \in Handled(u) : h.ask = i + 1
    BY <2>0, <1>H, CompleteFacts DEF QueryInv
  <2>2. futures' \in Seq(Calls \cup {0}) /\ Len(futures') = Len(futures)
    <3>1. \A k \in 1..Len(futures) : futures'[k] \in Calls \cup {0}
      <4>1. \A k \in 1..Len(futures) : futures[k] \in Calls \cup {0} /\ k \in Calls
        BY <1>t DEF QueryInv, TableInv, Calls
      <4> QED
        BY <4>1, <2>1
    <3>2. futures' = [k \in 1..Len(futures) |-> futures'[k]]
      BY <2>0, <2>1 DEF CompleteQueries
    <3> QED
      BY <3>1, <3>2, <1>t, SeqByPlaces, Zenon
  <2>3. TableInv'
    <3>1. ASSUME NEW i \in DOMAIN queryMap'
          PROVE  i \in Nat /\ i + 1 \in 1..Len(futures) /\ futures'[i + 1] = 0 /\ queryMap'[i] = i + 1
      <4>1. /\ i \in DOMAIN queryMap /\ queryMap'[i] = queryMap[i]
            /\ ~\E h \in Handled(u) : h.ask = i + 1
        BY <2>1, Zenon
      <4>2. i \in Nat /\ i + 1 \in 1..Len(futures) /\ futures[i + 1] = 0 /\ queryMap[i] = i + 1
        BY <4>1 DEF QueryInv, TableInv
      <4>3. futures'[i + 1] = futures[i + 1]
        BY <4>1, <4>2, <2>1, Zenon
      <4> QED
        BY <4>1, <4>2, <4>3, Zenon
    <3>2. ASSUME NEW k \in 1..Len(futures)
          PROVE  futures'[k] \in {0, k} /\ (futures'[k] = 0 => k - 1 \in DOMAIN queryMap')
      <4>1. futures[k] \in {0, k} /\ (futures[k] = 0 => k - 1 \in DOMAIN queryMap)
        BY DEF QueryInv, TableInv
      <4>2. k # 0 /\ (k - 1) + 1 = k
        BY <1>t
      <4>3. CASE k - 1 \in DOMAIN queryMap /\ \E h \in Handled(u) : h.ask = k
        BY <4>2, <4>3, <2>1
      <4>4. CASE ~(k - 1 \in DOMAIN queryMap /\ \E h \in Handled(u) : h.ask = k)
        <5>1. futures'[k] = futures[k]
          BY <4>4, <2>1
        <5>2. futures[k] = 0 => k - 1 \in DOMAIN queryMap'
          BY <4>1, <4>2, <4>4, <2>1, Zenon
        <5> QED
          BY <5>1, <5>2, <4>1, Zenon
      <4> QED
        BY <4>3, <4>4
    <3>3. Len(futures) <= MaxCalls /\ (Len(futures) < IdRange => cmdId' = Len(futures))
      BY <1>t DEF QueryInv, TableInv
    <3> QED
      BY <3>1, <3>2, <3>3, <2>2 DEF TableInv
  <2>4. AccountInv'
    <3>1. ASSUME died = "", NEW i \in Nat, Accounted(i), ~\E h \in Handled(u) : h.ask = i + 1
          PROVE  Accounted(i)'
      <4>1. ASSUME NEW m \in 1..Len(wire), wire[m].id = i, wire[m].ask = i + 1, wire[m].part = "b2"
            PROVE  \/ answered[i + 1] \in {"error", "none"}
                   \/ \E j \in 1..Len(wire') : wire'[j].id = i /\ wire'[j].ask = i + 1 /\ wire'[j].part = "b2"
        <5>1. CASE m > n
          <6>1. m - n \in 1..(Len(wire) - n) /\ (m - n) + n = m
            BY <5>1, <1>t
          <6>2. m - n \in 1..Len(wire') /\ wire'[m - n] = wire[m]
            BY <6>1, <1>2, Zenon
          <6> QED
            BY <6>2, <4>1, Zenon
        <5>2. CASE m <= n
          <6>1. m # 1
            <7>1. 1 \in 1..n
              OBVIOUS
            <7>2. u[1] = wire[1]
              BY <7>1, <1>1
            <7> QED
              BY <7>2, <4>1, <1>7 DEF Throws, TornBody
          <6>2. m \in 2..Len(wire) /\ m \in 1..n /\ m - 1 \in 1..n /\ m - 1 \in 1..(n - 1) /\ (m - 1) + 1 = m
            BY <6>1, <5>2, <1>t
          <6>3. /\ wire[m - 1].part = "b1" /\ wire[m - 1].ask = i + 1
                /\ wire[m - 1].kind = wire[m].kind
            BY <6>2, <4>1, <1>a
          <6>4. u[m - 1] = wire[m - 1] /\ u[m] = wire[m]
            BY <6>2, <1>1, Zenon
          <6>5. m - 1 \in WholeBodies(u)
            BY <6>2, <6>3, <6>4, <4>1, <1>1 DEF WholeBodies
          <6>6. wire[m].kind # "result"
            <7>1. SUFFICES ASSUME wire[m].kind = "result" PROVE FALSE
              OBVIOUS
            <7>2. u[m - 1].kind = "result" /\ u[m - 1].ask = i + 1
              BY <7>1, <6>3, <6>4
            <7>3. u[m - 1] \in Handled(u)
              BY <7>2, <6>5 DEF Handled
            <7> QED
              BY <7>2, <7>3, <3>1
          <6>7. wire[m].kind \in Kinds /\ wire[m].kind # "bad"
            <7>1. \A s \in Seq(Units) : \A j \in 1..Len(s) : s[j] \in Units
              OBVIOUS
            <7>2. wire[m] \in Units
              BY <7>1, <1>t, Zenon
            <7>3. u[m - 1].kind # "bad"
              BY <6>5, <1>7 DEF Throws
            <7> QED
              BY <7>2, <7>3, <6>3, <6>4 DEF Units
          <6>8. answered[i + 1] = wire[m].kind
            BY <4>1, <1>a
          <6> QED
            BY <6>6, <6>7, <6>8 DEF Kinds
        <5> QED
          BY <5>1, <5>2, <1>t
      <4> QED
        BY <3>1, <4>1, <1>t DEF Accounted
    <3>2. ASSUME died = "", NEW i \in DOMAIN queryMap' PROVE Accounted(i)'
      <4>1. i \in DOMAIN queryMap /\ ~\E h \in Handled(u) : h.ask = i + 1
        BY <2>1, Zenon
      <4>2. i \in Nat
        BY <4>1 DEF QueryInv, TableInv
      <4>3. Accounted(i)
        BY <4>1, <3>2, Zenon DEF QueryInv, AccountInv, Alive
      <4> QED
        BY <4>1, <4>2, <4>3, <3>1, <3>2, Zenon
    <3> QED
      BY <3>2, <2>0 DEF AccountInv, Alive
  <2> QED
    BY <2>2, <2>3, <2>4, <1>4, <1>5 DEF QueryInv
<1> QED
  BY <1>6, <1>7

LEMMA QueryInit == Init => QueryInv
<1> SUFFICES ASSUME Init PROVE QueryInv
  OBVIOUS
<1>1. /\ futures = <<>> /\ queryMap = <<>> /\ toNode = <<>> /\ wire = <<>> /\ cmdId = 0
      /\ answered = [k \in Calls |-> "no"] /\ lost = {}
  BY DEF Init, RPCInit
<1>2. /\ Len(futures) = 0 /\ Len(toNode) = 0 /\ Len(wire) = 0 /\ DOMAIN queryMap = {}
      /\ toNode \in Seq(Requests) /\ wire \in Seq(Units) /\ futures \in Seq(Calls \cup {0})
  BY <1>1
<1>3. TableInv
  BY <1>1, <1>2, Sizes DEF TableInv
<1>4. LinkInv
  BY <1>2 DEF LinkInv
<1>5. AnswerInv
  BY <1>1, <1>2 DEF AnswerInv
<1>6. AccountInv
  BY <1>2 DEF AccountInv
<1> QED
  BY <1>3, <1>4, <1>5, <1>6 DEF QueryInv

-----------------------------------------------------------------------------
(* What the worker's state and the configuration have to do with each other *)

\* With the handles set up, a pointer is garbage only for a reason in the
\* configuration, and the loop runs only with the handles set up.
PointersInv ==
    /\ proc = "running" => {"loop", "server"} \subseteq inited
    /\ proc \in {"constructed", "running"} /\ {"loop", "server"} \subseteq inited =>
         /\ rpcClient = "garbage" =>
              \/ ~RpcConfigured(cfg)
              \/ cfg.host = "bad"
              \/ SslConfigured(cfg) /\ (cfg.ssl_cert = "bad" \/ cfg.ssl_key = "bad")
         /\ ssl_config = "garbage" => cfg.host = "bad"

\* A client object has begun to connect, and is connected only with a socket.
ConnInv ==
    /\ state \in States /\ socket \in {"nullptr", "deaf", "open"} /\ peer \in BOOLEAN
    /\ state = "Connected" => socket = "open"
    /\ rpcClient = "object" => state # "Init"

\* Nothing is on the wire before there is a socket, the connection callback is
\* the first to set it, and a socket that is read is a connection's.
SocketInv ==
    /\ socket = "nullptr" => ~peer /\ wire = <<>>
    /\ state \in {"Init", "Connecting"} => socket = "nullptr"
    /\ proc \in {"main", "configured"} => socket = "nullptr"
    /\ socket = "open" => state = "Connected"

\* A living process has read whole bodies; half a body at the end of the wire is
\* all that a closed connection left of it.
BodyInv ==
    /\ died = "" /\ 1 \in 1..Len(wire) => wire[1].part # "b2"
    /\ \A m \in 1..Len(wire) : wire[m].part = "b1" =>
         \/ m + 1 \in 1..Len(wire) /\ wire[m + 1].part = "b2"
         \/ m = Len(wire) /\ ~peer /\ lost # {}

\* What CrashesExplained says of a death in the parser.
ParseCause ==
    \/ \E k \in Calls : answered[k] = "bad"
    \/ wire # <<>> /\ wire[1].part = "b2"
    \/ ~peer /\ lost # {}

WorkInv == PointersInv /\ ConnInv /\ SocketInv /\ CrashesExplained

LEMMA WorkInit == Init => WorkInv
BY DEF Init, RPCInit, WorkInv, PointersInv, ConnInv, SocketInv, CrashesExplained, States

\* Between two reads nothing happens to the wire but at bitcoind's end.
Quiet ==
    /\ wire' = wire /\ lost \subseteq lost'
    /\ peer' = peer \/ wire = <<>>
    /\ died' = "" => died = ""

LEMMA WireSteps ==
  ASSUME [Next]_vars, SocketInv
  PROVE  \/ Quiet \/ Restart
         \/ died = "" /\ ReadCallback
         \/ \E kind \in Kinds : NodeAnswers(kind)
         \/ \E n \in 0..Len(wire) : NodeCloses(n)
<1>1. CASE UNCHANGED vars
  BY <1>1 DEF vars, clientVars, Quiet
<1>2. ASSUME Alive, ReadConfig PROVE Quiet
  BY <1>2 DEF ReadConfig, Alive, Quiet, linkVars
<1>3. ASSUME Alive, Construct PROVE Quiet
  BY <1>3 DEF Construct, CtorReturns, CtorEnds, Connect, Alive, Quiet, linkVars, clientVars
<1>4. ASSUME Alive, Work PROVE Quiet
  BY <1>4 DEF Work, Alive, Quiet, linkVars
<1>5. ASSUME Alive, OnConnect \/ TLSHello PROVE Quiet
  BY <1>5 DEF OnConnect, TLSHello, Alive, Quiet, linkVars, clientVars
<1>6. ASSUME Alive, HeaderRequest PROVE Quiet
  BY <1>6 DEF HeaderRequest, Query, SendQuery, WriteInternal, Alive, Quiet, linkVars
<1>7. ASSUME Alive, ConnectFailed \/ ReadStartFailed PROVE Quiet
  BY <1>7 DEF ConnectFailed, ReadStartFailed, Alive, Quiet, linkVars, SocketInv
<1>8. ASSUME Alive, ConnectCallback PROVE Quiet
  BY <1>8 DEF ConnectCallback, SendQuery, WriteInternal, Alive, Quiet, SocketInv
<1> QED
  BY <1>1, <1>2, <1>3, <1>4, <1>5, <1>6, <1>7, <1>8 DEF Next, Step, LoopStep, ClientStep, Alive

\* Places in a sequence and in what is left of it.
LEMMA Places ==
  /\ \A a, b \in Nat : a + 1 \in 1..b => 1 \in 1..(b - a) /\ 1 + a = a + 1
  /\ \A a \in Nat : \A b \in 1..(a - 1) : b \in 1..a
  /\ 1 \notin 1..0
OBVIOUS

LEMMA Members == \A s \in Seq(Units) : \A j \in 1..Len(s) : s[j] \in Units
OBVIOUS

LEMMA EmptyPlaces == \A s : s = <<>> => Len(s) = 0 /\ 1..Len(s) = {}
<1>1. Len(<<>>) = 0
  OBVIOUS
<1>2. 1..0 = {}
  OBVIOUS
<1> QED
  BY <1>1, <1>2, Zenon

\* What a read takes, and what it leaves.
LEMMA ReadFacts ==
  ASSUME QueryInv, NEW n \in Nat, n <= Len(wire), n # 0, HandleRead(n)
  PROVE  LET u == SubSeq(wire, 1, n) IN
         /\ Len(u) = n /\ u[1] = wire[1] /\ u[n] = wire[n]
         /\ \A m \in 1..n : u[m] = wire[m] /\ m \in 1..Len(wire)
         /\ Len(wire) \in Nat /\ n \in 1..Len(wire) /\ 1 \in 1..Len(wire)
         /\ wire \in Seq(Units) /\ wire' \in Seq(Units) /\ Len(wire') = Len(wire) - n
         /\ \A m \in 1..(Len(wire) - n) : wire'[m] = wire[m + n]
<1>1. wire \in Seq(Units) /\ Len(wire) \in Nat /\ n \in 0..Len(wire) /\ 1 \in 1..n /\ n \in 1..n
  BY DEF QueryInv, LinkInv
<1>2. /\ Len(SubSeq(wire, 1, n)) = n
      /\ \A m \in 1..n : SubSeq(wire, 1, n)[m] = wire[m]
  BY <1>1, PrefixFacts
<1>3. /\ SubSeq(wire, n + 1, Len(wire)) \in Seq(Units)
      /\ Len(SubSeq(wire, n + 1, Len(wire))) = Len(wire) - n
      /\ \A m \in 1..(Len(wire) - n) : SubSeq(wire, n + 1, Len(wire))[m] = wire[m + n]
  BY <1>1, SuffixFacts
<1>4. /\ n \in 1..Len(wire) /\ 1 \in 1..Len(wire)
      /\ \A m \in 1..n : m \in 1..Len(wire)
  BY <1>1
<1> QED
  BY <1>1, <1>2, <1>3, <1>4 DEF HandleRead

\* A read that ends inside a body leaves its second half as the first unit, unless
\* there is none because bitcoind closed the connection.
LEMMA ReadCause ==
  ASSUME QueryInv, BodyInv, died = "", NEW n \in Nat, n <= Len(wire), n # 0, HandleRead(n),
         died' = "parse"
  PROVE  ParseCause'
<1> DEFINE u == SubSeq(wire, 1, n)
<1>1. /\ Len(u) = n /\ u[1] = wire[1] /\ u[n] = wire[n]
      /\ \A m \in 1..n : u[m] = wire[m] /\ m \in 1..Len(wire)
      /\ \A m \in 1..(Len(wire) - n) : wire'[m] = wire[m + n]
  BY ReadFacts
<1>3. /\ Len(wire) \in Nat /\ n \in 1..Len(wire) /\ 1 \in 1..Len(wire)
      /\ wire \in Seq(Units) /\ wire' \in Seq(Units) /\ Len(wire') = Len(wire) - n
  BY ReadFacts
<1>2. Throws(u) /\ answered' = answered /\ lost' = lost /\ peer' = peer
  BY DEF HandleRead
<1> HIDE DEF u
<1>4. u[1].part # "b2"
  BY <1>1, <1>3 DEF BodyInv
<1>5. CASE u[Len(u)].part = "b1"
  <2>1. wire[n].part = "b1"
    BY <1>5, <1>1
  <2>2. CASE n + 1 \in 1..Len(wire) /\ wire[n + 1].part = "b2"
    <3>1. 1 \in 1..(Len(wire) - n) /\ 1 + n = n + 1
      BY Places, <2>2, <1>3, Zenon
    <3>2. wire'[1] = wire[n + 1]
      BY <3>1, <1>1
    <3>3. wire' # <<>>
      <4>1. 1 \in 1..Len(wire')
        BY <3>1, <1>3, Zenon
      <4> QED
        BY <4>1, EmptyPlaces, Places, Zenon
    <3> QED
      BY <2>2, <3>2, <3>3 DEF ParseCause
  <2>3. CASE ~peer /\ lost # {}
    BY <2>3, <1>2 DEF ParseCause
  <2> QED
    BY <2>1, <2>2, <2>3, <1>3 DEF BodyInv
<1>6. CASE \E i \in WholeBodies(u) : u[i].kind = "bad"
  <2>1. PICK i \in WholeBodies(u) : u[i].kind = "bad"
    BY <1>6
  <2>2. i \in 1..n
    <3>1. i \in 1..(Len(u) - 1) /\ Len(u) = n
      BY <1>1 DEF WholeBodies
    <3> QED
      BY <3>1, <1>3, Places, Zenon
  <2>3. i \in 1..Len(wire) /\ wire[i].kind = "bad"
    BY <2>1, <2>2, <1>1
  <2>4. answered[wire[i].ask] = "bad"
    BY <2>3 DEF QueryInv, AnswerInv
  <2>5. wire[i] \in Units
    BY Members, <2>3, <1>3, Zenon
  <2>6. wire[i].ask \in Calls
    BY <2>5 DEF Units
  <2> QED
    BY <2>4, <2>6, <1>2 DEF ParseCause
<1> QED
  BY <1>2, <1>4, <1>5, <1>6 DEF Throws, TornBody

\* What a read leaves is as BodyInv says, whether or not the process survives it.
LEMMA ReadBodies ==
  ASSUME QueryInv, BodyInv, NEW n \in Nat, n <= Len(wire), n # 0, HandleRead(n)
  PROVE  BodyInv'
<1> DEFINE u == SubSeq(wire, 1, n)
<1>n. /\ Len(wire) \in Nat /\ n \in 1..Len(wire) /\ Len(wire') = Len(wire) - n
  BY ReadFacts
<1>1. /\ Len(u) = n /\ u[n] = wire[n]
      /\ \A m \in 1..(Len(wire) - n) : wire'[m] = wire[m + n]
  BY ReadFacts
<1>2. /\ Throws(u) => died' = "parse"
      /\ lost' = lost /\ peer' = peer
  BY DEF HandleRead
<1> HIDE DEF u
<1>3. ASSUME died' = "", 1 \in 1..Len(wire') PROVE wire'[1].part # "b2"
  <2>1. wire[n].part # "b1"
    BY <1>1, <1>2, <1>3 DEF Throws, TornBody
  <2>2. /\ 1 \in 1..(Len(wire) - n) /\ 1 + n = n + 1 /\ n + 1 \in 2..Len(wire) /\ (n + 1) - 1 = n
    <3>1. \A a, b \in Nat : 1 \in 1..(b - a) /\ a # 0 =>
            1 + a = a + 1 /\ a + 1 \in 2..b /\ (a + 1) - 1 = a
      OBVIOUS
    <3>2. 1 \in 1..(Len(wire) - n)
      BY <1>n, <1>3, Zenon
    <3> QED
      BY <3>1, <3>2, <1>n, Zenon
  <2>3. wire'[1] = wire[n + 1]
    BY <2>2, <1>1
  <2>4. \A m \in 2..Len(wire) : wire[m].part = "b2" => wire[m - 1].part = "b1"
    BY DEF QueryInv, AnswerInv
  <2>5. wire[n + 1].part = "b2" => wire[(n + 1) - 1].part = "b1"
    BY <2>2, <2>4, Zenon
  <2> QED
    BY <2>1, <2>2, <2>3, <2>5
<1>4. ASSUME NEW m \in 1..Len(wire'), wire'[m].part = "b1"
      PROVE  \/ m + 1 \in 1..Len(wire') /\ wire'[m + 1].part = "b2"
             \/ m = Len(wire') /\ ~peer' /\ lost' # {}
  <2>1. m \in 1..(Len(wire) - n) /\ m + n \in 1..Len(wire)
    BY <1>n
  <2>2. wire[m + n].part = "b1"
    BY <2>1, <1>1, <1>4
  <2>3. CASE (m + n) + 1 \in 1..Len(wire) /\ wire[(m + n) + 1].part = "b2"
    <3>1. m + 1 \in 1..(Len(wire) - n) /\ (m + 1) + n = (m + n) + 1
      BY <2>1, <2>3, <1>n
    <3>2. wire'[m + 1] = wire[(m + n) + 1]
      BY <3>1, <1>1
    <3> QED
      BY <2>3, <3>1, <3>2, <1>n
  <2>4. CASE m + n = Len(wire) /\ ~peer /\ lost # {}
    <3>1. m = Len(wire')
      BY <2>1, <2>4, <1>n
    <3> QED
      BY <3>1, <2>4, <1>2
  <2> QED
    BY <2>1, <2>2, <2>3, <2>4 DEF BodyInv
<1> QED
  BY <1>3, <1>4 DEF BodyInv

\* An answer is put on the wire with both halves of its body.
LEMMA NodeAnswersBodies ==
  ASSUME QueryInv, BodyInv, NEW kind \in Kinds, NodeAnswers(kind) PROVE BodyInv'
<1> DEFINE t == AnswerUnits(Head(toNode), kind)
<1>1. /\ toNode \in Seq(Requests) /\ toNode # <<>> /\ wire \in Seq(Units) /\ Len(wire) \in Nat
      /\ peer /\ peer' = peer /\ lost' = lost /\ died' = died /\ wire' = wire \o t
  BY DEF QueryInv, LinkInv, NodeAnswers
<1>2. Head(toNode) \in Requests
  BY <1>1, TailFacts
<1>3. /\ t \in Seq(Units) /\ Len(t) \in {1, 3} /\ t[1].part = "h"
      /\ Len(t) = 3 => t[2].part = "b1" /\ t[3].part = "b2"
  <2> DEFINE v(p) == [id |-> Head(toNode).id, ask |-> Head(toNode).ask, kind |-> kind, part |-> p]
  <2>1. t \in Seq(Units)
    BY <1>2, AnswerFacts
  <2>2. t = IF kind = "none" THEN <<v("h")>> ELSE <<v("h"), v("b1"), v("b2")>>
    BY DEF AnswerUnits
  <2> HIDE DEF t
  <2>3. CASE kind = "none"
    BY <2>1, <2>2, <2>3
  <2>4. CASE kind # "none"
    BY <2>1, <2>2, <2>4
  <2> QED
    BY <2>3, <2>4
<1> HIDE DEF t
<1>4. /\ Len(wire') = Len(wire) + Len(t)
      /\ \A n \in 1..Len(wire) : wire'[n] = wire[n]
      /\ \A j \in 1..Len(t) : wire'[Len(wire) + j] = t[j]
  BY <1>1, <1>3, ConcatFacts
<1>5. \A n \in 1..Len(wire) : wire[n].part = "b1" => n + 1 \in 1..Len(wire) /\ wire[n + 1].part = "b2"
  BY <1>1 DEF BodyInv
<1>6. ASSUME NEW m \in 1..Len(wire'), wire'[m].part = "b1"
      PROVE  m + 1 \in 1..Len(wire') /\ wire'[m + 1].part = "b2"
  <2>1. CASE m \in 1..Len(wire)
    <3>1. m + 1 \in 1..Len(wire) /\ wire[m + 1].part = "b2"
      BY <2>1, <1>4, <1>5, <1>6
    <3>2. m + 1 \in 1..Len(wire')
      BY <3>1, <1>1, <1>3, <1>4
    <3> QED
      BY <3>1, <3>2, <1>4
  <2>2. CASE m \notin 1..Len(wire)
    <3>1. m - Len(wire) \in 1..Len(t) /\ m = Len(wire) + (m - Len(wire))
      BY <2>2, <1>1, <1>3, <1>4
    <3>2. wire'[m] = t[m - Len(wire)]
      BY <3>1, <1>4
    <3>3. Len(t) = 3 /\ m = Len(wire) + 2
      <4>1. m - Len(wire) # 1
        BY <3>2, <1>3, <1>6
      <4>2. m - Len(wire) # 3 \/ Len(t) # 3
        BY <3>2, <1>3, <1>6
      <4>3. Len(t) \in {1, 3} /\ Len(wire) \in Nat
        BY <1>1, <1>3
      <4>4. \A a \in Nat, b \in {1, 3} : \A j \in 1..b :
              j # 1 /\ (j # 3 \/ b # 3) => b = 3 /\ a + j = a + 2
        OBVIOUS
      <4> QED
        BY <3>1, <4>1, <4>2, <4>3, <4>4, Zenon
    <3>4. 3 \in 1..Len(t) /\ m + 1 = Len(wire) + 3 /\ m + 1 \in 1..Len(wire')
      BY <3>3, <1>1, <1>4
    <3>5. wire'[m + 1] = t[3]
      BY <3>4, <1>4
    <3> QED
      BY <3>3, <3>4, <3>5, <1>3
  <2> QED
    BY <2>1, <2>2
<1>7. ASSUME died' = "" PROVE wire'[1].part # "b2"
  <2>1. CASE Len(wire) = 0
    <3>1. 1 \in 1..Len(t) /\ Len(wire) + 1 = 1
      BY <2>1, <1>3
    <3>2. wire'[1] = t[1]
      BY <3>1, <1>4
    <3> QED
      BY <3>2, <1>3
  <2>2. CASE Len(wire) # 0
    <3>1. 1 \in 1..Len(wire)
      BY <2>2, <1>1
    <3> QED
      BY <3>1, <1>1, <1>4, <1>7 DEF BodyInv
  <2> QED
    BY <2>1, <2>2
<1> QED
  BY <1>6, <1>7 DEF BodyInv

LEMMA NodeClosesBodies ==
  ASSUME QueryInv, BodyInv, NEW n \in 0..Len(wire), NodeCloses(n) PROVE BodyInv'
<1>1. /\ wire \in Seq(Units) /\ Len(wire) \in Nat /\ n \in Nat /\ n <= Len(wire) /\ peer
  BY DEF QueryInv, LinkInv, NodeCloses
<1>2. /\ Len(wire') = n /\ \A m \in 1..n : wire'[m] = wire[m]
      /\ peer' = FALSE /\ died' = died
      /\ {wire[i].ask : i \in (n + 1)..Len(wire)} \subseteq lost'
  <2>1. /\ Len(SubSeq(wire, 1, n)) = n
        /\ \A m \in 1..n : SubSeq(wire, 1, n)[m] = wire[m]
    BY <1>1, PrefixFacts
  <2> QED
    BY <2>1 DEF NodeCloses
<1>3. ASSUME NEW m \in 1..n, wire'[m].part = "b1"
      PROVE  \/ m + 1 \in 1..n /\ wire'[m + 1].part = "b2"
             \/ m = n /\ ~peer' /\ lost' # {}
  <2>1. m \in 1..Len(wire) /\ wire[m].part = "b1"
    BY <1>1, <1>2, <1>3
  <2>2. m + 1 \in 1..Len(wire) /\ wire[m + 1].part = "b2"
    BY <2>1, <1>1 DEF BodyInv
  <2>3. CASE m + 1 \in 1..n
    BY <2>2, <2>3, <1>2
  <2>4. CASE m = n
    <3>1. n + 1 \in (n + 1)..Len(wire)
      BY <2>2, <2>4, <1>1
    <3>2. wire[n + 1].ask \in lost'
      BY <3>1, <1>2
    <3> QED
      BY <2>4, <3>2, <1>2
  <2> QED
    BY <2>3, <2>4, <1>1
<1>4. ASSUME died' = "", 1 \in 1..n PROVE wire'[1].part # "b2"
  <2>1. Len(wire) \in Nat /\ n <= Len(wire) /\ n \in Nat
    BY <1>1
  <2>2. 1 \in 1..Len(wire)
    <3>1. \A a, b \in Nat : a <= b /\ 1 \in 1..a => 1 \in 1..b
      OBVIOUS
    <3> QED
      BY <3>1, <2>1, <1>4, Zenon
  <2> QED
    BY <2>2, <1>2, <1>4 DEF BodyInv
<1> QED
  BY <1>2, <1>3, <1>4 DEF BodyInv

LEMMA BodyStep == ASSUME QueryInv, SocketInv, BodyInv, [Next]_vars PROVE BodyInv'
<1>1. CASE Quiet
  <2>1. CASE wire = <<>>
    <3>0. wire' = <<>>
      BY <1>1, <2>1 DEF Quiet
    <3>1. 1..Len(wire') = {}
      BY <3>0, EmptyPlaces, Zenon
    <3> QED
      BY <3>1, Zenon DEF BodyInv
  <2>2. CASE peer' = peer
    BY <1>1, <2>2 DEF Quiet, BodyInv
  <2> QED
    BY <1>1, <2>1, <2>2 DEF Quiet
<1>2. CASE Restart
  <2>0. wire' = <<>>
    BY <1>2 DEF Restart
  <2>1. 1..Len(wire') = {}
    BY <2>0, EmptyPlaces, Zenon
  <2> QED
    BY <2>1, Zenon DEF BodyInv
<1>3. CASE ReadCallback
  <2>1. PICK n \in 1..ReadMax : n <= Len(wire) /\ HandleRead(n)
    BY <1>3 DEF ReadCallback
  <2>2. n \in Nat /\ n # 0
    BY RPCAssumption
  <2> QED
    BY <2>1, <2>2, ReadBodies
<1> QED
  BY <1>1, <1>2, <1>3, WireSteps, NodeAnswersBodies, NodeClosesBodies

LEMMA WorkStep == ASSUME QueryInv, BodyInv, WorkInv, [Next]_vars PROVE WorkInv'
<1> USE DEF WorkInv, SocketInv
<1>1. CASE UNCHANGED vars
  BY <1>1 DEF vars, clientVars, workerVars, PointersInv, ConnInv, CrashesExplained
<1>2. CASE Restart
  BY <1>2 DEF Restart, PointersInv, ConnInv, CrashesExplained, States
<1>3. ASSUME Alive, ReadConfig PROVE WorkInv'
  <2>1. /\ proc = "main" /\ proc' \in {"main", "configured"}
        /\ \/ died' = ""
           \/ died' = "config" /\ config' = NotJson
        /\ UNCHANGED <<state, socket, peer, wire, rpcClient>>
    BY <1>3 DEF ReadConfig, linkVars, Alive
  <2> QED
    BY <2>1 DEF PointersInv, ConnInv, CrashesExplained
<1>4. ASSUME Alive, Construct PROVE WorkInv'
  <2>0. proc = "configured" /\ proc' = "constructed" /\ died = "" /\ cfg' = cfg
    BY <1>4 DEF Construct, Alive
  <2>1. ASSUME NEW done, NEW ssl, CtorReturns(done, ssl),
               \/ ~({"loop", "server"} \subseteq done)
               \/ cfg.host = "bad"
               \/ /\ SslConfigured(cfg) /\ (cfg.ssl_cert = "bad" \/ cfg.ssl_key = "bad")
                  /\ ssl # "garbage"
        PROVE  WorkInv'
    BY <2>0, <2>1 DEF CtorReturns, clientVars, PointersInv, ConnInv, CrashesExplained
  <2>2. ASSUME NEW ssl, ssl # "garbage", CtorEnds(ssl) PROVE WorkInv'
    <3>1. /\ UNCHANGED <<socket, peer, wire, died>> /\ socket = "nullptr" /\ ssl_config' = ssl
          /\ state' \in {state, "Connecting", "Disconnected"}
      BY <2>0, <2>2 DEF CtorEnds, Connect, clientVars, linkVars
    <3>2. \/ rpcClient' = "object" /\ state' \in {"Connecting", "Disconnected"}
          \/ rpcClient' = "garbage" /\ ~RpcConfigured(cfg)
      BY <2>2 DEF CtorEnds, Connect
    <3>3. PointersInv' /\ CrashesExplained'
      BY <2>0, <2>2, <3>1, <3>2 DEF PointersInv, CrashesExplained
    <3>4. ConnInv' /\ SocketInv'
      BY <2>0, <3>1, <3>2 DEF ConnInv, States
    <3> QED
      BY <3>3, <3>4
  <2> QED
    BY <1>4, <2>1, <2>2 DEF Construct
<1>5. ASSUME Alive, Work PROVE WorkInv'
  BY <1>5 DEF Work, Alive, linkVars, PointersInv, ConnInv, CrashesExplained
<1>6. ASSUME Alive, OnConnect PROVE WorkInv'
  BY <1>6 DEF OnConnect, Alive, clientVars, PointersInv, ConnInv, CrashesExplained
<1>7. ASSUME Alive, HeaderRequest PROVE WorkInv'
  <2>1. CASE rpcClient = "object" /\ Query
    <3>1. /\ UNCHANGED <<state, socket, peer, wire, workerVars>>
          /\ \/ died' = died
             \/ died' = "write" /\ socket = "nullptr"
             \/ died' = "sigpipe" /\ socket # "nullptr" /\ ~peer
      BY <1>7, <2>1 DEF HeaderRequest, Query, SendQuery, WriteInternal
    <3> QED
      BY <1>7, <2>1, <3>1 DEF Alive, workerVars, PointersInv, ConnInv, CrashesExplained, States
  <2>2. CASE rpcClient = "garbage" /\ died' = "rpcClient" /\ UNCHANGED <<state, linkVars, tableVars>>
    BY <1>7, <2>2 DEF HeaderRequest, Alive, workerVars, linkVars, PointersInv, ConnInv, CrashesExplained
  <2> QED
    BY <1>7, <2>1, <2>2 DEF HeaderRequest
<1>8. ASSUME Alive, TLSHello PROVE WorkInv'
  BY <1>8 DEF TLSHello, Alive, workerVars, linkVars, PointersInv, ConnInv, CrashesExplained
<1>9. ASSUME Alive, LoopStep PROVE WorkInv'
  <2>0. died = "" /\ proc = "running" /\ UNCHANGED workerVars
    BY <1>9 DEF Alive, LoopStep
  <2>1. CASE ConnectFailed
    BY <2>0, <2>1 DEF ConnectFailed, workerVars, linkVars, PointersInv, ConnInv, CrashesExplained, States
  <2>2. CASE ReadStartFailed
    BY <2>0, <2>2 DEF ReadStartFailed, workerVars, PointersInv, ConnInv, CrashesExplained, States
  <2>3. CASE ConnectCallback
    <3>0. PICK up \in BOOLEAN : peer' = up /\ SendQuery("open", up)
      BY <2>3 DEF ConnectCallback
    <3>1. /\ state' = "Connected" /\ socket' = "open" /\ peer' \in BOOLEAN
          /\ died' = "" \/ (died' = "sigpipe" /\ ~peer')
      <4>1. died' = died \/ (died' = "sigpipe" /\ ~up)
        BY <3>0 DEF SendQuery, WriteInternal
      <4> QED
        BY <2>0, <2>3, <3>0, <4>1 DEF ConnectCallback
    <3> QED
      BY <2>0, <3>1 DEF workerVars, PointersInv, ConnInv, CrashesExplained, States
  <2>4. CASE ReadCallback
    <3>1. PICK n \in 1..ReadMax : n <= Len(wire) /\ HandleRead(n)
      BY <2>4 DEF ReadCallback
    <3>2. n \in Nat /\ n # 0
      BY RPCAssumption
    <3>3. died' = "parse" => ParseCause'
      BY <2>0, <3>1, <3>2, ReadCause
    <3>4. socket = "open" /\ UNCHANGED <<state, socket, peer>> /\ died' \in {"", "parse"}
      BY <2>0, <3>1 DEF HandleRead
    <3> QED
      BY <2>0, <3>3, <3>4 DEF workerVars, PointersInv, ConnInv, CrashesExplained, ParseCause
  <2>5. CASE \E kind \in Kinds : NodeAnswers(kind)
    BY <2>0, <2>5 DEF NodeAnswers, workerVars, PointersInv, ConnInv, CrashesExplained
  <2>6. CASE \E n \in 0..Len(wire) : NodeCloses(n)
    BY <2>0, <2>6 DEF NodeCloses, workerVars, PointersInv, ConnInv, CrashesExplained
  <2> QED
    BY <1>9, <2>1, <2>2, <2>3, <2>4, <2>5, <2>6 DEF LoopStep, ClientStep
<1> QED
  BY <1>1, <1>2, <1>3, <1>4, <1>5, <1>6, <1>7, <1>8, <1>9 DEF Next, Step

-----------------------------------------------------------------------------
(* The invariant and what follows from it *)

IInv == QueryInv /\ WorkInv /\ BodyInv

LEMMA ReadStep == ASSUME QueryInv, ReadCallback PROVE QueryInv'
<1>1. PICK n \in 1..ReadMax : n <= Len(wire) /\ HandleRead(n)
  BY DEF ReadCallback
<1>2. n \in Nat /\ n # 0
  BY RPCAssumption
<1> QED
  BY <1>1, <1>2, HandleReadStep

\* The inductive invariant of main, NetWorker and RPCClient.
THEOREM Invariance == Spec => []IInv
<1>1. Init => IInv
  <2>1. Init => BodyInv
    <3>1. Init => Len(wire) = 0
      BY DEF Init, RPCInit
    <3> QED
      BY <3>1 DEF BodyInv
  <2> QED
    BY <2>1, QueryInit, WorkInit DEF IInv
<1>2. IInv /\ [Next]_vars => IInv'
  <2> SUFFICES ASSUME IInv, [Next]_vars PROVE IInv'
    OBVIOUS
  <2>1. WorkInv' /\ BodyInv'
    BY WorkStep, BodyStep DEF IInv, WorkInv
  <2>2. QueryInv'
    <3>1. /\ QueryInv /\ socket \in {"nullptr", "deaf", "open"} /\ peer \in BOOLEAN
      BY DEF IInv, WorkInv, ConnInv
    <3>2. \/ Aside \/ Asks \/ Restart
          \/ died = "" /\ ReadCallback
          \/ \E kind \in Kinds : NodeAnswers(kind)
          \/ \E n \in 0..Len(wire) : NodeCloses(n)
      BY <3>1, QuerySteps
    <3> QED
      BY <3>1, <3>2, AsideStep, AsksStep, RestartStep, ReadStep, NodeAnswersStep, NodeClosesStep
  <2> QED
    BY <2>1, <2>2 DEF IInv
<1> QED
  BY <1>1, <1>2, PTL DEF Spec

\* However many queries are made, a future without a value belongs to an entry
\* of _queryMap, and a future with one to none.
THEOREM WaitersAreOpenHolds == Spec => []WaitersAreOpen
<1>1. IInv => WaitersAreOpen
  <2> SUFFICES ASSUME TableInv, NEW k \in DOMAIN futures
               PROVE  futures[k] = 0 <=> \E i \in DOMAIN queryMap : queryMap[i] = k
    BY DEF IInv, QueryInv, WaitersAreOpen
  <2>1. k \in 1..Len(futures) /\ k \in Nat /\ (k - 1) + 1 = k
    BY DEF TableInv
  <2>2. ASSUME futures[k] = 0 PROVE k - 1 \in DOMAIN queryMap /\ queryMap[k - 1] = k
    <3>1. k - 1 \in DOMAIN queryMap
      BY <2>1, <2>2 DEF TableInv
    <3>2. queryMap[k - 1] = (k - 1) + 1
      BY <3>1 DEF TableInv
    <3> QED
      BY <3>1, <3>2, <2>1
  <2>3. ASSUME NEW i \in DOMAIN queryMap, queryMap[i] = k PROVE futures[k] = 0
    BY <2>3 DEF TableInv
  <2> QED
    BY <2>2, <2>3
<1> QED
  BY <1>1, Invariance, PTL

\* RPCClient forgets no query: an entry of _queryMap is on its way, was refused
\* by bitcoind, or was lost by the network.
THEOREM OpenQueriesAccountedHolds == Spec => []OpenQueriesAccounted
<1>1. IInv => OpenQueriesAccounted
  <2> SUFFICES ASSUME IInv, Alive, NEW i \in DOMAIN queryMap
               PROVE  \/ \E n \in DOMAIN toNode : toNode[n] = [id |-> i, ask |-> queryMap[i]]
                      \/ \E n \in DOMAIN wire : /\ wire[n].ask = queryMap[i] /\ wire[n].id = i
                                                /\ wire[n].part = "b2"
                      \/ answered[queryMap[i]] \in {"error", "none"}
                      \/ queryMap[i] \in lost
    BY DEF OpenQueriesAccounted
  <2>1. queryMap[i] = i + 1 /\ Accounted(i)
    BY DEF IInv, QueryInv, TableInv, AccountInv
  <2>2. toNode \in Seq(Requests) /\ wire \in Seq(Units)
    BY DEF IInv, QueryInv, LinkInv
  <2>3. DOMAIN toNode = 1..Len(toNode) /\ DOMAIN wire = 1..Len(wire)
    BY <2>2
  <2>4. ASSUME NEW n \in 1..Len(toNode), toNode[n].id = i, toNode[n].ask = i + 1
        PROVE  toNode[n] = [id |-> i, ask |-> queryMap[i]]
    <3>1. toNode[n] \in Requests
      BY <2>2
    <3> QED
      BY <3>1, <2>1, <2>4 DEF Requests
  <2> QED
    BY <2>1, <2>3, <2>4 DEF Accounted
<1> QED
  BY <1>1, Invariance, PTL

\* Whatever config.json says and however libuv fails, a crash of the process has
\* one of the causes that CrashesExplained names.
THEOREM CrashesExplainedHolds == Spec => []CrashesExplained
<1>1. IInv => CrashesExplained
  BY DEF IInv, WorkInv
<1> QED
  BY <1>1, Invariance, PTL

\* For any number of calls a future gets a value at most once, and it is the
\* answer to its own call: RPCClient implements RPCQueries.
THEOREM QueriesRefined == Spec => ImplementsQueries
<1>1. Init => Queries!Init
  BY DEF Init, RPCInit, Queries!Init
<1>2. IInv /\ [Next]_vars => [Queries!Next]_futures
  <2> SUFFICES ASSUME IInv, [Next]_vars PROVE [Queries!Next]_futures
    OBVIOUS
  <2>1. /\ QueryInv /\ socket \in {"nullptr", "deaf", "open"} /\ peer \in BOOLEAN
    BY DEF IInv, WorkInv, ConnInv
  <2>2. CASE Aside
    BY <2>2 DEF Aside, tableVars
  <2>3. CASE Asks
    BY <2>3 DEF Asks, SendQuery, Queries!Next, Queries!Ask
  <2>4. CASE Restart
    BY <2>4 DEF Restart, Queries!Next, Queries!NewProcess
  <2>5. CASE ReadCallback
    <3>1. PICK n \in 1..ReadMax : n <= Len(wire) /\ HandleRead(n)
      BY <2>5 DEF ReadCallback
    <3>2. n \in 0..Len(wire) /\ Len(wire) \in Nat
      BY <3>1, <2>1, RPCAssumption DEF QueryInv, LinkInv
    <3> DEFINE u == SubSeq(wire, 1, n)
    <3>3. CASE Throws(u)
      BY <3>1, <3>3 DEF HandleRead
    <3>4. CASE ~Throws(u)
      <4>1. CompleteQueries(Handled(u))
        BY <3>1, <3>4 DEF HandleRead
      <4>2. Len(u) = n /\ \A m \in 1..n : u[m] = wire[m] /\ m \in 1..Len(wire)
        BY <3>2, <2>1, PrefixFacts DEF QueryInv, LinkInv
      <4> HIDE DEF u
      <4>3. \A m \in WholeBodies(u) : m \in 1..n
        BY <4>2, <3>2 DEF WholeBodies
      <4>4. \A h \in Handled(u) : Paired(h)
        BY <4>2, <4>3, <2>1 DEF Handled, QueryInv, LinkInv
      <4>5. /\ DOMAIN futures' = 1..Len(futures)
            /\ \A k \in 1..Len(futures) :
                 futures'[k] = IF k - 1 \in DOMAIN queryMap /\ \E h \in Handled(u) : h.ask = k
                               THEN k ELSE futures[k]
        BY <4>1, <4>4, <2>1, CompleteFacts DEF QueryInv
      <4> DEFINE S == {k \in 1..Len(futures) :
                         k - 1 \in DOMAIN queryMap /\ \E h \in Handled(u) : h.ask = k}
      <4>6. \A k \in S : futures[k] = 0
        BY <2>1 DEF QueryInv, TableInv
      <4>7. DOMAIN futures = 1..Len(futures)
        BY <2>1 DEF QueryInv, TableInv
      <4>8. futures' = [k \in DOMAIN futures |-> futures'[k]]
        BY <4>1 DEF CompleteQueries
      <4>9. futures' = [k \in DOMAIN futures |-> IF k \in S THEN k ELSE futures[k]]
        BY <4>5, <4>7, <4>8
      <4>10. S \in SUBSET DOMAIN futures
        BY <4>7
      <4> QED
        BY <4>6, <4>9, <4>10 DEF Queries!Next, Queries!Answer
    <3> QED
      BY <3>3, <3>4
  <2>6. CASE (\E kind \in Kinds : NodeAnswers(kind)) \/ \E n \in 0..Len(wire) : NodeCloses(n)
    BY <2>6 DEF NodeAnswers, NodeCloses, tableVars
  <2> QED
    BY <2>1, <2>2, <2>3, <2>4, <2>5, <2>6, QuerySteps
<1> QED
  BY <1>1, <1>2, Invariance, PTL DEF Spec, ImplementsQueries, Queries!Spec

-----------------------------------------------------------------------------
(* Types and the sample configuration *)

\* The types that neither QueryInv nor WorkInv states.
IdType == cmdId \in Ids \cup {0}

WorkTypes ==
    /\ died \in {"", "write", "sigpipe", "parse", "config", "handle", "rpcClient", "ssl_config"}
    /\ proc \in {"main", "configured", "constructed", "running", "exited"}
    /\ config \in ConfigFiles /\ cfg \in Settings
    /\ inited \subseteq {"loop", "server", "addr"}
    /\ ssl_config \in {"garbage", "nullptr", "empty", "loaded"}
    /\ rpcClient \in {"garbage", "object"}
    /\ clients \in Nat /\ starts \in Nat

\* What Config makes of any file is a configuration, and what it writes a file.
LEMMA ConfigTypes ==
  /\ \A port \in Ports : Default(port) \in Settings
  /\ \A port \in Ports, j \in JsonObjects : from_json(j, port) \in Settings
  /\ \A c \in Settings : Holds(to_json(c)) \in ConfigFiles
  /\ NoFile \in ConfigFiles /\ NotJson \in ConfigFiles
  /\ \A f \in ConfigFiles : f.is = "object" => f.json \in JsonObjects
<1>1. \A port \in Ports : Default(port) \in Settings
  BY DEF Default, Settings, Texts, Names
<1>2. ASSUME NEW port \in Ports, NEW j \in JsonObjects PROVE from_json(j, port) \in Settings
  <2>1. /\ j.host \in {"", "good", "bad", "absent"} /\ j.rpc_host \in {"", "good", "bad", "absent"}
        /\ j.rpc_port \in {"absent", "0", "port"} /\ j.rpc_username \in {"", "set", "absent"}
        /\ j.rpc_password \in {"", "set", "absent"} /\ j.ssl_cert \in {"", "good", "bad", "absent"}
        /\ j.ssl_key \in {"", "good", "bad", "absent"} /\ port \in {0, 1}
    BY ZenonT(60) DEF JsonObjects, Texts, Names, Ports
  <2> DEFINE c == from_json(j, port)
             Take(v, old) == IF v = "absent" THEN old ELSE v
             host == IF j.host = "" THEN "bad" ELSE Take(j.host, "good")
             rpchost == Take(j.rpc_host, "")
             rpc_port == CASE j.rpc_port = "absent" -> port
                           [] j.rpc_port = "0"      -> 0
                           [] j.rpc_port = "port"   -> 1
             rpcusername == Take(j.rpc_username, "")
             rpcpassword == Take(j.rpc_password, "")
             ssl_cert == Take(j.ssl_cert, "")
             ssl_key == Take(j.ssl_key, "")
  <2>2. c = [host |-> host, rpchost |-> rpchost, rpc_port |-> rpc_port,
             rpcusername |-> rpcusername, rpcpassword |-> rpcpassword,
             ssl_cert |-> ssl_cert, ssl_key |-> ssl_key]
    BY DEF from_json, Default
  <2>3. rpc_port \in {0, 1}
    <3>1. CASE j.rpc_port = "absent"
      BY <3>1, <2>1
    <3>2. CASE j.rpc_port = "0"
      BY <3>2
    <3>3. CASE j.rpc_port = "port"
      BY <3>3
    <3> QED
      BY <3>1, <3>2, <3>3, <2>1
  <2>4. /\ host \in {"good", "bad"} /\ rpchost \in {"", "good", "bad"}
        /\ ssl_cert \in {"", "good", "bad"} /\ ssl_key \in {"", "good", "bad"}
        /\ rpcusername \in {"", "set"} /\ rpcpassword \in {"", "set"}
    BY <2>1, ZenonT(60)
  <2> HIDE DEF c, host, rpchost, rpc_port, rpcusername, rpcpassword, ssl_cert, ssl_key
  <2>5. c \in Settings
    BY <2>2, <2>3, <2>4 DEF Settings, Texts, Names, Ports
  <2> QED
    BY <2>5 DEF c
<1>3. ASSUME NEW c \in Settings PROVE Holds(to_json(c)) \in ConfigFiles
  <2>1. to_json(c) \in JsonObjects
    BY DEF to_json, Settings, JsonObjects, Texts, Names
  <2> QED
    BY <2>1 DEF ConfigFiles
<1>4. ASSUME NEW f \in ConfigFiles, f.is = "object" PROVE f.json \in JsonObjects
  BY <1>4 DEF ConfigFiles, NoFile, NotJson, Holds
<1> QED
  BY <1>1, <1>2, <1>3, <1>4 DEF ConfigFiles

LEMMA WorkTypesInit == Init => IdType /\ WorkTypes
<1> SUFFICES ASSUME Init PROVE IdType /\ WorkTypes
  OBVIOUS
<1>1. config \in ConfigFiles /\ cfg \in Settings
  BY NetAssumption, ConfigTypes DEF Init, Ports
<1> QED
  BY <1>1 DEF Init, RPCInit, WorkTypes, IdType

LEMMA NextId == ASSUME NEW c \in Nat, NEW b \in Nat \ {0} PROVE (c + 1) % b \in 0..(b - 1)
OBVIOUS

LEMMA SendQueryId == ASSUME IdType, TableInv, NEW sock, NEW up, SendQuery(sock, up) PROVE IdType'
<1>1. cmdId \in Nat
  BY Sizes DEF IdType, Ids
<1>2. IdRange \in Nat \ {0}
  <2>1. Len(futures) \in Nat /\ Len(futures) + 1 <= MaxCalls
    BY DEF SendQuery, TableInv
  <2> QED
    BY <2>1, Sizes
<1>3. (cmdId + 1) % IdRange \in 0..(IdRange - 1)
  BY <1>1, <1>2, NextId
<1> QED
  BY <1>3 DEF SendQuery, IdType, Ids

LEMMA IdTypeStep ==
  ASSUME IdType, QueryInv, [Next]_vars, socket \in {"nullptr", "deaf", "open"}, peer \in BOOLEAN
  PROVE  IdType'
<1>1. CASE Asks
  BY <1>1, SendQueryId DEF Asks, QueryInv
<1>2. CASE Restart
  BY <1>2 DEF Restart, IdType
<1>3. CASE \/ Aside \/ ReadCallback \/ \E kind \in Kinds : NodeAnswers(kind)
           \/ \E n \in 0..Len(wire) : NodeCloses(n)
  <2>1. cmdId' = cmdId
    BY <1>3 DEF Aside, ReadCallback, HandleRead, NodeAnswers, NodeCloses, tableVars
  <2> QED
    BY <2>1 DEF IdType
<1> QED
  BY <1>1, <1>2, <1>3, QuerySteps

LEMMA WorkTypesStep == ASSUME WorkTypes, [Next]_vars PROVE WorkTypes'
<1>1. CASE UNCHANGED vars
  BY <1>1 DEF vars, clientVars, workerVars, WorkTypes
<1>2. CASE Restart
  <2>1. starts \in Nat /\ starts' = starts + 1
    BY <1>2 DEF Restart, WorkTypes
  <2>2. starts' \in Nat
    BY <2>1
  <2> QED
    BY <1>2, <2>2 DEF Restart, WorkTypes
<1>3. ASSUME ReadConfig PROVE WorkTypes'
  <2>1. PICK port \in Ports :
          \/ /\ cfg' = Default(port) /\ config' \in {NoFile, NotJson, Holds(to_json(cfg'))}
             /\ proc' = "configured" /\ UNCHANGED died
          \/ died' = "config" /\ UNCHANGED <<proc, config, cfg>>
          \/ /\ config.is = "object" /\ cfg' = from_json(config.json, port)
             /\ proc' = "configured" /\ UNCHANGED <<config, died>>
    BY <1>3 DEF ReadConfig
  <2>2. cfg' \in Settings
    BY <2>1, ConfigTypes DEF WorkTypes
  <2>3. config' \in ConfigFiles
    BY <2>1, <2>2, ConfigTypes, Zenon DEF WorkTypes
  <2>4. /\ proc' \in {proc, "configured"} /\ died' \in {died, "config"}
    BY <2>1
  <2> QED
    BY <1>3, <2>2, <2>3, <2>4 DEF ReadConfig, WorkTypes
<1>4. ASSUME Construct PROVE WorkTypes'
  <2>1. ASSUME NEW done, NEW ssl, CtorReturns(done, ssl),
               done \subseteq {"loop", "server", "addr"},
               ssl \in {"garbage", "nullptr", "empty", "loaded"}
        PROVE  WorkTypes'
    BY <1>4, <2>1 DEF Construct, CtorReturns, clientVars, WorkTypes
  <2>2. ASSUME NEW ssl \in {"garbage", "nullptr", "empty", "loaded"}, CtorEnds(ssl)
        PROVE  WorkTypes'
    BY <1>4, <2>2 DEF Construct, CtorEnds, Connect, clientVars, WorkTypes
  <2> QED
    BY <1>4, <2>1, <2>2 DEF Construct
<1>5. ASSUME Work \/ OnConnect \/ TLSHello PROVE WorkTypes'
  <2>1. CASE Work
    BY <2>1 DEF Work, WorkTypes
  <2>2. CASE OnConnect
    <3>1. clients \in Nat /\ clients' = clients + 1
      BY <2>2 DEF OnConnect, WorkTypes
    <3>2. clients' \in Nat
      BY <3>1
    <3> QED
      BY <2>2, <3>2 DEF OnConnect, clientVars, WorkTypes
  <2>3. CASE TLSHello
    BY <2>3 DEF TLSHello, workerVars, WorkTypes
  <2> QED
    BY <1>5, <2>1, <2>2, <2>3
<1>6. ASSUME HeaderRequest \/ LoopStep PROVE WorkTypes'
  <2>1. UNCHANGED workerVars /\ died' \in {died, "write", "sigpipe", "parse", "rpcClient"}
    BY <1>6 DEF HeaderRequest, Query, SendQuery, WriteInternal, LoopStep, ClientStep, ConnectFailed,
                ReadStartFailed, ConnectCallback, ReadCallback, HandleRead, NodeAnswers, NodeCloses
  <2> QED
    BY <2>1 DEF workerVars, WorkTypes
<1> QED
  BY <1>1, <1>2, <1>3, <1>4, <1>5, <1>6 DEF Next, Step

\* Every variable of main, NetWorker and RPCClient keeps its type.
THEOREM NetTypeCorrect == Spec => []TypeOK
<1>1. Spec => [](IdType /\ WorkTypes)
  <2>1. IInv /\ IdType /\ WorkTypes /\ [Next]_vars => (IdType /\ WorkTypes)'
    BY IdTypeStep, WorkTypesStep DEF IInv, WorkInv, ConnInv
  <2> QED
    BY <2>1, WorkTypesInit, Invariance, PTL DEF Spec
<1>2. IInv /\ IdType /\ WorkTypes => TypeOK
  <2> SUFFICES ASSUME IInv, IdType, WorkTypes PROVE TypeOK
    OBVIOUS
  <2>1. /\ futures \in Seq(Calls \cup {0}) /\ toNode \in Seq(Requests) /\ wire \in Seq(Units)
        /\ answered \in [Calls -> Kinds \cup {"no"}] /\ lost \subseteq Calls
        /\ state \in States /\ socket \in {"nullptr", "deaf", "open"} /\ peer \in BOOLEAN
    BY DEF IInv, QueryInv, TableInv, LinkInv, AnswerInv, WorkInv, ConnInv
  <2>2. ASSUME NEW i \in DOMAIN queryMap PROVE i \in Ids /\ queryMap[i] \in Calls
    <3>1. i \in Nat /\ i + 1 \in 1..Len(futures) /\ queryMap[i] = i + 1
      BY DEF IInv, QueryInv, TableInv
    <3>2. Len(futures) \in Nat /\ Len(futures) <= MaxCalls
      BY DEF IInv, QueryInv, TableInv
    <3> QED
      BY <3>1, <3>2, Sizes DEF Ids, Calls
  <2> QED
    BY <2>1, <2>2 DEF TypeOK, WorkTypes, IdType
<1> QED
  BY <1>1, <1>2, Invariance, PTL

\* A start that finds the sample file Config wrote uses the settings of a start
\* without a file, but for rpc_port.
THEOREM SampleKeepsDefaultsHolds == Spec => SampleKeepsDefaults
<1>1. [Next]_vars =>
        [(proc = "main" /\ starts > 1 /\ proc' = "configured" /\ config = Holds(to_json(Default(0))))
           => \E port \in Ports : cfg' = Default(port)]_vars
  <2> SUFFICES ASSUME Next, proc = "main", proc' = "configured",
                      config = Holds(to_json(Default(0)))
               PROVE  \E port \in Ports : cfg' = Default(port)
    OBVIOUS
  <2>1. ReadConfig
    BY DEF Next, Step, Restart, Construct, Work, OnConnect, HeaderRequest, TLSHello, LoopStep, workerVars
  <2>2. config.is = "object" /\ config # NoFile /\ config # NotJson /\ config.json = to_json(Default(0))
    BY DEF Holds, NoFile, NotJson
  <2>3. PICK port \in Ports : cfg' = from_json(to_json(Default(0)), port)
    BY <2>1, <2>2 DEF ReadConfig
  <2> QED
    BY <2>3 DEF from_json, to_json, Default
<1> QED
  BY <1>1, PTL DEF Spec, SampleKeepsDefaults
=============================================================================
