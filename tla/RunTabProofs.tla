---------------------------- MODULE RunTabProofs ----------------------------
(* What the Run tab guarantees for any nodes and any number of operations.     *)
EXTENDS RunTab, TLAPS

-----------------------------------------------------------------------------
(* Types.                                                                      *)

LEMMA InitTypes == Init => TypeOK
<1> SUFFICES ASSUME Init PROVE TypeOK
  OBVIOUS
<1>1. Rpc(Listing, "listunspent", url) \in Request
  BY DEF Init, Rpc, Request, Methods
<1>2. operations \in [Ops -> Operation]
  BY DEF Init, Operation
<1> QED BY <1>1, <1>2 DEF Init, TypeOK

\* A request made by the page is one.
LEMMA RpcType ==
  ASSUME account \in Nodes \cup {NoNode},
         NEW o \in Ops, NEW m \in Methods, NEW n \in Nodes
  PROVE  Rpc(o, m, n) \in Request
BY DEF Rpc, Request

LEMMA BeginTypes ==
  ASSUME TypeOK, NEW o \in Ops, NEW n \in Nodes \cup {NoNode}, NEW m \in Methods, NEW k \in Nodes,
         NEW kind \in {"deploy", "call", "send", "fallback"}, Begin(o, kind, n, m, k)
  PROVE  operations' \in [Ops -> Operation] /\ requests' \subseteq Request
<1>1. [kind |-> "threw", node |-> n] \in Operation /\ [kind |-> kind, node |-> n] \in Operation
  BY DEF Operation
<1>2. Rpc(o, m, k) \in Request
  BY RpcType DEF TypeOK
<1> QED BY <1>1, <1>2 DEF Begin, TypeOK

-----------------------------------------------------------------------------
(* The invariant: what the list of contracts and the requests say of the       *)
(* operations they belong to.                                                  *)

\* A started operation has a node; a listed contract came from one of the two
\* ways to make one; only the first request is not an operation's.
Origins ==
  /\ \A o \in Ops : operations[o].kind # "none" => operations[o].node \in Nodes
  /\ \A c \in loaded : operations[c].kind \in {"deploy", "atAddress"}
  /\ \A r \in requests : r.method # "listunspent" => r.op \in Ops

\* A deployment whose request was granted is in the pool or the chain of its node.
Creations ==
  \A r \in requests : r.method = "createcontract" =>
    /\ operations[r.op].kind = "deploy"
    /\ operations[r.op].node = r.node
    /\ r.result = "ok" => r.op \in pool[r.node] \cup chain[r.node]

Inv == TypeOK /\ Origins /\ Creations /\ LoadedWhereDeployed

LEMMA InitInv == Init => Inv
<1> SUFFICES ASSUME Init PROVE Inv
  OBVIOUS
<1>1. TypeOK
  BY InitTypes
<1> QED BY <1>1 DEF Init, Inv, Origins, Creations, LoadedWhereDeployed, Rpc

\* An operation that begins disturbs neither the others nor what is listed.
LEMMA BeginKeepsOthers ==
  ASSUME Inv, NEW o \in Ops, NEW n \in Nodes, NEW k \in Nodes, UNCHANGED <<nodes, loaded>>,
         NEW m \in {"createcontract", "callcontract", "sendtocontract"},
         NEW kind \in {"deploy", "call", "send", "fallback"},
         m = "createcontract" => kind = "deploy" /\ n = k,
         Begin(o, kind, n, m, k)
  PROVE  Origins' /\ Creations' /\ LoadedWhereDeployed'
<1>1. operations[o].kind = "none" /\ operations \in [Ops -> Operation]
  BY DEF Begin, Inv, TypeOK
<1>2. \E kd \in {"threw", kind} : operations' = [operations EXCEPT ![o] = [kind |-> kd, node |-> n]]
  BY DEF Begin
<1>3. /\ operations'[o].node = n
      /\ operations'[o].kind \in {"threw", kind}
      /\ \A p \in Ops \ {o} : operations'[p] = operations[p]
  BY <1>1, <1>2
<1>4. o \notin loaded /\ loaded \subseteq Ops
  BY <1>1 DEF Inv, Origins, TypeOK
<1>5. \A r \in requests' : r \in requests \/ (operations'[o].kind = kind /\ r = Rpc(o, m, k))
  BY <1>1 DEF Begin
<1>6. Rpc(o, m, k).op = o /\ Rpc(o, m, k).method = m /\ Rpc(o, m, k).node = k /\ Rpc(o, m, k).result = "none"
  BY DEF Rpc
<1>7. Origins'
  <2>1. \A p \in Ops : operations'[p].kind # "none" => operations'[p].node \in Nodes
    BY <1>3 DEF Inv, Origins
  <2>2. \A c \in loaded' : operations'[c].kind \in {"deploy", "atAddress"}
    BY <1>3, <1>4 DEF Inv, Origins
  <2>3. \A r \in requests' : r.method # "listunspent" => r.op \in Ops
    BY <1>5, <1>6 DEF Inv, Origins
  <2> QED BY <2>1, <2>2, <2>3 DEF Origins
<1>8. Creations'
  <2> SUFFICES ASSUME NEW r \in requests', r.method = "createcontract"
               PROVE  /\ operations'[r.op].kind = "deploy"
                      /\ operations'[r.op].node = r.node
                      /\ r.result = "ok" => r.op \in pool[r.node] \cup chain[r.node]
    BY DEF Creations, nodes
  <2>1. CASE r \in requests
    <3>1. r.op \in Ops \ {o}
      BY <1>1, <2>1 DEF Inv, Creations, Origins
    <3> QED BY <1>3, <2>1, <3>1 DEF Inv, Creations
  <2>2. CASE r \notin requests
    BY <1>3, <1>5, <1>6, <2>2
  <2> QED BY <2>1, <2>2
<1>9. LoadedWhereDeployed'
  <2>1. \A c \in loaded : operations'[c] = operations[c]
    BY <1>3, <1>4
  <2> QED BY <2>1 DEF Inv, LoadedWhereDeployed, nodes
<1> QED BY <1>7, <1>8, <1>9

LEMMA UserInv ==
  ASSUME Inv, NEW o \in Ops,
         Deploy(o) \/ AtAddress(o) \/ RemoveContract(o) \/ (\E c \in Ops : CallOrSend(o, c))
  PROVE  Inv'
<1>1. CASE Deploy(o)
  <2>1. "createcontract" \in Methods /\ url \in Nodes /\ account \in Nodes \cup {NoNode}
    BY DEF Methods, Transactions, Inv, TypeOK
  <2>2. Begin(o, "deploy", url, "createcontract", url)
    BY <1>1 DEF Deploy
  <2>3. operations' \in [Ops -> Operation] /\ requests' \subseteq Request
    BY <2>1, <2>2, BeginTypes DEF Inv
  <2>4. TypeOK'
    BY <1>1, <2>3 DEF Deploy, Inv, TypeOK, nodes
  <2>5. Origins' /\ Creations' /\ LoadedWhereDeployed'
    BY <1>1, <2>1, <2>2, BeginKeepsOthers DEF Deploy
  <2> QED BY <2>4, <2>5 DEF Inv
<1>2. CASE AtAddress(o)
  <2>1. [kind |-> "atAddress", node |-> url] \in Operation
    BY DEF Operation, Inv, TypeOK
  <2>2. TypeOK'
    BY <1>2, <2>1 DEF AtAddress, Inv, TypeOK, nodes
  <2>3. /\ operations'[o].node = url /\ operations'[o].kind = "atAddress"
        /\ \A p \in Ops \ {o} : operations'[p] = operations[p]
        /\ operations[o].kind = "none"
    BY <1>2 DEF AtAddress, Inv, TypeOK
  <2>4. Origins'
    BY <1>2, <2>3 DEF AtAddress, Inv, Origins, TypeOK
  <2>5. Creations'
    <3>1. \A r \in requests : r.method = "createcontract" => r.op \in Ops \ {o}
      BY <2>3 DEF Inv, Creations, Origins
    <3> QED BY <1>2, <2>3, <3>1 DEF AtAddress, Inv, Creations, nodes
  <2>6. LoadedWhereDeployed'
    <3>1. loaded' = loaded \cup {o} /\ loaded \subseteq Ops /\ UNCHANGED nodes
      BY <1>2 DEF AtAddress, Inv, TypeOK
    <3> QED BY <2>3, <3>1 DEF Inv, LoadedWhereDeployed, nodes
  <2> QED BY <2>2, <2>4, <2>5, <2>6 DEF Inv
<1>3. CASE RemoveContract(o)
  <2>1. TypeOK'
    BY <1>3 DEF RemoveContract, Inv, TypeOK, nodes
  <2> QED BY <1>3, <2>1 DEF RemoveContract, Inv, Origins, Creations, LoadedWhereDeployed, nodes
<1>4. ASSUME NEW c \in Ops, CallOrSend(o, c)
      PROVE  Inv'
  <2> DEFINE home == operations[c].node
  <2>1. c \in loaded /\ url \in Nodes /\ home \in Nodes
    BY <1>4 DEF CallOrSend, Inv, TypeOK, Origins
  <2>2. PICK kind \in {"call", "send", "fallback"}, m \in {"callcontract", "sendtocontract"}, k \in {home, url} :
          Begin(o, kind, home, m, k)
    BY <1>4 DEF CallOrSend
  <2>3. m \in Methods
    BY DEF Methods, Transactions
  <2> HIDE DEF home
  <2>4. operations' \in [Ops -> Operation] /\ requests' \subseteq Request
    BY <2>1, <2>2, <2>3, BeginTypes DEF Inv
  <2>5. TypeOK'
    BY <1>4, <2>4 DEF CallOrSend, Inv, TypeOK, nodes
  <2>6. UNCHANGED <<nodes, loaded>>
    BY <1>4 DEF CallOrSend
  <2>7. Origins' /\ Creations' /\ LoadedWhereDeployed'
    BY <2>1, <2>2, <2>6, BeginKeepsOthers
  <2> QED BY <2>5, <2>7 DEF Inv
<1> QED BY <1>1, <1>2, <1>3, <1>4

LEMMA ResolveType ==
  ASSUME NEW r \in requests, NEW result \in {"none", "ok", "error"}, requests \subseteq Request,
         Resolve(r, result)
  PROVE  requests' \subseteq Request
<1>1. [r EXCEPT !.result = result] \in Request
  BY DEF Request
<1> QED BY <1>1 DEF Resolve

LEMMA HandleInv ==
  ASSUME Inv, NEW r \in requests, Handle(r)
  PROVE  Inv'
<1> DEFINE s == [r EXCEPT !.result = "ok"]
<1>1. r \in Request /\ s \in Request
  BY DEF Inv, TypeOK, Request
<1>2. requests' = (requests \ {r}) \cup {s} /\ UNCHANGED page
  BY DEF Handle, Resolve
<1>3. s.op = r.op /\ s.method = r.method /\ s.node = r.node /\ s.result = "ok"
  BY <1>1 DEF Request
<1>4. r.method # "listunspent" => r.op \in Ops
  BY DEF Inv, Origins
<1>5. /\ pool \in [Nodes -> SUBSET Ops] /\ chain \in [Nodes -> SUBSET Ops]
      /\ r.node \in Nodes
  BY <1>1 DEF Inv, TypeOK, Request
<1>6. CASE r.method \in Transactions
  <2>1. pool' = [pool EXCEPT ![r.node] = @ \cup {r.op}] /\ chain' = chain /\ r.op \in Ops
    BY <1>4, <1>6 DEF Handle, Transactions
  <2>2. TypeOK'
    BY <1>1, <1>2, <1>5, <2>1 DEF Inv, TypeOK, page
  <2>3. \A n \in Nodes : pool[n] \subseteq pool'[n]
    BY <1>5, <2>1
  <2>4. r.op \in pool'[r.node]
    BY <1>5, <2>1
  <2>5. Creations'
    BY <1>1, <1>2, <1>3, <2>1, <2>3, <2>4 DEF Inv, Creations, TypeOK, Request, page
  <2>6. LoadedWhereDeployed'
    BY <1>2, <2>1, <2>3 DEF Inv, LoadedWhereDeployed, Origins, TypeOK, page
  <2>7. Origins'
    BY <1>2, <1>3 DEF Inv, Origins, page
  <2> QED BY <2>2, <2>5, <2>6, <2>7 DEF Inv
<1>7. CASE r.method \notin Transactions
  <2>1. \/ pool' = pool /\ chain' = chain
        \/ /\ pool' = [pool EXCEPT ![r.node] = {}]
           /\ chain' = [chain EXCEPT ![r.node] = @ \cup pool[r.node]]
    BY <1>7 DEF Handle
  <2>2. TypeOK'
    BY <1>1, <1>2, <1>5, <2>1 DEF Inv, TypeOK, page
  <2>3. \A n \in Nodes : pool'[n] \cup chain'[n] = pool[n] \cup chain[n]
    BY <1>5, <2>1
  <2>4. r.method # "createcontract"
    BY <1>7 DEF Transactions
  <2>5. Creations'
    BY <1>1, <1>2, <1>3, <2>3, <2>4 DEF Inv, Creations, TypeOK, Request, page
  <2>6. LoadedWhereDeployed'
    BY <1>2, <2>3 DEF Inv, LoadedWhereDeployed, Origins, TypeOK, page
  <2>7. Origins'
    BY <1>2, <1>3 DEF Inv, Origins, page
  <2> QED BY <2>2, <2>5, <2>6, <2>7 DEF Inv
<1> QED BY <1>6, <1>7

LEMMA FailInv ==
  ASSUME Inv, NEW r \in requests, Fail(r)
  PROVE  Inv'
<1> DEFINE s == [r EXCEPT !.result = "error"]
<1>1. r \in Request /\ requests \subseteq Request
  BY DEF Inv, TypeOK
<1>2. requests' = (requests \ {r}) \cup {s} /\ UNCHANGED <<page, nodes>>
  BY DEF Fail, Resolve
<1>3. s.op = r.op /\ s.method = r.method /\ s.node = r.node /\ s.result = "error" /\ s \in Request
  BY <1>1 DEF Request
<1> HIDE DEF s
<1>4. TypeOK'
  BY <1>1, <1>2, <1>3 DEF Inv, TypeOK, page, nodes
<1>5. Origins' /\ Creations' /\ LoadedWhereDeployed'
  BY <1>2, <1>3 DEF Inv, Origins, Creations, LoadedWhereDeployed, page, nodes
<1> QED BY <1>4, <1>5 DEF Inv

-----------------------------------------------------------------------------
(* Callbacks.                                                                  *)

\* What every callback of r does: it removes r, asks for nothing but follow-ups
\* of r's operation, and lists that operation's contract if r created it.
LEMMA CallbackEffect ==
  ASSUME Inv, NEW r \in requests, Callback(r)
  PROVE  /\ UNCHANGED <<url, operations, nodes>>
         /\ \A q \in requests' : q \in requests \/
              \E m \in {"generate", "confirm", "gettransaction", "gettransactionreceipt"} :
                \E n \in Nodes : r.op \in Ops /\ q = Rpc(r.op, m, n)
         /\ loaded' = loaded \/ (loaded' = loaded \cup {r.op} /\ Answered(r, "createcontract"))
         /\ account' \in Nodes \cup {NoNode}
         /\ loadingUtxos' \in BOOLEAN
         /\ reported' \subseteq Ops
         /\ events' \subseteq Ops
<1>1. r \in Request /\ r.node \in Nodes /\ (r.method # "listunspent" => r.op \in Ops)
  BY DEF Inv, TypeOK, Origins, Request
<1>2. /\ url \in Nodes /\ account \in Nodes \cup {NoNode} /\ loadingUtxos \in BOOLEAN
      /\ reported \subseteq Ops /\ events \subseteq Ops
  BY DEF Inv, TypeOK
<1>3. CASE UtxosListed(r)
  BY <1>1, <1>2, <1>3 DEF UtxosListed, Continue
<1>4. CASE Deployed(r)
  BY <1>1, <1>2, <1>4 DEF Deployed, Continue, Answered
<1>5. CASE TransactionSent(r)
  BY <1>1, <1>2, <1>5 DEF TransactionSent, Continue, Answered
<1>6. CASE TransactionFound(r)
  BY <1>1, <1>2, <1>6 DEF TransactionFound, Continue, Answered
<1>7. CASE CallAnswered(r)
  BY <1>1, <1>2, <1>7 DEF CallAnswered, Continue, Answered
<1>8. CASE Confirmed(r)
  BY <1>1, <1>2, <1>8 DEF Confirmed, Continue, Answered
<1>9. CASE BlockGenerated(r) \/ ReceiptFetched(r)
  BY <1>1, <1>2, <1>9 DEF BlockGenerated, ReceiptFetched, Continue, Answered, page
<1>10. CASE RequestFailed(r)
  BY <1>1, <1>2, <1>10 DEF RequestFailed, Continue
<1> QED BY <1>3, <1>4, <1>5, <1>6, <1>7, <1>8, <1>9, <1>10 DEF Callback

LEMMA CallbackInv ==
  ASSUME Inv, NEW r \in requests, Callback(r)
  PROVE  Inv'
<1> DEFINE Effect ==
      /\ UNCHANGED <<url, operations, nodes>>
      /\ \A q \in requests' : q \in requests \/
           \E m \in {"generate", "confirm", "gettransaction", "gettransactionreceipt"} :
             \E n \in Nodes : r.op \in Ops /\ q = Rpc(r.op, m, n)
      /\ loaded' = loaded \/ (loaded' = loaded \cup {r.op} /\ Answered(r, "createcontract"))
      /\ account' \in Nodes \cup {NoNode}
      /\ loadingUtxos' \in BOOLEAN
      /\ reported' \subseteq Ops
      /\ events' \subseteq Ops
<1>1. Effect
  BY CallbackEffect
<1>2. \A q \in requests' : q \in requests \/
        /\ q \in Request
        /\ q.op \in Ops
        /\ q.method \notin {"createcontract", "listunspent"}
  <2> SUFFICES ASSUME NEW q \in requests', q \notin requests
               PROVE  /\ q \in Request
                      /\ q.op \in Ops
                      /\ q.method \notin {"createcontract", "listunspent"}
    OBVIOUS
  <2>1. PICK m \in {"generate", "confirm", "gettransaction", "gettransactionreceipt"}, n \in Nodes :
          r.op \in Ops /\ q = Rpc(r.op, m, n)
    BY <1>1
  <2>2. m \in Methods /\ account \in Nodes \cup {NoNode}
    BY DEF Methods, Inv, TypeOK
  <2>3. q \in Request
    BY <2>1, <2>2, RpcType
  <2> QED BY <2>1, <2>3 DEF Rpc
<1>3. \/ loaded' = loaded
      \/ /\ loaded' = loaded \cup {r.op} /\ r.op \in Ops
         /\ operations[r.op].kind = "deploy"
         /\ r.op \in pool[operations[r.op].node] \cup chain[operations[r.op].node]
  BY <1>1 DEF Answered, Inv, Creations, Origins
<1>4. TypeOK'
  BY <1>1, <1>2, <1>3 DEF Inv, TypeOK, nodes
<1>5. Origins'
  BY <1>1, <1>2, <1>3 DEF Inv, Origins
<1>6. Creations'
  BY <1>1, <1>2 DEF Inv, Creations, nodes
<1>7. LoadedWhereDeployed'
  BY <1>1, <1>3 DEF Inv, LoadedWhereDeployed, nodes
<1> QED BY <1>4, <1>5, <1>6, <1>7 DEF Inv

LEMMA NextInv == Inv /\ [Next]_vars => Inv'
<1> SUFFICES ASSUME Inv, [Next]_vars PROVE Inv'
  OBVIOUS
<1>1. CASE UNCHANGED vars
  BY <1>1 DEF vars, page, nodes, Inv, TypeOK, Origins, Creations, LoadedWhereDeployed
<1>2. ASSUME NEW n \in Nodes, ChangeUrl(n)
      PROVE  Inv'
  BY <1>2 DEF ChangeUrl, nodes, Inv, TypeOK, Origins, Creations, LoadedWhereDeployed
<1>3. ASSUME NEW o \in Ops,
             Deploy(o) \/ AtAddress(o) \/ RemoveContract(o) \/ (\E c \in Ops : CallOrSend(o, c))
      PROVE  Inv'
  BY <1>3, UserInv
<1>4. ASSUME NEW r \in requests, Handle(r) \/ Fail(r) \/ Callback(r)
      PROVE  Inv'
  BY <1>4, HandleInv, FailInv, CallbackInv
<1> QED BY <1>1, <1>2, <1>3, <1>4 DEF Next

LEMMA Invariance == Spec => []Inv
BY InitInv, NextInv, PTL DEF Spec

\* Every variable keeps its type.
THEOREM TypeCorrect == Spec => []TypeOK
<1>1. Inv => TypeOK
  BY DEF Inv
<1> QED BY <1>1, Invariance, PTL

\* A deployed contract in the list belongs to the node that accepted it, whatever
\* became of the URL and of other requests since.
THEOREM ContractsStayAtTheirNode == Spec => []LoadedWhereDeployed
<1>1. Inv => LoadedWhereDeployed
  BY DEF Inv
<1> QED BY <1>1, Invariance, PTL

-----------------------------------------------------------------------------
(* What the terminal owes the user.                                            *)

\* A request of operation o whose end, either way, tells of o or asks again.
Telling(r, o) ==
  /\ r.op = o
  /\ \/ r.method \in {"createcontract", "callcontract", "gettransaction"}
     \/ r.method = "sendtocontract" /\ operations[o].kind = "send"

\* Of an operation that has not been told of, such a request is out.
Owed ==
  \A o \in Ops : operations[o].kind \in {"deploy", "call", "send"} =>
    o \in reported \/ \E r \in requests : Telling(r, o)

\* An operation that begins asks for what will tell of it.
LEMMA BeginOwed ==
  ASSUME Inv, Owed, NEW o \in Ops, NEW n, NEW k, NEW m, NEW kind, UNCHANGED reported,
         \/ kind = "deploy" /\ m = "createcontract"
         \/ kind = "call" /\ m = "callcontract"
         \/ kind \in {"send", "fallback"} /\ m = "sendtocontract",
         Begin(o, kind, n, m, k)
  PROVE  Owed'
<1>1. operations[o].kind = "none" /\ operations \in [Ops -> Operation]
  BY DEF Begin, Inv, TypeOK
<1>2. \/ operations' = [operations EXCEPT ![o] = [kind |-> "threw", node |-> n]]
      \/ /\ operations' = [operations EXCEPT ![o] = [kind |-> kind, node |-> n]]
         /\ Rpc(o, m, k) \in requests'
  BY DEF Begin
<1>3. /\ operations'[o].kind = "threw" \/ (operations'[o].kind = kind /\ Rpc(o, m, k) \in requests')
      /\ \A p \in Ops \ {o} : operations'[p] = operations[p]
  BY <1>1, <1>2
<1>4. Rpc(o, m, k).op = o /\ Rpc(o, m, k).method = m
  BY DEF Rpc
<1>5. requests \subseteq requests'
  BY DEF Begin
<1> SUFFICES ASSUME NEW p \in Ops, operations'[p].kind \in {"deploy", "call", "send"}
             PROVE  p \in reported \/ \E r \in requests' : Telling(r, p)'
  BY DEF Owed, Telling
<1>6. CASE p = o
  BY <1>3, <1>4, <1>6 DEF Telling
<1>7. CASE p # o
  BY <1>3, <1>5, <1>7 DEF Owed, Telling
<1> QED BY <1>6, <1>7

\* A request that a node answers, or that fails, still has to tell.
LEMMA ResolveOwed ==
  ASSUME Inv, Owed, NEW r \in requests, NEW result, Resolve(r, result), UNCHANGED page
  PROVE  Owed'
<1> DEFINE s == [r EXCEPT !.result = result]
<1>1. r \in Request
  BY DEF Inv, TypeOK
<1>2. s.op = r.op /\ s.method = r.method
  BY <1>1 DEF Request
<1>3. requests' = (requests \ {r}) \cup {s} /\ UNCHANGED <<operations, reported>>
  BY DEF Resolve, page
<1> HIDE DEF s
<1>4. ASSUME NEW o \in Ops, NEW q \in requests, Telling(q, o)
      PROVE  \E t \in requests' : Telling(t, o)'
  <2>1. CASE q = r
    BY <1>2, <1>3, <1>4, <2>1 DEF Telling
  <2>2. CASE q # r
    BY <1>3, <1>4, <2>2 DEF Telling
  <2> QED BY <2>1, <2>2
<1> QED BY <1>3, <1>4 DEF Owed

\* A callback tells of its operation, or looks its transaction up first.
LEMMA CallbackOwed ==
  ASSUME Inv, Owed, NEW r \in requests, Callback(r)
  PROVE  Owed'
<1>1. UNCHANGED operations
  BY CallbackEffect
<1>2. requests \ {r} \subseteq requests' /\ reported \subseteq reported'
  BY DEF Callback, UtxosListed, Deployed, TransactionSent, TransactionFound, CallAnswered,
         Confirmed, BlockGenerated, ReceiptFetched, RequestFailed, Continue, page
<1>3. ASSUME NEW o \in Ops, Telling(r, o)
      PROVE  o \in reported' \/ \E q \in requests' : Telling(q, o)'
  <2>1. CASE Deployed(r) \/ TransactionFound(r) \/ CallAnswered(r)
    BY <1>3, <2>1 DEF Deployed, TransactionFound, CallAnswered, Telling
  <2>2. CASE TransactionSent(r)
    <3> DEFINE q == Rpc(r.op, "gettransaction", r.node)
    <3>1. q.op = r.op /\ q.method = "gettransaction"
      BY DEF Rpc
    <3>2. q \in requests' \/ o \in reported'
      BY <1>3, <2>2 DEF TransactionSent, Continue, Telling
    <3> HIDE DEF q
    <3> QED BY <1>3, <3>1, <3>2 DEF Telling
  <2>3. CASE RequestFailed(r)
    BY <1>3, <2>3 DEF RequestFailed, Telling
  <2>4. CASE UtxosListed(r) \/ Confirmed(r) \/ BlockGenerated(r) \/ ReceiptFetched(r)
    BY <1>3, <2>4 DEF UtxosListed, Confirmed, BlockGenerated, ReceiptFetched, Answered, Telling
  <2> QED BY <2>1, <2>2, <2>3, <2>4 DEF Callback
<1>4. ASSUME NEW o \in Ops, NEW q \in requests, q # r, Telling(q, o)
      PROVE  q \in requests' /\ Telling(q, o)'
  BY <1>1, <1>2, <1>4 DEF Telling
<1> QED BY <1>1, <1>2, <1>3, <1>4 DEF Owed

LEMMA OwedStep == Inv /\ Owed /\ [Next]_vars => Owed'
<1> SUFFICES ASSUME Inv, Owed, [Next]_vars PROVE Owed'
  OBVIOUS
<1>1. CASE UNCHANGED vars
  BY <1>1 DEF vars, page, Owed, Telling
<1>2. ASSUME NEW n \in Nodes, ChangeUrl(n) PROVE Owed'
  BY <1>2 DEF ChangeUrl, Owed, Telling
<1>3. ASSUME NEW o \in Ops, Deploy(o) PROVE Owed'
  BY <1>3, BeginOwed DEF Deploy
<1>4. ASSUME NEW o \in Ops, AtAddress(o) PROVE Owed'
  <2>1. /\ operations' = [operations EXCEPT ![o] = [kind |-> "atAddress", node |-> url]]
        /\ reported' = reported \cup {o} /\ UNCHANGED requests
        /\ operations \in [Ops -> Operation]
    BY <1>4 DEF AtAddress, Inv, TypeOK
  <2>2. \A p \in Ops \ {o} : operations'[p] = operations[p]
    BY <2>1
  <2> QED BY <2>1, <2>2 DEF Owed, Telling
<1>5. ASSUME NEW o \in Ops, RemoveContract(o) PROVE Owed'
  BY <1>5 DEF RemoveContract, Owed, Telling
<1>6. ASSUME NEW o \in Ops, NEW c \in Ops, CallOrSend(o, c) PROVE Owed'
  BY <1>6, BeginOwed DEF CallOrSend
<1>7. ASSUME NEW r \in requests, Handle(r) \/ Fail(r) PROVE Owed'
  BY <1>7, ResolveOwed DEF Handle, Fail
<1>8. ASSUME NEW r \in requests, Callback(r) PROVE Owed'
  BY <1>8, CallbackOwed
<1> QED BY <1>1, <1>2, <1>3, <1>4, <1>5, <1>6, <1>7, <1>8 DEF Next

\* Whatever is lost or refused, and wherever the URL points by then: a deployment,
\* or a call or send of a named function, that is over has told the user how it went.
THEOREM OutcomesAreTold == Spec => []OutcomeReported
<1>1. Init => Owed
  BY DEF Init, Owed
<1>2. Owed => OutcomeReported
  BY DEF Owed, OutcomeReported, Telling
<1> QED BY <1>1, <1>2, InitInv, NextInv, OwedStep, PTL DEF Spec

-----------------------------------------------------------------------------
(* With one URL and no failure every accepted transaction is on its way into a *)
(* block: the invariant adds that all there is belongs to that one node.       *)

OneNode ==
  /\ account \in {url, NoNode}
  /\ \A o \in Ops : operations[o].kind # "none" => operations[o].node = url
  /\ \A r \in requests : /\ r.node = url
                         /\ r.result # "error"
                         /\ r.method \in Transactions => r.sender = url

CalmInv == Inv /\ OneNode /\ MiningIsOnTheWay

\* The request q is about to lead to a block with the transaction of o.
Awaits(q, o, n) ==
  /\ q.op = o
  /\ q.node = n
  /\ q.method \in Transactions \cup {"gettransaction", "generate"}
  /\ q.method = "generate" => q.result = "none"

LEMMA BeginCalm ==
  ASSUME CalmInv, NEW o \in Ops, NEW kind \in {"deploy", "call", "send", "fallback"},
         NEW m \in {"createcontract", "callcontract", "sendtocontract"},
         Begin(o, kind, url, m, url), UNCHANGED <<url, account, nodes>>
  PROVE  OneNode' /\ MiningIsOnTheWay'
<1>1. \E kd \in {"threw", kind} : operations' = [operations EXCEPT ![o] = [kind |-> kd, node |-> url]]
  BY DEF Begin
<1>2. \A p \in Ops : operations'[p].kind # "none" => operations'[p].node = url
  BY <1>1 DEF CalmInv, OneNode, Inv, TypeOK
<1>3. requests \subseteq requests'
  BY DEF Begin
<1>4. \A r \in requests' : r \in requests \/ (r = Rpc(o, m, url) /\ account = url)
  BY DEF Begin, CalmInv, OneNode
<1>5. OneNode'
  BY <1>2, <1>4 DEF OneNode, CalmInv, Rpc
<1>6. MiningIsOnTheWay'
  BY <1>3 DEF CalmInv, MiningIsOnTheWay, nodes
<1> QED BY <1>5, <1>6

LEMMA UserCalm ==
  ASSUME CalmInv, NEW o \in Ops,
         Deploy(o) \/ AtAddress(o) \/ RemoveContract(o) \/ (\E c \in Ops : CallOrSend(o, c))
  PROVE  OneNode' /\ MiningIsOnTheWay'
<1>1. CASE Deploy(o)
  BY <1>1, BeginCalm DEF Deploy
<1>2. CASE AtAddress(o)
  <2>1. \A p \in Ops : operations'[p].kind # "none" => operations'[p].node = url
    BY <1>2 DEF AtAddress, CalmInv, OneNode, Inv, TypeOK
  <2> QED BY <1>2, <2>1 DEF AtAddress, CalmInv, OneNode, MiningIsOnTheWay, nodes
<1>3. CASE RemoveContract(o)
  BY <1>3 DEF RemoveContract, CalmInv, OneNode, MiningIsOnTheWay, nodes
<1>4. ASSUME NEW c \in Ops, CallOrSend(o, c)
      PROVE  OneNode' /\ MiningIsOnTheWay'
  <2>1. operations[c].node = url /\ UNCHANGED <<url, account, nodes>>
    BY <1>4 DEF CallOrSend, CalmInv, OneNode, Inv, Origins
  <2>2. \/ Begin(o, "call", url, "callcontract", url)
        \/ Begin(o, "send", url, "sendtocontract", url)
        \/ Begin(o, "fallback", url, "sendtocontract", url)
    BY <1>4, <2>1 DEF CallOrSend
  <2> QED BY <2>1, <2>2, BeginCalm
<1> QED BY <1>1, <1>2, <1>3, <1>4

LEMMA HandleCalm ==
  ASSUME CalmInv, NEW r \in requests, Handle(r)
  PROVE  OneNode' /\ MiningIsOnTheWay'
<1> DEFINE s == [r EXCEPT !.result = "ok"]
<1>1. r \in Request /\ r.node = url /\ url \in Nodes
  BY DEF CalmInv, Inv, TypeOK, OneNode
<1>2. requests' = (requests \ {r}) \cup {s} /\ UNCHANGED page
  BY DEF Handle, Resolve
<1>3. /\ s.op = r.op /\ s.method = r.method /\ s.node = url /\ s.result = "ok"
      /\ s.sender = r.sender
  BY <1>1 DEF Request
<1> HIDE DEF s
<1>4. OneNode'
  BY <1>2, <1>3 DEF CalmInv, OneNode, page
<1>5. pool \in [Nodes -> SUBSET Ops]
  BY DEF CalmInv, Inv, TypeOK
<1>6. CASE r.method = "generate"
  <2>1. pool' = [pool EXCEPT ![url] = {}]
    BY <1>1, <1>6 DEF Handle, Transactions
  <2>2. \A n \in Nodes : pool'[n] = {}
    <3>1. ASSUME NEW n \in Nodes, n # url, NEW o \in pool[n]
          PROVE  FALSE
      <4>1. PICK q \in requests : q.node = n
        BY <3>1 DEF CalmInv, MiningIsOnTheWay
      <4> QED BY <3>1, <4>1 DEF CalmInv, OneNode
    <3> QED BY <1>5, <2>1, <3>1
  <2> QED BY <1>4, <2>2 DEF MiningIsOnTheWay
<1>7. CASE r.method # "generate"
  <2>1. \A n \in Nodes : \A o \in pool[n] : \E q \in requests : Awaits(q, o, n)
    BY DEF CalmInv, MiningIsOnTheWay, Awaits
  <2>2. \A n \in Nodes : \A o \in pool[n] : \E q \in requests' : Awaits(q, o, n)
    <3> SUFFICES ASSUME NEW n \in Nodes, NEW o \in pool[n]
                 PROVE  \E q \in requests' : Awaits(q, o, n)
      OBVIOUS
    <3>1. PICK q \in requests : Awaits(q, o, n)
      BY <2>1
    <3>2. CASE q = r
      <4>1. Awaits(s, o, n)
        BY <1>1, <1>3, <1>7, <3>1, <3>2 DEF Awaits
      <4> QED BY <1>2, <4>1
    <3>3. CASE q # r
      BY <1>2, <3>1, <3>3
    <3> QED BY <3>2, <3>3
  <2>3. CASE r.method \in Transactions
    <3>1. pool' = [pool EXCEPT ![url] = @ \cup {r.op}]
      BY <1>1, <1>7, <2>3 DEF Handle
    <3>2. Awaits(s, r.op, url) /\ s \in requests'
      BY <1>2, <1>3, <1>7, <2>3 DEF Awaits
    <3>3. \A n \in Nodes : \A o \in pool'[n] : o \in pool[n] \/ (o = r.op /\ n = url)
      BY <1>1, <1>5, <3>1
    <3> QED BY <1>4, <2>2, <3>2, <3>3 DEF MiningIsOnTheWay, Awaits
  <2>4. CASE r.method \notin Transactions
    <3>1. pool' = pool
      BY <1>7, <2>4 DEF Handle
    <3> QED BY <1>4, <2>2, <3>1 DEF MiningIsOnTheWay, Awaits
  <2> QED BY <2>3, <2>4
<1> QED BY <1>6, <1>7

\* A callback keeps every other request, and when it ends one that a transaction
\* waits for, it begins the next.
LEMMA CallbackCalm ==
  ASSUME CalmInv, NEW r \in requests, Callback(r)
  PROVE  OneNode' /\ MiningIsOnTheWay'
<1>1. r \in Request /\ r.node = url /\ url \in Nodes /\ r.result # "error"
  BY DEF CalmInv, Inv, TypeOK, OneNode
<1>2. UNCHANGED <<url, operations, nodes>> /\ account' \in {url, NoNode}
  BY <1>1 DEF Callback, UtxosListed, Deployed, TransactionSent, TransactionFound, CallAnswered,
     Confirmed, BlockGenerated, ReceiptFetched, RequestFailed, page, CalmInv, OneNode
<1> DEFINE generate == Rpc(r.op, "generate", url)
           lookup == Rpc(r.op, "gettransaction", url)
           confirm == Rpc(r.op, "confirm", url)
           receipt == Rpc(r.op, "gettransactionreceipt", url)
           followUps == {generate, lookup, confirm, receipt}
<1>3. Awaits(generate, r.op, url) /\ Awaits(lookup, r.op, url)
  BY DEF Awaits, Rpc
<1>4. PICK more \in SUBSET followUps :
        /\ requests' = (requests \ {r}) \cup more
        /\ (\E o : Awaits(r, o, url)) => generate \in more \/ lookup \in more
  <2> HIDE DEF generate, lookup, confirm, receipt
  <2>1. CASE UtxosListed(r) \/ Confirmed(r) \/ ReceiptFetched(r)
    <3>1. requests' = (requests \ {r}) \cup {}
      BY <2>1 DEF UtxosListed, Confirmed, ReceiptFetched, Continue
    <3>2. ~ \E o : Awaits(r, o, url)
      BY <2>1 DEF UtxosListed, Confirmed, ReceiptFetched, Answered, Awaits, Transactions
    <3> QED BY <3>1, <3>2
  <2>2. CASE Deployed(r) \/ CallAnswered(r)
    <3>1. requests' = (requests \ {r}) \cup {generate}
      BY <2>2 DEF Deployed, CallAnswered, Continue, generate
    <3> QED BY <3>1
  <2>3. CASE TransactionSent(r)
    <3>1. \/ requests' = (requests \ {r}) \cup {lookup}
          \/ requests' = (requests \ {r}) \cup {generate}
      BY <1>1, <2>3 DEF TransactionSent, Continue, lookup, generate
    <3> QED BY <3>1
  <2>4. CASE TransactionFound(r)
    <3>1. requests' = (requests \ {r}) \cup {confirm, generate}
      BY <1>1, <2>4 DEF TransactionFound, Continue, confirm, generate
    <3> QED BY <3>1
  <2>5. CASE BlockGenerated(r)
    <3>1. \/ requests' = (requests \ {r}) \cup {receipt}
          \/ requests' = (requests \ {r}) \cup {}
      BY <2>5 DEF BlockGenerated, Continue, receipt
    <3>2. ~ \E o : Awaits(r, o, url)
      BY <2>5 DEF BlockGenerated, Answered, Awaits
    <3> QED BY <3>1, <3>2
  <2>6. ~RequestFailed(r)
    BY <1>1 DEF RequestFailed
  <2> QED BY <2>1, <2>2, <2>3, <2>4, <2>5, <2>6 DEF Callback
<1>5. OneNode'
  BY <1>2, <1>4 DEF CalmInv, OneNode, Rpc, Transactions
<1>6. MiningIsOnTheWay'
  <2> SUFFICES ASSUME NEW n \in Nodes, NEW o \in pool[n]
               PROVE  \E q \in requests' : Awaits(q, o, n)
    BY <1>2 DEF MiningIsOnTheWay, Awaits, nodes
  <2>1. PICK q \in requests : Awaits(q, o, n)
    BY DEF CalmInv, MiningIsOnTheWay, Awaits
  <2>2. CASE q # r
    BY <1>4, <2>1, <2>2
  <2>3. CASE q = r
    <3>1. o = r.op /\ n = url
      BY <1>1, <2>1, <2>3 DEF Awaits
    <3> QED BY <1>3, <1>4, <2>1, <2>3, <3>1
  <2> QED BY <2>2, <2>3
<1> QED BY <1>5, <1>6

\* "Generate a new block so the contract is mined": while nothing fails and the
\* URL stays, each transaction in a pool has a request under way that leads to a
\* block of that node, however the operations interleave.
THEOREM TransactionsAreOnTheirWay ==
  ~UrlMayChange /\ ~MayFail => (Spec => []MiningIsOnTheWay)
<1> SUFFICES ASSUME ~UrlMayChange, ~MayFail PROVE Spec => []MiningIsOnTheWay
  OBVIOUS
<1>1. Init => CalmInv
  <2>1. Init => OneNode /\ MiningIsOnTheWay
    BY DEF Init, OneNode, MiningIsOnTheWay, Rpc, Transactions
  <2> QED BY <2>1, InitInv DEF CalmInv
<1>2. CalmInv /\ [Next]_vars => CalmInv'
  <2> SUFFICES ASSUME CalmInv, [Next]_vars PROVE OneNode' /\ MiningIsOnTheWay'
    BY NextInv DEF CalmInv
  <2>1. CASE UNCHANGED vars
    BY <2>1 DEF vars, page, nodes, CalmInv, OneNode, MiningIsOnTheWay
  <2>2. ASSUME NEW n \in Nodes, ChangeUrl(n)
        PROVE  FALSE
    BY <2>2 DEF ChangeUrl
  <2>3. ASSUME NEW o \in Ops,
               Deploy(o) \/ AtAddress(o) \/ RemoveContract(o) \/ (\E c \in Ops : CallOrSend(o, c))
        PROVE  OneNode' /\ MiningIsOnTheWay'
    BY <2>3, UserCalm
  <2>4. ASSUME NEW r \in requests, Fail(r)
        PROVE  FALSE
    BY <2>4 DEF Fail, CalmInv, OneNode
  <2>5. ASSUME NEW r \in requests, Handle(r) \/ Callback(r)
        PROVE  OneNode' /\ MiningIsOnTheWay'
    BY <2>5, HandleCalm, CallbackCalm
  <2> QED BY <2>1, <2>2, <2>3, <2>4, <2>5 DEF Next
<1>3. CalmInv => MiningIsOnTheWay
  BY DEF CalmInv
<1> QED BY <1>1, <1>2, <1>3, PTL DEF Spec
=============================================================================
