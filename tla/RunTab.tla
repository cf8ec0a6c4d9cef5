------------------------------- MODULE RunTab -------------------------------
(* The Run tab: listing the accounts of a node, deploying contracts, loading    *)
(* them at an address, calling them and sending to them, over the RPC of a      *)
(* htmlcoind node.                                                              *)
(*                                                                              *)
(* Every use of `this.rpc` reads the URL anew from localStorage, which the      *)
(* tab's input or another window may have changed; a htmlcoinjs Contract keeps  *)
(* the RPC object it was made with.  An RPC is a request a node handles and     *)
(* whose answer runs the next callback of its promise chain: one action of the  *)
(* node, one of the page.  A request may be lost before or after it is handled. *)
(*                                                                              *)
(* A URL and the node it reaches are one; an account is known by the node whose *)
(* wallet holds it; a contract and the transaction that creates it by the       *)
(* operation that deployed it.                                                  *)
CONSTANTS
  Nodes,         \* htmlcoind nodes
  NoNode,        \* undefined
  Ops,           \* clicks on Deploy, At Address or a function of a contract
  Listing,       \* the operation that is getUtxos
  UrlMayChange,  \* whether the RPC URL is ever changed
  MayFail        \* whether requests may be lost or refused

ASSUME RunTabAssumption ==
  /\ NoNode \notin Nodes
  /\ Listing \notin Ops
  /\ UrlMayChange \in BOOLEAN
  /\ MayFail \in BOOLEAN

VARIABLES
  url,           \* HtmlcoinService.rpcUrl
  account,       \* _selectedUtxo
  loadingUtxos,  \* _loadingUtxos
  operations,    \* operation -> what it is, and the node its contract's rpc is of
  loaded,        \* _loadedContracts
  requests,      \* requests not yet answered
  reported,      \* operations whose result or error is in the terminal
  events,        \* sends whose event logs are in the terminal
  pool,          \* node -> transactions accepted and not mined
  chain          \* node -> transactions mined

page == <<url, account, loadingUtxos, operations, loaded, reported, events>>
nodes == <<pool, chain>>
vars == <<page, requests, nodes>>

Transactions == {"createcontract", "sendtocontract"}

Methods == Transactions \cup {"listunspent", "callcontract", "gettransaction", "confirm",
                              "generate", "gettransactionreceipt"}

Request == [op : Ops \cup {Listing}, method : Methods, node : Nodes,
            sender : Nodes \cup {NoNode}, result : {"none", "ok", "error"}]

Operation == [kind : {"none", "threw", "deploy", "atAddress", "call", "send", "fallback"},
              node : Nodes \cup {NoNode}]

Rpc(o, method, node) ==
  [op |-> o, method |-> method, node |-> node, sender |-> account, result |-> "none"]

-----------------------------------------------------------------------------
(* The nodes, and rawCall of htmlcoinjs, by which requests get to them.        *)

Resolve(r, result) == requests' = (requests \ {r}) \cup {[r EXCEPT !.result = result]}

\* A wallet signs for its own accounts only; a confirmation waits for a block.
Handle(r) ==
  /\ r.result = "none"
  /\ r.method = "confirm" => r.op \in chain[r.node]
  /\ r.method \in Transactions => r.sender = r.node
  /\ Resolve(r, "ok")
  /\ pool' = CASE r.method \in Transactions -> [pool EXCEPT ![r.node] = @ \cup {r.op}]
               [] r.method = "generate" -> [pool EXCEPT ![r.node] = {}]
               [] OTHER -> pool
  /\ chain' = IF r.method = "generate"
              THEN [chain EXCEPT ![r.node] = @ \cup pool[r.node]] ELSE chain
  /\ UNCHANGED page

\* The node refuses, or the request or its answer is lost.
Fail(r) ==
  /\ r.result # "error"
  /\ MayFail \/ (r.result = "none" /\ r.method \in Transactions /\ r.sender # r.node)
  /\ Resolve(r, "error")
  /\ UNCHANGED <<page, nodes>>

-----------------------------------------------------------------------------
(* The user.                                                                   *)

\* ngOnInit calls getUtxos.
Init ==
  /\ url \in Nodes
  /\ account = NoNode
  /\ loadingUtxos = TRUE
  /\ operations = [o \in Ops |-> [kind |-> "none", node |-> NoNode]]
  /\ loaded = {}
  /\ requests = {Rpc(Listing, "listunspent", url)}
  /\ reported = {}
  /\ events = {}
  /\ pool = [n \in Nodes |-> {}]
  /\ chain = [n \in Nodes |-> {}]

\* In this tab's input, whose change handler getUnspent does not exist, or in
\* another window.
ChangeUrl(n) ==
  /\ UrlMayChange
  /\ url' = n
  /\ UNCHANGED <<account, loadingUtxos, operations, loaded, reported, events, requests, nodes>>

\* Operation o begins with one request, unless `this._selectedUtxo.address`
\* throws because no account is selected.
Begin(o, kind, node, method, at) ==
  /\ operations[o].kind = "none"
  /\ IF account = NoNode
     THEN /\ operations' = [operations EXCEPT ![o] = [kind |-> "threw", node |-> node]]
          /\ UNCHANGED requests
     ELSE /\ operations' = [operations EXCEPT ![o] = [kind |-> kind, node |-> node]]
          /\ requests' = requests \cup {Rpc(o, method, at)}

\* Mutant: the contract is pushed when deployment begins.
Deploy_PushFirst(o) ==
  /\ Begin(o, "deploy", url, "createcontract", url)
  /\ loaded' = loaded \cup {o}
  /\ UNCHANGED <<url, account, loadingUtxos, reported, events, nodes>>

Deploy(o) ==
  /\ Begin(o, "deploy", url, "createcontract", url)
  /\ UNCHANGED <<url, account, loadingUtxos, loaded, reported, events, nodes>>

AtAddress(o) ==
  /\ operations[o].kind = "none"
  /\ operations' = [operations EXCEPT ![o] = [kind |-> "atAddress", node |-> url]]
  /\ loaded' = loaded \cup {o}
  /\ reported' = reported \cup {o}
  /\ UNCHANGED <<url, account, loadingUtxos, events, requests, nodes>>

\* A function of loaded contract c: constant, not constant, or the fallback,
\* which does not go through the contract's rpc.
CallOrSend(o, c) ==
  LET home == operations[c].node
  IN /\ c \in loaded
     /\ \/ Begin(o, "call", home, "callcontract", home)
        \/ Begin(o, "send", home, "sendtocontract", home)
        \/ Begin(o, "fallback", home, "sendtocontract", url)
     /\ UNCHANGED <<url, account, loadingUtxos, loaded, reported, events, nodes>>

RemoveContract(c) ==
  /\ c \in loaded
  /\ loaded' = loaded \ {c}
  /\ UNCHANGED <<url, account, loadingUtxos, operations, reported, events, requests, nodes>>

-----------------------------------------------------------------------------
(* The callbacks.                                                              *)

Answered(r, method) == r.method = method /\ r.result = "ok"

\* The callback of r sends the requests `more`.
Continue(r, more) == requests' = (requests \ {r}) \cup more

\* Mutant: the whole list is selected, not its first element.
UtxosListed_SelectsList(r) ==
  /\ Answered(r, "listunspent")
  /\ Continue(r, {})
  /\ account' = {r.node}
  /\ loadingUtxos' = FALSE
  /\ UNCHANGED <<url, operations, loaded, reported, events, nodes>>

\* Mutant: with no unspent output the callback returns early.
UtxosListed_EarlyReturn(r) ==
  /\ Answered(r, "listunspent")
  /\ Continue(r, {})
  /\ account' \in {r.node, NoNode}
  /\ loadingUtxos' = (account' = NoNode)
  /\ UNCHANGED <<url, operations, loaded, reported, events, nodes>>

\* The richest account is selected; a wallet may have none.
UtxosListed(r) ==
  /\ Answered(r, "listunspent")
  /\ Continue(r, {})
  /\ account' \in {r.node, NoNode}
  /\ loadingUtxos' = FALSE
  /\ UNCHANGED <<url, operations, loaded, reported, events, nodes>>

\* Mutant: the receipt is asked for without a block.
Deployed_NoBlock(r) ==
  /\ Answered(r, "createcontract")
  /\ Continue(r, {Rpc(r.op, "gettransactionreceipt", url)})
  /\ loaded' = loaded \cup {r.op}
  /\ reported' = reported \cup {r.op}
  /\ UNCHANGED <<url, account, loadingUtxos, operations, events, nodes>>

\* deploy's callback.
Deployed(r) ==
  /\ Answered(r, "createcontract")
  /\ Continue(r, {Rpc(r.op, "generate", url)})
  /\ loaded' = loaded \cup {r.op}
  /\ reported' = reported \cup {r.op}
  /\ UNCHANGED <<url, account, loadingUtxos, operations, events, nodes>>

\* Contract.send looks its transaction up; the fallback's answer is logged.
TransactionSent(r) ==
  /\ Answered(r, "sendtocontract")
  /\ IF operations[r.op].kind = "send"
     THEN /\ Continue(r, {Rpc(r.op, "gettransaction", r.node)})
          /\ UNCHANGED reported
     ELSE /\ Continue(r, {Rpc(r.op, "generate", url)})
          /\ reported' = reported \cup {r.op}
  /\ UNCHANGED <<url, account, loadingUtxos, operations, loaded, events, nodes>>

\* Mutant: blocks are generated for calls of the fallback and constants only.
TransactionFound_NoBlock(r) ==
  /\ Answered(r, "gettransaction")
  /\ Continue(r, {Rpc(r.op, "confirm", r.node)})
  /\ reported' = reported \cup {r.op}
  /\ UNCHANGED <<url, account, loadingUtxos, operations, loaded, events, nodes>>

\* callOrSend's callback of a send.
TransactionFound(r) ==
  /\ Answered(r, "gettransaction")
  /\ Continue(r, {Rpc(r.op, "confirm", r.node), Rpc(r.op, "generate", url)})
  /\ reported' = reported \cup {r.op}
  /\ UNCHANGED <<url, account, loadingUtxos, operations, loaded, events, nodes>>

\* callOrSend's callback of a call.
CallAnswered(r) ==
  /\ Answered(r, "callcontract")
  /\ Continue(r, {Rpc(r.op, "generate", url)})
  /\ reported' = reported \cup {r.op}
  /\ UNCHANGED <<url, account, loadingUtxos, operations, loaded, events, nodes>>

Confirmed(r) ==
  /\ Answered(r, "confirm")
  /\ Continue(r, {})
  /\ events' = events \cup {r.op}
  /\ UNCHANGED <<url, account, loadingUtxos, operations, loaded, reported, nodes>>

\* After a deployment, the receipt is fetched.
BlockGenerated(r) ==
  /\ Answered(r, "generate")
  /\ Continue(r, IF operations[r.op].kind = "deploy"
                 THEN {Rpc(r.op, "gettransactionreceipt", url)} ELSE {})
  /\ UNCHANGED <<page, nodes>>

ReceiptFetched(r) ==
  /\ Answered(r, "gettransactionreceipt")
  /\ Continue(r, {})
  /\ UNCHANGED <<page, nodes>>

\* Mutant: callOrSend catches what `send` and `call` throw at once, but a
\* failure of the look-up falls outside the chain.
RequestFailed_NotLookup(r) ==
  /\ r.result = "error"
  /\ Continue(r, {})
  /\ reported' = IF \/ r.method \in {"createcontract", "callcontract"}
                    \/ r.method = "sendtocontract" /\ operations[r.op].kind = "send"
                 THEN reported \cup {r.op} ELSE reported
  /\ UNCHANGED <<url, account, loadingUtxos, operations, loaded, events, nodes>>

\* A rejected promise: deploy and callOrSend log it; nothing catches it in
\* getUtxos, in the fallback branch, or behind a generate or a confirm.
RequestFailed(r) ==
  /\ r.result = "error"
  /\ Continue(r, {})
  /\ reported' = IF \/ r.method \in {"createcontract", "callcontract", "gettransaction"}
                    \/ r.method = "sendtocontract" /\ operations[r.op].kind = "send"
                 THEN reported \cup {r.op} ELSE reported
  /\ UNCHANGED <<url, account, loadingUtxos, operations, loaded, events, nodes>>

Callback(r) ==
  \/ UtxosListed(r)
  \/ Deployed(r)
  \/ TransactionSent(r)
  \/ TransactionFound(r)
  \/ CallAnswered(r)
  \/ Confirmed(r)
  \/ BlockGenerated(r)
  \/ ReceiptFetched(r)
  \/ RequestFailed(r)

Next ==
  \/ \E n \in Nodes : ChangeUrl(n)
  \/ \E o \in Ops :
       \/ Deploy(o)
       \/ AtAddress(o)
       \/ RemoveContract(o)
       \/ \E c \in Ops : CallOrSend(o, c)
  \/ \E r \in requests : Handle(r) \/ Fail(r) \/ Callback(r)

Spec == Init /\ [][Next]_vars

\* Nodes answer, or the connection fails; nobody has to click.
Fairness == WF_vars(\E r \in requests : Handle(r) \/ Callback(r) \/ Fail(r))

FairSpec == Spec /\ Fairness

-----------------------------------------------------------------------------
TypeOK ==
  /\ url \in Nodes
  /\ account \in Nodes \cup {NoNode}
  /\ loadingUtxos \in BOOLEAN
  /\ operations \in [Ops -> Operation]
  /\ loaded \subseteq Ops
  /\ requests \subseteq Request
  /\ reported \subseteq Ops
  /\ events \subseteq Ops
  /\ pool \in [Nodes -> SUBSET Ops]
  /\ chain \in [Nodes -> SUBSET Ops]

\* While nothing fails and the URL stays, a transaction a node has accepted is on
\* its way into a block: its operation is about to ask that very node for one.
MiningIsOnTheWay ==
  \A n \in Nodes : \A o \in pool[n] : \E r \in requests :
    /\ r.op = o
    /\ r.node = n
    /\ r.method \in Transactions \cup {"gettransaction", "generate"}
    /\ r.method = "generate" => r.result = "none"

\* A deployed contract in the list belongs to the node that accepted it, and its
\* calls go there, whatever became of the URL and of other requests since.
LoadedWhereDeployed ==
  \A c \in loaded : operations[c].kind = "deploy" =>
    c \in pool[operations[c].node] \cup chain[operations[c].node]

\* A deployment, or a call or send of a named function, that is over has told the
\* user how it went.  Not so a call of the fallback function, whose chain nothing
\* catches, nor an operation that threw for want of a selected account.
OutcomeReported ==
  \A o \in Ops :
    /\ operations[o].kind \in {"deploy", "call", "send"}
    /\ \A r \in requests : r.op # o
    => o \in reported

\* Each accepted transaction is mined.
TransactionsMined ==
  \A n \in Nodes : \A o \in Ops : o \in pool[n] ~> o \in chain[n]

\* Each send ends with its events in the terminal.
SendsConfirmed ==
  \A o \in Ops : operations[o].kind = "send" ~> o \in events

\* The list of accounts does not load for ever.
LoadingEnds == <>~loadingUtxos
=============================================================================
