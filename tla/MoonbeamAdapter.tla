--------------------------- MODULE MoonbeamAdapter --------------------------
(***************************************************************************)
(* MoonbeamAdapter: one connection that can be switched between networks,  *)
(* sending and signing transactions with managed nonces, and watching a    *)
(* transaction until it has enough confirmations.                          *)
(*                                                                         *)
(* A send is a call of sendTransaction, or of signTransaction followed by  *)
(* broadcastTransaction; a watch is a call of monitorTransaction or of     *)
(* waitForTransactionWithStatus.  Their program counters name the await    *)
(* they are suspended at: this.provider may change at each of them.        *)
(***************************************************************************)
EXTENDS MoonbeamChain

CONSTANTS Watches,     \* calls that watch a transaction
          Given,       \* nonces a caller may fix in the request
          Kinds,       \* the operations callers use
          Required,    \* confirmations a watch asks for
          Disconnects, \* do callers disconnect?
          MaxSwitches, \* bound: network switches
          MaxResets    \* bound: resets of one account's nonce

ASSUME AdapterAssumption ==
    /\ Given \subseteq Nat
    /\ Kinds \subseteq {"send", "sign", "monitor", "wait"}
    /\ Required \in Nat \ {0}
    /\ Disconnects \in BOOLEAN
    /\ MaxSwitches \in Nat
    /\ MaxResets \in Nat

VARIABLES network,    \* currentNetwork, and the config manager's
          provider,   \* the network this.provider talks to, None when null
          connected,  \* this.connected
          link,       \* what connect or switchNetwork is waiting for
          target,     \* the network switchNetwork was asked for
          switches,   \* network switches so far
          nonceCache, \* nonceCache: Map<address, nonce>
          tracked,    \* pendingTransactions: Map<address, Set<hash>>
          resets,     \* how often each account's nonce was reset
          pc,         \* where each send is suspended
          kind,       \* the operation of each send
          chain,      \* txRequest.chainId
          asked,      \* the node the send asked for its nonce
          answer,     \* pendingNonce
          nonce,      \* txRequest.nonce
          given,      \* was the nonce fixed by the caller?
          era,        \* the value of resets when the nonce was taken
          wpc,        \* where each watch is suspended
          wkind,      \* the operation of each watch
          wtx,        \* the transaction it watches
          wnet,       \* the node it has asked
          wblock,     \* receipt.blockNumber
          wsince      \* the value of switches when it started

linkVars == <<network, provider, connected, link, target, switches>>
nonceVars == <<nonceCache, tracked, resets>>
sendVars == <<pc, kind, chain, asked, answer, nonce, given, era>>
watchVars == <<wpc, wkind, wtx, wnet, wblock, wsince>>
vars == <<chainVars, linkVars, nonceVars, sendVars, watchVars>>

MaybeNetwork == Networks \cup {None}
Points == {"idle", "prepare", "ask", "count", "answered", "price", "send",
           "accepted", "signed", "sent", "failed"}
WatchPoints == {"idle", "poll", "tx", "receipt", "height", "sleep", "confirmed", "failed"}

TypeOK ==
    /\ ChainTypeOK
    /\ network \in Networks /\ target \in Networks
    /\ provider \in MaybeNetwork
    /\ connected \in BOOLEAN
    /\ link \in {"idle", "leaving", "opening"}
    /\ switches \in 0..MaxSwitches
    /\ nonceCache \in [Accounts -> Nat \cup {None}]
    /\ tracked \in [Accounts -> SUBSET Sends]
    /\ resets \in [Accounts -> 0..MaxResets]
    /\ pc \in [Sends -> Points]
    /\ kind \in [Sends -> {"send", "sign"}]
    /\ chain \in [Sends -> MaybeNetwork] /\ asked \in [Sends -> MaybeNetwork]
    /\ answer \in [Sends -> Nat \cup {None}] /\ nonce \in [Sends -> Nat \cup {None}]
    /\ given \in [Sends -> BOOLEAN]
    /\ era \in [Sends -> 0..MaxResets]
    /\ wpc \in [Watches -> WatchPoints]
    /\ wkind \in [Watches -> {"monitor", "wait"}]
    /\ wtx \in [Watches -> Sends \cup {None}]
    /\ wnet \in [Watches -> MaybeNetwork]
    /\ wblock \in [Watches -> (0..MaxBlocks) \cup {None}]
    /\ wsince \in [Watches -> 0..MaxSwitches]

Init ==
    /\ ChainInit
    /\ network \in Networks /\ target = network
    /\ provider = None /\ connected = FALSE
    /\ link = "idle" /\ switches = 0
    /\ nonceCache = [a \in Accounts |-> None]
    /\ tracked = [a \in Accounts |-> {}]
    /\ resets = [a \in Accounts |-> 0]
    /\ pc = [c \in Sends |-> "idle"] /\ kind = [c \in Sends |-> "send"]
    /\ chain = [c \in Sends |-> None] /\ asked = [c \in Sends |-> None]
    /\ answer = [c \in Sends |-> None] /\ nonce = [c \in Sends |-> None]
    /\ given = [c \in Sends |-> FALSE] /\ era = [c \in Sends |-> 0]
    /\ wpc = [w \in Watches |-> "idle"] /\ wkind = [w \in Watches |-> "monitor"]
    /\ wtx = [w \in Watches |-> None] /\ wnet = [w \in Watches |-> None]
    /\ wblock = [w \in Watches |-> None] /\ wsince = [w \in Watches |-> 0]

IsConnected == connected /\ provider # None

---------------------------------------------------------------------------
(* The connection: one connect or switchNetwork at a time, disconnect at   *)
(* any time.                                                               *)

Connect ==
    /\ link = "idle"
    /\ provider' = network
    /\ link' = "opening"
    /\ UNCHANGED <<chainVars, network, connected, target, switches, nonceVars, sendVars, watchVars>>

\* The chain id matches and the node answers, or anything in between fails.
\* The provider stays where it is either way.
ConnectEnds ==
    /\ link = "opening"
    /\ connected' \in BOOLEAN
    /\ link' = "idle"
    /\ UNCHANGED <<chainVars, network, provider, target, switches, nonceVars, sendVars, watchVars>>

Disconnect ==
    /\ Disconnects
    /\ provider # None \/ connected
    /\ provider' = None /\ connected' = FALSE
    /\ UNCHANGED <<chainVars, network, link, target, switches, nonceVars, sendVars, watchVars>>

\* switchNetwork up to its await of disconnect().
SwitchNetwork(n) ==
    /\ link = "idle"
    /\ switches < MaxSwitches
    /\ provider' = None /\ connected' = FALSE
    /\ link' = "leaving" /\ target' = n
    /\ switches' = switches + 1
    /\ UNCHANGED <<chainVars, network, nonceVars, sendVars, watchVars>>

\* ... and on to the first await of connect().
SwitchOpens ==
    /\ link = "leaving"
    /\ network' = target /\ provider' = target
    /\ link' = "opening"
    /\ UNCHANGED <<chainVars, connected, target, switches, nonceVars, sendVars, watchVars>>

LinkStep == Connect \/ ConnectEnds \/ Disconnect \/ SwitchOpens
                \/ \E n \in Networks : SwitchNetwork(n)

---------------------------------------------------------------------------
(* Sending and signing.                                                    *)

Goto(c, point) == pc' = [pc EXCEPT ![c] = point]

Start(c) ==
    /\ pc[c] = "idle"
    /\ \E k \in Kinds \cap {"send", "sign"} : kind' = [kind EXCEPT ![c] = k]
    /\ \E g \in Given \cup {None} :
        /\ nonce' = [nonce EXCEPT ![c] = g]
        /\ given' = [given EXCEPT ![c] = g # None]
    /\ Goto(c, IF IsConnected THEN "prepare" ELSE "failed")
    /\ UNCHANGED <<chainVars, linkVars, nonceVars, chain, asked, answer, era, watchVars>>

\* The signer's address is known: this.provider!.getNetwork() gives the chain.
Prepare(c) ==
    /\ pc[c] = "prepare"
    /\ provider # None
    /\ chain' = [chain EXCEPT ![c] = provider]
    /\ Goto(c, IF given[c] THEN "price" ELSE "ask")
    /\ UNCHANGED <<chainVars, linkVars, nonceVars, kind, asked, answer, nonce, given, era, watchVars>>

\* getNonce(address, true).
AskNonce(c) ==
    /\ pc[c] = "ask"
    /\ IsConnected
    /\ asked' = [asked EXCEPT ![c] = provider]
    /\ Goto(c, "count")
    /\ UNCHANGED <<chainVars, linkVars, nonceVars, kind, chain, answer, nonce, given, era, watchVars>>

NodeAnswers(c) ==
    /\ pc[c] = "count"
    /\ \E k \in PendingCounts(asked[c], Sender[c]) : answer' = [answer EXCEPT ![c] = k]
    /\ Goto(c, "answered")
    /\ UNCHANGED <<chainVars, linkVars, nonceVars, kind, chain, asked, nonce, given, era, watchVars>>

\* Mutant: the node's count alone decides.
NextNonceUncached(c) == answer[c]

\* Mutant: the cache alone decides once there is one.
NextNonceCached(c) ==
    IF nonceCache[Sender[c]] = None THEN answer[c] ELSE nonceCache[Sender[c]] + 1

NextNonce(c) ==
    LET cached == nonceCache[Sender[c]]
    IN  IF cached # None /\ cached > answer[c] THEN cached ELSE answer[c]

\* The rest of getNextNonce: cache read and written in one go.
TakeNonce(c) ==
    /\ pc[c] = "answered"
    /\ nonce' = [nonce EXCEPT ![c] = NextNonce(c)]
    /\ nonceCache' = [nonceCache EXCEPT ![Sender[c]] = NextNonce(c) + 1]
    /\ era' = [era EXCEPT ![c] = resets[Sender[c]]]
    /\ Goto(c, "price")
    /\ UNCHANGED <<chainVars, linkVars, tracked, resets, kind, chain, asked, answer, given, watchVars>>

\* Fees and gas are known.
Priced(c) ==
    /\ pc[c] = "price"
    /\ Goto(c, IF kind[c] = "sign" THEN "signed" ELSE "send")
    /\ UNCHANGED <<chainVars, linkVars, nonceVars, kind, chain, asked, answer, nonce, given, era, watchVars>>

\* A null provider, a lost connection or a node error; the nonce is not
\* given back.  The node may have taken the transaction all the same.
SendFails(c) ==
    /\ pc[c] \in Points \ {"idle", "signed", "sent", "failed"}
    /\ Goto(c, "failed")
    /\ UNCHANGED <<chainVars, linkVars, nonceVars, kind, chain, asked, answer, nonce, given, era, watchVars>>

\* broadcastTransaction, called whenever its owner likes.
Broadcast(c) ==
    /\ pc[c] = "signed"
    /\ Goto(c, IF IsConnected /\ provider = chain[c] THEN "send" ELSE "failed")
    /\ UNCHANGED <<chainVars, linkVars, nonceVars, kind, chain, asked, answer, nonce, given, era, watchVars>>

NodeAccepts(c) ==
    /\ pc[c] = "send"
    /\ Accept(c, chain[c], nonce[c])
    /\ Goto(c, "accepted")
    /\ UNCHANGED <<linkVars, nonceVars, kind, chain, asked, answer, nonce, given, era, watchVars>>

\* The response arrives; only sendTransaction tracks the hash.
Sent(c) ==
    /\ pc[c] = "accepted"
    /\ tracked' = IF kind[c] = "send"
                  THEN [tracked EXCEPT ![Sender[c]] = @ \cup {c}]
                  ELSE tracked
    /\ Goto(c, "sent")
    /\ UNCHANGED <<chainVars, linkVars, nonceCache, resets, kind, chain, asked, answer, nonce, given, era, watchVars>>

SendStep(c) ==
    \/ Start(c) \/ Prepare(c) \/ AskNonce(c) \/ NodeAnswers(c) \/ TakeNonce(c)
    \/ Priced(c) \/ SendFails(c) \/ Broadcast(c) \/ NodeAccepts(c) \/ Sent(c)

---------------------------------------------------------------------------
(* Bookkeeping callers may do at any time.                                 *)

\* resetNonce(address) when A is one account, clearNonceCache() when it is all.
ResetNonces(A) ==
    /\ \A a \in A : resets[a] < MaxResets
    /\ nonceCache' = [a \in Accounts |-> IF a \in A THEN None ELSE nonceCache[a]]
    /\ resets' = [a \in Accounts |-> IF a \in A THEN resets[a] + 1 ELSE resets[a]]
    /\ UNCHANGED <<chainVars, linkVars, tracked, sendVars, watchVars>>

ClearPendingTransactions(a) ==
    /\ tracked[a] # {}
    /\ tracked' = [tracked EXCEPT ![a] = {}]
    /\ UNCHANGED <<chainVars, linkVars, nonceCache, resets, sendVars, watchVars>>

BookStep ==
    \/ \E A \in {{a} : a \in Accounts} \cup {Accounts} : ResetNonces(A)
    \/ \E a \in Accounts : ClearPendingTransactions(a)

---------------------------------------------------------------------------
(* Watching a transaction.                                                 *)

WatchGoto(w, point) == wpc' = [wpc EXCEPT ![w] = point]
AskNode(w) == wnet' = [wnet EXCEPT ![w] = provider]

StartWatch(w, c) ==
    /\ wpc[w] = "idle"
    /\ pc[c] = "sent"
    /\ \E k \in Kinds \cap {"monitor", "wait"} : wkind' = [wkind EXCEPT ![w] = k]
    /\ wtx' = [wtx EXCEPT ![w] = c]
    /\ wsince' = [wsince EXCEPT ![w] = switches]
    /\ WatchGoto(w, IF IsConnected THEN "poll" ELSE "failed")
    /\ UNCHANGED <<chainVars, linkVars, nonceVars, sendVars, wnet, wblock>>

\* getTransactionStatus up to its first await.
Poll(w) ==
    /\ wpc[w] = "poll"
    /\ WatchGoto(w, IF IsConnected THEN "tx" ELSE "failed")
    /\ AskNode(w)
    /\ UNCHANGED <<chainVars, linkVars, nonceVars, sendVars, wkind, wtx, wblock, wsince>>

\* Mutant: the other loop has the timeout.
TimesOutMonitor(w) ==
    /\ wpc[w] = "poll"
    /\ wkind[w] = "monitor"
    /\ WatchGoto(w, "failed")
    /\ UNCHANGED <<chainVars, linkVars, nonceVars, sendVars, wkind, wtx, wnet, wblock, wsince>>

\* The loop of waitForTransactionWithStatus ends.
TimesOut(w) ==
    /\ wpc[w] = "poll"
    /\ wkind[w] = "wait"
    /\ WatchGoto(w, "failed")
    /\ UNCHANGED <<chainVars, linkVars, nonceVars, sendVars, wkind, wtx, wnet, wblock, wsince>>

KnownTo(n, c) == on[c] = n /\ where[c] \in {"pool", "mined", "reverted"}
MinedOn(n, c) == on[c] = n /\ where[c] \in {"mined", "reverted"}

\* getTransaction answers; one the node does not know counts as pending.
TxAnswers(w) ==
    /\ wpc[w] = "tx"
    /\ IF KnownTo(wnet[w], wtx[w])
       THEN WatchGoto(w, IF provider = None THEN "failed" ELSE "receipt")
       ELSE WatchGoto(w, "sleep")
    /\ AskNode(w)
    /\ UNCHANGED <<chainVars, linkVars, nonceVars, sendVars, wkind, wtx, wblock, wsince>>

\* getTransactionReceipt answers.
ReceiptAnswers(w) ==
    /\ wpc[w] = "receipt"
    /\ wblock' = [wblock EXCEPT ![w] =
                    IF MinedOn(wnet[w], wtx[w]) THEN block[wtx[w]] ELSE None]
    /\ WatchGoto(w, IF provider = None THEN "failed" ELSE "height")
    /\ AskNode(w)
    /\ UNCHANGED <<chainVars, linkVars, nonceVars, sendVars, wkind, wtx, wsince>>

\* Mutant: blocks on top of the transaction's own, counted one too many.
ConfirmationsOffByOne(w) == height[wnet[w]] - wblock[w] + 2

Confirmations(w) == height[wnet[w]] - wblock[w] + 1

\* getBlockNumber answers: the status is complete.
HeightAnswers(w) ==
    /\ wpc[w] = "height"
    /\ WatchGoto(w, IF wblock[w] = None THEN "sleep"
                    ELSE IF where[wtx[w]] = "reverted" THEN "failed"
                    ELSE IF Confirmations(w) >= Required THEN "confirmed"
                    ELSE "sleep")
    /\ UNCHANGED <<chainVars, linkVars, nonceVars, sendVars, wkind, wtx, wnet, wblock, wsince>>

WatchFails(w) ==
    /\ wpc[w] \in {"tx", "receipt", "height"}
    /\ WatchGoto(w, "failed")
    /\ UNCHANGED <<chainVars, linkVars, nonceVars, sendVars, wkind, wtx, wnet, wblock, wsince>>

Wakes(w) ==
    /\ wpc[w] = "sleep"
    /\ WatchGoto(w, "poll")
    /\ UNCHANGED <<chainVars, linkVars, nonceVars, sendVars, wkind, wtx, wnet, wblock, wsince>>

WatchRuns(w) ==
    \/ Poll(w) \/ TxAnswers(w) \/ ReceiptAnswers(w) \/ HeightAnswers(w) \/ Wakes(w)

WatchStep(w) ==
    \/ \E c \in Sends : StartWatch(w, c)
    \/ WatchRuns(w) \/ TimesOut(w) \/ WatchFails(w)

---------------------------------------------------------------------------

Blockchain == ChainStep /\ UNCHANGED <<linkVars, nonceVars, sendVars, watchVars>>

Next ==
    \/ LinkStep
    \/ \E c \in Sends : SendStep(c)
    \/ BookStep
    \/ \E w \in Watches : WatchStep(w)
    \/ Blockchain

Spec == Init /\ [][Next]_vars

\* Fairness: JavaScript runs every continuation whose answer has come, and a
\* node answers or fails.  The timer of Wakes fires.  TimesOut is due for good
\* once the timeout is over, so a loop that goes round for ever takes it.
\* The chains keep producing blocks.
FairSpec ==
    /\ Spec
    /\ \A w \in Watches : WF_vars(WatchRuns(w)) /\ SF_vars(TimesOut(w))
    /\ \A n \in Networks :
        WF_vars(EmptyBlock(n) /\ UNCHANGED <<linkVars, nonceVars, sendVars, watchVars>>)

---------------------------------------------------------------------------
(* Properties.                                                             *)

Taken(c) == nonce[c] # None /\ ~given[c]

\* Two sends of one account never get the same nonce from getNextNonce, however
\* their awaits interleave and whichever network they ask, unless the caller
\* resets the nonce in between.
DistinctNonces ==
    \A c, d \in Sends :
        (c # d /\ Sender[c] = Sender[d] /\ Taken(c) /\ Taken(d) /\ era[c] = era[d])
            => nonce[c] # nonce[d]

\* Was nonce k of account a given to a send, or used by others on chain n?
Handed(a, k) == \E c \in Sends : Sender[c] = a /\ nonce[c] = k
Elsewhere(n, a, k) == \E f \in Foreign : Sender[f] = a /\ on[f] = n /\ number[f] = k

\* The cache never runs ahead of the nonces that are used: from the chain's own
\* count up to the cached nonce, each one was given to some send, or is that of
\* a transaction others sent past the adapter with the same account.  (A send
\* that failed afterwards leaves a gap no later send fills, as does a foreign
\* transaction that is dropped.)
NoncesAccounted ==
    switches = 0 =>
        \A a \in Accounts : nonceCache[a] # None =>
            \A k \in count[network][a]..(nonceCache[a] - 1) :
                Handed(a, k) \/ Elsewhere(network, a, k)

\* When a watch reports a transaction as confirmed, and no network switch came
\* between its awaits, the transaction did succeed and as many blocks as asked
\* for are on top of it: receipt and block number are read at different times.
ConfirmedDepth ==
    [][\A w \in Watches :
        (wpc'[w] = "confirmed" /\ wpc[w] # "confirmed" /\ switches = wsince[w]) =>
            /\ where[wtx[w]] = "mined"
            /\ height[on[wtx[w]]] >= block[wtx[w]] + Required - 1]_vars

Returned(w) == wpc[w] \in {"confirmed", "failed"}

\* waitForTransactionWithStatus returns or throws, whatever becomes of the
\* transaction and of the connection.
WaitReturns ==
    \A w \in Watches : (wpc[w] = "poll" /\ wkind[w] = "wait") ~> Returned(w)

\* monitorTransaction, which has no timeout, returns once its transaction is in
\* a block that can still get enough confirmations, if the adapter is and stays
\* on the network of the transaction.
MonitorReturns ==
    \A w \in Watches :
        (/\ wpc[w] = "poll" /\ MinedOn(network, wtx[w])
         /\ switches = wsince[w] /\ link # "leaving"
         /\ block[wtx[w]] + Required - 1 <= MaxBlocks)
            ~> (Returned(w) \/ switches # wsince[w])

\* Whichever way a transaction is watched, the watch comes to an end.
WatchesReturn == WaitReturns /\ MonitorReturns

Tickets == INSTANCE NonceTickets
    WITH ticket <- [c \in Sends |-> IF given[c] THEN None ELSE nonce[c]],
         stamp <- era, era <- resets

\* Managed nonces are tickets as NonceTickets promises them.
TicketsIssued == Tickets!TicketSpec

---------------------------------------------------------------------------
(* The inductive invariant behind DistinctNonces: a nonce of the current   *)
(* era is below the cache.                                                 *)

BelowCache ==
    \A c \in Sends :
        (Taken(c) /\ era[c] = resets[Sender[c]]) =>
            nonceCache[Sender[c]] # None /\ nonce[c] < nonceCache[Sender[c]]

\* era never runs ahead, so an old nonce cannot become one of the current era.
EraPast == \A c \in Sends : Taken(c) => era[c] <= resets[Sender[c]]

\* What each program counter says of the locals of its send.
SendInv ==
    \A c \in Sends :
        /\ pc[c] = "idle" => nonce[c] = None
        /\ pc[c] = "prepare" => (given[c] <=> nonce[c] # None)
        /\ pc[c] \in {"ask", "count", "answered"} => ~given[c] /\ nonce[c] = None
        /\ pc[c] = "count" => asked[c] # None
        /\ pc[c] = "answered" => answer[c] # None
        /\ pc[c] \in {"price", "signed", "send"} => nonce[c] # None
        /\ pc[c] \in {"ask", "count", "answered", "price", "signed", "send"} => chain[c] # None

PoolInv == \A c \in Txs : where[c] = "pool" => on[c] # None /\ number[c] # None
WatchInv == \A w \in Watches : wpc[w] # "idle" => wtx[w] # None

NonceInv ==
    TypeOK /\ SendInv /\ PoolInv /\ WatchInv /\ BelowCache /\ EraPast /\ DistinctNonces
---------------------------------------------------------------------------
(* The inductive invariant behind NoncesAccounted: what the node answered  *)
(* counts waiting transactions, each of them a send's or a foreign one.    *)

\* this.provider talks to currentNetwork; while switchNetwork waits for
\* disconnect there is none.
LinkInv ==
    /\ provider \in {network, None}
    /\ link = "leaving" => provider = None /\ switches > 0

Accounted(a, k) == Handed(a, k) \/ Elsewhere(network, a, k)

\* A transaction the node has carries the nonce of its send, which is past
\* sending; a foreign one has no nonce until it is sent.
CarriedInv ==
    /\ \A c \in Sends : where[c] # "none" =>
          /\ number[c] # None /\ number[c] = nonce[c]
          /\ pc[c] \in {"accepted", "sent", "failed"}
    /\ \A f \in Foreign : where[f] = "none" => number[f] = None

AnswerInv ==
    switches = 0 =>
        \A c \in Sends :
            /\ pc[c] = "count" => asked[c] = network
            /\ pc[c] = "answered" =>
                  \A k \in count[network][Sender[c]]..(answer[c] - 1) : Accounted(Sender[c], k)

AccountInv == LinkInv /\ CarriedInv /\ AnswerInv /\ NoncesAccounted

---------------------------------------------------------------------------
(* The inductive invariant behind ConfirmedDepth: between two switches a   *)
(* watch asks one chain, on which an included transaction stays.           *)

MinedInv ==
    \A c \in Txs : where[c] \in {"mined", "reverted"} =>
        on[c] \in Networks /\ block[c] <= height[on[c]]

Watching(w) == wpc[w] \in {"poll", "tx", "receipt", "height", "sleep"}

WatchedInv ==
    \A w \in Watches :
        /\ wsince[w] <= switches
        /\ Watching(w) /\ wsince[w] = switches =>
              /\ link # "leaving"
              /\ wpc[w] \in {"tx", "receipt", "height"} => wnet[w] = network
              /\ wpc[w] = "height" /\ wblock[w] # None =>
                    MinedOn(network, wtx[w]) /\ wblock[w] = block[wtx[w]]

DepthInv == LinkInv /\ CarriedInv /\ MinedInv /\ WatchedInv
=============================================================================
