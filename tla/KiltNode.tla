------------------------------ MODULE KiltNode ------------------------------
(***************************************************************************)
(* The KILT node as the transaction service sees it through its API: the   *)
(* transaction pool, the blocks of the best chain, finality, and the       *)
(* stream of status events a submission subscribes to.  The node is not in *)
(* the repository; it is an over-approximation built from the calls the    *)
(* service makes: author.submitAndWatch (send), author.pendingExtrinsics,  *)
(* system.accountNextIndex and chain.getFinalizedHead/getBlock.            *)
(*                                                                         *)
(* A transaction is named by the call that signed it and a number: signing *)
(* the same extrinsic again yields another hash.                           *)
(***************************************************************************)
EXTENDS Integers

CONSTANTS Calls,     \* calls of the service's public operations
          Accounts,  \* signer addresses
          Signer,    \* the account each call signs with
          TxBound,   \* bound: how many transactions one call may sign
          None       \* stands for JavaScript's undefined

ASSUME NodeAssumption ==
    /\ Signer \in [Calls -> Accounts]
    /\ TxBound \in Nat \ {0}
    /\ None \notin Int

Tx == Calls \X (1..TxBound)
Owner(t) == Signer[t[1]]

VARIABLES txNonce, \* the nonce each transaction was signed with
          chain,   \* where the node holds each transaction
          index,   \* the nonce of each account in the state of the best block
          notice   \* progress of each status subscription

nodeVars == <<txNonce, chain, index, notice>>

NodeTypeOK ==
    /\ txNonce \in [Tx -> Nat \cup {None}]
    /\ chain \in [Tx -> {"none", "pool", "best", "final", "dropped"}]
    /\ index \in [Accounts -> Nat]
    /\ notice \in [Tx -> {"none", "due", "inBlock", "finalized", "lost"}]

NodeInit ==
    /\ txNonce = [t \in Tx |-> None]
    /\ chain = [t \in Tx |-> "none"]
    /\ index = [a \in Accounts |-> 0]
    /\ notice = [t \in Tx |-> "none"]

\* A transaction of account a waits in the pool with nonce n.
Pooled(a, n) == \E t \in Tx : Owner(t) = a /\ chain[t] = "pool" /\ txNonce[t] = n

\* The values system.accountNextIndex may answer (a single one in every
\* reachable state): the first nonce that neither a block nor the pool uses.
NextIndex(a) ==
    {n \in {index[a]} \cup {txNonce[t] + 1 : t \in {u \in Tx : chain[u] = "pool"}} :
        /\ n >= index[a]
        /\ ~Pooled(a, n)
        /\ \A m \in index[a]..(n - 1) : Pooled(a, m)}

\* The pool takes a transaction unless its nonce is used up ("outdated") or
\* another one waits with the same nonce ("priority is too low").
Acceptable(a, n) == n >= index[a] /\ ~Pooled(a, n)

\* A block of the best chain includes a transaction; its subscriber is due an
\* inBlock event.
Include(t) ==
    /\ chain[t] = "pool"
    /\ txNonce[t] = index[Owner(t)]
    /\ chain' = [chain EXCEPT ![t] = "best"]
    /\ index' = [index EXCEPT ![Owner(t)] = @ + 1]
    /\ notice' = [notice EXCEPT ![t] = IF @ = "none" THEN "due" ELSE @]
    /\ UNCHANGED txNonce

\* A fork wins: the newest transaction of the account goes back to the pool.
Retract(t) ==
    /\ chain[t] = "best"
    /\ index[Owner(t)] = txNonce[t] + 1
    /\ chain' = [chain EXCEPT ![t] = "pool"]
    /\ index' = [index EXCEPT ![Owner(t)] = @ - 1]
    /\ UNCHANGED <<txNonce, notice>>

\* Finality reaches the block, oldest transaction of the account first.
Finalize(t) ==
    /\ chain[t] = "best"
    /\ \A u \in Tx : Owner(u) = Owner(t) /\ chain[u] = "best" => txNonce[t] <= txNonce[u]
    /\ chain' = [chain EXCEPT ![t] = "final"]
    /\ UNCHANGED <<txNonce, index, notice>>

\* The pool evicts a transaction: it is full, or the transaction's era ended.
Drop(t) ==
    /\ chain[t] = "pool"
    /\ chain' = [chain EXCEPT ![t] = "dropped"]
    /\ UNCHANGED <<txNonce, index, notice>>

NodeStep(t) == Include(t) \/ Retract(t) \/ Finalize(t) \/ Drop(t)
=============================================================================
