---------------------------- MODULE MoonbeamChain ---------------------------
(***************************************************************************)
(* The EVM chains (Moonbeam, Moonriver, Moonbase Alpha) as MoonbeamAdapter *)
(* sees them through an ethers JsonRpcProvider: the mempool, the blocks,   *)
(* the transaction count of an account and the receipts.  The nodes are    *)
(* not in the repository; this over-approximates what the adapter asks of  *)
(* them.  A send signs at most one transaction, so the send names it; the  *)
(* account's foreign transactions are those that others send with its key: *)
(* the contracts of MoonbeamDIDService and SBTContract, whose signer asks  *)
(* the node for a nonce of its own, and the user's wallet.                 *)
(* Reorganisations are left out: the adapter has no code about them.       *)
(***************************************************************************)
EXTENDS Integers

CONSTANTS Networks, Sends, Accounts,
          Foreign,       \* transactions of the accounts that no send makes
          ForeignNonces, \* the nonces they may carry
          Sender,    \* the account that signs each send or foreign transaction
          MaxBlocks, \* bound: the height of a chain
          MaxCount,  \* bound: transactions an account has sent beforehand
          None       \* stands for JavaScript's undefined and null

Txs == Sends \cup Foreign

ASSUME ChainAssumption ==
    /\ Sends \cap Foreign = {} /\ ForeignNonces \subseteq Nat
    /\ Sender \in [Txs -> Accounts]
    /\ MaxBlocks \in Nat \ {0}
    /\ MaxCount \in Nat
    /\ None \notin Int /\ None \notin Txs /\ None \notin Networks

VARIABLES height, \* the block number of each chain
          count,  \* transactions of each account in the blocks of each chain
          where,  \* where each transaction is
          on,     \* the chain it was sent to
          number, \* the nonce it carries
          block   \* the block that includes it

chainVars == <<height, count, where, on, number, block>>

ChainTypeOK ==
    /\ height \in [Networks -> 0..MaxBlocks]
    /\ count \in [Networks -> [Accounts -> Nat]]
    /\ where \in [Txs -> {"none", "pool", "mined", "reverted", "dropped"}]
    /\ on \in [Txs -> Networks \cup {None}]
    /\ number \in [Txs -> Nat \cup {None}]
    /\ block \in [Txs -> 0..MaxBlocks]

ChainInit ==
    /\ height \in [Networks -> {0, 1}]
    /\ count \in [Networks -> [Accounts -> 0..MaxCount]]
    /\ where = [c \in Txs |-> "none"]
    /\ on = [c \in Txs |-> None]
    /\ number = [c \in Txs |-> None]
    /\ block = [c \in Txs |-> 0]

\* The transactions of account a that wait on chain n with nonce k.
Waiting(n, a, k) ==
    {c \in Txs : where[c] = "pool" /\ on[c] = n /\ Sender[c] = a /\ number[c] = k}

\* eth_getTransactionCount(a, "pending"): the first nonce that neither a block
\* nor an unbroken run of waiting transactions uses.
PendingCounts(n, a) ==
    {k \in {count[n][a]} \cup {number[c] + 1 : c \in {d \in Txs : where[d] = "pool"}} :
        /\ k >= count[n][a]
        /\ Waiting(n, a, k) = {}
        /\ \A j \in count[n][a]..(k - 1) : Waiting(n, a, j) # {}}

\* A node takes a transaction whose nonce is not used up; one that waits with
\* the same nonce is replaced (a node may as well refuse: see SendFails).
Accept(c, n, k) ==
    /\ k >= count[n][Sender[c]]
    /\ where' = [d \in Txs |-> IF d = c THEN "pool"
                                 ELSE IF d \in Waiting(n, Sender[c], k) THEN "dropped"
                                 ELSE where[d]]
    /\ on' = [on EXCEPT ![c] = n]
    /\ number' = [number EXCEPT ![c] = k]
    /\ UNCHANGED <<height, count, block>>

\* Others, too, send past the adapter, with a nonce the node takes.
ForeignSent(f) ==
    /\ where[f] = "none"
    /\ \E n \in Networks, k \in ForeignNonces : Accept(f, n, k)

EmptyBlock(n) ==
    /\ height[n] < MaxBlocks
    /\ height' = [height EXCEPT ![n] = @ + 1]
    /\ UNCHANGED <<count, where, on, number, block>>

Mine(c) ==
    /\ where[c] = "pool"
    /\ number[c] = count[on[c]][Sender[c]]
    /\ height[on[c]] < MaxBlocks
    /\ \E outcome \in {"mined", "reverted"} : where' = [where EXCEPT ![c] = outcome]
    /\ height' = [height EXCEPT ![on[c]] = @ + 1]
    /\ block' = [block EXCEPT ![c] = height[on[c]] + 1]
    /\ count' = [count EXCEPT ![on[c]][Sender[c]] = @ + 1]
    /\ UNCHANGED <<on, number>>

Drop(c) ==
    /\ where[c] = "pool"
    /\ where' = [where EXCEPT ![c] = "dropped"]
    /\ UNCHANGED <<height, count, on, number, block>>

ChainStep ==
    \/ \E n \in Networks : EmptyBlock(n)
    \/ \E c \in Txs : Mine(c) \/ Drop(c)
    \/ \E f \in Foreign : ForeignSent(f)
=============================================================================
