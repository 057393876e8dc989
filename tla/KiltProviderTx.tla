--------------------------- MODULE KiltProviderTx ---------------------------
(***************************************************************************)
(* KILTDIDProvider.submitTransaction, which updates of a DID go through    *)
(* (updateDIDDocument and the removals): the provider asks the node for a  *)
(* nonce, signs and sends beside the KILT transaction service, and looks   *)
(* for the transaction itself, first in the pool and then in the last      *)
(* finalized blocks.  A call sends one transaction.                        *)
(***************************************************************************)
EXTENDS KiltNode

CONSTANT SearchDepth  \* maxSearchDepth, 10 blocks

ASSUME ProviderAssumption == SearchDepth \in Nat \ {0}

VARIABLES pvPc,     \* where each call is suspended
          pvNonce,  \* the local variable nonce
          pvTimer,  \* timeouts of waitForConfirmation that are armed
          pvDepth,  \* finalized blocks on top of a finalized transaction
          pvResult  \* how each call ended

pvCall == <<pvPc, pvNonce, pvTimer, pvResult>>
pvVars == <<nodeVars, pvCall, pvDepth>>

PvPoints == {"idle", "nonce", "send", "track", "gone", "found", "fee", "done"}
Tracking(c) == pvPc[c] \in {"track", "gone", "found"}
Sent(c) == <<c, 1>>

PvTypeOK ==
    /\ NodeTypeOK
    /\ pvPc \in [Calls -> PvPoints]
    /\ pvNonce \in [Calls -> Nat \cup {None}]
    /\ pvTimer \subseteq Calls
    /\ pvDepth \in [Calls -> 0..SearchDepth]
    /\ pvResult \in [Calls -> {"none", "success", "error", "dropped", "timeout"}]

PvInit ==
    /\ NodeInit
    /\ pvPc = [c \in Calls |-> "idle"]
    /\ pvNonce = [c \in Calls |-> None]
    /\ pvTimer = {}
    /\ pvDepth = [c \in Calls |-> 0]
    /\ pvResult = [c \in Calls |-> "none"]

PvGoto(c, where) == pvPc' = [pvPc EXCEPT ![c] = where]
Ends(c, how) == PvGoto(c, "done") /\ pvResult' = [pvResult EXCEPT ![c] = how]
-----------------------------------------------------------------------------
(* Up to the pool.                                                         *)

Update(c) ==
    /\ pvPc[c] = "idle"
    /\ PvGoto(c, "nonce")
    /\ UNCHANGED <<nodeVars, pvNonce, pvTimer, pvDepth, pvResult>>

(* The answer to accountNextIndex is used after the fee is estimated and   *)
(* the wallet has signed.                                                  *)
NonceAnswered(c) ==
    /\ pvPc[c] = "nonce"
    /\ \E n \in NextIndex(Signer[c]) : pvNonce' = [pvNonce EXCEPT ![c] = n]
    /\ PvGoto(c, "send")
    /\ UNCHANGED <<nodeVars, pvTimer, pvDepth, pvResult>>

(* The node cannot be asked, or the user does not sign.                    *)
NotSent(c) ==
    /\ pvPc[c] \in {"nonce", "send"}
    /\ Ends(c, "error")
    /\ UNCHANGED <<nodeVars, pvNonce, pvTimer, pvDepth>>

(* The pool takes the transaction, and the wait begins; unless the answer  *)
(* is lost, or the connection is when the wait begins.                     *)
PvSent(c) ==
    /\ pvPc[c] = "send"
    /\ Acceptable(Signer[c], pvNonce[c])
    /\ txNonce' = [txNonce EXCEPT ![Sent(c)] = pvNonce[c]]
    /\ chain' = [chain EXCEPT ![Sent(c)] = "pool"]
    /\ \/ PvGoto(c, "track") /\ pvTimer' = pvTimer \cup {c} /\ UNCHANGED pvResult
       \/ Ends(c, "error") /\ UNCHANGED pvTimer
    /\ UNCHANGED <<index, notice, pvNonce, pvDepth>>
-----------------------------------------------------------------------------
(* waitForConfirmation: trackTransaction, every two seconds.               *)

(* Not in the pool any more.                                               *)
PoolRead(c) ==
    /\ pvPc[c] = "track" /\ chain[Sent(c)] # "pool"
    /\ PvGoto(c, "gone")
    /\ UNCHANGED <<nodeVars, pvNonce, pvTimer, pvDepth, pvResult>>

(* The finalized head is read, and with it the blocks to be searched are   *)
(* settled.                                                                *)
InRecentBlocks(c) == chain[Sent(c)] = "final" /\ pvDepth[c] < SearchDepth

(* Mutant: the timeout is cleared before the search is over.               *)
HeadReadUntimed(c) ==
    /\ pvPc[c] = "gone"
    /\ pvTimer' = pvTimer \ {c}
    /\ IF InRecentBlocks(c)
       THEN PvGoto(c, "found") /\ UNCHANGED pvResult
       ELSE Ends(c, "dropped")
    /\ UNCHANGED <<nodeVars, pvNonce, pvDepth>>

HeadRead(c) ==
    /\ pvPc[c] = "gone"
    /\ IF InRecentBlocks(c)
       THEN PvGoto(c, "found") /\ UNCHANGED <<pvTimer, pvResult>>
       ELSE Ends(c, "dropped") /\ pvTimer' = pvTimer \ {c}
    /\ UNCHANGED <<nodeVars, pvNonce, pvDepth>>

(* The number of the block is read as well.                                *)
Confirmed(c) ==
    /\ pvPc[c] = "found"
    /\ PvGoto(c, "fee") /\ pvTimer' = pvTimer \ {c}
    /\ UNCHANGED <<nodeVars, pvNonce, pvDepth, pvResult>>

(* A request that fails starts the tracking over.                          *)
TrackFails(c) ==
    /\ pvPc[c] \in {"gone", "found"}
    /\ PvGoto(c, "track")
    /\ UNCHANGED <<nodeVars, pvNonce, pvTimer, pvDepth, pvResult>>

WaitTimesOut(c) ==
    /\ Tracking(c) /\ c \in pvTimer
    /\ Ends(c, "timeout") /\ pvTimer' = pvTimer \ {c}
    /\ UNCHANGED <<nodeVars, pvNonce, pvDepth>>

(* Events and fee: their errors are caught.                                *)
FeeRead(c) ==
    /\ pvPc[c] = "fee"
    /\ Ends(c, "success")
    /\ UNCHANGED <<nodeVars, pvNonce, pvTimer, pvDepth>>
-----------------------------------------------------------------------------
(* The node; another block is finalized on top.                            *)
Buried(c) ==
    /\ chain[Sent(c)] = "final" /\ pvDepth[c] < SearchDepth
    /\ pvDepth' = [pvDepth EXCEPT ![c] = @ + 1]
    /\ UNCHANGED <<nodeVars, pvCall>>

NodeMoves(c) == NodeStep(Sent(c)) /\ UNCHANGED <<pvCall, pvDepth>>

PvProgress(c) ==
    \/ NonceAnswered(c) \/ NotSent(c) \/ PvSent(c) \/ PoolRead(c) \/ HeadRead(c)
    \/ Confirmed(c) \/ TrackFails(c) \/ FeeRead(c)

PvNext == \E c \in Calls : Update(c) \/ PvProgress(c) \/ WaitTimesOut(c)
                           \/ NodeMoves(c) \/ Buried(c)
PvSpec == PvInit /\ [][PvNext]_pvVars

(* Fairness: the node answers or the connection fails, the user signs or   *)
(* does not, and an armed timeout goes off.  Nothing is assumed of blocks. *)
PvFairness ==
    \A c \in Calls : WF_pvVars(PvProgress(c)) /\ WF_pvVars(WaitTimesOut(c))
-----------------------------------------------------------------------------
(* Every update ends, one whose transaction stays in the pool for ever and *)
(* one whose node fails each time included.                                *)
UpdatesEnd == <>[](\A c \in Calls : pvPc[c] \in {"idle", "done"})

(* What is reported "not found in recent blocks. It may have been dropped" *)
(* (KILTDIDProvider.ts:846) is in no block.  The code looks at finalized   *)
(* blocks only, and a transaction leaves the pool when a block includes it.*)
DroppedIsInNoBlock ==
    [][\A c \in Calls : pvResult[c] = "none" /\ pvResult'[c] = "dropped"
                          => chain[Sent(c)] = "dropped"]_pvVars
=============================================================================
