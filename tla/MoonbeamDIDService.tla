------------------------- MODULE MoonbeamDIDService -------------------------
(* MoonbeamDIDProvider and MoonbeamDIDService over the contract: each call  *)
(* estimates its gas, submits with it and waits 30 seconds for a receipt.   *)
(* The signer's transactions execute in their order, at any later time;     *)
(* other accounts call the contract meanwhile. The service asks its adapter *)
(* for getSigner, which MoonbeamAdapter does not have: the signer is the one*)
(* the service is meant to be given.                                        *)
EXTENDS MoonbeamDID

CONSTANTS
    DidCalls,       \* calls of the provider
    DidSigner,      \* the account that signs
    DidOps,         \* operations the calls choose from
    MaxOutside      \* bound: calls of the contract by others

VARIABLES
    dsOp,           \* what each call does: <<"none">> before it starts
    dsPc,           \* where it is or how it ended
    dsTx,           \* its transaction: "none", "queued", "success", "reverted"
    dsQueue,        \* the signer's transactions that wait for a block
    dsOutside       \* calls of others so far
dsVars == <<mdVars, dsOp, dsPc, dsTx, dsQueue, dsOutside>>

AllDidOps == {<<"register">>, <<"update">>, <<"deactivate">>}
             \cup {<<verb, k, i>> : verb \in {"add", "remove"}, k \in EntryKinds,
                                    i \in {i \in Ids : Uses(DidSigner, i)}}

ASSUME DidServiceAssumption ==
    DidSigner \in DidAccounts /\ DidOps \subseteq AllDidOps /\ MaxOutside \in Nat

DsInit ==
    /\ MdInit
    /\ dsOp = [c \in DidCalls |-> <<"none">>]
    /\ dsPc = [c \in DidCalls |-> "idle"]
    /\ dsTx = [c \in DidCalls |-> "none"]
    /\ dsQueue = <<>> /\ dsOutside = 0

(* The contract's call of an operation.                                    *)
Effect(op) ==
    CASE op[1] = "register" -> registerDID(DidSigner)
      [] op[1] = "update" -> updateDID(DidSigner)
      [] op[1] = "deactivate" -> deactivateDID(DidSigner)
      [] op[1] = "add" -> AddEntry(op[2], DidSigner, op[3])
      [] op[1] = "remove" -> RemoveEntry(op[2], DidSigner, op[3])

(* Whether the contract would accept it now.                               *)
Accepted(op) ==
    CASE op[1] = "register" -> mdStatus[DidSigner] = "none"
      [] op[1] \in {"update", "deactivate"} -> OwnsActive(DidSigner)
      [] op[1] = "add" -> OwnsActive(DidSigner) /\ ~mdActive[op[2]][op[3]]
      [] op[1] = "remove" -> OwnsActive(DidSigner) /\ mdActive[op[2]][op[3]]

DsGoes(c, pc) == dsPc' = [dsPc EXCEPT ![c] = pc]

(* createDID asks first whether the address has a DID; the other calls go  *)
(* straight to the estimate.                                               *)
CallBegins(c, op) ==
    /\ dsPc[c] = "idle"
    /\ dsOp' = [dsOp EXCEPT ![c] = op]
    /\ IF op[1] = "register" /\ mdStatus[DidSigner] # "none"
       THEN DsGoes(c, "failed") ELSE DsGoes(c, "checked")
    /\ UNCHANGED <<mdVars, dsTx, dsQueue, dsOutside>>

(* The estimate runs the call on the state of now.                         *)
Estimate(c) ==
    /\ dsPc[c] = "checked"
    /\ Accepted(dsOp[c]) /\ DsGoes(c, "estimated")
    /\ UNCHANGED <<mdVars, dsOp, dsTx, dsQueue, dsOutside>>

(* The estimate reverts, a request fails, or the wallet refuses to sign.   *)
CallFails(c) ==
    /\ dsPc[c] \in {"checked", "estimated"}
    /\ DsGoes(c, "failed")
    /\ UNCHANGED <<mdVars, dsOp, dsTx, dsQueue, dsOutside>>

Submit(c) ==
    /\ dsPc[c] = "estimated"
    /\ DsGoes(c, "monitoring")
    /\ dsTx' = [dsTx EXCEPT ![c] = "queued"]
    /\ dsQueue' = Append(dsQueue, c)
    /\ UNCHANGED <<mdVars, dsOp, dsOutside>>

(* A block takes the signer's next transaction.  It reverts when the       *)
(* contract refuses it, or when the state has changed since the estimate   *)
(* and the gas does not suffice.                                           *)
MineNext ==
    /\ dsQueue # <<>>
    /\ LET c == Head(dsQueue) IN
        \/ /\ Effect(dsOp[c])
           /\ dsTx' = [dsTx EXCEPT ![c] = "success"]
        \/ /\ dsTx' = [dsTx EXCEPT ![c] = "reverted"]
           /\ UNCHANGED mdVars
    /\ dsQueue' = Tail(dsQueue)
    /\ UNCHANGED <<dsOp, dsPc, dsOutside>>

(* monitorTransaction: a receipt, or after 30 seconds or on an error none. *)
(* registerDID then asks for the receipt again to read its event.          *)
Receipt(c) ==
    /\ dsPc[c] = "monitoring" /\ dsTx[c] \in {"success", "reverted"}
    /\ DsGoes(c, IF dsTx[c] = "reverted" THEN "failed"
                 ELSE IF dsOp[c][1] = "register" THEN "reading" ELSE "ok")
    /\ UNCHANGED <<mdVars, dsOp, dsTx, dsQueue, dsOutside>>

(* Mutant: a wait that timed out counts as done.                           *)
NoReceiptIsOk(c) ==
    /\ dsPc[c] = "monitoring"
    /\ DsGoes(c, "ok")
    /\ UNCHANGED <<mdVars, dsOp, dsTx, dsQueue, dsOutside>>

NoReceipt(c) ==
    /\ dsPc[c] = "monitoring"
    /\ DsGoes(c, "failed")
    /\ UNCHANGED <<mdVars, dsOp, dsTx, dsQueue, dsOutside>>

EventRead(c) ==
    /\ dsPc[c] = "reading"
    /\ DsGoes(c, "ok") \/ DsGoes(c, "failed")
    /\ UNCHANGED <<mdVars, dsOp, dsTx, dsQueue, dsOutside>>

Outside ==
    /\ dsOutside < MaxOutside /\ dsOutside' = dsOutside + 1
    /\ \E a \in DidAccounts : MdBounded(a) /\ ContractCall(a)
    /\ UNCHANGED <<dsOp, dsPc, dsTx, dsQueue>>

DsBegin(c) == MdBounded(DidSigner) /\ \E op \in DidOps : CallBegins(c, op)
DsProgress(c) == Estimate(c) \/ CallFails(c) \/ Submit(c) \/ Receipt(c) \/ NoReceipt(c)
                 \/ EventRead(c)
DsNext == (\E c \in DidCalls : DsBegin(c) \/ DsProgress(c)) \/ MineNext \/ Outside

(* Requests are answered or fail, and the wait for a receipt has a timeout;*)
(* no block need ever take a transaction.                                  *)
DsFairness == \A c \in DidCalls : WF_dsVars(DsProgress(c))
DsSpec == DsInit /\ [][DsNext]_dsVars
DsFairSpec == DsSpec /\ DsFairness
-----------------------------------------------------------------------------
(* Of the calls of createDID at most one succeeds, although all of them    *)
(* may pass the check, the estimate and the submission.                    *)
OneCreateSucceeds ==
    \A c, d \in DidCalls :
        dsOp[c][1] = "register" /\ dsOp[d][1] = "register"
        /\ dsPc[c] = "ok" /\ dsPc[d] = "ok" => c = d

(* A call that reports success was executed, and the DID it reports to have*)
(* created exists, however late its transaction was mined; one that reports*)
(* failure may have been executed or be executed later.                    *)
OkMeansExecuted ==
    \A c \in DidCalls :
        /\ dsPc[c] \in {"ok", "reading"} => dsTx[c] = "success"
        /\ dsPc[c] = "ok" /\ dsOp[c][1] = "register" => mdStatus[DidSigner] # "none"

(* Every call ends, although its transaction may never be taken.           *)
DidCallEnds == <>[](\A c \in DidCalls : dsPc[c] \in {"idle", "ok", "failed"})
=============================================================================
