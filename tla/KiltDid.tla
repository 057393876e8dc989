------------------------------- MODULE KiltDid -------------------------------
(* KILTDIDPalletService and KILTDIDProvider over the DID pallet: every     *)
(* operation checks what it can see, then submits a transaction; other     *)
(* calls act between the two, and between the transaction and its result.  *)
(* The pallet service submits through KILTTransactionService, which tries  *)
(* again after an error: a call may have several transactions, and while   *)
(* calls of one account overlap they may carry different nonces, so that   *)
(* more than one is executed (where they wait for each other it is one:    *)
(* KiltTx, AtMostOnce).  The provider submits once and never retries.  A   *)
(* success is of a transaction in a finalized block; an error or an        *)
(* unconfirmed result means nothing.                                       *)
EXTENDS Integers, FiniteSets, Sequences, SequencesExt

CONSTANTS
    KdCalls, KdDids, KdRequests, KdIncomplete, KdAccount, KdRefused, KdTries, NoDid, NoRequest,
    KdIds,                      \* methods and services
    KdControllers, KdMetadata   \* with NoRequest, for those a caller leaves out

KdDocs == [methods : SUBSET KdIds, services : SUBSET KdIds,
           controller : KdControllers, metadata : KdMetadata]

(* The operations of executeBatchOperation; its type names "update", too,  *)
(* which the code does not know.                                           *)
KdOperations ==
    [call : {"create"}, did : KdDids, arg : KdDocs]
    \cup [call : {"addVerificationMethod", "removeVerificationMethod", "addService",
                  "removeService"}, did : KdDids, arg : KdIds]
    \cup [call : {"setController"}, did : KdDids, arg : KdControllers]
    \cup [call : {"updateMetadata"}, did : KdDids, arg : KdMetadata]
    \cup [call : {"update"}, did : KdDids, arg : {NoRequest}]

(* `did` is what a request names, and `account` the DID of the account     *)
(* that signs for the provider.  `add` is what the request lists, or what  *)
(* the document of the account has where the provider's lists nothing.     *)
KdRequest == [by : {"pallet", "batch", "provider"}, op : {"create", "delete", "update", "batch"},
            did : KdDids, account : KdDids, add : SUBSET KdIds, remove : SUBSET KdIds,
            addServices : SUBSET KdIds, removeServices : SUBSET KdIds,
            controller : KdControllers, metadata : KdMetadata, operations : Seq(KdOperations)]

ASSUME KdAssumption ==
    /\ KdTries \in Nat \ {0} /\ IsFiniteSet(KdIds)
    /\ KdAccount \in KdControllers
    /\ NoRequest \notin KdRequests /\ NoDid \notin KdDocs /\ KdRefused \notin KdDocs \cup {NoDid}
    /\ \A r \in KdRequests :
           /\ r \in KdRequest
           /\ r.op = "batch" <=> r.by = "batch"
           /\ r.by = "pallet" => r.account = r.did
           /\ r.by = "provider" => r.op \in {"create", "update"}

VARIABLES
    kdRegistry,     \* the pallet's storage
    kdAsked,        \* the request of each call
    kdPc,           \* the await each call is suspended at, or how it ended
    kdAttempt,      \* submissions it has tried
    kdTx,           \* "none", "pool", or how its latest transaction was executed
    kdOlder         \* transactions before that one which may still be executed

kdVars == <<kdRegistry, kdAsked, kdPc, kdAttempt, kdTx, kdOlder>>
-----------------------------------------------------------------------------
(* The DID pallet.                                                         *)

X(call, did, arg) == [call |-> call, did |-> did, arg |-> arg]

AddTo(doc, field, id) ==
    IF id \in doc[field] THEN KdRefused ELSE [doc EXCEPT ![field] = @ \cup {id}]
RemoveFrom(doc, field, id) ==
    IF id \in doc[field] THEN [doc EXCEPT ![field] = @ \ {id}] ELSE KdRefused

PalletCall(doc, x) ==
    IF x.call = "create" THEN IF doc = NoDid THEN x.arg ELSE KdRefused
    ELSE IF doc = NoDid THEN KdRefused
    ELSE CASE x.call = "delete" -> NoDid
           [] x.call = "addVerificationMethod" -> AddTo(doc, "methods", x.arg)
           [] x.call = "removeVerificationMethod" -> RemoveFrom(doc, "methods", x.arg)
           [] x.call = "addService" -> AddTo(doc, "services", x.arg)
           [] x.call = "removeService" -> RemoveFrom(doc, "services", x.arg)
           [] x.call = "setController" -> [doc EXCEPT !.controller = x.arg]
           [] x.call = "updateMetadata" -> [doc EXCEPT !.metadata = x.arg]

(* utility.batchAll: every call in turn, or none of them.                  *)
BatchStep(reg, x) ==
    IF reg = KdRefused THEN KdRefused
    ELSE LET doc == PalletCall(reg[x.did], x)
         IN  IF doc = KdRefused THEN KdRefused ELSE [reg EXCEPT ![x.did] = doc]

BatchRun(reg, xs) ==
    LET after[n \in 0..Len(xs)] == IF n = 0 THEN reg ELSE BatchStep(after[n - 1], xs[n])
    IN  after

BatchAll(reg, xs) == BatchRun(reg, xs)[Len(xs)]
-----------------------------------------------------------------------------
(* The extrinsics of a request.                                            *)

Each(call, did, args) == LET a == SetToSeq(args)
                         IN  [i \in 1..Len(a) |-> X(call, did, a[i])]
Given(call, did, arg) == IF arg = NoRequest THEN <<>> ELSE <<X(call, did, arg)>>

CreateExtrinsic(did, r, controller) ==
    X("create", did, [methods |-> r.add, services |-> r.addServices,
                      controller |-> controller, metadata |-> r.metadata])

(* Mutant: removals before additions.                                      *)
RemovesFirst(r) ==
    CASE r.op = "create" ->
            <<CreateExtrinsic(r.did, r, IF r.controller = NoRequest THEN KdAccount
                                        ELSE r.controller)>>
      [] r.op = "delete" -> <<X("delete", r.did, r.did)>>
      [] OTHER ->
            Each("removeVerificationMethod", r.did, r.remove)
            \o Each("addVerificationMethod", r.did, r.add)
            \o Each("removeService", r.did, r.removeServices)
            \o Each("addService", r.did, r.addServices)

(* KILTDIDPalletService: additions before removals; the single operations  *)
(* are updates with one element, deleteDID and createDID one call each.    *)
PalletExtrinsics(r) ==
    CASE r.op = "create" ->
            <<CreateExtrinsic(r.did, r, IF r.controller = NoRequest THEN KdAccount
                                        ELSE r.controller)>>
      [] r.op = "delete" -> <<X("delete", r.did, r.did)>>
      [] OTHER ->
            Each("addVerificationMethod", r.did, r.add)
            \o Each("removeVerificationMethod", r.did, r.remove)
            \o Each("addService", r.did, r.addServices)
            \o Each("removeService", r.did, r.removeServices)
            \o Given("setController", r.did, r.controller)
            \o Given("updateMetadata", r.did, r.metadata)

(* KILTDIDProvider: registerDidOnchain creates the DID of the account,     *)
(* whichever DID the request names; it submits the first extrinsic of its  *)
(* list and never the setController after it.                              *)
Registration(r) == <<CreateExtrinsic(r.account, r, KdAccount)>>
                   \o Given("setController", r.account, r.controller)

(* updateDIDDocument skips what is not complete; a removal is a call of    *)
(* its own.                                                                *)
ProviderExtrinsics(r) ==
    IF r.op = "create" THEN <<Head(Registration(r))>>
    ELSE PalletExtrinsics([r EXCEPT !.add = @ \ KdIncomplete, !.addServices = @ \ KdIncomplete])

(* executeBatchOperation: the operations as the caller lists them, on      *)
(* whatever DIDs, with no controller put in for one that is left out.      *)
BatchExtrinsics(r) == r.operations

Extrinsics(r) == CASE r.by = "provider" -> ProviderExtrinsics(r)
                   [] r.by = "batch" -> BatchExtrinsics(r)
                   [] r.by = "pallet" -> PalletExtrinsics(r)

(* The validators of the pallet service; a batch may only not be empty or  *)
(* have an operation of an unknown type.                                   *)
Valid(r) ==
    /\ r.by = "pallet" => KdIncomplete \cap (r.add \cup r.addServices) = {}
    /\ r.by = "batch" => \A i \in 1..Len(r.operations) : r.operations[i].call # "update"

(* executeBatchOperation and the provider's updates ask nothing first.     *)
AsksFirst(r) == r.by = "pallet" \/ (r.by = "provider" /\ r.op = "create")

(* KILTTransactionService tries maxRetries times more; the provider does   *)
(* not try again.                                                          *)
KdMayTry(r) == IF r.by = "provider" THEN 1 ELSE KdTries
-----------------------------------------------------------------------------
KdInit ==
    /\ kdRegistry = [d \in KdDids |-> NoDid]
    /\ kdAsked = [c \in KdCalls |-> NoRequest]
    /\ kdPc = [c \in KdCalls |-> "idle"]
    /\ kdAttempt = [c \in KdCalls |-> 0]
    /\ kdTx = [c \in KdCalls |-> "none"]
    /\ kdOlder = [c \in KdCalls |-> 0]

kdSent == <<kdAttempt, kdTx, kdOlder>>

KdGoto(c, where) == kdPc' = [kdPc EXCEPT ![c] = where]

(* A call: validation and the connection check, then the existence query   *)
(* or straight to the submission.                                          *)
KdCall(c, r) ==
    /\ kdPc[c] = "idle"
    /\ kdAsked' = [kdAsked EXCEPT ![c] = r]
    /\ \/ Valid(r) /\ KdGoto(c, IF AsksFirst(r) THEN "query" ELSE "submit")
       \/ KdGoto(c, "error")
    /\ UNCHANGED <<kdRegistry, kdSent>>

(* queryDID answers `exists: false` when it fails; the provider's didExists *)
(* throws, and a DID that is there already is a success to the provider,   *)
(* who asks of the DID the request names.                                  *)
Exists(c) == kdRegistry[kdAsked[c].did] # NoDid

QueryAnswered(c) ==
    LET r == kdAsked[c]
        Next(exists) ==
            CASE r.by = "provider" /\ exists -> "existing"
              [] r.by # "provider" /\ (r.op = "create") = exists -> "error"
              [] OTHER -> "submit"
    IN  /\ kdPc[c] = "query"
        /\ \/ KdGoto(c, Next(Exists(c)))
           \/ KdGoto(c, IF r.by = "provider" THEN "error" ELSE Next(FALSE))
        /\ UNCHANGED <<kdRegistry, kdAsked, kdSent>>

(* The attempt fails: the call tries again or ends.                        *)
EndsOrRetries(c, attempts) ==
    \/ KdGoto(c, "error")
    \/ attempts < KdMayTry(kdAsked[c]) /\ KdGoto(c, "submit")

(* The list of extrinsics is built; an empty one is an error.  The         *)
(* transaction enters the pool, or fails before it does.                   *)
KdSubmit(c) ==
    /\ kdPc[c] = "submit" /\ Extrinsics(kdAsked[c]) # <<>>
    /\ kdAttempt' = [kdAttempt EXCEPT ![c] = @ + 1]
    /\ kdOlder' = IF kdTx[c] = "pool" THEN [kdOlder EXCEPT ![c] = @ + 1] ELSE kdOlder
    /\ kdTx' = [kdTx EXCEPT ![c] = "pool"]
    /\ KdGoto(c, "wait")
    /\ UNCHANGED <<kdRegistry, kdAsked>>

SubmitFails(c) ==
    /\ kdPc[c] = "submit"
    /\ kdAttempt' = [kdAttempt EXCEPT ![c] = @ + 1]
    /\ EndsOrRetries(c, kdAttempt[c] + 1)
    /\ UNCHANGED <<kdRegistry, kdAsked, kdTx, kdOlder>>

(* A block executes a transaction of the call: its extrinsics as BatchAll  *)
(* says.                                                                   *)
KdRuns(c) ==
    LET reg == BatchAll(kdRegistry, Extrinsics(kdAsked[c]))
    IN  reg # KdRefused /\ kdRegistry' = reg

Executed(c) ==
    /\ kdTx[c] = "pool" /\ KdRuns(c)
    /\ kdTx' = [kdTx EXCEPT ![c] = "ok"]
    /\ UNCHANGED <<kdAsked, kdPc, kdAttempt, kdOlder>>

(* The same of one the call has already given up.                          *)
OlderExecuted(c) ==
    /\ kdOlder[c] > 0 /\ KdRuns(c)
    /\ kdOlder' = [kdOlder EXCEPT ![c] = @ - 1]
    /\ UNCHANGED <<kdAsked, kdPc, kdAttempt, kdTx>>

(* Or the transaction fails, as it also does for a balance or an origin    *)
(* the pallet refuses.                                                     *)
DispatchFails(c) ==
    /\ \/ kdTx[c] = "pool" /\ kdTx' = [kdTx EXCEPT ![c] = "failed"] /\ UNCHANGED kdOlder
       \/ kdOlder[c] > 0 /\ kdOlder' = [kdOlder EXCEPT ![c] = @ - 1] /\ UNCHANGED kdTx
    /\ UNCHANGED <<kdRegistry, kdAsked, kdPc, kdAttempt>>

(* The wait ends: with a success for a finalized transaction, however it   *)
(* was executed, or with an error or an unconfirmed result at any time; an *)
(* error may be tried again.                                               *)
Returned(c) ==
    /\ kdPc[c] = "wait"
    /\ \/ kdTx[c] \in {"ok", "failed"} /\ KdGoto(c, "success")
       \/ EndsOrRetries(c, kdAttempt[c])
    /\ UNCHANGED <<kdRegistry, kdAsked, kdSent>>

KdProgress(c) == QueryAnswered(c) \/ KdSubmit(c) \/ SubmitFails(c) \/ Returned(c)

KdChain(c) == Executed(c) \/ OlderExecuted(c) \/ DispatchFails(c)

KdNext == \E c \in KdCalls : \/ \E r \in KdRequests : KdCall(c, r)
                             \/ KdProgress(c) \/ KdChain(c)

KdSpec == KdInit /\ [][KdNext]_kdVars
-----------------------------------------------------------------------------
(* Each variable has its type.                                             *)
KdTypeOK ==
    /\ kdRegistry \in [KdDids -> KdDocs \cup {NoDid}]
    /\ kdAsked \in [KdCalls -> KdRequests \cup {NoRequest}]
    /\ kdPc \in [KdCalls -> {"idle", "query", "submit", "wait", "existing", "success", "error"}]
    /\ kdAttempt \in [KdCalls -> 0..KdTries] /\ kdOlder \in [KdCalls -> 0..KdTries]
    /\ kdTx \in [KdCalls -> {"none", "pool", "ok", "failed"}]

(* What every reachable state satisfies, and the refinement rests on.      *)
KdInv ==
    /\ KdTypeOK
    /\ \A c \in KdCalls :
           /\ kdPc[c] = "idle" <=> kdAsked[c] = NoRequest
           /\ kdPc[c] \in {"idle", "query"} => kdAttempt[c] = 0
           /\ kdPc[c] # "idle" => kdAttempt[c] <= KdMayTry(kdAsked[c])
           /\ kdPc[c] \in {"query", "submit", "wait"} => Valid(kdAsked[c])
           /\ kdPc[c] = "submit" => kdAttempt[c] < KdMayTry(kdAsked[c])
           /\ kdAttempt[c] = 0 => kdTx[c] = "none"
           /\ kdTx[c] # "none" => Valid(kdAsked[c]) /\ Extrinsics(kdAsked[c]) # <<>>
           /\ kdOlder[c] + (IF kdTx[c] = "none" THEN 0 ELSE 1) <= kdAttempt[c]
           /\ kdTx[c] = "none" => kdOlder[c] = 0

(* How often a call may still take effect: for each of its transactions    *)
(* that may be executed, and each it may still submit.                     *)
KdLeft ==
    [c \in KdCalls |->
        kdOlder[c] + (IF kdTx[c] = "pool" THEN 1 ELSE 0)
        + (IF kdPc[c] \in {"query", "submit", "wait"} THEN KdMayTry(kdAsked[c]) - kdAttempt[c]
           ELSE 0)]

Registry == INSTANCE DidRegistry WITH registry <- kdRegistry, request <- kdAsked,
                                      left <- KdLeft

(* Every operation takes effect wholly and as it was asked, a batch in the *)
(* order of its list, on the documents as they are when the block executes *)
(* it, whatever was seen before and whatever the caller is told, and at    *)
(* most as often as its service submits it: once by the provider, KdTries  *)
(* times by the pallet service while calls of one account overlap.         *)
ImplementsRegistry == Registry!Spec

(* KILTTypes.ts:270, "Transaction success status": a result with success   *)
(* is of a transaction that did what it was to do.                         *)
SuccessMeansExecuted == \A c \in KdCalls : kdPc[c] = "success" => kdTx[c] = "ok"
=============================================================================
