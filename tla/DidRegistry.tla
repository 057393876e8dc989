---------------------------- MODULE DidRegistry ----------------------------
(* What the KILT DID operations promise: a request takes effect wholly, on *)
(* the documents as they are at that moment, and no more often than its    *)
(* service submits it: the provider once, the pallet service KdTries times *)
(* (once where calls of one account wait for each other: KiltTx).  A       *)
(* request that was refused has no effect.                                 *)
EXTENDS Integers, Sequences

CONSTANTS
    KdCalls,        \* calls of the services
    KdDids,         \* the DIDs they are about
    KdRequests,     \* the requests callers make
    KdIncomplete,   \* methods and services without all their fields
    KdAccount,      \* the controller of a DID whose request names none
    KdTries,        \* submissions of one call of the pallet service
    NoDid, NoRequest

VARIABLES
    registry, request,
    left            \* how often each call's request may still take effect

(* The fields of a request that add or remove are sets of identifiers;     *)
(* NoRequest in `controller` or `metadata` leaves that field alone.        *)
Or(new, old) == IF new = NoRequest THEN old ELSE new

(* The provider sets no controller for a DID it registers.                 *)
NewDocument(r) ==
    [methods |-> r.add, services |-> r.addServices,
     controller |-> IF r.by = "provider" THEN KdAccount ELSE Or(r.controller, KdAccount),
     metadata |-> r.metadata]

(* It also leaves out of an update what is not complete.                   *)
Adds(r, ids) == IF r.by = "provider" THEN ids \ KdIncomplete ELSE ids

Updated(doc, r) ==
    [methods |-> (doc.methods \cup Adds(r, r.add)) \ r.remove,
     services |-> (doc.services \cup Adds(r, r.addServices)) \ r.removeServices,
     controller |-> Or(r.controller, doc.controller),
     metadata |-> Or(r.metadata, doc.metadata)]

(* What is added is new, what is removed is there or just added.           *)
Fits(doc, r) ==
    /\ doc.methods \cap Adds(r, r.add) = {}
    /\ doc.services \cap Adds(r, r.addServices) = {}
    /\ r.remove \subseteq doc.methods \cup Adds(r, r.add)
    /\ r.removeServices \subseteq doc.services \cup Adds(r, r.addServices)

(* One operation of a batch: what it needs of its document, and what it    *)
(* makes of it.  A document it creates is as the operation has it.         *)
Allowed(doc, o) ==
    /\ doc = NoDid <=> o.call = "create"
    /\ o.call = "addVerificationMethod" => o.arg \notin doc.methods
    /\ o.call = "removeVerificationMethod" => o.arg \in doc.methods
    /\ o.call = "addService" => o.arg \notin doc.services
    /\ o.call = "removeService" => o.arg \in doc.services

Done(doc, o) ==
    CASE o.call = "create" -> o.arg
      [] o.call = "addVerificationMethod" -> [doc EXCEPT !.methods = @ \cup {o.arg}]
      [] o.call = "removeVerificationMethod" -> [doc EXCEPT !.methods = @ \ {o.arg}]
      [] o.call = "addService" -> [doc EXCEPT !.services = @ \cup {o.arg}]
      [] o.call = "removeService" -> [doc EXCEPT !.services = @ \ {o.arg}]
      [] o.call = "setController" -> [doc EXCEPT !.controller = o.arg]
      [] OTHER -> [doc EXCEPT !.metadata = o.arg]

(* The registry after each operation of a list, in the order of the list.  *)
InTurn(reg, os) ==
    LET after[n \in 0..Len(os)] ==
            IF n = 0 THEN reg
            ELSE LET did == os[n].did
                 IN  [after[n - 1] EXCEPT ![did] = Done(after[n - 1][did], os[n])]
    IN  after

(* A request turns one registry into the other.                            *)
Takes(reg, r, new) ==
    LET Becomes(did, doc) == new = [reg EXCEPT ![did] = doc]
        after == InTurn(reg, r.operations)
        os == r.operations
    IN  CASE r.op = "create" -> reg[r.account] = NoDid /\ Becomes(r.account, NewDocument(r))
          [] r.op = "delete" -> reg[r.did] # NoDid /\ Becomes(r.did, NoDid)
          [] r.op = "update" -> /\ reg[r.did] # NoDid /\ Fits(reg[r.did], r)
                                /\ Becomes(r.did, Updated(reg[r.did], r))
          [] r.op = "batch" -> /\ \A n \in 1..Len(os) : Allowed(after[n - 1][os[n].did], os[n])
                               /\ new = after[Len(os)]

Times(r) == IF r.by = "provider" THEN 1 ELSE KdTries
-----------------------------------------------------------------------------
Init ==
    /\ registry = [d \in KdDids |-> NoDid]
    /\ request = [c \in KdCalls |-> NoRequest]
    /\ left = [c \in KdCalls |-> 0]

Ask(c) ==
    /\ request[c] = NoRequest
    /\ \E r \in KdRequests, n \in 0..KdTries :
           /\ n <= Times(r)
           /\ request' = [request EXCEPT ![c] = r]
           /\ left' = [left EXCEPT ![c] = n]
    /\ UNCHANGED registry

Take(c) ==
    /\ left[c] > 0 /\ Takes(registry, request[c], registry')
    /\ left' = [left EXCEPT ![c] = @ - 1]
    /\ UNCHANGED request

Refuse(c) ==
    /\ \E n \in 0..(left[c] - 1) : left' = [left EXCEPT ![c] = n]
    /\ UNCHANGED <<registry, request>>

Next == \E c \in KdCalls : Ask(c) \/ Take(c) \/ Refuse(c)

Spec == Init /\ [][Next]_<<registry, request, left>>
=============================================================================
