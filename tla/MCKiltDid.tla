------------------------------ MODULE MCKiltDid ------------------------------
(* Requests of KiltDid for TLC: they overlap in methods and services, one  *)
(* adds and removes the same method, two name what is not complete, one is *)
(* left with nothing to do once that is dropped, one asks about one DID    *)
(* and creates another, and batches add and remove in either order, over   *)
(* two DIDs, and with an operation the code does not know.                 *)
EXTENDS KiltDid

CONSTANTS q1, q2, q3, d1, d2, v1, v2, s1, x1, k1, k2

Ask(by, op) ==
    [by |-> by, op |-> op, did |-> d1, account |-> d1, add |-> {}, remove |-> {},
     addServices |-> {}, removeServices |-> {}, controller |-> NoRequest,
     metadata |-> NoRequest, operations |-> <<>>]

Batch(operations) == [Ask("batch", "batch") EXCEPT !.operations = operations]

BareDoc == [methods |-> {v1}, services |-> {}, controller |-> NoRequest, metadata |-> NoRequest]

SomeRequests ==
    {[Ask("pallet", "create") EXCEPT !.add = {v1}],
     [Ask("provider", "create") EXCEPT !.did = d2, !.controller = k1, !.addServices = {s1}],
     Ask("pallet", "delete"),
     [Ask("pallet", "update") EXCEPT !.add = {v1, v2}, !.remove = {v1}, !.controller = k2],
     [Ask("pallet", "update") EXCEPT !.addServices = {x1}],
     [Ask("provider", "update") EXCEPT !.add = {v2}, !.addServices = {s1, x1}],
     [Ask("provider", "update") EXCEPT !.add = {x1}],
     Batch(<<X("create", d2, BareDoc), X("addVerificationMethod", d1, v2),
             X("removeVerificationMethod", d1, v2)>>),
     Batch(<<X("removeVerificationMethod", d1, v1), X("addVerificationMethod", d1, v1),
             X("updateMetadata", d2, k1)>>),
     Batch(<<X("setController", d1, k1), X("update", d1, NoRequest)>>)}
=============================================================================
