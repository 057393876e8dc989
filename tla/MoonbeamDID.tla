---------------------------- MODULE MoonbeamDID ----------------------------
(* MoonbeamDIDContract.sol: one DID per address, its verification methods   *)
(* and service endpoints.  Identifiers of methods (and of endpoints) live   *)
(* in one mapping for all DIDs; each document lists its own.  A call that   *)
(* a require rejects changes nothing and is no step.                        *)
EXTENDS Integers, Sequences, FiniteSets, SequencesExt

CONSTANTS
    DidAccounts,
    Ids,            \* identifiers of methods and endpoints
    PrivateTo,      \* the one account that uses an identifier, or NoOwner
    MaxUpdates,     \* bound: calls of updateDID and additions per document
    NoOwner

ASSUME DidAssumption ==
    /\ NoOwner \notin DidAccounts
    /\ PrivateTo \in [Ids -> DidAccounts \cup {NoOwner}]
    /\ MaxUpdates \in Nat /\ IsFiniteSet(DidAccounts)

EntryKinds == {"method", "endpoint"}

VARIABLES
    mdStatus,       \* the DID of each address: "none", "active", "inactive"
    mdUpdates,      \* updates of its document (updatedAt)
    mdList,         \* its verificationMethods and serviceEndpoints
    mdActive,       \* `active` of each identifier in the two mappings
    mdBy,           \* the account that added it last (controller)
    mdCount         \* _didCounter
mdVars == <<mdStatus, mdUpdates, mdList, mdActive, mdBy, mdCount>>

MdInit ==
    /\ mdStatus = [a \in DidAccounts |-> "none"]
    /\ mdUpdates = [a \in DidAccounts |-> 0]
    /\ mdList = [k \in EntryKinds |-> [a \in DidAccounts |-> <<>>]]
    /\ mdActive = [k \in EntryKinds |-> [i \in Ids |-> FALSE]]
    /\ mdBy = [k \in EntryKinds |-> [i \in Ids |-> NoOwner]]
    /\ mdCount = 0

(* Mutant: without onlyActiveDID.                                          *)
OwnsDID(a) == mdStatus[a] # "none"

(* onlyDIDOwner and onlyActiveDID: an owner acts on the DID of its address *)
OwnsActive(a) == mdStatus[a] = "active"
Uses(a, i) == PrivateTo[i] \in {a, NoOwner}

(* Mutant: the last entry is dropped and not moved.                        *)
PopLast(list, i) == IF i \in Range(list) THEN SubSeq(list, 1, Len(list) - 1) ELSE list

(* The entry is overwritten by the last one, and the last one dropped; an  *)
(* identifier that the document does not list leaves it as it is.          *)
SwapRemove(list, i) ==
    IF i \notin Range(list) THEN list
    ELSE LET at == CHOOSE n \in 1..Len(list) :
                      list[n] = i /\ \A m \in 1..(n - 1) : list[m] # i
         IN  SubSeq([list EXCEPT ![at] = list[Len(list)]], 1, Len(list) - 1)

(* Mutant: an address whose DID is inactive may register again.            *)
registerInactive(a) ==
    /\ mdStatus[a] # "active"
    /\ mdStatus' = [mdStatus EXCEPT ![a] = "active"]
    /\ mdCount' = mdCount + 1
    /\ UNCHANGED <<mdUpdates, mdList, mdActive, mdBy>>

registerDID(a) ==
    /\ mdStatus[a] = "none"
    /\ mdStatus' = [mdStatus EXCEPT ![a] = "active"]
    /\ mdCount' = mdCount + 1
    /\ UNCHANGED <<mdUpdates, mdList, mdActive, mdBy>>

updateDID(a) ==
    /\ OwnsActive(a)
    /\ mdUpdates' = [mdUpdates EXCEPT ![a] = @ + 1]
    /\ UNCHANGED <<mdStatus, mdList, mdActive, mdBy, mdCount>>

AddEntry(k, a, i) ==
    /\ OwnsActive(a) /\ ~mdActive[k][i]
    /\ mdActive' = [mdActive EXCEPT ![k][i] = TRUE]
    /\ mdBy' = [mdBy EXCEPT ![k][i] = a]
    /\ mdList' = [mdList EXCEPT ![k][a] = Append(@, i)]
    /\ UNCHANGED <<mdStatus, mdUpdates, mdCount>>

RemoveEntry(k, a, i) ==
    /\ OwnsActive(a) /\ mdActive[k][i]
    /\ mdActive' = [mdActive EXCEPT ![k][i] = FALSE]
    /\ mdList' = [mdList EXCEPT ![k][a] = SwapRemove(@, i)]
    /\ UNCHANGED <<mdStatus, mdUpdates, mdBy, mdCount>>

addVerificationMethod(a, i) == AddEntry("method", a, i)
removeVerificationMethod(a, i) == RemoveEntry("method", a, i)
addServiceEndpoint(a, i) == AddEntry("endpoint", a, i)
removeServiceEndpoint(a, i) == RemoveEntry("endpoint", a, i)

deactivateDID(a) ==
    /\ OwnsActive(a)
    /\ mdStatus' = [mdStatus EXCEPT ![a] = "inactive"]
    /\ mdUpdates' = [mdUpdates EXCEPT ![a] = @ + 1]
    /\ UNCHANGED <<mdList, mdActive, mdBy, mdCount>>

(* A call of the contract by account a, with identifiers that are its own. *)
EntryCall(a) ==
    \E i \in Ids :
        /\ Uses(a, i)
        /\ \/ addVerificationMethod(a, i) \/ removeVerificationMethod(a, i)
           \/ addServiceEndpoint(a, i) \/ removeServiceEndpoint(a, i)
ContractCall(a) == registerDID(a) \/ updateDID(a) \/ EntryCall(a) \/ deactivateDID(a)

MdBounded(a) == mdUpdates[a] < MaxUpdates /\ \A k \in EntryKinds : Len(mdList[k][a]) < MaxUpdates
MdNext == \E a \in DidAccounts : MdBounded(a) /\ ContractCall(a)
MdSpec == MdInit /\ [][MdNext]_mdVars
-----------------------------------------------------------------------------
(* Each variable has its type.                                             *)
MdTypeOK ==
    /\ mdStatus \in [DidAccounts -> {"none", "active", "inactive"}]
    /\ mdUpdates \in [DidAccounts -> Nat]
    /\ mdList \in [EntryKinds -> [DidAccounts -> Seq(Ids)]]
    /\ mdActive \in [EntryKinds -> [Ids -> BOOLEAN]]
    /\ mdBy \in [EntryKinds -> [Ids -> DidAccounts \cup {NoOwner}]]
    /\ mdCount \in Nat

Listed(k, a, i) == \E n \in DOMAIN mdList[k][a] : mdList[k][a][n] = i

(* An identifier that is active is in the document of the DID that added   *)
(* it, though every owner may remove it and others may add it again.       *)
ActiveIsListed ==
    \A k \in EntryKinds, i \in Ids :
        mdActive[k][i] => mdBy[k][i] \in DidAccounts /\ Listed(k, mdBy[k][i], i)

(* An identifier that only one account uses is listed in no other document,*)
(* in its own exactly while it is active, and there once.                  *)
OwnIdsListedOnce ==
    \A k \in EntryKinds, a \in DidAccounts, i \in Ids :
        PrivateTo[i] # NoOwner =>
            /\ Listed(k, a, i) => PrivateTo[i] = a /\ mdActive[k][i]
            /\ \A m, n \in DOMAIN mdList[k][a] :
                  mdList[k][a][m] = i /\ mdList[k][a][n] = i => m = n

(* What was deactivated is final: the document of an inactive DID never    *)
(* changes again, by no call of anyone.                                    *)
InactiveIsFinal ==
    [][\A a \in DidAccounts :
          mdStatus[a] = "inactive" =>
              /\ mdStatus'[a] = "inactive" /\ mdUpdates'[a] = mdUpdates[a]
              /\ \A k \in EntryKinds : mdList'[k][a] = mdList[k][a]]_mdVars

(* The counter counts the DIDs there are.                                  *)
CountIsRegistered == mdCount = Cardinality({a \in DidAccounts : mdStatus[a] # "none"})

(* The documents' lists, the mappings of identifiers and the counter, which *)
(* every call changes separately, agree.                                    *)
ListsAgree == ActiveIsListed /\ OwnIdsListedOnce /\ CountIsRegistered
=============================================================================
