------------------------- MODULE MoonbeamDIDProofs --------------------------
(***************************************************************************)
(* The mappings, the documents and the counter of the Moonbeam DID         *)
(* contract belong together after any calls of any accounts, those of the  *)
(* service included, and what the service reports is what was executed.    *)
(***************************************************************************)
EXTENDS MoonbeamDIDService, FiniteSetTheorems, SequenceTheorems, WellFoundedInduction, TLAPS

\* What a loop from the left finds first.
LEMMA FirstOccurrence ==
    ASSUME NEW list \in Seq(Ids), NEW i \in Range(list)
    PROVE  \E n \in 1..Len(list) : list[n] = i /\ \A m \in 1..(n - 1) : list[m] # i
<1> DEFINE Where == {n \in 1..Len(list) : list[n] = i}
<1>1. Where \subseteq Nat /\ Where # {}
  BY DEF Range
<1>2. PICK n \in Where : \A m \in Where : <<m, n>> \notin OpToRel(<, Nat)
  BY <1>1, WFMin, NatLessThanWellFounded, Zenon
<1>3. \A m \in Where : ~(m < n)
  BY <1>1, <1>2, Zenon DEF OpToRel
<1> QED BY <1>3

\* Removing moves the last entry to the place of the first i: nothing else is
\* lost, nothing comes in, and what was listed once stays listed once.
LEMMA SwapRemoveEffect ==
    ASSUME NEW list \in Seq(Ids), NEW i \in Ids
    PROVE  /\ SwapRemove(list, i) \in Seq(Ids)
           /\ \A j \in Range(list) \ {i} : j \in Range(SwapRemove(list, i))
           /\ \A n \in 1..Len(SwapRemove(list, i)) :
                 \E k \in 1..Len(list) : SwapRemove(list, i)[n] = list[k]
           /\ \A j : (\A m, n \in 1..Len(list) : list[m] = j /\ list[n] = j => m = n) =>
                 /\ \A m, n \in 1..Len(SwapRemove(list, i)) :
                       SwapRemove(list, i)[m] = j /\ SwapRemove(list, i)[n] = j => m = n
                 /\ j = i => \A n \in 1..Len(SwapRemove(list, i)) : SwapRemove(list, i)[n] # j
<1>1. CASE i \notin Range(list)
  <2>1. SwapRemove(list, i) = list
    BY <1>1 DEF SwapRemove
  <2>2. DOMAIN list = 1..Len(list)
    OBVIOUS
  <2> QED BY <1>1, <2>1, <2>2 DEF Range
<1>2. CASE i \in Range(list)
  <2> DEFINE at == CHOOSE n \in 1..Len(list) : list[n] = i /\ \A m \in 1..(n - 1) : list[m] # i
             moved == [list EXCEPT ![at] = list[Len(list)]]
             short == SubSeq(moved, 1, Len(list) - 1)
  <2>1. at \in 1..Len(list) /\ list[at] = i
    BY <1>2, FirstOccurrence
  <2>2. SwapRemove(list, i) = short
    BY <1>2 DEF SwapRemove
  <2> HIDE DEF at
  <2>3. /\ moved \in Seq(Ids) /\ Len(moved) = Len(list)
        /\ \A n \in 1..Len(list) : moved[n] = IF n = at THEN list[Len(list)] ELSE list[n]
    BY <2>1
  <2> HIDE DEF moved
  <2>4. /\ short \in Seq(Ids) /\ Len(short) = Len(list) - 1
        /\ \A n \in 1..(Len(list) - 1) : short[n] = IF n = at THEN list[Len(list)] ELSE list[n]
    BY <2>1, <2>3
  <2> HIDE DEF short
  <2>5. ASSUME NEW j \in Range(list) \ {i}
        PROVE  j \in Range(short)
    <3>1. PICK n \in 1..Len(list) : list[n] = j
      BY DEF Range
    <3>2. CASE n = Len(list)
      <4>1. at \in 1..(Len(list) - 1) /\ short[at] = j
        BY <2>1, <2>4, <3>1, <3>2
      <4> QED BY <2>4, <4>1 DEF Range
    <3>3. CASE n # Len(list)
      <4>1. n \in 1..(Len(list) - 1) /\ short[n] = j
        BY <2>1, <2>4, <3>1, <3>3
      <4> QED BY <2>4, <4>1 DEF Range
    <3> QED BY <3>2, <3>3
  <2>6. \A n \in 1..Len(short) : \E k \in 1..Len(list) : short[n] = list[k]
    BY <2>1, <2>4
  <2>7. ASSUME NEW j, \A m, n \in 1..Len(list) : list[m] = j /\ list[n] = j => m = n
        PROVE  /\ \A m, n \in 1..Len(short) : short[m] = j /\ short[n] = j => m = n
               /\ j = i => \A n \in 1..Len(short) : short[n] # j
    BY <2>1, <2>4, <2>7
  <2> QED BY <2>2, <2>4, <2>5, <2>6, <2>7
<1> QED BY <1>1, <1>2
-----------------------------------------------------------------------------
MdInv == MdTypeOK /\ ActiveIsListed /\ OwnIdsListedOnce /\ CountIsRegistered

LEMMA MdInitInv == MdInit => MdInv
<1> SUFFICES ASSUME MdInit PROVE MdInv
  OBVIOUS
<1> USE DEF MdInit
<1>1. MdTypeOK
  BY DEF MdTypeOK
<1>2. ActiveIsListed
  BY DEF ActiveIsListed
<1>3. OwnIdsListedOnce
  BY DEF OwnIdsListedOnce, Listed, EntryKinds
<1>4. CountIsRegistered
  <2>1. {a \in DidAccounts : mdStatus[a] # "none"} = {}
    OBVIOUS
  <2> QED BY <2>1, FS_EmptySet DEF CountIsRegistered
<1> QED BY <1>1, <1>2, <1>3, <1>4 DEF MdInv

\* A registration counts one DID more, which had none.
LEMMA RegisterKeeps ==
    ASSUME MdInv, NEW a \in DidAccounts, registerDID(a)
    PROVE  MdInv'
<1> DEFINE Registered == {b \in DidAccounts : mdStatus[b] # "none"}
<1> USE DEF MdInv, registerDID
<1>1. MdTypeOK'
  BY DEF MdTypeOK
<1>2. ActiveIsListed' /\ OwnIdsListedOnce'
  BY DEF ActiveIsListed, OwnIdsListedOnce, Listed
<1>3. CountIsRegistered'
  <2>1. Registered' = Registered \cup {a} /\ a \notin Registered
    BY DEF MdTypeOK
  <2>2. IsFiniteSet(Registered)
    BY DidAssumption, FS_Subset
  <2>3. Cardinality(Registered') = Cardinality(Registered) + 1
    BY <2>1, <2>2, FS_AddElement
  <2> QED BY <2>3 DEF CountIsRegistered
<1> QED BY <1>1, <1>2, <1>3

\* An update and a deactivation leave the entries and the number of DIDs alone.
LEMMA UpdateKeeps ==
    ASSUME MdInv, NEW a \in DidAccounts, updateDID(a) \/ deactivateDID(a)
    PROVE  MdInv'
<1> USE DEF MdInv, OwnsActive
<1>1. /\ UNCHANGED <<mdList, mdActive, mdBy, mdCount>>
      /\ mdUpdates' = [mdUpdates EXCEPT ![a] = @ + 1]
      /\ mdStatus[a] = "active"
      /\ mdStatus' = mdStatus \/ mdStatus' = [mdStatus EXCEPT ![a] = "inactive"]
  BY DEF updateDID, deactivateDID
<1>2. MdTypeOK'
  BY <1>1 DEF MdTypeOK
<1>3. ActiveIsListed' /\ OwnIdsListedOnce'
  BY <1>1 DEF ActiveIsListed, OwnIdsListedOnce, Listed
<1>4. {b \in DidAccounts : mdStatus'[b] # "none"} = {b \in DidAccounts : mdStatus[b] # "none"}
  BY <1>1 DEF MdTypeOK
<1>5. CountIsRegistered'
  BY <1>1, <1>4 DEF CountIsRegistered
<1> QED BY <1>2, <1>3, <1>5

\* An added entry is active, listed by the one who added it, and was listed by
\* nobody if only one account uses its identifier.
LEMMA AddKeeps ==
    ASSUME MdInv, NEW k \in EntryKinds, NEW a \in DidAccounts, NEW i \in Ids,
           Uses(a, i), AddEntry(k, a, i)
    PROVE  MdInv'
<1> USE DEF MdInv, AddEntry
<1>1. mdList[k][a] \in Seq(Ids)
  BY DEF MdTypeOK
<1>2. \A l \in EntryKinds, b \in DidAccounts :
         mdList'[l][b] = IF l = k /\ b = a THEN Append(mdList[k][a], i) ELSE mdList[l][b]
  BY DEF MdTypeOK
<1>3. \A l \in EntryKinds, j \in Ids :
         /\ mdActive'[l][j] = (IF l = k /\ j = i THEN TRUE ELSE mdActive[l][j])
         /\ mdBy'[l][j] = (IF l = k /\ j = i THEN a ELSE mdBy[l][j])
  BY DEF MdTypeOK
<1>4. DOMAIN Append(mdList[k][a], i) = 1..(Len(mdList[k][a]) + 1)
      /\ DOMAIN mdList[k][a] = 1..Len(mdList[k][a]) /\ Len(mdList[k][a]) \in Nat
      /\ Append(mdList[k][a], i)[Len(mdList[k][a]) + 1] = i
      /\ \A n \in 1..Len(mdList[k][a]) : Append(mdList[k][a], i)[n] = mdList[k][a][n]
  BY <1>1
<1>5. MdTypeOK'
  <2>1. Append(mdList[k][a], i) \in Seq(Ids)
    BY <1>1
  <2>2. mdList' \in [EntryKinds -> [DidAccounts -> Seq(Ids)]]
    BY <2>1 DEF MdTypeOK
  <2> QED BY <2>2 DEF MdTypeOK
<1>6. ActiveIsListed'
  <2> SUFFICES ASSUME NEW l \in EntryKinds, NEW j \in Ids, mdActive'[l][j]
               PROVE  /\ mdBy'[l][j] \in DidAccounts
                      /\ \E n \in DOMAIN mdList'[l][mdBy'[l][j]] : mdList'[l][mdBy'[l][j]][n] = j
    BY DEF ActiveIsListed, Listed
  <2>1. CASE l = k /\ j = i
    <3>1. mdBy'[k][i] = a
      BY <1>3
    <3>2. mdList'[k][a] = Append(mdList[k][a], i)
      BY <1>2
    <3>3. Len(mdList[k][a]) + 1 \in DOMAIN mdList'[k][a]
      BY <1>4, <3>2
    <3> QED BY <1>4, <2>1, <3>1, <3>2, <3>3
  <2>2. CASE ~(l = k /\ j = i)
    <3> DEFINE b == mdBy[l][j]
    <3>1. mdBy'[l][j] = b /\ b \in DidAccounts /\ Listed(l, b, j)
      BY <1>3, <2>2 DEF ActiveIsListed
    <3> HIDE DEF b
    <3>2. PICK n \in DOMAIN mdList[l][b] : mdList[l][b][n] = j
      BY <3>1 DEF Listed
    <3>3. CASE l = k /\ b = a
      BY <1>2, <1>4, <3>1, <3>2, <3>3
    <3>4. CASE ~(l = k /\ b = a)
      BY <1>2, <3>1, <3>2, <3>4
    <3> QED BY <3>3, <3>4
  <2> QED BY <2>1, <2>2
<1>7. OwnIdsListedOnce'
  <2> SUFFICES ASSUME NEW l \in EntryKinds, NEW b \in DidAccounts, NEW j \in Ids,
                      PrivateTo[j] # NoOwner
               PROVE  /\ Listed(l, b, j)' => PrivateTo[j] = b /\ mdActive'[l][j]
                      /\ \A m, n \in DOMAIN mdList'[l][b] :
                            mdList'[l][b][m] = j /\ mdList'[l][b][n] = j => m = n
    BY DEF OwnIdsListedOnce, Listed
  <2>1. /\ Listed(l, b, j) => PrivateTo[j] = b /\ mdActive[l][j]
        /\ \A m, n \in DOMAIN mdList[l][b] :
              mdList[l][b][m] = j /\ mdList[l][b][n] = j => m = n
    BY DEF OwnIdsListedOnce
  <2>2. CASE ~(l = k /\ b = a)
    BY <1>2, <1>3, <2>1, <2>2 DEF Listed
  <2>3. CASE l = k /\ b = a /\ j # i
    BY <1>2, <1>3, <1>4, <2>1, <2>3 DEF Listed
  <2>4. CASE l = k /\ b = a /\ j = i
    <3>1. ~Listed(k, a, i) /\ PrivateTo[i] = a
      BY <2>1, <2>4 DEF Uses
    <3>2. \A n \in 1..Len(mdList[k][a]) : mdList[k][a][n] # i
      BY <1>4, <3>1 DEF Listed
    <3>3. mdList'[l][b] = Append(mdList[k][a], i) /\ mdActive'[l][j]
      BY <1>2, <1>3, <2>4
    <3>4. \A m, n \in DOMAIN mdList'[l][b] :
             mdList'[l][b][m] = j /\ mdList'[l][b][n] = j => m = n
      BY <1>4, <2>4, <3>2, <3>3
    <3> QED BY <2>4, <3>1, <3>3, <3>4
  <2> QED BY <2>2, <2>3, <2>4
<1>8. CountIsRegistered'
  BY DEF CountIsRegistered
<1> QED BY <1>5, <1>6, <1>7, <1>8

\* A removed entry leaves every list that could hold it, if one account uses it,
\* and every other entry where it was listed.
LEMMA RemoveKeeps ==
    ASSUME MdInv, NEW k \in EntryKinds, NEW a \in DidAccounts, NEW i \in Ids,
           Uses(a, i), RemoveEntry(k, a, i)
    PROVE  MdInv'
<1> DEFINE short == SwapRemove(mdList[k][a], i)
<1> USE DEF MdInv, RemoveEntry
<1>1. mdList[k][a] \in Seq(Ids) /\ DOMAIN mdList[k][a] = 1..Len(mdList[k][a])
  BY DEF MdTypeOK
<1>9. short \in Seq(Ids) /\ DOMAIN short = 1..Len(short)
  BY <1>1, SwapRemoveEffect
<1>2. /\ short \in Seq(Ids) /\ DOMAIN short = 1..Len(short)
      /\ \A j \in Range(mdList[k][a]) \ {i} : j \in Range(short)
      /\ \A n \in 1..Len(short) : \E m \in 1..Len(mdList[k][a]) : short[n] = mdList[k][a][m]
      /\ \A j : (\A m, n \in 1..Len(mdList[k][a]) :
                     mdList[k][a][m] = j /\ mdList[k][a][n] = j => m = n) =>
            /\ \A m, n \in 1..Len(short) : short[m] = j /\ short[n] = j => m = n
            /\ j = i => \A n \in 1..Len(short) : short[n] # j
  BY <1>1, <1>9, SwapRemoveEffect, Zenon
<1> HIDE DEF short
<1>3. \A l \in EntryKinds, b \in DidAccounts :
         mdList'[l][b] = IF l = k /\ b = a THEN short ELSE mdList[l][b]
  BY DEF MdTypeOK, short
<1>4. \A l \in EntryKinds, j \in Ids :
         mdActive'[l][j] = IF l = k /\ j = i THEN FALSE ELSE mdActive[l][j]
  BY DEF MdTypeOK
<1>5. MdTypeOK'
  <2>1. mdList' \in [EntryKinds -> [DidAccounts -> Seq(Ids)]]
    BY <1>2 DEF MdTypeOK, short
  <2> QED BY <2>1 DEF MdTypeOK
<1>6. ActiveIsListed'
  <2> SUFFICES ASSUME NEW l \in EntryKinds, NEW j \in Ids, mdActive'[l][j]
               PROVE  mdBy[l][j] \in DidAccounts /\ Listed(l, mdBy[l][j], j)'
    BY DEF ActiveIsListed, Listed
  <2>1. /\ ~(l = k /\ j = i)
        /\ mdBy[l][j] \in DidAccounts /\ Listed(l, mdBy[l][j], j)
    BY <1>4 DEF ActiveIsListed
  <2>2. CASE l = k /\ mdBy[l][j] = a
    <3>1. PICK n \in DOMAIN mdList[k][a] : mdList[k][a][n] = j
      BY <2>1, <2>2 DEF Listed
    <3>3. j \in Range(mdList[k][a]) \ {i} \/ j = i
      BY <3>1 DEF Range
    <3>2. mdList'[l][mdBy[l][j]] = short
      BY <1>3, <2>1, <2>2
    <3>4. j \in Range(short)
      BY <1>2, <2>1, <2>2, <3>3
    <3>5. \E m \in DOMAIN mdList'[l][mdBy[l][j]] : mdList'[l][mdBy[l][j]][m] = j
      BY <3>2, <3>4 DEF Range
    <3> QED BY <2>1, <3>5 DEF Listed
  <2>3. CASE ~(l = k /\ mdBy[l][j] = a)
    BY <1>3, <2>1, <2>3 DEF Listed
  <2> QED BY <2>2, <2>3
<1>7. OwnIdsListedOnce'
  <2> SUFFICES ASSUME NEW l \in EntryKinds, NEW b \in DidAccounts, NEW j \in Ids,
                      PrivateTo[j] # NoOwner
               PROVE  /\ Listed(l, b, j)' => PrivateTo[j] = b /\ mdActive'[l][j]
                      /\ \A m, n \in DOMAIN mdList'[l][b] :
                            mdList'[l][b][m] = j /\ mdList'[l][b][n] = j => m = n
    BY DEF OwnIdsListedOnce, Listed
  <2>1. /\ Listed(l, b, j) => PrivateTo[j] = b /\ mdActive[l][j]
        /\ \A m, n \in DOMAIN mdList[l][b] :
              mdList[l][b][m] = j /\ mdList[l][b][n] = j => m = n
    BY DEF OwnIdsListedOnce
  <2>2. CASE l # k
    BY <1>3, <1>4, <2>1, <2>2 DEF Listed
  <2>3. CASE l = k /\ b # a
    BY <1>3, <1>4, <2>1, <2>3 DEF Listed, Uses
  <2>4. CASE l = k /\ b = a
    <3>1. mdList'[l][b] = short
      BY <1>3, <2>4
    <3>2. \A m, n \in 1..Len(mdList[k][a]) :
             mdList[k][a][m] = j /\ mdList[k][a][n] = j => m = n
      BY <1>1, <2>1, <2>4
    <3>3. /\ \A m, n \in 1..Len(short) : short[m] = j /\ short[n] = j => m = n
          /\ j = i => \A n \in 1..Len(short) : short[n] # j
      BY <1>2, <3>2
    <3>4. ASSUME Listed(l, b, j)'
          PROVE  PrivateTo[j] = b /\ mdActive'[l][j]
      <4>1. PICK n \in 1..Len(short) : short[n] = j
        BY <1>2, <3>1, <3>4 DEF Listed
      <4>2. Listed(l, b, j) /\ j # i
        BY <1>1, <1>2, <2>4, <3>3, <4>1 DEF Listed
      <4> QED BY <1>4, <2>1, <4>2
    <3> QED BY <1>2, <3>1, <3>3, <3>4
  <2> QED BY <2>2, <2>3, <2>4
<1>8. CountIsRegistered'
  BY DEF CountIsRegistered
<1> QED BY <1>5, <1>6, <1>7, <1>8

\* A call of the contract keeps its state together.
LEMMA CallKeeps ==
    ASSUME MdInv, NEW a \in DidAccounts, ContractCall(a)
    PROVE  MdInv'
<1>1. CASE registerDID(a)
  BY <1>1, RegisterKeeps
<1>2. CASE updateDID(a) \/ deactivateDID(a)
  BY <1>2, UpdateKeeps
<1>3. CASE EntryCall(a)
  <2> PICK i \in Ids : Uses(a, i) /\ \E k \in EntryKinds : AddEntry(k, a, i) \/ RemoveEntry(k, a, i)
    BY <1>3 DEF EntryCall, addVerificationMethod, removeVerificationMethod,
                addServiceEndpoint, removeServiceEndpoint, EntryKinds
  <2> QED BY AddKeeps, RemoveKeeps
<1> QED BY <1>1, <1>2, <1>3 DEF ContractCall

\* So does a step in which nobody calls it.
LEMMA MdStaysKept ==
    ASSUME MdInv, UNCHANGED mdVars
    PROVE  MdInv'
BY DEF MdInv, MdTypeOK, ActiveIsListed, OwnIdsListedOnce, CountIsRegistered, Listed, mdVars

\* A step of the contract keeps its state together.
LEMMA MdNextKeeps == MdInv /\ [MdNext]_mdVars => MdInv'
BY CallKeeps, MdStaysKept DEF MdNext

\* After any calls of any accounts, with any identifiers: what is active is in
\* a document, what an account has for itself is in its own document, once,
\* and the counter counts the DIDs.
THEOREM RegistryConsistent == MdSpec => [](MdTypeOK /\ ListsAgree)
<1>1. MdInv => MdTypeOK /\ ListsAgree
  BY DEF MdInv, ListsAgree
<1> QED BY <1>1, MdInitInv, MdNextKeeps, PTL DEF MdSpec

\* What a call of the contract leaves of a deactivated DID: all of it.
LEMMA CallLeavesInactive ==
    ASSUME MdInv, NEW b \in DidAccounts, ContractCall(b),
           NEW a \in DidAccounts, mdStatus[a] = "inactive"
    PROVE  /\ mdStatus'[a] = "inactive" /\ mdUpdates'[a] = mdUpdates[a]
           /\ \A k \in EntryKinds : mdList'[k][a] = mdList[k][a]
<1> USE DEF MdInv, MdTypeOK, OwnsActive
<1>1. CASE registerDID(b)
  BY <1>1 DEF registerDID
<1>2. CASE updateDID(b) \/ deactivateDID(b)
  BY <1>2 DEF updateDID, deactivateDID
<1>3. CASE EntryCall(b)
  <2>1. PICK i \in Ids, l \in EntryKinds : AddEntry(l, b, i) \/ RemoveEntry(l, b, i)
    BY <1>3 DEF EntryCall, addVerificationMethod, removeVerificationMethod,
                addServiceEndpoint, removeServiceEndpoint, EntryKinds
  <2>2. a # b /\ UNCHANGED <<mdStatus, mdUpdates>>
    BY <2>1 DEF AddEntry, RemoveEntry
  <2>3. \A k \in EntryKinds : mdList'[k][a] = mdList[k][a]
    <3> TAKE k \in EntryKinds
    <3>1. PICK s : mdList' = [mdList EXCEPT ![l][b] = s]
      BY <2>1 DEF AddEntry, RemoveEntry
    <3>2. mdList \in [EntryKinds -> [DidAccounts -> Seq(Ids)]]
      OBVIOUS
    <3> QED BY <2>2, <3>1, <3>2
  <2> QED BY <2>2, <2>3
<1> QED BY <1>1, <1>2, <1>3 DEF ContractCall

\* No call of anyone changes the document of a deactivated DID.
THEOREM DeactivationIsFinal == MdSpec => InactiveIsFinal
<1>1. MdInv /\ [MdNext]_mdVars =>
        [\A a \in DidAccounts :
            mdStatus[a] = "inactive" =>
                /\ mdStatus'[a] = "inactive" /\ mdUpdates'[a] = mdUpdates[a]
                /\ \A k \in EntryKinds : mdList'[k][a] = mdList[k][a]]_mdVars
  BY CallLeavesInactive DEF MdNext
<1> QED BY <1>1, MdInitInv, MdNextKeeps, PTL DEF MdSpec, InactiveIsFinal

-----------------------------------------------------------------------------
(* The service over the contract.                                          *)

\* Each variable of the service has its type, and a call that has started has
\* one of its operations.
DsTypeOK ==
    /\ dsOp \in [DidCalls -> DidOps \cup {<<"none">>}]
    /\ dsPc \in [DidCalls -> {"idle", "checked", "estimated", "monitoring", "reading", "ok",
                              "failed"}]
    /\ dsTx \in [DidCalls -> {"none", "queued", "success", "reverted"}]
    /\ dsQueue \in Seq(DidCalls)
    /\ \A c \in DidCalls : dsPc[c] # "idle" => dsOp[c] \in DidOps

\* A transaction is made when its call submits it, and mined while it is queued.
TxFollowsCall ==
    /\ \A c \in DidCalls :
          /\ dsPc[c] \in {"idle", "checked", "estimated"} => dsTx[c] = "none"
          /\ dsPc[c] \in {"ok", "reading"} => dsTx[c] = "success"
    /\ \A n \in 1..Len(dsQueue) : dsTx[dsQueue[n]] = "queued"
    /\ \A m, n \in 1..Len(dsQueue) : dsQueue[m] = dsQueue[n] => m = n

Registers(c) == dsTx[c] = "success" /\ dsOp[c][1] = "register"

\* The contract executes one registration of the signer.
OneRegistration ==
    /\ \A c \in DidCalls : Registers(c) => mdStatus[DidSigner] # "none"
    /\ \A c, d \in DidCalls : Registers(c) /\ Registers(d) => c = d

DsInv == MdInv /\ DsTypeOK /\ TxFollowsCall /\ OneRegistration

\* What the contract does for an operation is one of its calls by the signer.
LEMMA EffectIsCall ==
    ASSUME NEW op \in DidOps, Effect(op)
    PROVE  /\ ContractCall(DidSigner)
           /\ op[1] = "register" => registerDID(DidSigner)
           /\ op[1] # "register" => mdStatus[DidSigner] = "active"
<1>1. \/ op = <<"register">> \/ op = <<"update">> \/ op = <<"deactivate">>
      \/ \E verb \in {"add", "remove"}, k \in EntryKinds, i \in Ids :
            Uses(DidSigner, i) /\ op = <<verb, k, i>>
  BY DidServiceAssumption DEF AllDidOps
<1>2. CASE op = <<"register">>
  <2>1. op[1] = "register"
    BY <1>2
  <2> QED BY <2>1 DEF Effect, ContractCall
<1>3. CASE op = <<"update">>
  <2>1. op[1] = "update"
    BY <1>3
  <2> QED BY <2>1 DEF Effect, ContractCall, updateDID, OwnsActive
<1>4. CASE op = <<"deactivate">>
  <2>1. op[1] = "deactivate"
    BY <1>4
  <2> QED BY <2>1 DEF Effect, ContractCall, deactivateDID, OwnsActive
<1>5. ASSUME NEW verb \in {"add", "remove"}, NEW k \in EntryKinds, NEW i \in Ids,
             Uses(DidSigner, i), op = <<verb, k, i>>
      PROVE  /\ ContractCall(DidSigner) /\ mdStatus[DidSigner] = "active"
             /\ op[1] # "register"
  <2>1. op[1] = verb /\ op[2] = k /\ op[3] = i
    BY <1>5
  <2>2. AddEntry(k, DidSigner, i) \/ RemoveEntry(k, DidSigner, i)
    BY <2>1 DEF Effect
  <2>3. EntryCall(DidSigner)
    BY <1>5, <2>2 DEF EntryCall, addVerificationMethod, removeVerificationMethod,
                      addServiceEndpoint, removeServiceEndpoint, EntryKinds
  <2>4. mdStatus[DidSigner] = "active"
    BY <2>2 DEF AddEntry, RemoveEntry, OwnsActive
  <2> QED BY <2>1, <2>3, <2>4 DEF ContractCall
<1> QED BY <1>1, <1>2, <1>3, <1>4, <1>5

\* An address that has a DID keeps it.
LEMMA StatusStays ==
    ASSUME MdInv, NEW b \in DidAccounts, ContractCall(b), NEW a \in DidAccounts,
           mdStatus[a] # "none"
    PROVE  mdStatus'[a] # "none"
<1> USE DEF MdInv, MdTypeOK
<1>1. \/ UNCHANGED mdStatus
      \/ \E s \in {"active", "inactive"} : mdStatus' = [mdStatus EXCEPT ![b] = s]
  BY DEF ContractCall, registerDID, updateDID, deactivateDID, EntryCall, addVerificationMethod,
         removeVerificationMethod, addServiceEndpoint, removeServiceEndpoint,
         AddEntry, RemoveEntry
<1> QED BY <1>1

\* The service starts with no call and no transaction.
LEMMA DsInitInv == DsInit => DsInv
<1> SUFFICES ASSUME DsInit PROVE DsInv
  OBVIOUS
<1>1. MdInv
  BY MdInitInv DEF DsInit
<1> QED BY <1>1 DEF DsInit, DsInv, DsTypeOK, TxFollowsCall, OneRegistration, Registers

\* A step of a call keeps what is known of its transaction.
LEMMA CallStepKeeps ==
    ASSUME DsInv, NEW c \in DidCalls, DsBegin(c) \/ DsProgress(c)
    PROVE  DsInv'
<1> USE DEF DsInv, DsTypeOK, TxFollowsCall, OneRegistration, Registers, DsGoes
<1>1. UNCHANGED mdVars
  BY DEF DsBegin, CallBegins, DsProgress, Estimate, CallFails, Submit, Receipt, NoReceipt, EventRead
<1>2. MdInv' /\ UNCHANGED mdStatus
  BY <1>1, MdStaysKept DEF mdVars
<1>3. CASE DsBegin(c)
  BY <1>2, <1>3 DEF DsBegin, CallBegins
<1>4. CASE Submit(c)
  <2>1. dsPc[c] = "estimated" /\ dsTx[c] = "none" /\ dsTx' = [dsTx EXCEPT ![c] = "queued"]
        /\ dsPc' = [dsPc EXCEPT ![c] = "monitoring"] /\ UNCHANGED dsOp
    BY <1>4 DEF Submit
  <2>2. Len(dsQueue) \in Nat /\ \A n \in 1..Len(dsQueue) : dsQueue[n] \in DidCalls /\ dsQueue[n] # c
    BY <2>1, LenProperties, ElementOfSeq
  <2>3. /\ dsQueue' \in Seq(DidCalls) /\ Len(dsQueue') = Len(dsQueue) + 1
        /\ \A n \in 1..Len(dsQueue) : dsQueue'[n] = dsQueue[n]
        /\ dsQueue'[Len(dsQueue) + 1] = c
    BY <1>4, AppendProperties DEF Submit
  <2>4. DsTypeOK' /\ OneRegistration'
    BY <1>2, <2>1, <2>3
  <2>5. \A n \in 1..Len(dsQueue') : dsTx'[dsQueue'[n]] = "queued"
    BY <2>1, <2>2, <2>3
  <2>6. \A m, n \in 1..Len(dsQueue') : dsQueue'[m] = dsQueue'[n] => m = n
    BY <2>2, <2>3
  <2>7. TxFollowsCall'
    BY <2>1, <2>5, <2>6
  <2> QED BY <1>2, <2>4, <2>7
<1>5. CASE Estimate(c) \/ CallFails(c) \/ Receipt(c) \/ NoReceipt(c) \/ EventRead(c)
  BY <1>2, <1>5 DEF Estimate, CallFails, Receipt, NoReceipt, EventRead
<1> QED BY <1>3, <1>4, <1>5 DEF DsProgress

\* A block takes a transaction once, and its registration when there was none.
LEMMA MineKeeps ==
    ASSUME DsInv, MineNext
    PROVE  DsInv'
<1> DEFINE c == dsQueue[1]
<1>1. dsQueue \in Seq(DidCalls) /\ dsQueue # <<>> /\ Head(dsQueue) = c
  BY DEF MineNext, DsInv, DsTypeOK
<1>2. Len(dsQueue) \in Nat \ {0} /\ \A n \in 1..Len(dsQueue) : dsQueue[n] \in DidCalls
  BY <1>1, LenProperties, ElementOfSeq, EmptySeq
<1>3. /\ dsQueue' \in Seq(DidCalls) /\ Len(dsQueue') = Len(dsQueue) - 1
      /\ \A n \in 1..Len(dsQueue') : dsQueue'[n] = dsQueue[n + 1]
  BY <1>1, HeadTailProperties DEF MineNext
<1> HIDE DEF c
<1>4. c \in DidCalls /\ dsTx[c] = "queued"
  BY <1>2 DEF c, DsInv, TxFollowsCall
<1>5. dsOp[c] \in DidOps
  BY <1>4 DEF DsInv, DsTypeOK, TxFollowsCall
<1>6. UNCHANGED <<dsOp, dsPc>>
  BY DEF MineNext
<1>7. \A n \in 1..Len(dsQueue') : dsQueue'[n] \in DidCalls \ {c} /\ dsTx[dsQueue'[n]] = "queued"
  BY <1>2, <1>3 DEF c, DsInv, TxFollowsCall
<1>8. \A m, n \in 1..Len(dsQueue') : dsQueue'[m] = dsQueue'[n] => m = n
  BY <1>2, <1>3 DEF DsInv, TxFollowsCall
<1>9. ASSUME NEW how \in {"success", "reverted"}, dsTx' = [dsTx EXCEPT ![c] = how]
      PROVE  DsTypeOK' /\ TxFollowsCall'
  BY <1>3, <1>4, <1>6, <1>7, <1>8, <1>9 DEF DsInv, DsTypeOK, TxFollowsCall
<1>10. CASE Effect(dsOp[c]) /\ dsTx' = [dsTx EXCEPT ![c] = "success"]
  <2>1. /\ ContractCall(DidSigner) /\ DidSigner \in DidAccounts
        /\ dsOp[c][1] = "register" => registerDID(DidSigner)
        /\ dsOp[c][1] # "register" => mdStatus[DidSigner] = "active"
    BY <1>5, <1>10, EffectIsCall, DidServiceAssumption
  <2>2. MdInv'
    BY <2>1, CallKeeps DEF DsInv
  <2>3. dsOp[c][1] = "register" => mdStatus[DidSigner] = "none" /\ mdStatus'[DidSigner] = "active"
    BY <2>1 DEF registerDID, DsInv, MdInv, MdTypeOK
  <2>4. mdStatus[DidSigner] # "none" => mdStatus'[DidSigner] # "none"
    BY <2>1, StatusStays DEF DsInv
  <2>5. OneRegistration'
    BY <1>4, <1>6, <1>10, <2>3, <2>4 DEF DsInv, DsTypeOK, OneRegistration, Registers
  <2> QED BY <1>9, <1>10, <2>2, <2>5 DEF DsInv
<1>11. CASE dsTx' = [dsTx EXCEPT ![c] = "reverted"] /\ UNCHANGED mdVars
  <2>1. MdInv' /\ UNCHANGED mdStatus
    BY <1>11, MdStaysKept DEF DsInv, mdVars
  <2>2. OneRegistration'
    BY <1>4, <1>6, <1>11, <2>1 DEF DsInv, DsTypeOK, OneRegistration, Registers
  <2> QED BY <1>9, <1>11, <2>1, <2>2 DEF DsInv
<1> QED BY <1>1, <1>10, <1>11 DEF MineNext

\* Every step of the service and of the others keeps all of it.
LEMMA DsNextInv == DsInv /\ [DsNext]_dsVars => DsInv'
<1> SUFFICES ASSUME DsInv, [DsNext]_dsVars PROVE DsInv'
  OBVIOUS
<1>1. CASE \E c \in DidCalls : DsBegin(c) \/ DsProgress(c)
  BY <1>1, CallStepKeeps
<1>2. CASE MineNext
  BY <1>2, MineKeeps
<1>3. CASE Outside
  <2>1. PICK a \in DidAccounts : ContractCall(a)
    BY <1>3 DEF Outside
  <2>2. MdInv' /\ (mdStatus[DidSigner] # "none" => mdStatus'[DidSigner] # "none")
    BY <2>1, CallKeeps, StatusStays, DidServiceAssumption DEF DsInv
  <2>3. UNCHANGED <<dsOp, dsPc, dsTx, dsQueue>>
    BY <1>3 DEF Outside
  <2> QED BY <2>2, <2>3 DEF DsInv, DsTypeOK, TxFollowsCall, OneRegistration, Registers
<1>4. CASE UNCHANGED dsVars
  <2>1. MdInv' /\ UNCHANGED <<mdStatus, dsOp, dsPc, dsTx, dsQueue>>
    BY <1>4, MdStaysKept DEF DsInv, dsVars, mdVars
  <2> QED BY <2>1 DEF DsInv, DsTypeOK, TxFollowsCall, OneRegistration, Registers
<1> QED BY <1>1, <1>2, <1>3, <1>4 DEF DsNext

\* However many calls of createDID pass the check and the estimate together,
\* and whatever others do meanwhile, one of them at most succeeds.
THEOREM OneCreationSucceeds == DsSpec => []OneCreateSucceeds
<1>1. DsInv => OneCreateSucceeds
  BY DEF DsInv, OneCreateSucceeds, TxFollowsCall, OneRegistration, Registers
<1> QED BY <1>1, DsInitInv, DsNextInv, PTL DEF DsSpec

\* A call that reports success has been executed, and a DID it reports exists.
THEOREM ReportedIsExecuted == DsSpec => []OkMeansExecuted
<1>1. DsInv => OkMeansExecuted
  BY DEF DsInv, OkMeansExecuted, TxFollowsCall, OneRegistration, Registers
<1> QED BY <1>1, DsInitInv, DsNextInv, PTL DEF DsSpec

\* The contract stays consistent under the service too: its transactions, mined
\* late, in any state, among the calls of others, are calls of the contract.
THEOREM ServiceKeepsRegistry == DsSpec => [](MdTypeOK /\ ListsAgree)
<1>1. DsInv => MdTypeOK /\ ListsAgree
  BY DEF DsInv, MdInv, ListsAgree
<1> QED BY <1>1, DsInitInv, DsNextInv, PTL DEF DsSpec

\* What the service does to the contract is a call of it, by its signer when a
\* block takes a transaction, or nothing.
LEMMA DsStepCalls ==
    ASSUME DsInv, [DsNext]_dsVars
    PROVE  UNCHANGED mdVars \/ \E b \in DidAccounts : ContractCall(b)
<1>1. CASE \E c \in DidCalls : DsBegin(c) \/ DsProgress(c)
  BY <1>1 DEF DsBegin, CallBegins, DsProgress, Estimate, CallFails, Submit, Receipt, NoReceipt,
              EventRead
<1>2. CASE MineNext
  <2>1. dsQueue \in Seq(DidCalls) /\ dsQueue # <<>>
    BY <1>2 DEF MineNext, DsInv, DsTypeOK
  <2>2. Head(dsQueue) = dsQueue[1] /\ 1 \in 1..Len(dsQueue) /\ dsQueue[1] \in DidCalls
    BY <2>1, LenProperties, ElementOfSeq, EmptySeq
  <2>3. dsOp[Head(dsQueue)] \in DidOps
    BY <2>2 DEF DsInv, DsTypeOK, TxFollowsCall
  <2> QED BY <1>2, <2>3, EffectIsCall, DidServiceAssumption DEF MineNext
<1>3. CASE Outside
  BY <1>3 DEF Outside
<1>4. CASE UNCHANGED dsVars
  BY <1>4 DEF dsVars
<1> QED BY <1>1, <1>2, <1>3, <1>4 DEF DsNext

\* A transaction that was signed before its DID was deactivated and is mined
\* after that changes nothing of it.
THEOREM LateMiningIsHarmless == DsSpec => InactiveIsFinal
<1>1. DsInv /\ [DsNext]_dsVars =>
        [\A a \in DidAccounts :
            mdStatus[a] = "inactive" =>
                /\ mdStatus'[a] = "inactive" /\ mdUpdates'[a] = mdUpdates[a]
                /\ \A k \in EntryKinds : mdList'[k][a] = mdList[k][a]]_mdVars
  BY DsStepCalls, CallLeavesInactive DEF DsInv
<1> QED BY <1>1, DsInitInv, DsNextInv, PTL DEF DsSpec, InactiveIsFinal
=============================================================================
