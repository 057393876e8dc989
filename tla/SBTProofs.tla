------------------------------ MODULE SBTProofs ------------------------------
(***************************************************************************)
(* The token contract keeps its supply limit, leaves nothing of a burned   *)
(* token and moves no token, for any accounts, limits and number of        *)
(* tokens.  And what the services over it promise, for any number of       *)
(* mints, deployments, subscriptions, attempts and calls of others: a mint *)
(* returns the token of its own transaction and makes a second one only    *)
(* after it lost track of a first; so does a deployment, whose record      *)
(* names a contract of its network; a subscription is heard once; and what *)
(* BlockchainMonitor shows at rest is how the transaction ended.  The parts *)
(* that MCSBT runs together keep all of this.                              *)
(***************************************************************************)
EXTENDS MCSBT, FiniteSetTheorems, SequenceTheorems, TLAPS

(* The contract.                                                           *)

TokenInv == SBTTypeOK /\ SupplyCap /\ NothingLeftOfBurned

LEMMA InitTokenInv == SBTInit => TokenInv
BY SBTAssumption
DEF SBTInit, TokenInv, SBTTypeOK, SupplyCap, NothingLeftOfBurned, Tokens

\* Minting n tokens within the supply, for one account.
LEMMA MintKeeps ==
    ASSUME TokenInv, NEW to \in Accounts, NEW n \in Nat \ {0}, NEW withURI \in BOOLEAN,
           WithinSupply(n), MintTokens(to, n, withURI)
    PROVE  TokenInv'
<1> DEFINE new == (tokenIdCounter + 1)..(tokenIdCounter + n)
<1> USE DEF TokenInv, Tokens
<1>1. tokenIdCounter \in Nat /\ tokenIdCounter' = tokenIdCounter + n
      /\ tokenIdCounter + n <= MaxTokens
  BY SBTAssumption DEF SBTTypeOK, MintTokens
<1>2. new \subseteq Tokens
  BY <1>1, SBTAssumption
<1>3. tokenOwner' = [t \in Tokens |-> IF t \in new THEN to ELSE tokenOwner[t]]
  BY DEF MintTokens
<1>4. tokenURIs' = (IF withURI THEN tokenURIs \cup new ELSE tokenURIs)
      /\ UNCHANGED <<revokedTokens, minters, burners, owner, maxSupply>>
  BY DEF MintTokens
<1>5. SBTTypeOK'
  <2>1. tokenIdCounter' \in 0..MaxTokens
    BY <1>1, SBTAssumption
  <2>2. tokenOwner' \in [Tokens -> Accounts \cup {None}]
    BY <1>3 DEF SBTTypeOK
  <2>3. tokenURIs' \subseteq Tokens
    BY <1>2, <1>4 DEF SBTTypeOK
  <2> QED BY <1>4, <2>1, <2>2, <2>3 DEF SBTTypeOK
<1>6. SupplyCap'
  BY <1>1, <1>4 DEF WithinSupply, totalSupply, SupplyCap
<1>7. NothingLeftOfBurned'
  <2> SUFFICES ASSUME NEW t \in Tokens
               PROVE  /\ tokenOwner'[t] = None => t \notin revokedTokens' /\ t \notin tokenURIs'
                      /\ tokenOwner'[t] # None => t <= tokenIdCounter'
    BY DEF NothingLeftOfBurned
  <2>1. CASE t \in new
    BY <1>1, <1>3, <2>1, SBTAssumption
  <2>2. CASE t \notin new
    BY <1>1, <1>3, <1>4, <2>2 DEF NothingLeftOfBurned
  <2> QED BY <2>1, <2>2
<1> QED BY <1>5, <1>6, <1>7

LEMMA MintStepKeeps ==
    ASSUME TokenInv, NEW s \in Accounts, NEW to \in Accounts,
           mint(s, to) \/ safeMint(s, to) \/ (\E n \in 1..MaxBatch : batchMint(s, to, n))
    PROVE  TokenInv'
<1> 1 \in Nat \ {0} /\ TRUE \in BOOLEAN /\ FALSE \in BOOLEAN
  OBVIOUS
<1>1. CASE mint(s, to)
  <2>1. WithinSupply(1) /\ MintTokens(to, 1, TRUE)
    BY <1>1 DEF mint
  <2> QED BY <2>1, MintKeeps
<1>2. CASE safeMint(s, to)
  <2>1. WithinSupply(1) /\ MintTokens(to, 1, FALSE)
    BY <1>2 DEF safeMint
  <2> QED BY <2>1, MintKeeps
<1>3. CASE \E n \in 1..MaxBatch : batchMint(s, to, n)
  <2> PICK n \in 1..MaxBatch : batchMint(s, to, n)
    BY <1>3
  <2>1. n \in Nat \ {0}
    BY SBTAssumption
  <2> QED BY <2>1, MintKeeps DEF batchMint
<1> QED BY <1>1, <1>2, <1>3

\* Everything but minting leaves the counter alone.
LEMMA OtherCallKeeps ==
    ASSUME TokenInv, NEW s \in Accounts,
           \/ \E t \in Tokens : burn(s, t) \/ revoke(s, t) \/ unrevoke(s, t)
           \/ RoleCall(s)
    PROVE  TokenInv'
<1> USE SBTAssumption DEF TokenInv
<1>1. CASE \E t \in Tokens : burn(s, t) \/ revoke(s, t) \/ unrevoke(s, t)
  <2>1. UNCHANGED <<tokenIdCounter, maxSupply>>
    BY <1>1 DEF burn, revoke, unrevoke
  <2>2. SBTTypeOK'
    BY <1>1 DEF burn, revoke, unrevoke, SBTTypeOK
  <2>3. NothingLeftOfBurned'
    BY <1>1 DEF burn, revoke, unrevoke, Exists, SBTTypeOK, NothingLeftOfBurned
  <2> QED BY <2>1, <2>2, <2>3 DEF SupplyCap
<1>2. CASE \E a \in Accounts : addMinter(s, a) \/ removeMinter(s, a)
                                  \/ addBurner(s, a) \/ removeBurner(s, a)
  <2>1. UNCHANGED <<tokenIdCounter, tokenOwner, tokenURIs, revokedTokens, owner, maxSupply>>
    BY <1>2 DEF addMinter, removeMinter, addBurner, removeBurner, SetMinters, SetBurners
  <2>2. minters' \subseteq Accounts /\ burners' \subseteq Accounts
    BY <1>2 DEF addMinter, removeMinter, addBurner, removeBurner, SetMinters, SetBurners, SBTTypeOK
  <2> QED BY <2>1, <2>2 DEF SBTTypeOK, SupplyCap, NothingLeftOfBurned
<1>3. CASE \E n \in Limits : setMaxSupply(s, n)
  <2> PICK n \in Limits : setMaxSupply(s, n)
    BY <1>3
  <2>1. UNCHANGED <<tokenIdCounter, tokenOwner, tokenURIs, revokedTokens, minters, burners, owner>>
        /\ maxSupply' = n /\ (n = 0 \/ n >= tokenIdCounter) /\ n \in Nat
    BY DEF setMaxSupply, totalSupply
  <2> QED BY <2>1 DEF SBTTypeOK, SupplyCap, NothingLeftOfBurned
<1>4. CASE \E a \in Accounts \cup {None} : transferOwnership(s, a)
  <2>1. UNCHANGED <<tokenIdCounter, tokenOwner, tokenURIs, revokedTokens, minters, burners, maxSupply>>
        /\ owner' \in Accounts \cup {None}
    BY <1>4 DEF transferOwnership
  <2> QED BY <2>1 DEF SBTTypeOK, SupplyCap, NothingLeftOfBurned
<1> QED BY <1>1, <1>2, <1>3, <1>4 DEF RoleCall

\* The hook turns every transfer into a revert.
LEMMA TransferChangesNothing ==
    ASSUME NEW t \in Tokens, NEW to \in Accounts, transferFrom(t, to)
    PROVE  UNCHANGED sbtVars
BY SBTAssumption DEF transferFrom, BeforeTokenTransfer, Exists, sbtVars

LEMMA NextTokenInv == TokenInv /\ [SBTNext]_sbtVars => TokenInv'
<1> SUFFICES ASSUME TokenInv, [SBTNext]_sbtVars PROVE TokenInv'
  OBVIOUS
<1>1. CASE \E s \in Accounts : TokenCall(s) \/ RoleCall(s)
  <2> PICK s \in Accounts : TokenCall(s) \/ RoleCall(s)
    BY <1>1
  <2>1. CASE \E to \in Accounts :
               mint(s, to) \/ safeMint(s, to) \/ (\E n \in 1..MaxBatch : batchMint(s, to, n))
    BY <2>1, MintStepKeeps
  <2>2. CASE (\E t \in Tokens : burn(s, t) \/ revoke(s, t) \/ unrevoke(s, t)) \/ RoleCall(s)
    BY <2>2, OtherCallKeeps
  <2> QED BY <2>1, <2>2 DEF TokenCall
<1>2. CASE UNCHANGED sbtVars
  BY <1>2 DEF TokenInv, SBTTypeOK, SupplyCap, NothingLeftOfBurned, sbtVars
<1>3. CASE \E t \in Tokens, to \in Accounts : transferFrom(t, to)
  BY <1>2, <1>3, TransferChangesNothing
<1> QED BY <1>1, <1>2, <1>3 DEF SBTNext

\* The supply limit holds in every state, and nothing is left of a token that
\* was burned.
THEOREM SupplyKept == SBTSpec => [](SBTTypeOK /\ TokensKept)
<1>1. TokenInv => SBTTypeOK /\ TokensKept
  BY DEF TokenInv, TokensKept
<1> QED BY <1>1, InitTokenInv, NextTokenInv, PTL DEF SBTSpec

\* One step of the contract leaves a token with its owner or burns it.
LEMMA StepBindsTokens ==
    ASSUME TokenInv, [SBTNext]_sbtVars, NEW t \in Tokens
    PROVE  /\ tokenOwner[t] # None => tokenOwner'[t] \in {tokenOwner[t], None}
           /\ (t <= tokenIdCounter /\ tokenOwner[t] = None) => tokenOwner'[t] = None
<1> USE SBTAssumption DEF TokenInv, Tokens
<1>1. ASSUME NEW to \in Accounts, NEW n \in Nat \ {0}, NEW u \in BOOLEAN, MintTokens(to, n, u)
      PROVE  /\ tokenOwner[t] # None => tokenOwner'[t] = tokenOwner[t]
             /\ (t <= tokenIdCounter /\ tokenOwner[t] = None) => tokenOwner'[t] = None
  BY <1>1 DEF MintTokens, SBTTypeOK, NothingLeftOfBurned
<1>2. CASE UNCHANGED sbtVars
  BY <1>2 DEF sbtVars
<1>3. CASE \E u \in Tokens, to \in Accounts : transferFrom(u, to)
  BY <1>2, <1>3, TransferChangesNothing
<1>4. CASE \E s \in Accounts : TokenCall(s) \/ RoleCall(s)
  <2> PICK s \in Accounts : TokenCall(s) \/ RoleCall(s)
    BY <1>4
  <2>1. CASE \E to \in Accounts : mint(s, to) \/ safeMint(s, to)
    <3> PICK to \in Accounts : MintTokens(to, 1, TRUE) \/ MintTokens(to, 1, FALSE)
      BY <2>1 DEF mint, safeMint
    <3>1. 1 \in Nat \ {0} /\ TRUE \in BOOLEAN /\ FALSE \in BOOLEAN
      OBVIOUS
    <3> QED BY <1>1, <3>1
  <2>2. CASE \E to \in Accounts, n \in 1..MaxBatch : batchMint(s, to, n)
    <3> PICK to \in Accounts, n \in 1..MaxBatch : batchMint(s, to, n)
      BY <2>2
    <3>1. n \in Nat \ {0}
      OBVIOUS
    <3> QED BY <1>1, <3>1 DEF batchMint
  <2>3. CASE \E u \in Tokens : burn(s, u) \/ revoke(s, u) \/ unrevoke(s, u)
    BY <2>3 DEF burn, revoke, unrevoke, SBTTypeOK
  <2>4. CASE RoleCall(s)
    BY <2>4 DEF RoleCall, addMinter, removeMinter, addBurner, removeBurner, SetMinters,
                SetBurners, setMaxSupply, transferOwnership
  <2> QED BY <2>1, <2>2, <2>3, <2>4 DEF TokenCall
<1> QED BY <1>2, <1>3, <1>4 DEF SBTNext

\* No token ever changes hands, and a burned token never comes back.
THEOREM TokensAreSoulbound == SBTSpec => Soulbound
<1>1. TokenInv /\ [SBTNext]_sbtVars =>
        [\A t \in Tokens :
            /\ tokenOwner[t] # None => tokenOwner'[t] \in {tokenOwner[t], None}
            /\ (t <= tokenIdCounter /\ tokenOwner[t] = None) => tokenOwner'[t] = None]_sbtVars
  BY StepBindsTokens
<1> QED BY <1>1, InitTokenInv, NextTokenInv, PTL DEF SBTSpec, Soulbound
-----------------------------------------------------------------------------
(* The services.                                                           *)

\* A set all of whose elements are equal has one at most.
LEMMA AtMostOne ==
    ASSUME NEW S, \A x, y \in S : x = y
    PROVE  IsFiniteSet(S) /\ Cardinality(S) \in 0..1
<1>1. CASE S = {}
  BY <1>1, FS_EmptySet
<1>2. CASE S # {}
  <2> PICK x : x \in S
    BY <1>2
  <2>1. S = {x}
    OBVIOUS
  <2>2. IsFiniteSet({x}) /\ Cardinality({x}) = 1
    BY FS_Singleton
  <2> QED BY <2>1, <2>2
<1> QED BY <1>1, <1>2

-----------------------------------------------------------------------------
(* Minting.                                                                *)

\* Each mined transaction has a token of its own, which nobody but its
\* recipient has owned.
OwnTokens ==
    /\ \A x \in Txs : tx[x] = "mined" =>
          /\ tokenOf[x] \in 1..tokenIdCounter
          /\ tokenOwner[tokenOf[x]] \in {Recipient[x[1]], None}
    /\ \A x, y \in Txs :
          tx[x] = "mined" /\ tx[y] = "mined" /\ tokenOf[x] = tokenOf[y] => x = y

\* Attempts submit in order, each once.
AttemptsInOrder ==
    \A m \in Mints :
        /\ \A k \in 1..MaxRetries : k > attempt[m] => tx[<<m, k>>] = "none"
        /\ pc[m] \in {"idle", "upload", "estimate", "submit"} => tx[Current(m)] = "none"
        /\ pc[m] = "backoff" => attempt[m] < MaxRetries

\* Unless an attempt was lost or thrown away, the one transaction that may yet
\* mint, or has, is that of the present attempt, while the mint waits for it or
\* is over.
FateKnown ==
    \A m \in Mints : ~lost[m] /\ m \notin threw =>
        \A k \in 1..MaxRetries :
            tx[<<m, k>>] \in {"pool", "mined"} =>
                k = attempt[m] /\ pc[m] \in {"wait", "block", "minted"}

\* Behind a receipt is a mined transaction, and the result is read from it.
ReceiptRead ==
    \A m \in Mints :
        /\ pc[m] \in {"block", "minted"} => tx[Current(m)] = "mined"
        /\ pc[m] = "minted" => result[m] = tokenOf[Current(m)]

MintInv ==
    /\ TokenInv /\ TypeOK
    /\ OwnTokens /\ AttemptsInOrder /\ FateKnown /\ ReceiptRead

LEMMA MintInit == Init => MintInv
<1> SUFFICES ASSUME Init PROVE MintInv
  OBVIOUS
<1>1. TokenInv
  BY InitTokenInv DEF Init
<1>2. TypeOK
  BY <1>1, MintingAssumption DEF Init, TypeOK, TokenInv, Points, Tokens
<1>3. OwnTokens /\ AttemptsInOrder /\ FateKnown /\ ReceiptRead
  BY MintingAssumption
  DEF Init, OwnTokens, AttemptsInOrder, FateKnown, ReceiptRead, Txs, Current
<1> QED BY <1>1, <1>2, <1>3 DEF MintInv

\* Whatever the service and others do, the contract takes steps of its own.
LEMMA StepUsesContract == [Next]_vars => [SBTNext]_sbtVars
<1> SUFFICES ASSUME [Next]_vars PROVE [SBTNext]_sbtVars
  OBVIOUS
<1>1. CASE UNCHANGED vars
  BY <1>1 DEF vars
<1>2. CASE \E m \in Mints : MintStep(m)
  BY <1>2 DEF MintStep, Run, Unreachable, Refused, OnProgressThrows, Start, BatchAborts, Uploaded, Estimated, Submitted,
              ReceiptArrives, WaitFails, Returns, BackoffEnds
<1>3. CASE \E x \in Txs : Execute(x) \/ DropTx(x)
  <2> PICK x \in Txs : Execute(x) \/ DropTx(x)
    BY <1>3
  <2>1. x[1] \in Mints
    BY DEF Txs
  <2>2. Signer \in Accounts /\ Recipient[x[1]] \in Accounts
    BY <2>1, MintingAssumption
  <2>3. CASE mint(Signer, Recipient[x[1]])
    BY <2>2, <2>3 DEF SBTNext, TokenCall
  <2> QED BY <2>3 DEF Execute, DropTx
<1>4. CASE Others
  BY <1>4, MintingAssumption DEF Others, SBTNext, TokenCall, RoleCall
<1> QED BY <1>1, <1>2, <1>3, <1>4 DEF Next

\* A step of a mint leaves the contract and the tokens of transactions alone.
LEMMA MintStepFrame ==
    ASSUME NEW m \in Mints, MintStep(m)
    PROVE  UNCHANGED <<sbtVars, callVars, tokenOf>>
BY DEF MintStep, Run, Unreachable, Refused, OnProgressThrows, Start, BatchAborts, Uploaded, Estimated, Submitted,
       ReceiptArrives, WaitFails, Returns, BackoffEnds

\* The catch of the loop keeps the types, moves to "backoff" only with an
\* attempt left, and forgets no loss.
LEMMA ThrowGoes ==
    ASSUME MintInv, NEW m \in Mints, NEW retryable \in BOOLEAN, NEW unsure \in BOOLEAN,
           Throw(m, retryable, unsure)
    PROVE  /\ pc' = [pc EXCEPT ![m] = pc'[m]] /\ pc'[m] \in {"backoff", "failed"}
           /\ pc'[m] = "backoff" => attempt[m] < MaxRetries
           /\ lost' = [lost EXCEPT ![m] = lost'[m]] /\ lost'[m] = (lost[m] \/ unsure)
BY DEF Throw, Goto, MintInv, TypeOK

\* What any step of a mint does to its place, its transactions and its result.
Effect(m) ==
    /\ pc' = [pc EXCEPT ![m] = pc'[m]] /\ pc'[m] \in Points
    /\ lost' = [lost EXCEPT ![m] = lost'[m]] /\ lost'[m] \in BOOLEAN
    /\ threw' \in {threw, threw \cup {m}}
    /\ \/ /\ pc[m] = "backoff" /\ pc'[m] = "upload"
          /\ attempt' = [attempt EXCEPT ![m] = @ + 1]
          /\ UNCHANGED <<tx, lost, result>>
       \/ /\ pc[m] = "idle" /\ pc'[m] = "skipped"
          /\ UNCHANGED <<attempt, tx, lost, result>>
       \/ /\ pc[m] \in {"idle", "upload", "estimate"}
          /\ pc'[m] \in {"upload", "estimate", "submit"}
          /\ UNCHANGED <<attempt, tx, lost, result>>
       \/ /\ pc[m] = "submit"
          /\ tx' = [tx EXCEPT ![Current(m)] = "pool"]
          /\ \/ pc'[m] = "wait" /\ UNCHANGED lost
             \/ /\ pc'[m] \in {"backoff", "failed"} /\ lost'[m] = TRUE
                /\ pc'[m] = "backoff" => attempt[m] < MaxRetries
          /\ UNCHANGED <<attempt, result>>
       \/ /\ pc'[m] \in {"backoff", "failed"}
          /\ pc'[m] = "backoff" => attempt[m] < MaxRetries
          /\ \/ pc[m] \in {"upload", "estimate", "submit"} /\ lost'[m] = lost[m]
             \/ pc[m] = "wait" /\ tx[Current(m)] = "reverted" /\ lost'[m] = lost[m]
             \/ lost'[m] = TRUE \/ m \in threw'
          /\ UNCHANGED <<attempt, tx, result>>
       \/ /\ pc[m] = "wait" /\ pc'[m] = "block" /\ tx[Current(m)] = "mined"
          /\ UNCHANGED <<attempt, tx, lost, result>>
       \/ /\ pc[m] = "block" /\ pc'[m] = "minted"
          /\ result' = [result EXCEPT ![m] = tokenOf[Current(m)]]
          /\ UNCHANGED <<attempt, tx, lost>>

LEMMA MintStepEffect ==
    ASSUME MintInv, NEW m \in Mints, MintStep(m)
    PROVE  Effect(m)
<1>1. pc \in [Mints -> Points] /\ lost \in [Mints -> BOOLEAN]
    BY DEF MintInv, TypeOK, Points
<1>2. CASE Start(m) \/ BatchAborts(m) \/ Uploaded(m) \/ (ReceiptArrives(m) /\ tx[Current(m)] = "mined")
  BY <1>1, <1>2 DEF Start, BatchAborts, Uploaded, ReceiptArrives, Goto, Effect, Points
<1>3. CASE BackoffEnds(m)
  BY <1>1, <1>3 DEF BackoffEnds, Goto, Effect, Points
<1>4. CASE Returns(m)
  BY <1>1, <1>4 DEF Returns, Goto, Effect, Points
<1>5. CASE Unreachable(m)
  BY <1>1, <1>5, ThrowGoes DEF Unreachable, Effect, Points
<1>6. CASE Refused(m)
  <2> PICK retryable \in BOOLEAN : Throw(m, retryable, FALSE)
    BY <1>6 DEF Refused
  <2> QED BY <1>1, <1>6, ThrowGoes DEF Refused, Effect, Points
<1>7. CASE Estimated(m)
  <2>1. CASE MintPasses
    BY <1>1, <1>7, <2>1 DEF Estimated, Goto, Effect, Points
  <2>2. CASE ~MintPasses
    BY <1>1, <1>7, <2>2, ThrowGoes DEF Estimated, Effect, Points
  <2> QED BY <2>1, <2>2
<1>8. CASE Submitted(m)
  <2>1. CASE Goto(m, "wait") /\ UNCHANGED lost
    BY <1>1, <1>8, <2>1 DEF Submitted, Goto, Effect, Points
  <2>2. CASE Throw(m, TRUE, TRUE)
    BY <1>1, <1>8, <2>2, ThrowGoes DEF Submitted, Effect, Points
  <2> QED BY <1>8, <2>1, <2>2 DEF Submitted
<1>9. CASE ReceiptArrives(m) /\ tx[Current(m)] # "mined"
  BY <1>1, <1>9, ThrowGoes DEF ReceiptArrives, Effect, Points
<1>10. CASE WaitFails(m)
  BY <1>1, <1>10, ThrowGoes DEF WaitFails, Effect, Points
<1>11. CASE OnProgressThrows(m)
  <2> PICK retryable \in BOOLEAN : Throw(m, retryable, FALSE)
    BY <1>11 DEF OnProgressThrows
  <2> QED BY <1>1, <1>11, ThrowGoes DEF OnProgressThrows, Effect, Points
<1> QED BY <1>2, <1>3, <1>4, <1>5, <1>6, <1>7, <1>8, <1>9, <1>10, <1>11 DEF MintStep, Run

LEMMA MintStepTypes ==
    ASSUME MintInv, NEW m \in Mints, MintStep(m), TokenInv'
    PROVE  TypeOK'
<1> USE DEF MintInv, TypeOK
<1>1. Effect(m) /\ UNCHANGED <<before, lowGas, tokenOf>>
  BY MintStepEffect, MintStepFrame DEF callVars
<1>2. Current(m) \in Txs
  BY DEF Current, Txs
<1>3. pc' \in [Mints -> Points] /\ lost' \in [Mints -> BOOLEAN]
  BY <1>1 DEF Effect
<1>4. attempt' \in [Mints -> 1..MaxRetries]
  <2>1. CASE attempt' = attempt
    BY <2>1
  <2>2. CASE pc[m] = "backoff" /\ attempt' = [attempt EXCEPT ![m] = @ + 1]
    <3>1. attempt[m] + 1 \in 1..MaxRetries
      BY <2>2, MintingAssumption DEF AttemptsInOrder
    <3> QED BY <2>2, <3>1
  <2> QED BY <1>1, <2>1, <2>2 DEF Effect
<1>5. tx' \in [Txs -> {"none", "pool", "mined", "reverted", "dropped"}]
  BY <1>1, <1>2 DEF Effect
<1>6. result' \in [Mints -> Tokens \cup {None}]
  BY <1>1, <1>2 DEF Effect
<1> QED BY <1>1, <1>3, <1>4, <1>5, <1>6 DEF TokenInv, Effect

\* The transactions of the other mints, and of other attempts, stay as they are;
\* a step of a mint makes no transaction a mined one.
LEMMA MintStepTxs ==
    ASSUME MintInv, NEW m \in Mints, MintStep(m)
    PROVE  /\ \A n \in Mints \ {m} :
                 /\ pc'[n] = pc[n] /\ attempt'[n] = attempt[n]
                 /\ lost'[n] = lost[n] /\ result'[n] = result[n]
                 /\ (n \in threw' <=> n \in threw)
                 /\ \A k \in 1..MaxRetries : tx'[<<n, k>>] = tx[<<n, k>>]
           /\ \A k \in 1..MaxRetries :
                 tx'[<<m, k>>] = IF pc[m] = "submit" /\ tx' # tx /\ k = attempt[m]
                                 THEN "pool" ELSE tx[<<m, k>>]
           /\ \A x \in Txs : tx'[x] = "mined" <=> tx[x] = "mined"
<1> USE DEF MintInv, TypeOK
<1>1. Effect(m)
  BY MintStepEffect
<1>2. \A n \in Mints, k \in 1..MaxRetries : <<n, k>> \in Txs
  BY DEF Txs
<1>3. Current(m) \in Txs /\ Current(m) = <<m, attempt[m]>> /\ attempt[m] \in 1..MaxRetries
  BY DEF Current, Txs
<1>4. \A n \in Mints \ {m} : /\ pc'[n] = pc[n] /\ attempt'[n] = attempt[n]
                              /\ lost'[n] = lost[n] /\ result'[n] = result[n]
                              /\ (n \in threw' <=> n \in threw)
  BY <1>1 DEF Effect
<1>5. CASE tx' = tx
  BY <1>4, <1>5
<1>6. CASE pc[m] = "submit" /\ tx' = [tx EXCEPT ![<<m, attempt[m]>>] = "pool"]
  <2>1. tx[<<m, attempt[m]>>] = "none"
    BY <1>3, <1>6 DEF AttemptsInOrder
  <2>2. tx'[<<m, attempt[m]>>] = "pool" /\ tx' # tx
    BY <1>3, <1>6, <2>1
  <2>3. \A x \in Txs : x # <<m, attempt[m]>> => tx'[x] = tx[x]
    BY <1>6
  <2>4. \A n \in Mints, k \in 1..MaxRetries :
           <<n, k>> # <<m, attempt[m]>> => tx'[<<n, k>>] = tx[<<n, k>>]
    BY <1>2, <2>3
  <2>5. \A x \in Txs : tx'[x] = "mined" <=> tx[x] = "mined"
    BY <2>1, <2>2, <2>3
  <2>6. \A n \in Mints \ {m}, k \in 1..MaxRetries : tx'[<<n, k>>] = tx[<<n, k>>]
    BY <2>4
  <2>7. \A k \in 1..MaxRetries : tx'[<<m, k>>] = IF k = attempt[m] THEN "pool" ELSE tx[<<m, k>>]
    BY <1>3, <2>2, <2>4
  <2> QED BY <1>4, <1>6, <2>2, <2>5, <2>6, <2>7
<1> QED BY <1>1, <1>3, <1>5, <1>6 DEF Effect

LEMMA MintStepInv ==
    ASSUME MintInv, NEW m \in Mints, MintStep(m), TokenInv'
    PROVE  MintInv'
<1> USE DEF MintInv
<1>1. TypeOK'
  BY MintStepTypes
<1>2. Effect(m) /\ UNCHANGED <<tokenIdCounter, tokenOwner, tokenOf>>
  BY MintStepEffect, MintStepFrame DEF sbtVars
<1>3. OwnTokens'
  BY <1>2, MintStepTxs DEF OwnTokens
<1>4. attempt[m] \in 1..MaxRetries /\ attempt'[m] \in 1..MaxRetries
  BY <1>1 DEF TypeOK
<1>5. AttemptsInOrder'
  <2> SUFFICES ASSUME NEW n \in Mints
               PROVE  /\ \A k \in 1..MaxRetries : k > attempt'[n] => tx'[<<n, k>>] = "none"
                      /\ pc'[n] \in {"idle", "upload", "estimate", "submit"} =>
                            tx'[<<n, attempt'[n]>>] = "none"
                      /\ pc'[n] = "backoff" => attempt'[n] < MaxRetries
    BY DEF AttemptsInOrder, Current
  <2>1. CASE n # m
    <3>1. attempt[n] \in 1..MaxRetries
      BY DEF TypeOK
    <3> QED BY <2>1, <3>1, MintStepTxs DEF AttemptsInOrder, Current
  <2>2. CASE n = m
    <3>1. CASE pc[m] = "backoff" /\ pc'[m] = "upload" /\ attempt'[m] = attempt[m] + 1 /\ tx' = tx
      <4>1. \A k \in 1..MaxRetries : k > attempt[m] => tx'[<<m, k>>] = "none"
        BY <3>1 DEF AttemptsInOrder
      <4>2. attempt'[m] > attempt[m] /\ \A k \in 1..MaxRetries : k > attempt'[m] => k > attempt[m]
        BY <1>4, <3>1, MintingAssumption
      <4> QED BY <1>4, <2>2, <3>1, <4>1, <4>2
    <3>2. CASE attempt' = attempt
      <4>1. \A k \in 1..MaxRetries : k > attempt[m] => tx'[<<m, k>>] = "none"
        BY <1>4, MintingAssumption, MintStepTxs DEF AttemptsInOrder
      <4>2. pc'[m] \in {"upload", "estimate", "submit", "idle"} =>
              pc[m] \in {"idle", "upload", "estimate"} /\ tx' = tx
        <5>1. attempt' # [attempt EXCEPT ![m] = @ + 1]
          BY <1>4, <3>2 DEF TypeOK
        <5> QED BY <1>2, <3>2, <5>1 DEF Effect
      <4>3. pc'[m] = "backoff" => attempt[m] < MaxRetries
        BY <1>2 DEF Effect
      <4> QED BY <2>2, <3>2, <4>1, <4>2, <4>3 DEF AttemptsInOrder, Current
    <3> QED BY <1>2, <3>1, <3>2 DEF Effect, TypeOK
  <2> QED BY <2>1, <2>2
<1>6. FateKnown'
  <2> SUFFICES ASSUME NEW n \in Mints, ~lost'[n], n \notin threw', NEW k \in 1..MaxRetries,
                      tx'[<<n, k>>] \in {"pool", "mined"}
               PROVE  k = attempt'[n] /\ pc'[n] \in {"wait", "block", "minted"}
    BY DEF FateKnown
  <2>1. CASE n # m
    BY <2>1, MintStepTxs DEF FateKnown
  <2>2. CASE n = m
    <3>1. ~lost[m] /\ m \notin threw
      BY <1>2, <2>2 DEF Effect, TypeOK
    <3>2. CASE tx' = tx
      BY <1>2, <2>2, <3>1, <3>2 DEF FateKnown, Effect, Current
    <3>3. CASE tx' # tx
      <4>1. pc[m] = "submit" /\ attempt' = attempt /\ pc'[m] = "wait"
        BY <1>2, <2>2, <3>3 DEF Effect
      <4>2. k # attempt[m] => tx[<<m, k>>] \in {"pool", "mined"}
        BY <2>2, MintStepTxs
      <4> QED BY <2>2, <3>1, <4>1, <4>2 DEF FateKnown
    <3> QED BY <3>2, <3>3
  <2> QED BY <2>1, <2>2
<1>7. ReceiptRead'
  <2> SUFFICES ASSUME NEW n \in Mints
               PROVE  /\ pc'[n] \in {"block", "minted"} => tx'[<<n, attempt'[n]>>] = "mined"
                      /\ pc'[n] = "minted" => result'[n] = tokenOf'[<<n, attempt'[n]>>]
    BY DEF ReceiptRead, Current
  <2>1. CASE n # m
    <3>1. attempt[n] \in 1..MaxRetries
      BY DEF TypeOK
    <3> QED BY <1>2, <2>1, <3>1, MintStepTxs DEF ReceiptRead, Current
  <2>2. CASE n = m
    <3>1. CASE pc'[m] = "block"
      <4>1. tx[Current(m)] = "mined" /\ attempt' = attempt /\ tx' = tx
        BY <1>2, <3>1 DEF Effect
      <4> QED BY <2>2, <3>1, <4>1 DEF Current
    <3>2. CASE pc'[m] = "minted"
      <4>1. pc[m] = "block" /\ attempt' = attempt /\ tx' = tx
            /\ result' = [result EXCEPT ![m] = tokenOf[Current(m)]]
        BY <1>2, <3>2 DEF Effect
      <4> QED BY <1>2, <2>2, <3>2, <4>1 DEF ReceiptRead, Current, TypeOK
    <3> QED BY <2>2, <3>1, <3>2
  <2> QED BY <2>1, <2>2
<1> QED BY <1>1, <1>3, <1>5, <1>6, <1>7

\* Only tokens beyond the counter get a new owner.
LEMMA OwnersStay ==
    ASSUME TokenInv, [SBTNext]_sbtVars, NEW t \in 1..tokenIdCounter
    PROVE  t \in Tokens /\ tokenOwner'[t] \in {tokenOwner[t], None}
<1>1. t \in Tokens /\ t <= tokenIdCounter
  BY SBTAssumption DEF TokenInv, SBTTypeOK, Tokens
<1> QED BY <1>1, StepBindsTokens

LEMMA ExecuteInv ==
    ASSUME MintInv, NEW x \in Txs, Execute(x), [SBTNext]_sbtVars, TokenInv'
    PROVE  MintInv'
<1> USE DEF MintInv, TypeOK
<1>1. tx[x] = "pool" /\ UNCHANGED <<before, lowGas, pc, attempt, lost, threw, result>>
  BY DEF Execute, callVars
<1>2. PICK n \in Mints, i \in 1..MaxRetries : x = <<n, i>>
  BY DEF Txs
<1>3. \A m \in Mints, k \in 1..MaxRetries : <<m, k>> \in Txs
  BY DEF Txs
<1>4. \A m \in Mints : Current(m) \in Txs /\ attempt[m] \in 1..MaxRetries
  BY DEF Current, Txs
<1>5. \A y \in Txs : tx[y] = "mined" => y # x /\ tx'[y] = "mined" /\ tokenOf'[y] = tokenOf[y]
  BY <1>1 DEF Execute
<1>6. \A y \in Txs : tx'[y] \in {"none", "pool"} => tx'[y] = tx[y]
  BY <1>1 DEF Execute
<1>7. \A y \in Txs : tx[y] = "none" => tx'[y] = "none"
  BY <1>1 DEF Execute
<1>8. \A y \in Txs : tx'[y] = "mined" => tx[y] \in {"pool", "mined"}
  BY <1>1 DEF Execute
<1>9. /\ tokenOf' \in [Txs -> Tokens \cup {None}]
      /\ tx' \in [Txs -> {"none", "pool", "mined", "reverted", "dropped"}]
      /\ OwnTokens'
  <2>1. CASE /\ mint(Signer, Recipient[x[1]])
             /\ tx' = [tx EXCEPT ![x] = "mined"]
             /\ tokenOf' = [tokenOf EXCEPT ![x] = tokenIdCounter + 1]
    <3>1. /\ tokenIdCounter \in Nat /\ tokenIdCounter' = tokenIdCounter + 1
          /\ tokenIdCounter + 1 \in Tokens
          /\ tokenOwner'[tokenIdCounter + 1] = Recipient[x[1]]
      BY <2>1, SBTAssumption DEF mint, MintTokens, Tokens, TokenInv, SBTTypeOK
    <3>2. \A y \in Txs : tx[y] = "mined" =>
             tokenOf[y] \in 1..tokenIdCounter
             /\ tokenOwner'[tokenOf[y]] \in {Recipient[y[1]], None}
      BY OwnersStay DEF OwnTokens
    <3>3. tx'[x] = "mined" /\ tokenOf'[x] = tokenIdCounter + 1
          /\ \A y \in Txs : y # x => tx'[y] = tx[y] /\ tokenOf'[y] = tokenOf[y]
      BY <2>1
    <3>4. \A y \in Txs : tx'[y] = "mined" =>
             tokenOf'[y] \in 1..tokenIdCounter'
             /\ tokenOwner'[tokenOf'[y]] \in {Recipient[y[1]], None}
      BY <3>1, <3>2, <3>3
    <3>5. \A y \in Txs : tx'[y] = "mined" /\ y # x => tokenOf'[y] # tokenOf'[x]
      BY <3>1, <3>2, <3>3
    <3>6. \A y, z \in Txs :
             tx'[y] = "mined" /\ tx'[z] = "mined" /\ tokenOf'[y] = tokenOf'[z] => y = z
      BY <3>3, <3>5 DEF OwnTokens
    <3> QED BY <2>1, <3>1, <3>4, <3>6 DEF OwnTokens
  <2>2. CASE tx' = [tx EXCEPT ![x] = "reverted"] /\ UNCHANGED <<sbtVars, tokenOf>>
    BY <2>2 DEF OwnTokens, sbtVars
  <2> QED BY <2>1, <2>2 DEF Execute
<1>10. TypeOK'
  BY <1>1, <1>9 DEF TokenInv
<1>11. AttemptsInOrder'
  BY <1>1, <1>3, <1>4, <1>7 DEF AttemptsInOrder, Current
<1>12. FateKnown'
  BY <1>1, <1>3, <1>6, <1>8 DEF FateKnown
<1>13. ReceiptRead'
  BY <1>1, <1>4, <1>5 DEF ReceiptRead, Current
<1> QED BY <1>9, <1>10, <1>11, <1>12, <1>13

LEMMA DropInv ==
    ASSUME MintInv, NEW x \in Txs, DropTx(x), TokenInv'
    PROVE  MintInv'
<1> USE DEF MintInv, TypeOK
<1>1. /\ tx[x] = "pool" /\ tx' = [tx EXCEPT ![x] = "dropped"]
      /\ UNCHANGED <<tokenIdCounter, tokenOwner, before, lowGas>>
      /\ UNCHANGED <<pc, attempt, tokenOf, lost, threw, result>>
  BY DEF DropTx, sbtVars, callVars
<1>2. \A m \in Mints, k \in 1..MaxRetries : <<m, k>> \in Txs
  BY DEF Txs
<1>3. \A m \in Mints : Current(m) \in Txs /\ attempt[m] \in 1..MaxRetries
  BY DEF Current, Txs
<1>4. \A y \in Txs : /\ tx'[y] \in {"pool", "mined"} => tx[y] = tx'[y]
                     /\ tx[y] \in {"none", "mined"} => tx'[y] = tx[y]
  BY <1>1
<1>5. TypeOK'
  BY <1>1 DEF TokenInv
<1>6. OwnTokens'
  BY <1>1, <1>4 DEF OwnTokens
<1>7. AttemptsInOrder' /\ ReceiptRead'
  BY <1>1, <1>2, <1>3, <1>4 DEF AttemptsInOrder, ReceiptRead, Current
<1>8. FateKnown'
  BY <1>1, <1>2, <1>4 DEF FateKnown
<1> QED BY <1>5, <1>6, <1>7, <1>8

\* Others cannot touch what a mint knows, only the tokens.
LEMMA OthersInv ==
    ASSUME MintInv, UNCHANGED <<callVars, mintVars>>, [SBTNext]_sbtVars, TokenInv',
           tokenIdCounter' >= tokenIdCounter
    PROVE  MintInv'
<1> USE DEF MintInv
<1>1. UNCHANGED <<before, lowGas, pc, attempt, tx, tokenOf, lost, threw, result>>
  BY DEF callVars, mintVars
<1>2. TypeOK'
  BY <1>1 DEF TypeOK, TokenInv
<1>3. OwnTokens'
  <2>1. tokenIdCounter \in Int /\ tokenIdCounter' \in Int
    BY DEF TokenInv, SBTTypeOK
  <2>2. \A x \in Txs : tx[x] = "mined" =>
           tokenOf[x] \in 1..tokenIdCounter' /\ tokenOwner'[tokenOf[x]] \in {Recipient[x[1]], None}
    BY <2>1, OwnersStay DEF OwnTokens
  <2> QED BY <1>1, <2>2 DEF OwnTokens
<1>4. AttemptsInOrder' /\ FateKnown' /\ ReceiptRead'
  BY <1>1 DEF AttemptsInOrder, FateKnown, ReceiptRead, Current
<1> QED BY <1>2, <1>3, <1>4

LEMMA MintNext == MintInv /\ [Next]_vars => MintInv'
<1> SUFFICES ASSUME MintInv, [Next]_vars PROVE MintInv'
  OBVIOUS
<1>1. [SBTNext]_sbtVars /\ TokenInv'
  BY StepUsesContract, NextTokenInv DEF MintInv
<1>2. CASE UNCHANGED vars
  <2>1. tokenIdCounter' = tokenIdCounter /\ tokenIdCounter \in Int
    BY <1>2 DEF vars, sbtVars, MintInv, TokenInv, SBTTypeOK
  <2> QED BY <1>1, <1>2, <2>1, OthersInv DEF vars
<1>3. CASE \E m \in Mints : MintStep(m)
  BY <1>1, <1>3, MintStepInv
<1>4. CASE \E x \in Txs : Execute(x) \/ DropTx(x)
  BY <1>1, <1>4, ExecuteInv, DropInv
<1>5. CASE Others
  <2>1. tokenIdCounter' >= tokenIdCounter
    <3>1. tokenIdCounter \in Int
      BY DEF MintInv, TokenInv, SBTTypeOK
    <3>2. tokenIdCounter' \in {tokenIdCounter, tokenIdCounter + 1}
      BY <1>5 DEF Others, burn, setMaxSupply, removeMinter, addMinter, SetMinters, safeMint,
         MintTokens
    <3> QED BY <3>1, <3>2
  <2> QED BY <1>1, <1>5, <2>1, OthersInv DEF Others
<1> QED BY <1>2, <1>3, <1>4, <1>5 DEF Next

\* A mint returns the token its own transaction minted, which only its own
\* recipient has owned, and no two mints return the same one.
THEOREM MintReturnsOwnToken == Spec => []ResultIsOwnToken
<1>1. MintInv => ResultIsOwnToken
  <2> SUFFICES ASSUME MintInv, NEW m \in Mints, pc[m] = "minted"
               PROVE  /\ result[m] # None /\ result[m] = tokenOf[Current(m)]
                      /\ tokenOwner[result[m]] \in {Recipient[m], None}
                      /\ \A n \in Mints \ {m} : pc[n] = "minted" => result[n] # result[m]
    BY DEF ResultIsOwnToken
  <2>1. \A n \in Mints : Current(n) \in Txs /\ Current(n)[1] = n
    BY DEF MintInv, TypeOK, Current, Txs
  <2>2. \A n \in Mints : pc[n] = "minted" => tx[Current(n)] = "mined" /\ result[n] = tokenOf[Current(n)]
    BY DEF MintInv, ReceiptRead
  <2>3. result[m] \in 1..tokenIdCounter /\ tokenOwner[result[m]] \in {Recipient[m], None}
    BY <2>1, <2>2 DEF MintInv, OwnTokens
  <2>4. result[m] # None
    BY <2>3, MintingAssumption
  <2>5. ASSUME NEW n \in Mints \ {m}, pc[n] = "minted" PROVE result[n] # result[m]
    <3>1. Current(n) # Current(m)
      BY <2>1
    <3> QED BY <2>1, <2>2, <2>5, <3>1 DEF MintInv, OwnTokens
  <2> QED BY <2>2, <2>3, <2>4, <2>5
<1> QED BY <1>1, MintInit, MintNext, PTL DEF Spec

\* Without an attempt that was lost, or thrown away by onProgress, a mint makes
\* one token at most, and none when it fails.
THEOREM MintOnceUnlessLost == Spec => []DuplicateOnlyIfLost
<1>1. MintInv => DuplicateOnlyIfLost
  <2> SUFFICES ASSUME MintInv, NEW m \in Mints, ~lost[m], m \notin threw
               PROVE  Cardinality(Minted(m)) <= 1 /\ (pc[m] = "failed" => Minted(m) = {})
    BY DEF DuplicateOnlyIfLost
  <2>1. \A k \in Minted(m) : k = attempt[m] /\ pc[m] # "failed"
    BY DEF MintInv, FateKnown, Minted
  <2>2. Cardinality(Minted(m)) \in 0..1
    BY <2>1, AtMostOne
  <2> QED BY <2>1, <2>2
<1> QED BY <1>1, MintInit, MintNext, PTL DEF Spec

\* The contract under the services is the contract: whatever they do, its
\* state moves by its own calls.
THEOREM MintingUsesContract == Spec => SBTSpec
BY StepUsesContract, PTL DEF Spec, SBTSpec, Init
-----------------------------------------------------------------------------
(* Subscriptions.                                                          *)

\* The listeners that are attached, or will be when contract.on is through.
EvListeners == evAttached \cup evPending

\* A listener is attached to one object, which was the contract when it was
\* made; its subscription stands, unless it is being taken off, was overtaken by
\* removeAllListeners, or the contract is another object by now.
EvAttachedOnce ==
    /\ \A s \in EvSubs, o1, o2 \in EvObjects :
          <<s, o1>> \in EvListeners /\ <<s, o2>> \in EvListeners => o1 = o2
    /\ \A s \in EvSubs, o \in EvObjects : <<s, o>> \in EvListeners =>
          /\ s \in evMade /\ o <= evObject
          /\ s \in evMap \/ s \in evRaced \/ <<s, o>> \in evLeaving \/ o < evObject
    /\ \A s \in EvSubs, o \in EvObjects : <<s, o>> \in evLeaving => s \in evMade \ evMap
    /\ \A s \in evMap :
          s \in evRejected \/ \E o \in EvObjects : <<s, o>> \in EvListeners

\* A callback is called only with an event that was emitted, and once.
EvCalledOnce ==
    \A p \in EvSubs \X EvEvents :
        /\ evReading[p] + evHeard[p] <= 1
        /\ p[2] \notin evEmitted => evReading[p] = 0 /\ evHeard[p] = 0

EvInv == EvTypeOK /\ EvAttachedOnce /\ EvCalledOnce

LEMMA ListensAtMostOnce ==
    ASSUME EvInv, NEW s \in EvSubs
    PROVE  /\ Listens(s) \in 0..1
           /\ (\E o \in EvObjects : <<s, o>> \in evAttached) => Listens(s) = 1
<1> DEFINE S == {o \in EvObjects : <<s, o>> \in evAttached}
<1>1. \A x, y \in S : x = y
  BY DEF EvInv, EvAttachedOnce, EvListeners
<1>2. IsFiniteSet(S) /\ Cardinality(S) \in 0..1
  BY <1>1, AtMostOne
<1>3. (\E o \in EvObjects : <<s, o>> \in evAttached) => S # {}
  OBVIOUS
<1>4. Cardinality(S) = 0 => S = {}
  BY <1>2, FS_EmptySet
<1>5. Listens(s) = Cardinality(S)
  BY DEF Listens
<1> HIDE DEF S
<1> QED BY <1>2, <1>3, <1>4, <1>5

LEMMA EvInitInv == EvInit => EvInv
BY EventsAssumption
DEF EvInit, EvInv, EvTypeOK, EvAttachedOnce, EvListeners, EvCalledOnce, EvObjects

\* What becomes of a subscription calls nobody back.
LEMMA EvListenersInv ==
    ASSUME EvInv, UNCHANGED <<evEmitted, evReading, evHeard>>, EvTypeOK', EvAttachedOnce'
    PROVE  EvInv'
BY DEF EvInv, EvCalledOnce

LEMMA EvNextInv == EvInv /\ [EvNext]_evVars => EvInv'
<1> SUFFICES ASSUME EvInv, [EvNext]_evVars PROVE EvInv'
  OBVIOUS
<1> USE EventsAssumption DEF EvInv, EvObjects
<1>1. CASE UNCHANGED evVars
  BY <1>1 DEF evVars, evLate, EvTypeOK, EvAttachedOnce, EvListeners, EvCalledOnce
<1>2. ASSUME NEW s \in EvSubs, Subscribe(s) PROVE EvInv'
  <2>1. EvTypeOK'
    BY <1>2 DEF Subscribe, EvTypeOK
  <2>2. EvAttachedOnce'
    <3>1. EvListeners' = EvListeners \cup {<<s, evObject>>}
      BY <1>2 DEF Subscribe, EvListeners
    <3>2. \A q \in EvSubs, o \in EvObjects : <<q, o>> \in EvListeners' =>
             (<<q, o>> \in EvListeners /\ q # s) \/ (q = s /\ o = evObject)
      BY <1>2, <3>1 DEF Subscribe, EvAttachedOnce
    <3>3. evObject \in EvObjects /\ evMap' = evMap \cup {s} /\ evMade' = evMade \cup {s}
          /\ UNCHANGED <<evObject, evLeaving, evRaced, evRejected>> /\ s \notin evMade
      BY <1>2 DEF Subscribe, EvTypeOK
    <3> QED BY <3>1, <3>2, <3>3 DEF EvAttachedOnce
  <2> QED BY <1>2, <2>1, <2>2, EvListenersInv DEF Subscribe
<1>3. ASSUME NEW p \in EvSubs \X EvObjects, Attached(p) PROVE EvInv'
  <2>1. EvTypeOK'
    BY <1>3 DEF Attached, EvTypeOK
  <2>2. EvListeners' = EvListeners
    BY <1>3 DEF Attached, EvListeners
  <2>3. EvAttachedOnce'
    BY <1>3, <2>2 DEF Attached, EvAttachedOnce
  <2> QED BY <1>3, <2>1, <2>3, EvListenersInv DEF Attached
<1>4. ASSUME NEW p \in EvSubs \X EvObjects, Rejected(p) PROVE EvInv'
  <2>1. EvTypeOK'
    BY <1>4 DEF Rejected, EvTypeOK
  <2>2. /\ \A q \in EvListeners' : q \in EvListeners
        /\ \A q \in EvListeners : q \in EvListeners' \/ q = p
    BY <1>4 DEF Rejected, EvListeners
  <2>3. /\ \A s \in EvSubs, o \in EvObjects : p = <<s, o>> => s \in evRejected'
        /\ UNCHANGED <<evObject, evMade, evMap, evRaced, evLeaving>>
        /\ evMap \subseteq EvSubs /\ evRejected \subseteq evRejected'
    BY <1>4 DEF Rejected, EvTypeOK
  <2>4. EvAttachedOnce'
    BY <2>2, <2>3 DEF EvAttachedOnce
  <2> QED BY <1>4, <2>1, <2>4, EvListenersInv DEF Rejected
<1>5. ASSUME NEW p \in EvSubs \X EvObjects, Detached(p) PROVE EvInv'
  <2>1. EvTypeOK'
    BY <1>5 DEF Detached, EvTypeOK
  <2>2. EvListeners' = EvListeners \ {p} /\ p \in evLeaving
    BY <1>5 DEF Detached, EvListeners
  <2>3. UNCHANGED <<evObject, evMade, evMap, evRaced, evRejected>>
        /\ evLeaving' = evLeaving \ {p} /\ evMap \subseteq EvSubs
    BY <1>5 DEF Detached, EvTypeOK
  <2>4. EvAttachedOnce'
    BY <2>2, <2>3 DEF EvAttachedOnce
  <2> QED BY <1>5, <2>1, <2>4, EvListenersInv DEF Detached
<1>6. ASSUME NEW s \in EvSubs, unsubscribe(s) PROVE EvInv'
  <2>1. EvTypeOK'
    BY <1>6 DEF unsubscribe, EvTypeOK
  <2>2. EvListeners' = EvListeners
    BY <1>6 DEF unsubscribe, EvListeners
  <2>3. /\ UNCHANGED <<evObject, evMade, evRaced, evRejected>>
        /\ evMap' = evMap \ {s} /\ s \in evMap /\ evMap \subseteq evMade
        /\ evLeaving' = evLeaving \cup {<<s, evObject>>} /\ evObject \in 0..EvMaxUpdates
    BY <1>6 DEF unsubscribe, EvTypeOK
  <2>4. EvAttachedOnce'
    BY <2>2, <2>3 DEF EvAttachedOnce
  <2> QED BY <1>6, <2>1, <2>4, EvListenersInv DEF unsubscribe
<1>7. CASE removeAllListeners
  <2>1. EvTypeOK'
    BY <1>7 DEF removeAllListeners, EvTypeOK
  <2>2. /\ \A q \in EvListeners' : q \in EvListeners
        /\ \A s \in EvSubs : <<s, evObject>> \in EvListeners' => <<s, evObject>> \in evPending
    BY <1>7 DEF removeAllListeners, EvListeners
  <2>3. /\ UNCHANGED <<evObject, evMade, evLeaving>> /\ evMap' = {} /\ evObject \in 0..EvMaxUpdates
        /\ evRaced' = evRaced \cup {s \in evMap : <<s, evObject>> \in evPending}
    BY <1>7 DEF removeAllListeners, EvTypeOK
  <2>4. EvAttachedOnce'
    BY <2>2, <2>3 DEF EvAttachedOnce
  <2> QED BY <1>7, <2>1, <2>4, EvListenersInv DEF removeAllListeners
<1>8. CASE updateSigner
  <2>1. EvTypeOK' /\ evObject' > evObject
    BY <1>8 DEF updateSigner, evLate, EvTypeOK
  <2>2. EvAttachedOnce'
    BY <1>8 DEF updateSigner, evLate, EvTypeOK, EvAttachedOnce, EvListeners
  <2> QED BY <1>8, <2>1, <2>2, EvListenersInv DEF updateSigner
<1>9. ASSUME NEW e \in EvEvents, Emitted(e) PROVE EvInv'
  <2>1. \A p \in EvSubs \X EvEvents : p[1] \in EvSubs /\ Listens(p[1]) \in 0..1
    BY ListensAtMostOnce
  <2>2. /\ evHeard' = evHeard /\ evEmitted' = evEmitted \cup {e} /\ e \notin evEmitted
        /\ UNCHANGED <<evObject, evAttached, evLate, evMap, evMade>>
        /\ evReading' \in [EvSubs \X EvEvents -> Nat]
        /\ \A p \in EvSubs \X EvEvents :
              /\ p[2] = e => evReading'[p] \in 0..1
              /\ p[2] # e => evReading'[p] = evReading[p]
    BY <1>9, <2>1 DEF Emitted, EvTypeOK
  <2>4. EvTypeOK'
    BY <2>2 DEF evLate, EvTypeOK
  <2>5. EvCalledOnce'
    BY <2>2 DEF EvTypeOK, EvCalledOnce
  <2>3. EvAttachedOnce'
    BY <1>9 DEF Emitted, evLate, EvAttachedOnce, EvListeners
  <2> QED BY <2>3, <2>4, <2>5
<1>10. ASSUME NEW p \in EvSubs \X EvEvents, CalledBack(p) PROVE EvInv'
  <2>1. EvTypeOK' /\ EvCalledOnce'
    BY <1>10 DEF CalledBack, evLate, EvTypeOK, EvCalledOnce
  <2>2. EvAttachedOnce'
    BY <1>10 DEF CalledBack, evLate, EvAttachedOnce, EvListeners
  <2> QED BY <2>1, <2>2
<1> QED BY <1>1, <1>2, <1>3, <1>4, <1>5, <1>6, <1>7, <1>8, <1>9, <1>10 DEF EvNext

\* No callback is called twice with an event; a subscription that stands has its
\* listener unless contract.on was rejected; and only an update of the signer, or
\* a removeAllListeners before contract.on is through, leaves a listener behind.
THEOREM SubscriptionsHeardOnce == EvSpec => []HeardOnce
<1>1. EvInv => HeardOnce
  <2> SUFFICES ASSUME EvInv PROVE HeardOnce
    OBVIOUS
  <2>1. \A s \in EvSubs : Listens(s) <= 1
    BY ListensAtMostOnce
  <2>2. \A s \in evMap : \/ Listens(s) = 1 \/ s \in evRejected
                         \/ \E o \in EvObjects : <<s, o>> \in evPending
    BY ListensAtMostOnce DEF EvInv, EvTypeOK, EvAttachedOnce, EvListeners
  <2>3. \A p \in evAttached :
           p[1] \in evMap \cup evRaced \/ p \in evLeaving \/ p[2] < evObject
    BY DEF EvInv, EvTypeOK, EvAttachedOnce, EvListeners
  <2> QED BY <2>1, <2>2, <2>3 DEF EvInv, EvCalledOnce, HeardOnce
<1> QED BY <1>1, EvInitInv, EvNextInv, PTL DEF EvSpec
-----------------------------------------------------------------------------
(* Deployments and records.                                                *)

AbiEntry == [version : FaVersions \cup {FaArtifact}, isActive : BOOLEAN]

\* At most one entry of a list of versions is active.
OneActive(abis) == \A i, j \in 1..Len(abis) : abis[i].isActive /\ abis[j].isActive => i = j

\* A function on 1..n is a sequence of length n.
LEMMA FunctionIsSeq ==
    ASSUME NEW n \in Nat, NEW S, NEW f \in [1..n -> S]
    PROVE  f \in Seq(S) /\ Len(f) = n
<1>1. f \in Seq(S)
  BY SeqDef
<1>2. DOMAIN f = 1..Len(f) /\ DOMAIN f = 1..n /\ Len(f) \in Nat
  BY <1>1, LenProperties
<1>3. Len(f) <= n /\ n <= Len(f)
  BY <1>2
<1> QED BY <1>1, <1>2, <1>3

LEMMA InactiveHasNone ==
    ASSUME NEW abis \in Seq(AbiEntry)
    PROVE  /\ Inactive(abis) \in Seq(AbiEntry) /\ Len(Inactive(abis)) = Len(abis)
           /\ \A i \in 1..Len(abis) : ~Inactive(abis)[i].isActive
<1>1. Len(abis) \in Nat /\ \A i \in 1..Len(abis) : abis[i] \in AbiEntry
  BY LenProperties, ElementOfSeq
<1>2. Inactive(abis) \in [1..Len(abis) -> AbiEntry]
      /\ \A i \in 1..Len(abis) : Inactive(abis)[i].isActive = FALSE
  BY <1>1 DEF Inactive, AbiEntry
<1> QED BY <1>1, <1>2, FunctionIsSeq

\* A version is added to the end, after the others were made inactive.
LEMMA WithVersionOneActive ==
    ASSUME faAbis \in Seq(AbiEntry), OneActive(faAbis),
           NEW v \in FaVersions \cup {FaArtifact}, NEW active \in BOOLEAN
    PROVE  WithVersion(v, active) \in Seq(AbiEntry) /\ OneActive(WithVersion(v, active))
<1> DEFINE old == IF active THEN Inactive(faAbis) ELSE faAbis
           entry == [version |-> v, isActive |-> active]
<1>1. /\ old \in Seq(AbiEntry) /\ Len(old) \in Nat
      /\ \A i, j \in 1..Len(old) : old[i].isActive /\ old[j].isActive => i = j
      /\ active => \A i \in 1..Len(old) : ~old[i].isActive
  BY InactiveHasNone, LenProperties DEF OneActive
<1>2. entry \in AbiEntry /\ entry.isActive = active
  BY DEF AbiEntry
<1> HIDE DEF old, entry
<1>3. /\ Append(old, entry) \in Seq(AbiEntry) /\ Len(Append(old, entry)) = Len(old) + 1
      /\ \A i \in 1..Len(old) : Append(old, entry)[i] = old[i]
      /\ Append(old, entry)[Len(old) + 1] = entry
  BY <1>1, <1>2
<1>4. WithVersion(v, active) = Append(old, entry)
  BY DEF WithVersion, old, entry
<1>5. OneActive(Append(old, entry))
  <2> SUFFICES ASSUME NEW i \in 1..(Len(old) + 1), NEW j \in 1..(Len(old) + 1),
                      Append(old, entry)[i].isActive, Append(old, entry)[j].isActive
               PROVE  i = j
    BY <1>3 DEF OneActive
  <2>1. i \in 1..Len(old) \/ i = Len(old) + 1
    BY <1>1
  <2>2. j \in 1..Len(old) \/ j = Len(old) + 1
    BY <1>1
  <2> QED BY <1>1, <1>2, <1>3, <2>1, <2>2
<1> QED BY <1>3, <1>4, <1>5

\* A version is made active after the others were made inactive.
LEMMA SetActiveOneActive ==
    ASSUME faAbis \in Seq(AbiEntry), NEW v
    PROVE  SetActive(v) \in Seq(AbiEntry) /\ OneActive(SetActive(v))
<1>1. PICK first : SetActive(v) = [Inactive(faAbis) EXCEPT ![first].isActive = TRUE]
  BY DEF SetActive
<1>2. Len(faAbis) \in Nat
  BY LenProperties
<1>3. Inactive(faAbis) \in [1..Len(faAbis) -> AbiEntry]
  BY InactiveHasNone, LenProperties
<1>4. /\ SetActive(v) \in [1..Len(faAbis) -> AbiEntry]
      /\ \A i \in 1..Len(faAbis) : i # first => SetActive(v)[i] = Inactive(faAbis)[i]
  BY <1>1, <1>3 DEF AbiEntry
<1>5. SetActive(v) \in Seq(AbiEntry) /\ Len(SetActive(v)) = Len(faAbis)
  BY <1>2, <1>4, FunctionIsSeq
<1>6. \A i \in 1..Len(faAbis) : SetActive(v)[i].isActive => i = first
  BY <1>4, InactiveHasNone
<1> QED BY <1>5, <1>6 DEF OneActive

\* Attempts of a deployment submit in order, each once.
FaAttemptsInOrder ==
    \A c \in FaCalls :
        /\ \A k \in 1..FaAttempts : k > faAttempt[c] => faTx[<<c, k>>] = "none"
        /\ faPc[c] \in {"idle", "send"} => faTx[Latest(c)] = "none"
        /\ faPc[c] = "backoff" => faAttempt[c] < FaAttempts

\* Unless an attempt was lost, the one transaction that may create a contract,
\* or has, is the latest, while the call waits for it or has its receipt.
FaFateKnown ==
    \A c \in FaCalls :
        /\ c \notin faLost => \A k \in 1..FaAttempts :
              faTx[<<c, k>>] \in {"pool", "mined"} =>
                  k = faAttempt[c] /\ faPc[c] \in {"mine", "verify", "unmarked", "done"}
        /\ faPc[c] \in {"verify", "unmarked", "done"} => faTx[Latest(c)] = "mined"

\* A record names a mined deployment of a call that began on its network.
FaRecordsMined ==
    \A n \in FaNetworks :
        faRecord[n] # NoRecord /\ faRecord[n].contract # FaElsewhere =>
            /\ faTx[faRecord[n].contract] = "mined"
            /\ faOn[faRecord[n].contract[1]] = n
            /\ faPc[faRecord[n].contract[1]] # "idle"

FaInv ==
    /\ FaTypeOK /\ faAbis \in Seq(AbiEntry) /\ OneActive(faAbis)
    /\ FaAttemptsInOrder /\ FaFateKnown /\ FaRecordsMined

LEMMA FaInitInv == FaInit => FaInv
<1> SUFFICES ASSUME FaInit PROVE FaInv
  OBVIOUS
<1>1. faAbis \in Seq(AbiEntry) /\ Len(faAbis) = 0
  BY EmptySeq DEF FaInit
<1>2. FaTypeOK /\ OneActive(faAbis)
  BY <1>1, FactoryAssumption DEF FaInit, FaTypeOK, OneActive, Deployments
<1>3. FaAttemptsInOrder /\ FaFateKnown /\ FaRecordsMined
  BY FactoryAssumption
  DEF FaInit, FaAttemptsInOrder, FaFateKnown, FaRecordsMined, Latest, Deployments
<1> QED BY <1>1, <1>2, <1>3 DEF FaInv

\* What a record names is a deployment, unless it is the contract from elsewhere.
LEMMA RecordedDeployment ==
    ASSUME FaTypeOK, NEW n \in FaNetworks, faRecord[n] # NoRecord,
           faRecord[n].contract # FaElsewhere
    PROVE  faRecord[n].contract \in Deployments /\ faRecord[n].contract[1] \in FaCalls
BY DEF FaTypeOK, Contracts, Deployments

\* Records stay right while their contracts stay mined and calls that have begun
\* keep their network.
LEMMA RecordsKept ==
    ASSUME FaInv,
           \A n \in FaNetworks : faRecord'[n] # NoRecord =>
               \/ faRecord[n] # NoRecord /\ faRecord'[n].contract = faRecord[n].contract
               \/ faRecord'[n].contract = FaElsewhere,
           \A d \in Deployments : faTx[d] = "mined" => faTx'[d] = "mined",
           \A c \in FaCalls : faPc[c] # "idle" => faOn'[c] = faOn[c] /\ faPc'[c] # "idle"
    PROVE  FaRecordsMined'
<1> SUFFICES ASSUME NEW n \in FaNetworks, faRecord'[n] # NoRecord,
                    faRecord'[n].contract # FaElsewhere
             PROVE  /\ faTx'[faRecord'[n].contract] = "mined"
                    /\ faOn'[faRecord'[n].contract[1]] = n
                    /\ faPc'[faRecord'[n].contract[1]] # "idle"
  BY DEF FaRecordsMined
<1>1. faRecord[n] # NoRecord /\ faRecord'[n].contract = faRecord[n].contract
  OBVIOUS
<1>2. faRecord[n].contract \in Deployments /\ faRecord[n].contract[1] \in FaCalls
  BY <1>1, RecordedDeployment DEF FaInv
<1>3. /\ faTx[faRecord[n].contract] = "mined"
      /\ faOn[faRecord[n].contract[1]] = n /\ faPc[faRecord[n].contract[1]] # "idle"
  BY <1>1 DEF FaInv, FaRecordsMined
<1> QED BY <1>1, <1>2, <1>3

LEMMA DeployInv ==
    ASSUME FaInv, NEW c \in FaCalls, Deploy(c)
    PROVE  FaInv'
<1> USE DEF FaInv
<1>1. /\ faPc[c] = "idle" /\ faPc' = [faPc EXCEPT ![c] = faPc'[c]] /\ faPc'[c] \in {"send", "failed"}
      /\ faOn' = [faOn EXCEPT ![c] = faNetwork]
      /\ UNCHANGED <<faNetwork, faRecord, faAttempt, faTx, faLost>>
  BY DEF Deploy, FaGoto, FaTypeOK
<1>2. faAbis' \in Seq(AbiEntry) /\ OneActive(faAbis')
  <2>1. CASE faAbis' = faAbis
    BY <2>1
  <2>2. CASE faAbis' = WithVersion(FaArtifact, TRUE)
    BY <2>2, WithVersionOneActive
  <2> QED BY <2>1, <2>2 DEF Deploy
<1>3. FaTypeOK'
  <2>1. \A i \in 1..Len(faAbis') : faAbis'[i] \in AbiEntry
    BY <1>2, ElementOfSeq
  <2> QED BY <1>1, <2>1 DEF FaTypeOK, AbiEntry
<1>4. FaAttemptsInOrder' /\ FaFateKnown'
  <2>1. FaAttemptsInOrder'
    BY <1>1 DEF FaAttemptsInOrder, Latest, FaTypeOK
  <2>2. FaFateKnown'
    BY <1>1 DEF FaFateKnown, Latest, FaTypeOK
  <2> QED BY <2>1, <2>2
<1>5. FaRecordsMined'
  BY <1>1, RecordsKept DEF FaTypeOK
<1> QED BY <1>2, <1>3, <1>4, <1>5 DEF OneActive

\* A send, which the node takes or refuses, the next attempt, and a wait that
\* fails change neither records nor versions.
LEMMA AttemptInv ==
    ASSUME FaInv, NEW c \in FaCalls,
           DeploymentSent(c) \/ DeploymentRefused(c) \/ DeployAgain(c) \/ DeploymentWaitFails(c)
    PROVE  FaInv'
<1> USE DEF FaInv
<1>1. /\ faPc' = [faPc EXCEPT ![c] = faPc'[c]] /\ faPc'[c] \in {"send", "mine", "backoff", "failed"}
      /\ UNCHANGED <<faNetwork, faRecord, faAbis, faOn>>
      /\ faPc'[c] = "backoff" => faAttempt[c] < FaAttempts
  BY DEF DeploymentSent, DeploymentRefused, DeployAgain, DeploymentWaitFails, AttemptFails,
         FaGoto, FaTypeOK
<1>2. \A e \in FaCalls, k \in 1..FaAttempts : <<e, k>> \in Deployments
  BY DEF Deployments
<1>3. \A e \in FaCalls : faAttempt[e] \in 1..FaAttempts /\ Latest(e) = <<e, faAttempt[e]>>
  BY DEF FaTypeOK, Latest
<1>4. CASE faTx' = faTx /\ faAttempt' = faAttempt /\ faLost \subseteq faLost'
           /\ faLost' \subseteq FaCalls /\ faPc'[c] \in {"backoff", "failed"}
           /\ (c \notin faLost' => \A k \in 1..FaAttempts : faTx[<<c, k>>] \notin {"pool", "mined"})
  <2>1. FaTypeOK'
    BY <1>1, <1>4 DEF FaTypeOK
  <2>2. FaAttemptsInOrder' /\ FaFateKnown'
    BY <1>1, <1>4 DEF FaAttemptsInOrder, FaFateKnown, Latest, FaTypeOK
  <2>3. FaRecordsMined'
    BY <1>1, <1>4, RecordsKept DEF FaTypeOK
  <2> QED BY <1>1, <2>1, <2>2, <2>3 DEF OneActive
<1>5. CASE DeploymentSent(c)
  <2>1. /\ faPc[c] = "send" /\ faTx' = [faTx EXCEPT ![<<c, faAttempt[c]>>] = "pool"]
        /\ faAttempt' = faAttempt
        /\ \/ faPc'[c] = "mine" /\ faLost' = faLost
           \/ faPc'[c] \in {"backoff", "failed"} /\ faLost' = faLost \cup {c}
    BY <1>5 DEF DeploymentSent, AttemptFails, FaGoto, FaTypeOK, Latest
  <2>2. FaTypeOK'
    BY <1>1, <1>2, <1>3, <2>1 DEF FaTypeOK
  <2>3. faTx[<<c, faAttempt[c]>>] = "none"
    BY <1>3, <2>1 DEF FaAttemptsInOrder
  <2>4. /\ \A d \in Deployments : faTx[d] = "mined" => faTx'[d] = "mined"
        /\ \A e \in FaCalls, k \in 1..FaAttempts :
              <<e, k>> # <<c, faAttempt[c]>> => faTx'[<<e, k>>] = faTx[<<e, k>>]
        /\ faTx'[<<c, faAttempt[c]>>] = "pool"
    BY <1>2, <1>3, <2>1, <2>3 DEF FaTypeOK
  <2>5. \A e \in FaCalls \ {c} :
           /\ faPc'[e] = faPc[e] /\ (e \in faLost' <=> e \in faLost)
           /\ \A k \in 1..FaAttempts : faTx'[<<e, k>>] = faTx[<<e, k>>]
    BY <1>1, <2>1, <2>4 DEF FaTypeOK
  <2>6. FaAttemptsInOrder'
    <3> SUFFICES ASSUME NEW e \in FaCalls
                 PROVE  /\ \A k \in 1..FaAttempts : k > faAttempt[e] => faTx'[<<e, k>>] = "none"
                        /\ faPc'[e] \in {"idle", "send"} => faTx'[<<e, faAttempt[e]>>] = "none"
                        /\ faPc'[e] = "backoff" => faAttempt[e] < FaAttempts
      BY <2>1 DEF FaAttemptsInOrder, Latest
    <3>1. CASE e # c
      BY <1>3, <2>5, <3>1 DEF FaAttemptsInOrder
    <3>2. CASE e = c
      <4>1. \A k \in 1..FaAttempts : k > faAttempt[c] => faTx'[<<c, k>>] = faTx[<<c, k>>]
        BY <1>3, <2>4, FactoryAssumption
      <4> QED BY <1>1, <2>1, <3>2, <4>1 DEF FaAttemptsInOrder
    <3> QED BY <3>1, <3>2
  <2>7. FaFateKnown'
    <3> SUFFICES ASSUME NEW e \in FaCalls
                 PROVE  /\ e \notin faLost' => \A k \in 1..FaAttempts :
                              faTx'[<<e, k>>] \in {"pool", "mined"} =>
                                  /\ k = faAttempt[e]
                                  /\ faPc'[e] \in {"mine", "verify", "unmarked", "done"}
                        /\ faPc'[e] \in {"verify", "unmarked", "done"} =>
                              faTx'[<<e, faAttempt[e]>>] = "mined"
      BY <2>1 DEF FaFateKnown, Latest
    <3>1. CASE e # c
      BY <1>3, <2>5, <3>1 DEF FaFateKnown
    <3>2. CASE e = c
      <4>1. \A k \in 1..FaAttempts : k # faAttempt[c] => faTx'[<<c, k>>] = faTx[<<c, k>>]
        BY <2>4
      <4> QED BY <1>1, <2>1, <3>2, <4>1 DEF FaFateKnown
    <3> QED BY <3>1, <3>2
  <2>8. FaRecordsMined'
    BY <1>1, <2>4, RecordsKept DEF FaTypeOK
  <2> QED BY <1>1, <2>2, <2>6, <2>7, <2>8 DEF OneActive
<1>6. CASE DeploymentRefused(c)
  BY <1>4, <1>6 DEF DeploymentRefused, AttemptFails, FaGoto, FaTypeOK, FaFateKnown
<1>7. CASE DeployAgain(c)
  <2>1. /\ faPc[c] = "backoff" /\ faAttempt' = [faAttempt EXCEPT ![c] = @ + 1] /\ faPc'[c] = "send"
        /\ faTx' = faTx /\ faLost' = faLost
    BY <1>7 DEF DeployAgain, FaGoto, FaTypeOK
  <2>2. /\ faAttempt[c] + 1 \in 1..FaAttempts /\ faAttempt'[c] = faAttempt[c] + 1
        /\ \A e \in FaCalls \ {c} : faAttempt'[e] = faAttempt[e] /\ faPc'[e] = faPc[e]
    BY <1>1, <1>3, <2>1, FactoryAssumption DEF FaAttemptsInOrder, FaTypeOK
  <2>3. FaTypeOK'
    BY <1>1, <2>1, <2>2 DEF FaTypeOK
  <2>4. FaAttemptsInOrder'
    <3>1. /\ \A k \in 1..FaAttempts : k > faAttempt[c] + 1 => faTx[<<c, k>>] = "none"
          /\ faTx[<<c, faAttempt[c] + 1>>] = "none"
      BY <1>3, <2>2, FactoryAssumption DEF FaAttemptsInOrder
    <3> QED BY <2>1, <2>2, <3>1 DEF FaAttemptsInOrder, Latest
  <2>5. FaFateKnown'
    BY <2>1, <2>2 DEF FaFateKnown, Latest
  <2>6. FaRecordsMined'
    BY <1>1, <2>1, RecordsKept DEF FaTypeOK
  <2> QED BY <1>1, <2>3, <2>4, <2>5, <2>6 DEF OneActive
<1>8. CASE DeploymentWaitFails(c)
  <2>1. /\ faPc[c] = "mine" /\ faTx' = faTx /\ faAttempt' = faAttempt /\ faPc'[c] = "failed"
        /\ faLost' = IF faTx[<<c, faAttempt[c]>>] = "reverted" THEN faLost ELSE faLost \cup {c}
    BY <1>8 DEF DeploymentWaitFails, FaGoto, FaTypeOK, Latest
  <2>2. c \notin faLost' => \A k \in 1..FaAttempts : faTx[<<c, k>>] \notin {"pool", "mined"}
    BY <1>3, <2>1 DEF FaFateKnown
  <2>3. faLost \subseteq faLost' /\ faLost' \subseteq FaCalls
    BY <2>1 DEF FaTypeOK
  <2> QED BY <1>4, <2>1, <2>2, <2>3
<1> QED BY <1>5, <1>6, <1>7, <1>8

LEMMA RecordedInv ==
    ASSUME FaInv, NEW c \in FaCalls, Recorded(c)
    PROVE  FaInv'
<1> USE DEF FaInv
<1>1. /\ faPc[c] = "mine" /\ faTx[<<c, faAttempt[c]>>] = "mined"
      /\ faPc' = [faPc EXCEPT ![c] = "verify"]
      /\ faRecord' = [faRecord EXCEPT ![faOn[c]] =
                         [contract |-> <<c, faAttempt[c]>>, verified |-> FALSE]]
      /\ UNCHANGED <<faNetwork, faAbis, faOn, faAttempt, faTx, faLost>>
  BY DEF Recorded, FaGoto, Latest
<1>2. faOn[c] \in FaNetworks /\ <<c, faAttempt[c]>> \in Contracts
  BY DEF FaTypeOK, Contracts, Deployments
<1>3. FaTypeOK'
  BY <1>1, <1>2 DEF FaTypeOK
<1>4. FaAttemptsInOrder' /\ FaFateKnown'
  <2>1. \A e \in FaCalls : faPc'[e] = IF e = c THEN "verify" ELSE faPc[e]
    BY <1>1 DEF FaTypeOK
  <2>2. FaAttemptsInOrder'
    BY <1>1, <2>1 DEF FaAttemptsInOrder, Latest
  <2>3. FaFateKnown'
    BY <1>1, <2>1 DEF FaFateKnown, Latest
  <2> QED BY <2>2, <2>3
<1>5. FaRecordsMined'
  <2> SUFFICES ASSUME NEW n \in FaNetworks, faRecord'[n] # NoRecord,
                      faRecord'[n].contract # FaElsewhere
               PROVE  /\ faTx[faRecord'[n].contract] = "mined"
                      /\ faOn[faRecord'[n].contract[1]] = n
                      /\ faPc'[faRecord'[n].contract[1]] # "idle"
    BY <1>1 DEF FaRecordsMined
  <2>1. CASE n = faOn[c]
    <3>1. faRecord'[n].contract = <<c, faAttempt[c]>>
      BY <1>1, <2>1 DEF FaTypeOK
    <3>2. faRecord'[n].contract[1] = c
      BY <3>1
    <3>3. faPc'[c] = "verify"
      BY <1>1 DEF FaTypeOK
    <3> QED BY <1>1, <2>1, <3>1, <3>2, <3>3
  <2>2. CASE n # faOn[c]
    <3>1. faRecord'[n] = faRecord[n]
      BY <1>1, <2>2 DEF FaTypeOK
    <3>2. faRecord[n].contract[1] \in FaCalls
      BY <3>1, RecordedDeployment
    <3> QED BY <1>1, <3>1, <3>2 DEF FaRecordsMined, FaTypeOK
  <2> QED BY <2>1, <2>2
<1> QED BY <1>1, <1>3, <1>4, <1>5 DEF OneActive

LEMMA MarkedInv ==
    ASSUME FaInv, NEW c \in FaCalls, Marked(c)
    PROVE  FaInv'
<1> USE DEF FaInv
<1>1. /\ faPc[c] = "verify" /\ faPc' = [faPc EXCEPT ![c] = faPc'[c]]
      /\ faPc'[c] \in {"unmarked", "done"}
      /\ UNCHANGED <<faNetwork, faAbis, faOn, faAttempt, faTx, faLost>>
      /\ \/ faRecord' = faRecord
         \/ /\ faRecord[faOn[c]] # NoRecord
            /\ faRecord' = [faRecord EXCEPT ![faOn[c]].verified = TRUE]
  BY DEF Marked, FaGoto, FaTypeOK
<1>2. /\ faRecord' \in [FaNetworks -> [contract : Contracts, verified : BOOLEAN] \cup {NoRecord}]
      /\ \A n \in FaNetworks : faRecord'[n] # NoRecord =>
            faRecord[n] # NoRecord /\ faRecord'[n].contract = faRecord[n].contract
  <2>1. CASE faRecord' = faRecord
    BY <2>1 DEF FaTypeOK
  <2>2. CASE /\ faRecord[faOn[c]] # NoRecord
             /\ faRecord' = [faRecord EXCEPT ![faOn[c]].verified = TRUE]
    <3>1. faRecord[faOn[c]] \in [contract : Contracts, verified : BOOLEAN]
      BY <2>2 DEF FaTypeOK
    <3> QED BY <2>2, <3>1 DEF FaTypeOK
  <2> QED BY <1>1, <2>1, <2>2
<1>3. FaTypeOK'
  BY <1>1, <1>2 DEF FaTypeOK
<1>4. FaAttemptsInOrder' /\ FaFateKnown'
  <2>1. FaAttemptsInOrder'
    BY <1>1 DEF FaAttemptsInOrder, Latest, FaTypeOK
  <2>2. FaFateKnown'
    BY <1>1 DEF FaFateKnown, Latest, FaTypeOK
  <2> QED BY <2>1, <2>2
<1>5. FaRecordsMined'
  BY <1>1, <1>2, RecordsKept DEF FaTypeOK
<1> QED BY <1>1, <1>3, <1>4, <1>5 DEF OneActive

LEMMA DeploymentExecutesInv ==
    ASSUME FaInv, NEW d \in Deployments, DeploymentExecutes(d)
    PROVE  FaInv'
<1> USE DEF FaInv
<1>1. /\ faTx[d] = "pool" /\ faTx' = [faTx EXCEPT ![d] = faTx'[d]]
      /\ faTx'[d] \in {"mined", "reverted", "dropped"}
      /\ UNCHANGED <<faNetwork, faRecord, faAbis, faPc, faOn, faAttempt, faLost>>
  BY DEF DeploymentExecutes, FaTypeOK
<1>2. \A e \in FaCalls, k \in 1..FaAttempts : <<e, k>> \in Deployments
  BY DEF Deployments
<1>3. \A e \in FaCalls : faAttempt[e] \in 1..FaAttempts
  BY DEF FaTypeOK
<1>4. \A x \in Deployments : /\ faTx[x] \in {"none", "mined"} => faTx'[x] = faTx[x]
                             /\ faTx'[x] \in {"pool", "mined"} => faTx[x] \in {"pool", "mined"}
  BY <1>1 DEF FaTypeOK
<1>5. FaTypeOK'
  BY <1>1 DEF FaTypeOK
<1>6. FaAttemptsInOrder' /\ FaFateKnown'
  BY <1>1, <1>2, <1>3, <1>4 DEF FaAttemptsInOrder, FaFateKnown, Latest
<1>7. FaRecordsMined'
  BY <1>1, <1>4, RecordsKept
<1> QED BY <1>1, <1>5, <1>6, <1>7 DEF OneActive

LEMMA BooksInv ==
    ASSUME FaInv, Books
    PROVE  FaInv'
<1> USE DEF FaInv
<1>1. UNCHANGED <<faNetwork, faPc, faOn, faAttempt, faTx, faLost>>
  BY DEF Books, faCall
<1>2. /\ faRecord' \in [FaNetworks -> [contract : Contracts, verified : BOOLEAN] \cup {NoRecord}]
      /\ \A n \in FaNetworks : faRecord'[n] # NoRecord =>
            \/ faRecord[n] # NoRecord /\ faRecord'[n].contract = faRecord[n].contract
            \/ faRecord'[n].contract = FaElsewhere
  <2>1. CASE faRecord' = faRecord \/ faRecord' = [n \in FaNetworks |-> NoRecord]
    BY <2>1 DEF FaTypeOK
  <2>2. CASE \E n \in FaNetworks : faRecord' = [faRecord EXCEPT ![n] = NoRecord]
    BY <2>2 DEF FaTypeOK
  <2>3. CASE \E n \in FaNetworks, verified \in BOOLEAN : faRecord' =
               [faRecord EXCEPT ![n] = [contract |-> FaElsewhere, verified |-> verified]]
    BY <2>3 DEF FaTypeOK, Contracts
  <2> QED BY <2>1, <2>2, <2>3
       DEF Books, removeContractAddress, addContractAddress, setActiveABIVersion, addABIVersion,
           cleanup
<1>3. faAbis' \in Seq(AbiEntry) /\ OneActive(faAbis')
  <2>1. CASE faAbis' = faAbis
    BY <2>1
  <2>2. CASE \E v \in FaVersions \cup {FaArtifact}, active \in BOOLEAN : faAbis' = WithVersion(v, active)
    BY <2>2, WithVersionOneActive
  <2>3. CASE \E v \in FaVersions \cup {FaArtifact} : faAbis' = SetActive(v)
    BY <2>3, SetActiveOneActive
  <2>4. CASE faAbis' = <<>>
    <3>1. faAbis' \in Seq(AbiEntry) /\ Len(faAbis') = 0
      BY <2>4, EmptySeq
    <3> QED BY <3>1 DEF OneActive
  <2> QED BY <2>1, <2>2, <2>3, <2>4
       DEF Books, removeContractAddress, addContractAddress, setActiveABIVersion, addABIVersion,
           cleanup
<1>4. FaTypeOK'
  <2>1. \A i \in 1..Len(faAbis') : faAbis'[i] \in AbiEntry
    BY <1>3, ElementOfSeq
  <2> QED BY <1>1, <1>2, <2>1 DEF FaTypeOK, AbiEntry
<1>5. FaAttemptsInOrder' /\ FaFateKnown'
  BY <1>1 DEF FaAttemptsInOrder, FaFateKnown, Latest
<1>6. FaRecordsMined'
  BY <1>1, <1>2, RecordsKept
<1> QED BY <1>3, <1>4, <1>5, <1>6 DEF OneActive

LEMMA FaNextInv == FaInv /\ [FaNext]_faVars => FaInv'
<1> SUFFICES ASSUME FaInv, [FaNext]_faVars PROVE FaInv'
  OBVIOUS
<1>1. CASE \E c \in FaCalls : DeployStep(c)
  BY <1>1, DeployInv, AttemptInv, RecordedInv, MarkedInv DEF DeployStep
<1>2. CASE \E d \in Deployments : DeploymentExecutes(d)
  BY <1>2, DeploymentExecutesInv
<1>3. CASE AdapterSwitches \/ UNCHANGED faVars
  <2>1. /\ UNCHANGED <<faRecord, faAbis, faPc, faOn, faAttempt, faTx, faLost>>
        /\ faNetwork' \in FaNetworks
    BY <1>3 DEF AdapterSwitches, faVars, faCall, FaInv, FaTypeOK
  <2>2. FaTypeOK' /\ OneActive(faAbis')
    BY <2>1 DEF FaInv, FaTypeOK, OneActive
  <2>3. FaAttemptsInOrder' /\ FaFateKnown' /\ FaRecordsMined'
    BY <2>1 DEF FaInv, FaAttemptsInOrder, FaFateKnown, FaRecordsMined, Latest
  <2> QED BY <2>1, <2>2, <2>3 DEF FaInv, OneActive
<1>4. CASE Books
  BY <1>4, BooksInv
<1> QED BY <1>1, <1>2, <1>3, <1>4 DEF FaNext

\* Without a lost attempt a deployment makes one contract at most, and none when
\* it fails; one that returns, or finds its record gone, has made one.
THEOREM DeploysOnceUnlessLost == FaSpec => []OneContractUnlessLost
<1>1. FaInv => OneContractUnlessLost
  <2> SUFFICES ASSUME FaInv, NEW c \in FaCalls
               PROVE  /\ c \notin faLost => Cardinality(Created(c)) <= 1
                      /\ c \notin faLost /\ faPc[c] = "failed" => Created(c) = {}
                      /\ faPc[c] \in {"verify", "unmarked", "done"} => faAttempt[c] \in Created(c)
    BY DEF OneContractUnlessLost
  <2>1. c \notin faLost => \A k \in Created(c) : k = faAttempt[c] /\ faPc[c] # "failed"
    BY DEF FaInv, FaFateKnown, Created
  <2>2. c \notin faLost => Cardinality(Created(c)) \in 0..1
    BY <2>1, AtMostOne
  <2>3. faPc[c] \in {"verify", "unmarked", "done"} => faAttempt[c] \in Created(c)
    BY DEF FaInv, FaFateKnown, FaTypeOK, Created, Latest
  <2> QED BY <2>1, <2>2, <2>3
<1> QED BY <1>1, FaInitInv, FaNextInv, PTL DEF FaSpec

\* A record names a contract of its network, and one version at most is active.
THEOREM RecordsNameTheirContracts == FaSpec => []RecordsAgree
<1>1. FaInv => RecordsAgree
  <2> SUFFICES ASSUME FaInv PROVE RecordsAgree
    OBVIOUS
  <2>1. Cardinality(ActiveVersions) \in 0..1
    <3>1. \A i, j \in ActiveVersions : i = j
      BY DEF FaInv, OneActive, ActiveVersions
    <3> QED BY <3>1, AtMostOne
  <2> QED BY <2>1 DEF FaInv, FaRecordsMined, RecordsAgree
<1> QED BY <1>1, FaInitInv, FaNextInv, PTL DEF FaSpec
-----------------------------------------------------------------------------
(* ShownInv: what BlockchainMonitor shows when no call runs.               *)

LEMMA ShownInit == BmInit => BmTypeOK /\ ShownInv
BY BmAssumption DEF BmInit, BmTypeOK, ShownInv, Variants, Status

LEMMA AttemptKeeps ==
    ASSUME BmTypeOK, ShownInv, NEW c \in BmCalls, NEW v \in Variants, NEW n \in Nat,
           Attempt(c, v, n), v = "did" => bmPc[c] = "idle",
           bmAsked' \in [BmCalls -> BmAsked \cup {0}], UNCHANGED bmTries
    PROVE  BmTypeOK' /\ ShownInv'
<1>1. Budget(n) \in Nat
  BY BmAssumption DEF Budget
<1>2. BmTypeOK'
  <2>1. bmRecord' \in [BmCalls -> [Variants -> Status]]
    BY DEF Attempt, BmTypeOK, Status
  <2> QED BY <1>1, <2>1 DEF Attempt, BmTypeOK
<1>3. ShownInv'
  BY BmAssumption DEF Attempt, BmTypeOK, ShownInv, Variants
<1> QED BY <1>2, <1>3

LEMMA EndsKeeps ==
    ASSUME BmTypeOK, ShownInv, NEW c \in BmCalls, NEW status \in Status, Ends(c, status),
           bmPc[c] = "asking", bmVariant[c] = "plain" => status \in Final
    PROVE  BmTypeOK' /\ ShownInv'
<1>1. bmVariant[c] \in Variants
  BY DEF BmTypeOK
<1>2. bmRecord' \in [BmCalls -> [Variants -> Status]]
  BY <1>1 DEF Ends, BmTypeOK
<1>3. BmTypeOK'
  BY <1>2 DEF Ends, BmTypeOK
<1>4. ShownInv'
  BY <1>1 DEF Ends, BmTypeOK, ShownInv, Variants
<1> QED BY <1>3, <1>4

LEMMA ShownNext == BmTypeOK /\ ShownInv /\ [BmNext]_bmVars => BmTypeOK' /\ ShownInv'
<1> SUFFICES ASSUME BmTypeOK, ShownInv, [BmNext]_bmVars PROVE BmTypeOK' /\ ShownInv'
  OBVIOUS
<1>1. ASSUME NEW c \in BmCalls, Monitor(c) PROVE BmTypeOK' /\ ShownInv'
  <2> PICK v \in Variants, n \in BmAsked :
        /\ bmPc[c] = "idle" /\ Attempt(c, v, n)
        /\ bmAsked' = [bmAsked EXCEPT ![c] = n] /\ UNCHANGED bmTries
    BY <1>1 DEF Monitor
  <2>1. n \in Nat /\ bmAsked' \in [BmCalls -> BmAsked \cup {0}]
    BY BmAssumption DEF BmTypeOK
  <2> QED BY <2>1, AttemptKeeps
<1>2. ASSUME NEW c \in BmCalls, Answered(c) \/ Throws(c) PROVE BmTypeOK' /\ ShownInv'
  <2>1. PICK status \in Status :
            bmPc[c] = "asking" /\ Ends(c, status) /\ (bmVariant[c] = "plain" => status \in Final)
    BY <1>2 DEF Answered, Throws, Final, Status
  <2> QED BY <2>1, EndsKeeps
<1>3. ASSUME NEW c \in BmCalls, Retries(c) PROVE BmTypeOK' /\ ShownInv'
  <2>1. bmVariant[c] \in Variants /\ bmTries' \in [BmCalls -> 0..BmTriesCap]
    <3> DEFINE n == IF bmTries[c] = BmTriesCap THEN bmTries[c] ELSE bmTries[c] + 1
    <3>1. n \in 0..BmTriesCap
      <4>1. bmTries[c] \in 0..BmTriesCap
        BY DEF BmTypeOK
      <4> QED BY <4>1, BmAssumption
    <3>2. bmTries' = [bmTries EXCEPT ![c] = n]
      BY <1>3 DEF Retries
    <3> HIDE DEF n
    <3> QED BY <3>1, <3>2 DEF BmTypeOK
  <2>2. bmRecord' \in [BmCalls -> [Variants -> Status]]
    BY <1>3, <2>1 DEF Retries, BmTypeOK, Status
  <2>3. BmTypeOK'
    BY <1>3, <2>1, <2>2 DEF Retries, BmTypeOK
  <2>4. ShownInv'
    BY <1>3 DEF Retries, BmTypeOK, ShownInv
  <2> QED BY <2>3, <2>4
<1>4. ASSUME NEW c \in BmCalls, RetryStarts(c) PROVE BmTypeOK' /\ ShownInv'
  <2>1. bmLeft[c] - 1 \in Nat /\ "plain" \in Variants /\ bmAsked' \in [BmCalls -> BmAsked \cup {0}]
    BY <1>4 DEF RetryStarts, ShownInv, BmTypeOK, Variants
  <2> QED BY <1>4, <2>1, AttemptKeeps DEF RetryStarts
<1>5. CASE UNCHANGED bmVars
  BY <1>5 DEF bmVars, BmTypeOK, ShownInv
<1> QED BY <1>1, <1>2, <1>3, <1>4, <1>5 DEF BmNext, BmStep

\* Calls that monitor one transaction, through whichever variant and with however
\* many retries each: once none runs, what getTransactions shows of it is how it
\* ended, and never a call's PENDING or RETRYING.
THEOREM MonitorShowsTheEnd == BmSpec => [](BmTypeOK /\ ShownAtRest)
<1>1. BmTypeOK /\ ShownInv => BmTypeOK /\ ShownAtRest
  BY DEF ShownInv, ShownAtRest, BmTypeOK
<1> QED BY <1>1, ShownInit, ShownNext, PTL DEF BmSpec

-----------------------------------------------------------------------------
(* The parts together, as the instances of MCSBT take them.                *)

LEMMA CounterGrows ==
    ASSUME TokenInv, [SBTNext]_sbtVars
    PROVE  tokenIdCounter' >= tokenIdCounter
<1>1. tokenIdCounter \in Nat
  BY SBTAssumption DEF TokenInv, SBTTypeOK
<1>2. ASSUME NEW to \in Accounts, NEW n \in Nat, NEW u \in BOOLEAN, MintTokens(to, n, u)
      PROVE  tokenIdCounter' >= tokenIdCounter
  BY <1>1, <1>2 DEF MintTokens
<1>3. ASSUME NEW s \in Accounts, TokenCall(s) PROVE tokenIdCounter' >= tokenIdCounter
  <2>1. CASE \E to \in Accounts : mint(s, to) \/ safeMint(s, to)
    BY <1>2, <2>1 DEF mint, safeMint
  <2>2. CASE \E to \in Accounts, n \in 1..MaxBatch : batchMint(s, to, n)
    <3>1. PICK to \in Accounts, n \in 1..MaxBatch : MintTokens(to, n, TRUE)
      BY <2>2 DEF batchMint
    <3>2. n \in Nat
      BY SBTAssumption
    <3> QED BY <1>2, <3>1, <3>2
  <2>3. CASE \E t \in Tokens : burn(s, t) \/ revoke(s, t) \/ unrevoke(s, t)
    BY <1>1, <2>3 DEF burn, revoke, unrevoke
  <2> QED BY <1>3, <2>1, <2>2, <2>3 DEF TokenCall
<1>4. ASSUME NEW s \in Accounts, RoleCall(s) PROVE tokenIdCounter' = tokenIdCounter
  BY <1>4 DEF RoleCall, addMinter, removeMinter, addBurner, removeBurner, SetMinters, SetBurners,
              setMaxSupply, transferOwnership
<1> QED
  BY <1>1, <1>3, <1>4 DEF SBTNext, transferFrom, sbtVars

\* What every part leaves true, of its own variables and of the others'.
PartsInv == MintInv /\ FaInv /\ EvInv /\ BmTypeOK /\ ShownInv

LEMMA PartsInitInv == PartsInit => PartsInv
BY MintInit, FaInitInv, EvInitInv, ShownInit DEF PartsInit, PartsInv

LEMMA PartsNextInv == PartsInv /\ [PartsNext]_<<vars, faVars, evVars, bmVars, part>> => PartsInv'
<1> SUFFICES ASSUME PartsInv, [PartsNext]_<<vars, faVars, evVars, bmVars, part>> PROVE PartsInv'
  OBVIOUS
<1>1. MintInv'
  <2>1. CASE TokensPart
    <3>1. [SBTNext]_sbtVars /\ UNCHANGED <<callVars, mintVars>>
      BY <2>1 DEF TokensPart
    <3>2. TokenInv' /\ tokenIdCounter' >= tokenIdCounter
      BY <3>1, NextTokenInv, CounterGrows DEF PartsInv, MintInv
    <3> QED BY <3>1, <3>2, OthersInv DEF PartsInv
  <2>2. CASE [Next]_vars
    BY <2>2, MintNext DEF PartsInv
  <2> QED BY <2>1, <2>2 DEF PartsNext, MintingPart, FactoryPart, EventsPart, MonitorPart
<1>2. [FaNext]_faVars /\ [EvNext]_evVars /\ [BmNext]_bmVars
  BY DEF PartsNext, TokensPart, MintingPart, FactoryPart, EventsPart, MonitorPart
<1> QED BY <1>1, <1>2, FaNextInv, EvNextInv, ShownNext DEF PartsInv

\* The types of the contract, the minting service, the factory, the
\* subscriptions and the monitor, in every behaviour of the instances.
THEOREM TokenTypesKept == PartsSpec => []TokenTypesOK
<1>1. PartsInv => TokenTypesOK
  BY DEF PartsInv, MintInv, TokenInv, FaInv, EvInv, TokenTypesOK
<1> QED BY <1>1, PartsInitInv, PartsNextInv, PTL DEF PartsSpec

\* Whichever part a behaviour is about, the factory, the subscriptions and the
\* monitor do what their own specifications say, and so does the contract.
THEOREM PartsAreComponents == PartsSpec => SBTSpec /\ FaSpec /\ EvSpec /\ BmSpec
<1>1. PartsInit => SBTInit /\ FaInit /\ EvInit /\ BmInit
  BY DEF PartsInit, Init
<1>2. [PartsNext]_<<vars, faVars, evVars, bmVars, part>> =>
          [SBTNext]_sbtVars /\ [FaNext]_faVars /\ [EvNext]_evVars /\ [BmNext]_bmVars
  BY StepUsesContract
  DEF PartsNext, TokensPart, MintingPart, FactoryPart, EventsPart, MonitorPart, vars
<1> QED BY <1>1, <1>2, PTL DEF PartsSpec, SBTSpec, FaSpec, EvSpec, BmSpec
=============================================================================
