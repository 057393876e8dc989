----------------------------- MODULE SBTMinting -----------------------------
(***************************************************************************)
(* SBTMintingService.mintSBT over SBTContract.mint and the SBTSimple       *)
(* contract: a mint is one call of mintSBT, which submits a transaction    *)
(* per attempt and waits for its receipt; batchMintSBT runs its mints one  *)
(* after the other.  Meanwhile others use the contract, and transactions   *)
(* are mined, revert or are dropped on their own time: also those an       *)
(* attempt has given up on.  A mint called alone may have a callback,      *)
(* onProgress, which throws wherever the service calls it; the callback of *)
(* a batch is called between its mints, and may end the batch.             *)
(***************************************************************************)
EXTENDS SBTSimple

CONSTANTS Mints,      \* calls of mintSBT
          Orders,     \* how callers order mints: the one before in the same batch
          Recipient,  \* params.to
          LowGas,     \* mints whose caller may pass a gasLimit that is too low
          Reports,    \* mints whose caller passes an onProgress, which may throw
          Signer,     \* the account the service signs with
          MaxRetries, \* attempts of one mint (3 in the service)
          MaxOthers   \* bound: tokens up to which others mint

ASSUME MintingAssumption ==
    /\ Orders \subseteq [Mints -> Mints \cup {None}] /\ Orders # {}
    /\ Recipient \in [Mints -> Accounts]
    /\ LowGas \subseteq Mints /\ Reports \subseteq Mints
    /\ Signer \in Accounts
    /\ MaxRetries \in Nat \ {0}
    /\ MaxOthers \in Nat
    /\ None \notin Mints /\ None \notin Int

VARIABLES before,  \* the order the callers chose
          lowGas,  \* the mints whose gasLimit is too low
          pc,      \* where each mint is suspended
          attempt, \* the variable attempt of its loop
          tx,      \* the transaction of each attempt
          tokenOf, \* the token that transaction minted
          lost,    \* did an attempt end without knowing what its transaction did?
          threw,   \* the mints whose onProgress threw after a token was minted
          result   \* the token the mint returned

callVars == <<before, lowGas>>
mintVars == <<pc, attempt, tx, tokenOf, lost, threw, result>>
vars == <<sbtVars, callVars, mintVars>>

Txs == Mints \X (1..MaxRetries)
Current(m) == <<m, attempt[m]>>
Points == {"idle", "upload", "estimate", "submit", "wait", "block", "backoff", "minted", "failed",
           "skipped"}

TypeOK ==
    /\ SBTTypeOK
    /\ before \in Orders /\ lowGas \subseteq LowGas
    /\ pc \in [Mints -> Points]
    /\ attempt \in [Mints -> 1..MaxRetries]
    /\ tx \in [Txs -> {"none", "pool", "mined", "reverted", "dropped"}]
    /\ tokenOf \in [Txs -> Tokens \cup {None}]
    /\ lost \in [Mints -> BOOLEAN]
    /\ threw \subseteq Mints
    /\ result \in [Mints -> Tokens \cup {None}]

Init ==
    /\ SBTInit
    /\ before \in Orders /\ lowGas \in SUBSET LowGas
    /\ pc = [m \in Mints |-> "idle"]
    /\ attempt = [m \in Mints |-> 1]
    /\ tx = [x \in Txs |-> "none"]
    /\ tokenOf = [x \in Txs |-> None]
    /\ lost = [m \in Mints |-> FALSE]
    /\ threw = {}
    /\ result = [m \in Mints |-> None]

Goto(m, point) == pc' = [pc EXCEPT ![m] = point]
Done(m) == pc[m] \in {"minted", "failed"}
Alone(m) == before[m] = None /\ \A n \in Mints : before[n] # m

---------------------------------------------------------------------------
(* One attempt.                                                            *)

\* The catch of the loop: an error that is not retryable, or of the last
\* attempt, ends the mint.
Throw(m, retryable, unsure) ==
    /\ Goto(m, IF retryable /\ attempt[m] < MaxRetries THEN "backoff" ELSE "failed")
    /\ lost' = [lost EXCEPT ![m] = @ \/ unsure]

BackoffEnds(m) ==
    /\ pc[m] = "backoff"
    /\ attempt' = [attempt EXCEPT ![m] = @ + 1]
    /\ Goto(m, "upload")
    /\ UNCHANGED <<sbtVars, callVars, tx, tokenOf, lost, threw, result>>

Start(m) ==
    /\ pc[m] = "idle"
    /\ before[m] # None => Done(before[m])
    /\ Goto(m, "upload")
    /\ UNCHANGED <<sbtVars, callVars, attempt, tx, tokenOf, lost, threw, result>>

\* The callback of the batch throws for the mint before this one, and again
\* when the catch reports the error: batchMintSBT rejects, its rest is dropped.
BatchAborts(m) ==
    /\ pc[m] = "idle" /\ before[m] # None
    /\ Done(before[m]) \/ pc[before[m]] = "skipped"
    /\ Goto(m, "skipped")
    /\ UNCHANGED <<sbtVars, callVars, attempt, tx, tokenOf, lost, threw, result>>

\* The DID of the recipient is looked up and only logged; then the metadata go
\* to IPFS, unless the caller has a URI.
Uploaded(m) ==
    /\ pc[m] = "upload"
    /\ Goto(m, "estimate")
    /\ UNCHANGED <<sbtVars, callVars, attempt, tx, tokenOf, lost, threw, result>>

\* The upload fails, or the adapter is not connected, or the node does not
\* answer: "network" trouble, retryable.
Unreachable(m) ==
    /\ pc[m] \in {"upload", "estimate"}
    /\ Throw(m, TRUE, FALSE)
    /\ UNCHANGED <<sbtVars, callVars, attempt, tx, tokenOf, threw, result>>

\* What contract.mint would do now.
MintPasses == IsMinter(Signer) /\ WithinSupply(1)

\* estimateMintGas runs the mint without effect: a revert is not retryable.
Estimated(m) ==
    /\ pc[m] = "estimate"
    /\ IF MintPasses
       THEN Goto(m, "submit") /\ UNCHANGED lost
       ELSE Throw(m, FALSE, FALSE)
    /\ UNCHANGED <<sbtVars, callVars, attempt, tx, tokenOf, threw, result>>

\* params.gasLimit || gasEstimate.gasLimit
GasSuffices(m) == m \notin lowGas

\* The node takes the transaction; its answer may be lost.
Submitted(m) ==
    /\ pc[m] = "submit"
    /\ tx' = [tx EXCEPT ![Current(m)] = "pool"]
    /\ \/ Goto(m, "wait") /\ UNCHANGED lost
       \/ Throw(m, TRUE, TRUE)
    /\ UNCHANGED <<sbtVars, callVars, attempt, tokenOf, threw, result>>

\* The node refuses: "insufficient funds" and "nonce too low" are not
\* retryable, an intrinsic gas above the limit and a lost connection are.
Refused(m) ==
    /\ pc[m] = "submit"
    /\ IF GasSuffices(m)
       THEN \E retryable \in BOOLEAN : Throw(m, retryable, FALSE)
       ELSE Throw(m, TRUE, FALSE)
    /\ UNCHANGED <<sbtVars, callVars, attempt, tx, tokenOf, threw, result>>

\* txResponse.wait(confirmations, timeout) has a receipt: a reverted
\* transaction makes it throw "transaction execution reverted".
ReceiptArrives(m) ==
    /\ pc[m] = "wait"
    /\ \/ /\ tx[Current(m)] = "mined"
          /\ Goto(m, "block")
          /\ UNCHANGED lost
       \/ /\ tx[Current(m)] = "reverted"
          /\ Throw(m, FALSE, FALSE)
    /\ UNCHANGED <<sbtVars, callVars, attempt, tx, tokenOf, threw, result>>

\* The wait times out, or the adapter was disconnected or the node fails
\* before the block of the receipt is read: retryable, whatever was mined.
WaitFails(m) ==
    /\ pc[m] \in {"wait", "block"}
    /\ Throw(m, TRUE, TRUE)
    /\ UNCHANGED <<sbtVars, callVars, attempt, tx, tokenOf, threw, result>>

\* onProgress throws, with any message, before the upload, the estimate or the
\* submission, or after the token was minted: each call lies inside the try.
OnProgressThrows(m) ==
    /\ m \in Reports /\ Alone(m) /\ pc[m] \in {"upload", "estimate", "submit", "block"}
    /\ \E retryable \in BOOLEAN : Throw(m, retryable, FALSE)
    /\ threw' = IF pc[m] = "block" THEN threw \cup {m} ELSE threw
    /\ UNCHANGED <<sbtVars, callVars, attempt, tx, tokenOf, result>>

\* Mutant: the token is taken to be the newest one.
ReturnsNewest(m) ==
    /\ pc[m] = "block"
    /\ result' = [result EXCEPT ![m] = totalSupply]
    /\ Goto(m, "minted")
    /\ UNCHANGED <<sbtVars, callVars, attempt, tx, tokenOf, lost, threw>>

\* Mutant: a mint that worked goes on with the loop.
ReturnsNot(m) ==
    /\ pc[m] = "block"
    /\ result' = [result EXCEPT ![m] = tokenOf[Current(m)]]
    /\ Goto(m, IF attempt[m] < MaxRetries THEN "backoff" ELSE "minted")
    /\ UNCHANGED <<sbtVars, callVars, attempt, tx, tokenOf, lost, threw>>

\* The token is read from the Transfer event of the receipt.
Returns(m) ==
    /\ pc[m] = "block"
    /\ result' = [result EXCEPT ![m] = tokenOf[Current(m)]]
    /\ Goto(m, "minted")
    /\ UNCHANGED <<sbtVars, callVars, attempt, tx, tokenOf, lost, threw>>

\* Mutant: a wait without a timeout.
RunWithoutTimeout(m) ==
    \/ Start(m) \/ BatchAborts(m) \/ Uploaded(m) \/ Estimated(m) \/ Submitted(m)
    \/ ReceiptArrives(m) \/ Returns(m) \/ BackoffEnds(m)

\* What a mint does by itself, sooner or later: the timer of the wait included.
Run(m) ==
    \/ Start(m) \/ BatchAborts(m) \/ Uploaded(m) \/ Estimated(m) \/ Submitted(m)
    \/ ReceiptArrives(m) \/ WaitFails(m) \/ Returns(m) \/ BackoffEnds(m)

MintStep(m) == Run(m) \/ Unreachable(m) \/ Refused(m) \/ OnProgressThrows(m)

---------------------------------------------------------------------------
(* The chain executes what was submitted, and others call the contract.    *)

Execute(x) ==
    /\ tx[x] = "pool"
    /\ \/ /\ GasSuffices(x[1])
          /\ mint(Signer, Recipient[x[1]])
          /\ tx' = [tx EXCEPT ![x] = "mined"]
          /\ tokenOf' = [tokenOf EXCEPT ![x] = tokenIdCounter + 1]
       \/ /\ ~(GasSuffices(x[1]) /\ MintPasses)
          /\ tx' = [tx EXCEPT ![x] = "reverted"]
          /\ UNCHANGED <<sbtVars, tokenOf>>
    /\ UNCHANGED <<callVars, pc, attempt, lost, threw, result>>

DropTx(x) ==
    /\ tx[x] = "pool"
    /\ tx' = [tx EXCEPT ![x] = "dropped"]
    /\ UNCHANGED <<sbtVars, callVars, pc, attempt, tokenOf, lost, threw, result>>

\* The calls of others that a mint can notice.
Others ==
    /\ \E s \in Accounts :
        \/ \E t \in Tokens : burn(s, t)
        \/ \E n \in Limits : setMaxSupply(s, n)
        \/ removeMinter(s, Signer) \/ addMinter(s, Signer)
        \/ tokenIdCounter < MaxOthers /\ \E to \in Accounts : safeMint(s, to)
    /\ UNCHANGED <<callVars, mintVars>>

Next ==
    \/ \E m \in Mints : MintStep(m)
    \/ \E x \in Txs : Execute(x) \/ DropTx(x)
    \/ Others

Spec == Init /\ [][Next]_vars

\* Fairness: the runtime resumes every mint, the timers of the backoff and of
\* the wait go off, and what a mint asks for is answered or fails: the upload,
\* the estimate and the submission, which with the signer of a browser wallet
\* assumes that its user accepts or rejects.  Nothing is assumed of what the
\* chain does with a transaction, nor of others.
FairSpec == Spec /\ \A m \in Mints : WF_vars(Run(m))

---------------------------------------------------------------------------
(* Properties.                                                             *)

Minted(m) == {k \in 1..MaxRetries : tx[<<m, k>>] = "mined"}

\* The token a mint returns was minted by its own transaction for its own
\* recipient, even when others mint and burn between the receipt and the
\* return; so no two mints return the same token.
ResultIsOwnToken ==
    \A m \in Mints : pc[m] = "minted" =>
        /\ result[m] # None /\ result[m] = tokenOf[Current(m)]
        /\ tokenOwner[result[m]] \in {Recipient[m], None}
        /\ \A n \in Mints \ {m} : pc[n] = "minted" => result[n] # result[m]

\* A retry mints a second token only after an attempt whose transaction was
\* given up on with its fate unknown, or whose token onProgress threw away, which
\* the loop takes for a failed attempt; without either, an error means no token
\* and a success exactly one.
DuplicateOnlyIfLost ==
    \A m \in Mints : ~lost[m] /\ m \notin threw =>
        /\ Cardinality(Minted(m)) <= 1
        /\ pc[m] = "failed" => Minted(m) = {}

\* Every mint that was begun ends, there are at most maxRetries attempts and each
\* wait has a timeout; and the rest of its batch ends too, whatever became of it,
\* or is given up by a callback of the batch that throws.
EveryMintEnds ==
    \A m \in Mints : pc[m] = "upload" ~>
        Done(m) /\ \A n \in Mints : before[n] = m => Done(n) \/ pc[n] = "skipped"
=============================================================================
