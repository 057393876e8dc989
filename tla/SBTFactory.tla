----------------------------- MODULE SBTFactory -----------------------------
(***************************************************************************)
(* SBTContractFactory: deployContract with its retries, the record of the  *)
(* contract deployed on each network, and the versions of the ABI.  Calls  *)
(* of deployContract overlap each other, switches of the adapter's         *)
(* network, and callers who add and remove records.  A signer sends to the *)
(* network that was current when its call was made.                        *)
(***************************************************************************)
EXTENDS Integers, Sequences, FiniteSets

CONSTANTS FaCalls,     \* calls of deployContract
          FaNetworks,
          FaAttempts,  \* config.maxRetryAttempts (3)
          FaVersions,  \* versions of the ABI that callers add
          FaArtifact,  \* the version of the artifact file, "1.0.0"
          FaElsewhere, \* a contract the factory did not deploy
          NoRecord,    \* a network without a contract
          FaMaxBooks   \* bound: how often callers change records or versions

ASSUME FactoryAssumption ==
    /\ FaAttempts \in Nat \ {0} /\ FaMaxBooks \in Nat
    /\ FaElsewhere \notin FaCalls \X (1..FaAttempts)

VARIABLES faNetwork, \* the adapter's current network
          faRecord,  \* networkAddresses
          faAbis,    \* abiVersions, each a version and isActive
          faPc,      \* where each call is suspended
          faOn,      \* the local variable network
          faAttempt, \* the attempt of deployWithRetry
          faTx,      \* the transaction of each attempt
          faLost,    \* calls of which an attempt ended with its fate unknown
          faBooks    \* how often callers have changed records or versions

faCall == <<faPc, faOn, faAttempt, faTx, faLost>>
faVars == <<faNetwork, faRecord, faAbis, faCall, faBooks>>

Deployments == FaCalls \X (1..FaAttempts)
Latest(c) == <<c, faAttempt[c]>>
Contracts == Deployments \cup {FaElsewhere}

FaTypeOK ==
    /\ faNetwork \in FaNetworks
    /\ faRecord \in [FaNetworks -> [contract : Contracts, verified : BOOLEAN] \cup {NoRecord}]
    /\ \A i \in 1..Len(faAbis) :
          faAbis[i] \in [version : FaVersions \cup {FaArtifact}, isActive : BOOLEAN]
    /\ faPc \in [FaCalls -> {"idle", "send", "backoff", "mine", "verify", "unmarked",
                             "failed", "done"}]
    /\ faOn \in [FaCalls -> FaNetworks]
    /\ faAttempt \in [FaCalls -> 1..FaAttempts]
    /\ faTx \in [Deployments -> {"none", "pool", "mined", "reverted", "dropped"}]
    /\ faLost \subseteq FaCalls

FaInit ==
    /\ faNetwork \in FaNetworks
    /\ faRecord = [n \in FaNetworks |-> NoRecord]
    /\ faAbis = <<>>
    /\ faPc = [c \in FaCalls |-> "idle"]
    /\ faOn = [c \in FaCalls |-> faNetwork]
    /\ faAttempt = [c \in FaCalls |-> 1]
    /\ faTx = [d \in Deployments |-> "none"]
    /\ faLost = {} /\ faBooks = 0

FaGoto(c, where) == faPc' = [faPc EXCEPT ![c] = where]
-----------------------------------------------------------------------------
(* The versions of the ABI.                                                *)

Inactive(abis) == [i \in 1..Len(abis) |-> [abis[i] EXCEPT !.isActive = FALSE]]
HasVersion(v) == \E i \in 1..Len(faAbis) : faAbis[i].version = v

WithVersion(v, active) ==
    Append(IF active THEN Inactive(faAbis) ELSE faAbis, [version |-> v, isActive |-> active])

(* Of several entries of one version the first is made active.             *)
SetActive(v) ==
    LET first == CHOOSE i \in 1..Len(faAbis) :
                    /\ faAbis[i].version = v
                    /\ \A j \in 1..(i - 1) : faAbis[j].version # v
    IN [Inactive(faAbis) EXCEPT ![first].isActive = TRUE]

ActiveVersions == {i \in 1..Len(faAbis) : faAbis[i].isActive}
-----------------------------------------------------------------------------
(* A deployment.                                                           *)

(* Without an active version the artifact is loaded, unless it is there    *)
(* already, inactive: then the call fails, as it does when the adapter is  *)
(* not connected or the bytecode cannot be read.                           *)
Deploy(c) ==
    /\ faPc[c] = "idle"
    /\ faOn' = [faOn EXCEPT ![c] = faNetwork]
    /\ \/ /\ IF ActiveVersions # {} THEN UNCHANGED faAbis
             ELSE ~HasVersion(FaArtifact) /\ faAbis' = WithVersion(FaArtifact, TRUE)
          /\ FaGoto(c, "send")
       \/ FaGoto(c, "failed") /\ UNCHANGED faAbis
    /\ UNCHANGED <<faNetwork, faRecord, faAttempt, faTx, faLost, faBooks>>

(* The catch of deployWithRetry.                                           *)
AttemptFails(c, retryable) ==
    FaGoto(c, IF retryable /\ faAttempt[c] < FaAttempts THEN "backoff" ELSE "failed")

(* factory.deploy: the transaction is sent, and its answer may be lost.    *)
DeploymentSent(c) ==
    /\ faPc[c] = "send"
    /\ faTx' = [faTx EXCEPT ![Latest(c)] = "pool"]
    /\ \/ FaGoto(c, "mine") /\ UNCHANGED faLost
       \/ AttemptFails(c, TRUE) /\ faLost' = faLost \cup {c}
    /\ UNCHANGED <<faNetwork, faRecord, faAbis, faOn, faAttempt, faBooks>>

(* Or it is not: for want of funds, which is not retried, or any reason.   *)
DeploymentRefused(c) ==
    /\ faPc[c] = "send"
    /\ \E retryable \in BOOLEAN : AttemptFails(c, retryable)
    /\ UNCHANGED <<faNetwork, faRecord, faAbis, faOn, faAttempt, faTx, faLost, faBooks>>

DeployAgain(c) ==
    /\ faPc[c] = "backoff"
    /\ faAttempt' = [faAttempt EXCEPT ![c] = @ + 1]
    /\ FaGoto(c, "send")
    /\ UNCHANGED <<faNetwork, faRecord, faAbis, faOn, faTx, faLost, faBooks>>

(* Mutant: the record goes to the network of the moment.                   *)
RecordedAtPresent(c) ==
    /\ faPc[c] = "mine" /\ faTx[Latest(c)] = "mined"
    /\ faRecord' = [faRecord EXCEPT ![faNetwork] = [contract |-> Latest(c), verified |-> FALSE]]
    /\ FaGoto(c, "verify")
    /\ UNCHANGED <<faNetwork, faAbis, faOn, faAttempt, faTx, faLost, faBooks>>

(* The receipt is there.                                                   *)
Recorded(c) ==
    /\ faPc[c] = "mine" /\ faTx[Latest(c)] = "mined"
    /\ faRecord' = [faRecord EXCEPT ![faOn[c]] = [contract |-> Latest(c), verified |-> FALSE]]
    /\ FaGoto(c, "verify")
    /\ UNCHANGED <<faNetwork, faAbis, faOn, faAttempt, faTx, faLost, faBooks>>

(* The wait has no timeout; it throws when the deployment reverted, or when *)
(* the node cannot be asked, whatever became of the deployment.            *)
DeploymentWaitFails(c) ==
    /\ faPc[c] = "mine"
    /\ faLost' = IF faTx[Latest(c)] = "reverted" THEN faLost ELSE faLost \cup {c}
    /\ FaGoto(c, "failed")
    /\ UNCHANGED <<faNetwork, faRecord, faAbis, faOn, faAttempt, faTx, faBooks>>

(* Mutant: a deployment whose record is gone is made once more.            *)
MarkedOrMadeAgain(c) ==
    /\ faPc[c] = "verify"
    /\ LET n == faOn[c] IN
       IF faRecord[n] = NoRecord
       THEN AttemptFails(c, TRUE) /\ UNCHANGED faRecord
       ELSE faRecord' = [faRecord EXCEPT ![n].verified = TRUE] /\ FaGoto(c, "done")
    /\ UNCHANGED <<faNetwork, faAbis, faOn, faAttempt, faTx, faLost, faBooks>>

(* After the verification, which waits 30 seconds and succeeds unless it   *)
(* is turned off, the network's record is marked: whichever it is by now.  *)
(* Without one the call throws, though its contract is there.              *)
Marked(c) ==
    /\ faPc[c] = "verify"
    /\ LET n == faOn[c] IN
       \/ /\ faRecord[n] # NoRecord
          /\ faRecord' = [faRecord EXCEPT ![n].verified = TRUE] /\ FaGoto(c, "done")
       \/ faRecord[n] = NoRecord /\ FaGoto(c, "unmarked") /\ UNCHANGED faRecord
       \/ FaGoto(c, "done") /\ UNCHANGED faRecord
    /\ UNCHANGED <<faNetwork, faAbis, faOn, faAttempt, faTx, faLost, faBooks>>
-----------------------------------------------------------------------------
(* The chain, the adapter, and the factory's other callers.                *)

DeploymentExecutes(d) ==
    /\ faTx[d] = "pool"
    /\ \E fate \in {"mined", "reverted", "dropped"} : faTx' = [faTx EXCEPT ![d] = fate]
    /\ UNCHANGED <<faNetwork, faRecord, faAbis, faPc, faOn, faAttempt, faLost, faBooks>>

AdapterSwitches ==
    /\ faNetwork' \in FaNetworks \ {faNetwork}
    /\ UNCHANGED <<faRecord, faAbis, faCall, faBooks>>

addContractAddress(n, verified) ==
    /\ faRecord' = [faRecord EXCEPT ![n] = [contract |-> FaElsewhere, verified |-> verified]]
    /\ UNCHANGED faAbis

removeContractAddress(n) == faRecord' = [faRecord EXCEPT ![n] = NoRecord] /\ UNCHANGED faAbis
addABIVersion(v, active) == faAbis' = WithVersion(v, active) /\ UNCHANGED faRecord
setActiveABIVersion(v) == HasVersion(v) /\ faAbis' = SetActive(v) /\ UNCHANGED faRecord
cleanup == faRecord' = [n \in FaNetworks |-> NoRecord] /\ faAbis' = <<>>

Books ==
    /\ faBooks < FaMaxBooks /\ faBooks' = faBooks + 1
    /\ \/ \E n \in FaNetworks : \/ removeContractAddress(n)
                                \/ \E verified \in BOOLEAN : addContractAddress(n, verified)
       \/ \E v \in FaVersions \cup {FaArtifact} :
             setActiveABIVersion(v) \/ \E active \in BOOLEAN : addABIVersion(v, active)
       \/ cleanup
    /\ UNCHANGED <<faNetwork, faCall>>

DeployStep(c) ==
    \/ Deploy(c) \/ DeploymentSent(c) \/ DeploymentRefused(c) \/ DeployAgain(c)
    \/ Recorded(c) \/ DeploymentWaitFails(c) \/ Marked(c)

FaNext ==
    \/ \E c \in FaCalls : DeployStep(c)
    \/ \E d \in Deployments : DeploymentExecutes(d)
    \/ AdapterSwitches
    \/ Books

FaSpec == FaInit /\ [][FaNext]_faVars
-----------------------------------------------------------------------------
Created(c) == {k \in 1..FaAttempts : faTx[<<c, k>>] = "mined"}

(* deployContract makes a second contract, or fails and leaves one, only   *)
(* after an attempt whose fate it did not learn; and a call that returns,  *)
(* or finds its record gone (unmarked), has made exactly one.              *)
OneContractUnlessLost ==
    \A c \in FaCalls :
        /\ c \notin faLost => Cardinality(Created(c)) <= 1
        /\ c \notin faLost /\ faPc[c] = "failed" => Created(c) = {}
        /\ faPc[c] \in {"verify", "unmarked", "done"} => faAttempt[c] \in Created(c)

(* Whatever the adapter is switched to while deployments run, a record     *)
(* names a contract that exists on its network; and whatever versions are  *)
(* added, loaded and chosen, no two are active, so the one found first is  *)
(* the one that was chosen.                                                *)
RecordsAgree ==
    /\ \A n \in FaNetworks :
          faRecord[n] # NoRecord /\ faRecord[n].contract # FaElsewhere =>
              /\ faTx[faRecord[n].contract] = "mined"
              /\ faOn[faRecord[n].contract[1]] = n
    /\ Cardinality(ActiveVersions) <= 1
=============================================================================
