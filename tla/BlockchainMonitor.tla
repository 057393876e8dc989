-------------------------- MODULE BlockchainMonitor --------------------------
(***************************************************************************)
(* Monitoring calls of monitoring/BlockchainMonitor.ts on one Moonbeam     *)
(* transaction: monitorMoonbeamDIDTransaction ("did") and                  *)
(* monitorMoonbeamTransaction ("plain"), with the retries of               *)
(* handleTransactionFailure.  Every attempt makes a record of its own and  *)
(* stores it under the id of its variant, which it may take over from      *)
(* another call; a retry is a call of the plain variant with the retries   *)
(* left as its options.maxRetries.  Callbacks are assumed not to throw;    *)
(* metrics and health checks only read and are left out.  The adapter's    *)
(* waitForTransaction has no timeout and need never answer, so that no     *)
(* fairness is stated here: monitoring may go on for ever.                 *)
(***************************************************************************)
EXTENDS Integers

CONSTANTS BmCalls,
          BmBudget,     \* this.config.maxRetries
          BmAsked,      \* the options.maxRetries callers pass (0 is a 0)
          BmTriesCap,   \* bound: retries are counted up to this number
          BmNobody      \* no record stored under an id

ASSUME BmAssumption ==
  /\ BmBudget \in Nat \ {0} /\ BmAsked \subseteq Nat /\ BmTriesCap \in Nat
  /\ BmNobody \notin BmCalls

VARIABLES bmPc,       \* "idle", "asking", "sleeping" or "done"
          bmVariant,  \* the variant of the call's current attempt
          bmAsked,    \* the options.maxRetries of its caller
          bmLeft,     \* transaction.maxRetries of its current record
          bmTries,    \* the retries it has made
          bmRecord,   \* the status of its last record of each variant
          bmShown     \* this.transactions: whose record each id holds
bmVars == <<bmPc, bmVariant, bmAsked, bmLeft, bmTries, bmRecord, bmShown>>

Variants == {"did", "plain"}
Final == {"CONFIRMED", "FAILED"}
Status == Final \cup {"PENDING", "RETRYING"}

BmInit ==
  /\ bmPc = [c \in BmCalls |-> "idle"]
  /\ bmVariant = [c \in BmCalls |-> "plain"]
  /\ bmAsked = [c \in BmCalls |-> 0] /\ bmLeft = [c \in BmCalls |-> 0]
  /\ bmTries = [c \in BmCalls |-> 0]
  /\ bmRecord = [c \in BmCalls |-> [v \in Variants |-> "PENDING"]]
  /\ bmShown = [v \in Variants |-> BmNobody]

(* options.maxRetries || this.config.maxRetries                            *)
Budget(asked) == IF asked = 0 THEN BmBudget ELSE asked

Attempt(c, v, asked) ==
  /\ bmPc' = [bmPc EXCEPT ![c] = "asking"]
  /\ bmVariant' = [bmVariant EXCEPT ![c] = v]
  /\ bmLeft' = [bmLeft EXCEPT ![c] = Budget(asked)]
  /\ bmRecord' = [bmRecord EXCEPT ![c][v] = "PENDING"]
  /\ bmShown' = [bmShown EXCEPT ![v] = c]

Monitor(c) == \E v \in Variants, asked \in BmAsked :
  /\ bmPc[c] = "idle"
  /\ Attempt(c, v, asked)
  /\ bmAsked' = [bmAsked EXCEPT ![c] = asked]
  /\ UNCHANGED bmTries

Ends(c, status) ==
  /\ bmPc' = [bmPc EXCEPT ![c] = "done"]
  /\ bmRecord' = [bmRecord EXCEPT ![c][bmVariant[c]] = status]
  /\ UNCHANGED <<bmVariant, bmAsked, bmLeft, bmTries, bmShown>>

(* Mutant: the plain variant, too, goes on without a receipt.              *)
AnsweredPending(c) ==
  /\ bmPc[c] = "asking"
  /\ \E status \in Final \cup {"PENDING"} : Ends(c, status)

(* adapter.waitForTransaction answers with a receipt, of a transaction     *)
(* that succeeded or not, or with none: the plain variant throws then.     *)
Answered(c) ==
  /\ bmPc[c] = "asking"
  /\ \/ \E status \in Final : Ends(c, status)
     \/ bmVariant[c] = "did" /\ Ends(c, "PENDING")

(* It throws an error that isRetryableError does not know.                 *)
Throws(c) == bmPc[c] = "asking" /\ Ends(c, "FAILED")

(* It throws a retryable error and there are retries left.                 *)
Retries(c) ==
  /\ bmPc[c] = "asking" /\ bmLeft[c] > 0
  /\ bmPc' = [bmPc EXCEPT ![c] = "sleeping"]
  /\ bmRecord' = [bmRecord EXCEPT ![c][bmVariant[c]] = "RETRYING"]
  /\ bmTries' = [bmTries EXCEPT ![c] = IF @ = BmTriesCap THEN @ ELSE @ + 1]
  /\ UNCHANGED <<bmVariant, bmAsked, bmLeft, bmShown>>

(* The retry: retryCount of the old record is 1 by now.                    *)
RetryStarts(c) ==
  /\ bmPc[c] = "sleeping"
  /\ Attempt(c, "plain", bmLeft[c] - 1)
  /\ UNCHANGED <<bmAsked, bmTries>>

BmStep(c) == Monitor(c) \/ Answered(c) \/ Throws(c) \/ Retries(c) \/ RetryStarts(c)
BmNext == \E c \in BmCalls : BmStep(c)
BmSpec == BmInit /\ [][BmNext]_bmVars
-----------------------------------------------------------------------------
(* Each variable has its type.                                             *)
BmTypeOK ==
  /\ bmPc \in [BmCalls -> {"idle", "asking", "sleeping", "done"}]
  /\ bmVariant \in [BmCalls -> Variants]
  /\ bmAsked \in [BmCalls -> BmAsked \cup {0}]
  /\ bmLeft \in [BmCalls -> Nat]
  /\ bmTries \in [BmCalls -> 0..BmTriesCap]
  /\ bmRecord \in [BmCalls -> [Variants -> Status]]
  /\ bmShown \in [Variants -> BmCalls \cup {BmNobody}]

(* Calls on one transaction share the id of the plain variant, also those  *)
(* that came to it by a retry: when none runs any more, the record that    *)
(* getTransactions shows there says how the transaction ended.             *)
ShownAtRest ==
  (\A c \in BmCalls : bmPc[c] \in {"idle", "done"})
    => \A c \in BmCalls : bmShown["plain"] = c => bmRecord[c]["plain"] \in Final

(* handleTransactionFailure gives every retry the retries that are left,   *)
(* so a call makes no more of them than its caller asked for, none when it *)
(* asked for none (BlockchainMonitor.test.ts:177).                         *)
RetriesWithinBudget == \A c \in BmCalls : bmTries[c] <= bmAsked[c]

(* The inductive invariant behind ShownAtRest: the call whose record the   *)
(* plain id shows has come to the plain variant, and has either ended that *)
(* record or still runs.                                                   *)
ShownInv ==
  /\ \A c \in BmCalls : bmPc[c] = "sleeping" => bmLeft[c] > 0
  /\ \A c \in BmCalls : bmShown["plain"] = c =>
        /\ bmPc[c] # "idle" /\ bmVariant[c] = "plain"
        /\ bmPc[c] = "done" => bmRecord[c]["plain"] \in Final
=============================================================================
