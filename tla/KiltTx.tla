------------------------------- MODULE KiltTx -------------------------------
(***************************************************************************)
(* KILTTransactionService: signing, submitting, confirming and retrying    *)
(* transactions of one or more accounts, over one shared nonce cache and   *)
(* one shared map of pending transactions.                                 *)
(*                                                                         *)
(* A call is one invocation of a public operation:                         *)
(*   "submit"   submitTransaction, waiting for confirmation (the default)  *)
(*   "noWait"   submitTransaction with waitForConfirmation: false          *)
(*   "signed"   submitSignedTransaction, of an extrinsic signed elsewhere  *)
(*   "auto"     autoRetryTransaction                                       *)
(*   "retry"    retryTransaction of a transaction still in the map         *)
(* The program counter of a call names the await it is suspended at: code  *)
(* between two awaits runs to completion, so it is one action.             *)
(***************************************************************************)
EXTENDS KiltNode

CONSTANTS Ops,             \* the operations callers use
          MaxRetries,      \* config.maxRetries
          NonceManagement, \* config.enableNonceManagement
          CallerNonces,    \* the options.nonce callers pass, when they do
          Overlap,         \* may calls of one account overlap in time?
          MaxClears,       \* bound: how often a caller clears a map
          ElsewhereBelow   \* bound: nonces below it may be used elsewhere

ASSUME TxAssumption ==
    /\ Ops \subseteq {"submit", "noWait", "signed", "auto", "retry"}
    /\ MaxRetries \in Nat
    /\ NonceManagement \in BOOLEAN
    /\ CallerNonces \subseteq Nat
    /\ Overlap \in BOOLEAN
    /\ MaxClears \in Nat
    /\ ElsewhereBelow \in Nat

VARIABLES nonceCache, \* nonceCache: Map<address, nonce>
          pending,    \* pendingTransactions: Map<hash, status>
          retries,    \* retryCount of the entries of that map
          clears,     \* how often a caller has cleared a map
          pc,         \* where each call is suspended
          op,         \* the operation of each call
          nonce,      \* the local variable nonce
          fixed,      \* options.nonce
          answer,     \* what the node answered to accountNextIndex
          sent,       \* how many transactions the call has signed
          attempt,    \* attemptCount of submitTransactionWithRetry
          auto,       \* attempts of autoRetryTransaction
          poll,       \* progress of the confirmation poll
          result      \* what the call returned

callVars == <<pc, op, nonce, fixed, answer, sent, attempt, auto, poll, result>>
svcVars == <<nonceCache, pending, retries, clears>>
vars == <<nodeVars, svcVars, callVars>>

Statuses == {"absent", "pending", "inBlock", "confirmed", "failed"}
Points == {"idle", "renew", "refetch", "attempt", "fetch", "gasFetch", "sign",
           "send", "wait", "fee", "backoff", "autoBackoff", "done"}

TypeOK ==
    /\ NodeTypeOK
    /\ nonceCache \in [Accounts -> Nat \cup {None}]
    /\ pending \in [Tx -> Statuses]
    /\ retries \in [Tx -> 0..MaxRetries]
    /\ clears \in 0..MaxClears
    /\ pc \in [Calls -> Points]
    /\ op \in [Calls -> {"submit", "noWait", "signed", "auto", "retry"}]
    /\ nonce \in [Calls -> Nat \cup {None}]
    /\ fixed \in [Calls -> Nat \cup {None}]
    /\ answer \in [Calls -> Nat \cup {None}]
    /\ sent \in [Calls -> 0..TxBound]
    /\ attempt \in [Calls -> 0..MaxRetries]
    /\ auto \in [Calls -> 0..MaxRetries]
    /\ poll \in [Calls -> {"none", "gone", "search", "events"}]
    /\ result \in [Calls -> {"none", "success", "unconfirmed", "error"}]

Init ==
    /\ NodeInit
    /\ nonceCache = [a \in Accounts |-> None]
    /\ pending = [t \in Tx |-> "absent"]
    /\ retries = [t \in Tx |-> 0]
    /\ clears = 0
    /\ pc = [c \in Calls |-> "idle"]
    /\ op = [c \in Calls |-> "submit"]
    /\ nonce = [c \in Calls |-> None]
    /\ fixed = [c \in Calls |-> None]
    /\ answer = [c \in Calls |-> None]
    /\ sent = [c \in Calls |-> 0]
    /\ attempt = [c \in Calls |-> 0]
    /\ auto = [c \in Calls |-> 0]
    /\ poll = [c \in Calls |-> "none"]
    /\ result = [c \in Calls |-> "none"]

Current(c) == <<c, sent[c]>>      \* the transaction a call submitted last
Cached(c) == nonceCache[Signer[c]]
Active(c) == pc[c] \notin {"idle", "done"}

\* Mutant: getNonce asks the node every time, retries included.
KnownNever(c) == None

\* The cache as getNonce sees it: ignored when nonce management is off.
Known(c) == IF NonceManagement THEN Cached(c) ELSE None

Goto(c, point) == pc' = [pc EXCEPT ![c] = point]

---------------------------------------------------------------------------
(* How a call ends or starts again when an exception leaves an attempt.    *)

\* The catch of autoRetryTransaction, or the caller's own.
ThrowToCaller(c, retryable) ==
    IF op[c] = "auto" /\ retryable /\ auto[c] < MaxRetries
    THEN Goto(c, "autoBackoff") /\ UNCHANGED result
    ELSE Goto(c, "done") /\ result' = [result EXCEPT ![c] = "error"]

\* The catch of submitTransactionWithRetry; submitSignedTransaction has none.
Throw(c, retryable) ==
    IF op[c] # "signed" /\ retryable /\ attempt[c] < MaxRetries
    THEN Goto(c, "backoff") /\ UNCHANGED result
    ELSE ThrowToCaller(c, retryable)

\* Mutant: the attempts are not counted.
BackoffEndsUncounted(c) ==
    /\ pc[c] = "backoff"
    /\ Goto(c, "attempt")
    /\ UNCHANGED <<nodeVars, svcVars, op, nonce, fixed, answer, sent, attempt, auto, poll, result>>

BackoffEnds(c) ==
    /\ pc[c] = "backoff"
    /\ attempt' = [attempt EXCEPT ![c] = @ + 1]
    /\ Goto(c, "attempt")
    /\ UNCHANGED <<nodeVars, svcVars, op, nonce, fixed, answer, sent, auto, poll, result>>

AutoBackoffEnds(c) ==
    /\ pc[c] = "autoBackoff"
    /\ auto' = [auto EXCEPT ![c] = @ + 1]
    /\ attempt' = [attempt EXCEPT ![c] = 0]
    /\ Goto(c, "renew")
    /\ UNCHANGED <<nodeVars, svcVars, op, nonce, fixed, answer, sent, poll, result>>

---------------------------------------------------------------------------
(* The start of a call.                                                    *)

\* Callers that do not overlap finish one call of an account before the next.
MayStart(c) ==
    /\ pc[c] = "idle"
    /\ Overlap \/ \A d \in Calls : Signer[d] = Signer[c] => ~Active(d)

\* The caller may pass an options.nonce, which is then the nonce of every attempt.
Start(c) ==
    /\ MayStart(c)
    /\ \E o \in Ops \cap {"submit", "noWait", "auto"} : op' = [op EXCEPT ![c] = o]
    /\ \E n \in CallerNonces \cup {None} : fixed' = [fixed EXCEPT ![c] = n]
    /\ Goto(c, "attempt")
    /\ UNCHANGED <<nodeVars, svcVars, nonce, answer, sent, attempt, auto, poll, result>>

\* The wallet that signed the extrinsic took its nonce from the node.
StartSigned(c) ==
    /\ MayStart(c)
    /\ "signed" \in Ops
    /\ op' = [op EXCEPT ![c] = "signed"]
    /\ \E n \in NextIndex(Signer[c]) : nonce' = [nonce EXCEPT ![c] = n]
    /\ Goto(c, "sign")
    /\ UNCHANGED <<nodeVars, svcVars, fixed, answer, sent, attempt, auto, poll, result>>

\* retryTransaction needs the transaction's entry in the map and a retry left.
StartRetry(c, t) ==
    /\ MayStart(c)
    /\ "retry" \in Ops
    /\ Owner(t) = Signer[c]
    /\ op' = [op EXCEPT ![c] = "retry"]
    /\ IF pending[t] # "absent" /\ retries[t] < MaxRetries
       THEN /\ retries' = [retries EXCEPT ![t] = @ + 1]
            /\ Goto(c, "renew")
            /\ UNCHANGED result
       ELSE /\ ThrowToCaller(c, FALSE)
            /\ UNCHANGED retries
    /\ UNCHANGED <<nodeVars, nonceCache, pending, clears,
                   nonce, fixed, answer, sent, attempt, auto, poll>>

---------------------------------------------------------------------------
(* getNonce, called for options.nonce ("renew"), for an attempt without    *)
(* one ("attempt"), and by estimateGas ("gasFetch").                       *)

\* Mutant: every attempt asks the node again although options.nonce is set.
UseFixedAnew(c) ==
    /\ pc[c] = "attempt"
    /\ fixed[c] # None
    /\ \E n \in NextIndex(Signer[c]) : nonce' = [nonce EXCEPT ![c] = n]
    /\ Goto(c, "sign")
    /\ UNCHANGED <<nodeVars, svcVars, op, fixed, answer, sent, attempt, auto, poll, result>>

\* options.nonce is set: the attempt uses it, and estimateGas, needed when the
\* caller gave no gas limit, still fills an empty cache.
UseFixed(c) ==
    /\ pc[c] = "attempt"
    /\ fixed[c] # None
    /\ nonce' = [nonce EXCEPT ![c] = fixed[c]]
    /\ \/ Goto(c, "sign")
       \/ NonceManagement /\ Cached(c) = None /\ Goto(c, "gasFetch")
    /\ UNCHANGED <<nodeVars, svcVars, op, fixed, answer, sent, attempt, auto, poll, result>>

UseCached(c) ==
    /\ Known(c) # None
    /\ \/ /\ pc[c] = "attempt"
          /\ fixed[c] = None
          /\ nonce' = [nonce EXCEPT ![c] = Known(c)]
          /\ Goto(c, "sign")
          /\ UNCHANGED fixed
       \/ /\ pc[c] = "renew"
          /\ fixed' = [fixed EXCEPT ![c] = Known(c)]
          /\ Goto(c, "attempt")
          /\ UNCHANGED nonce
    /\ UNCHANGED <<nodeVars, svcVars, op, answer, sent, attempt, auto, poll, result>>

AskNonce(c) ==
    /\ Known(c) = None
    /\ \/ pc[c] = "attempt" /\ fixed[c] = None /\ Goto(c, "fetch")
       \/ pc[c] = "renew" /\ Goto(c, "refetch")
    /\ UNCHANGED <<nodeVars, svcVars, op, nonce, fixed, answer, sent, attempt, auto, poll, result>>

\* The node answers; the answer is on its way and may be old when it arrives.
NodeAnswers(c) ==
    /\ pc[c] \in {"fetch", "refetch", "gasFetch"}
    /\ answer[c] = None
    /\ \E n \in NextIndex(Signer[c]) : answer' = [answer EXCEPT ![c] = n]
    /\ UNCHANGED <<nodeVars, svcVars, pc, op, nonce, fixed, sent, attempt, auto, poll, result>>

\* The answer arrives: getNonce caches it, whatever the cache holds by now.
Fetched(c) ==
    /\ pc[c] \in {"fetch", "refetch", "gasFetch"}
    /\ answer[c] # None
    /\ nonceCache' = IF NonceManagement
                     THEN [nonceCache EXCEPT ![Signer[c]] = answer[c]] ELSE nonceCache
    /\ nonce' = IF pc[c] = "fetch" THEN [nonce EXCEPT ![c] = answer[c]] ELSE nonce
    /\ fixed' = IF pc[c] = "refetch" THEN [fixed EXCEPT ![c] = answer[c]] ELSE fixed
    /\ answer' = [answer EXCEPT ![c] = None]
    /\ Goto(c, IF pc[c] = "refetch" THEN "attempt" ELSE "sign")
    /\ UNCHANGED <<nodeVars, pending, retries, clears, op, sent, attempt, auto, poll, result>>

\* The request fails.  estimateGas swallows the error; the others throw it.
FetchFails(c) ==
    /\ \/ pc[c] = "fetch" /\ \E r \in BOOLEAN : Throw(c, r)
       \/ pc[c] = "refetch" /\ \E r \in BOOLEAN : ThrowToCaller(c, r)
       \/ pc[c] = "gasFetch" /\ Goto(c, "sign") /\ UNCHANGED result
    /\ answer' = [answer EXCEPT ![c] = None]
    /\ UNCHANGED <<nodeVars, svcVars, op, nonce, fixed, sent, attempt, auto, poll>>

---------------------------------------------------------------------------
(* Signing and sending.                                                    *)

\* signAsync returns: the map gets an entry for the new hash.
Sign(c) ==
    /\ pc[c] = "sign"
    /\ sent[c] < TxBound
    /\ sent' = [sent EXCEPT ![c] = @ + 1]
    /\ LET t == <<c, sent[c] + 1>>
       IN  /\ txNonce' = [txNonce EXCEPT ![t] = nonce[c]]
           /\ pending' = [pending EXCEPT ![t] = "pending"]
    /\ Goto(c, "send")
    /\ UNCHANGED <<chain, index, notice, nonceCache, retries, clears,
                   op, nonce, fixed, answer, attempt, auto, poll, result>>

\* Validation, the connection check or the signer throws.
SignFails(c) ==
    /\ pc[c] \in {"attempt", "sign"}
    /\ op[c] # "signed"
    /\ \E r \in BOOLEAN : Throw(c, r)
    /\ UNCHANGED <<nodeVars, svcVars, op, nonce, fixed, answer, sent, attempt, auto, poll>>

\* Mutants: a block is taken for finality; the nonce is not incremented.
ResolveInBlock(c, st) ==
    /\ UNCHANGED nonceCache
    /\ Goto(c, "fee")
    /\ result' = [result EXCEPT ![c] =
                     IF st \in {"inBlock", "confirmed"} THEN "success" ELSE "unconfirmed"]
ResolveNoIncrement(c, st) ==
    /\ UNCHANGED nonceCache
    /\ Goto(c, "fee")
    /\ result' = [result EXCEPT ![c] = IF st = "confirmed" THEN "success" ELSE "unconfirmed"]

\* What follows the wait: incrementNonce, then the result from the map's entry
\* (whose status is st), or an error that is not retried when it is gone.
Resolve(c, st) ==
    /\ nonceCache' = IF NonceManagement /\ op[c] # "signed" /\ Cached(c) # None
                     THEN [nonceCache EXCEPT ![Signer[c]] = @ + 1] ELSE nonceCache
    /\ IF st = "absent"
       THEN ThrowToCaller(c, FALSE)
       ELSE /\ Goto(c, "fee")
            /\ result' = [result EXCEPT ![c] =
                              IF st = "confirmed" THEN "success" ELSE "unconfirmed"]

\* The node takes the transaction, and the call waits or goes straight on.
SendAccepted(c) ==
    /\ pc[c] = "send"
    /\ Acceptable(Signer[c], nonce[c])
    /\ chain' = [chain EXCEPT ![Current(c)] = "pool"]
    /\ IF op[c] = "noWait"
       THEN Resolve(c, pending[Current(c)])
       ELSE /\ IF pending[Current(c)] = "absent"
               THEN ThrowToCaller(c, FALSE)
               ELSE Goto(c, "wait") /\ UNCHANGED result
            /\ UNCHANGED nonceCache
    /\ UNCHANGED <<txNonce, index, notice, pending, retries, clears,
                   op, nonce, fixed, answer, sent, attempt, auto, poll>>

\* "Outdated" and "priority is too low" are not among the retryable messages.
SendRejected(c) ==
    /\ pc[c] = "send"
    /\ ~Acceptable(Signer[c], nonce[c])
    /\ Throw(c, FALSE)
    /\ UNCHANGED <<nodeVars, svcVars, op, nonce, fixed, answer, sent, attempt, auto, poll>>

\* The connection breaks: the node may have the transaction, and its status
\* events are lost.  The entry stays in the map.
SendLost(c) ==
    /\ pc[c] = "send"
    /\ \/ UNCHANGED chain
       \/ /\ Acceptable(Signer[c], nonce[c])
          /\ chain' = [chain EXCEPT ![Current(c)] = "pool"]
    /\ notice' = [notice EXCEPT ![Current(c)] = "lost"]
    /\ Throw(c, TRUE)
    /\ UNCHANGED <<txNonce, index, svcVars,
                   op, nonce, fixed, answer, sent, attempt, auto, poll>>

---------------------------------------------------------------------------
(* Status events: the callback given to send updates the map's entry, if   *)
(* it is still there.                                                      *)

\* Mutant: an event creates the entry anew.
SetEntryAnew(t, st) == pending' = [pending EXCEPT ![t] = st]

SetEntry(t, st) == pending' = [pending EXCEPT ![t] = IF @ = "absent" THEN @ ELSE st]

NotifyInBlock(t) ==
    /\ notice[t] = "due"
    /\ notice' = [notice EXCEPT ![t] = "inBlock"]
    /\ SetEntry(t, "inBlock")
    /\ UNCHANGED <<txNonce, chain, index, nonceCache, retries, clears, callVars>>

NotifyFinalized(t) ==
    /\ chain[t] = "final"
    /\ notice[t] = "inBlock"
    /\ notice' = [notice EXCEPT ![t] = "finalized"]
    /\ SetEntry(t, "confirmed")
    /\ UNCHANGED <<txNonce, chain, index, nonceCache, retries, clears, callVars>>

---------------------------------------------------------------------------
(* waitForConfirmation: a poll every second against one timeout.  At most  *)
(* one poll of a call is in flight.                                        *)

\* pendingExtrinsics no longer lists the transaction.  (While it does, the
\* poll changes nothing.)
PollGone(c) ==
    /\ pc[c] = "wait"
    /\ poll[c] = "none"
    /\ chain[Current(c)] # "pool"
    /\ poll' = [poll EXCEPT ![c] = "gone"]
    /\ UNCHANGED <<nodeVars, svcVars, pc, op, nonce, fixed, answer, sent, attempt, auto, result>>

\* The answer arrives: an entry still 'pending' is looked up in recent blocks,
\* any other status ends the wait.
PollAnswered(c) ==
    /\ pc[c] = "wait"
    /\ poll[c] = "gone"
    /\ IF pending[Current(c)] = "pending"
       THEN /\ poll' = [poll EXCEPT ![c] = "search"]
            /\ UNCHANGED <<nonceCache, pc, result>>
       ELSE /\ poll' = [poll EXCEPT ![c] = "none"]
            /\ Resolve(c, pending[Current(c)])
    /\ UNCHANGED <<nodeVars, pending, retries, clears, op, nonce, fixed, answer, sent, attempt, auto>>

\* searchTransactionInRecentBlocks finds the transaction in a finalized block
\* and goes on to fetch the block's events.
SearchFound(c) ==
    /\ pc[c] = "wait"
    /\ poll[c] = "search"
    /\ chain[Current(c)] = "final"
    /\ SetEntry(Current(c), "confirmed")
    /\ poll' = [poll EXCEPT ![c] = "events"]
    /\ UNCHANGED <<nodeVars, nonceCache, retries, clears,
                   pc, op, nonce, fixed, answer, sent, attempt, auto, result>>

\* It does not: the transaction is not in the ten last finalized blocks as they
\* were read, or reading them failed.  The wait ends all the same.
SearchMissed(c) ==
    /\ pc[c] = "wait"
    /\ poll[c] = "search"
    /\ SetEntry(Current(c), "failed")
    /\ poll' = [poll EXCEPT ![c] = "none"]
    /\ Resolve(c, pending'[Current(c)])
    /\ UNCHANGED <<nodeVars, retries, clears, op, nonce, fixed, answer, sent, attempt, auto>>

\* The events are there: the result shows the entry as it is by now.
EventsRead(c) ==
    /\ pc[c] = "wait"
    /\ poll[c] = "events"
    /\ poll' = [poll EXCEPT ![c] = "none"]
    /\ Resolve(c, pending[Current(c)])
    /\ UNCHANGED <<nodeVars, pending, retries, clears, op, nonce, fixed, answer, sent, attempt, auto>>

\* pendingExtrinsics fails.  The entry stays in the map as 'failed'.
PollFails(c) ==
    /\ pc[c] = "wait"
    /\ poll[c] = "none"
    /\ SetEntry(Current(c), "failed")
    /\ \E r \in BOOLEAN : Throw(c, r)
    /\ UNCHANGED <<nodeVars, nonceCache, retries, clears,
                   op, nonce, fixed, answer, sent, attempt, auto, poll>>

\* The timeout removes the entry, whatever a poll in flight would have found.
Timeout(c) ==
    /\ pc[c] = "wait"
    /\ pending' = [pending EXCEPT ![Current(c)] = "absent"]
    /\ poll' = [poll EXCEPT ![c] = "none"]
    /\ Throw(c, TRUE)
    /\ UNCHANGED <<nodeVars, nonceCache, retries, clears,
                   op, nonce, fixed, answer, sent, attempt, auto>>

\* The fee is computed, the entry removed, and the result returned:
\* autoRetryTransaction submits again unless it is a success.
Fee(c) ==
    /\ pc[c] = "fee"
    /\ pending' = [pending EXCEPT ![Current(c)] = "absent"]
    /\ IF op[c] = "auto" /\ result[c] = "unconfirmed"
       THEN IF auto[c] < MaxRetries
            THEN Goto(c, "autoBackoff") /\ result' = [result EXCEPT ![c] = "none"]
            ELSE Goto(c, "done") /\ result' = [result EXCEPT ![c] = "error"]
       ELSE Goto(c, "done") /\ UNCHANGED result
    /\ UNCHANGED <<nodeVars, nonceCache, retries, clears,
                   op, nonce, fixed, answer, sent, attempt, auto, poll>>

---------------------------------------------------------------------------
(* clearNonceCache and clearPendingTransactions, whenever a caller likes.  *)

Clear ==
    /\ clears < MaxClears
    /\ clears' = clears + 1
    /\ \/ /\ nonceCache' = [a \in Accounts |-> None]
          /\ UNCHANGED pending
       \/ /\ pending' = [t \in Tx |-> "absent"]
          /\ UNCHANGED nonceCache
    /\ UNCHANGED <<nodeVars, retries, callVars>>

---------------------------------------------------------------------------
NodeActs(t) == NodeStep(t) /\ UNCHANGED <<svcVars, callVars>>

\* KILTDIDProvider submits for account a with a nonce it asked the node for
\* itself, and the block that includes its transaction is finalized; the
\* service's cache is not told.
Elsewhere(a) ==
    /\ index[a] < ElsewhereBelow
    /\ \A t \in Tx : Owner(t) = a => chain[t] # "best"
    /\ index' = [index EXCEPT ![a] = @ + 1]
    /\ UNCHANGED <<txNonce, chain, notice, svcVars, callVars>>

Notify(t) == NotifyInBlock(t) \/ NotifyFinalized(t)
Call(c) ==
    \/ Start(c) \/ StartSigned(c) \/ \E t \in Tx : StartRetry(c, t)
Run(c) ==
    \/ UseFixed(c) \/ UseCached(c) \/ AskNonce(c)
    \/ NodeAnswers(c) \/ Fetched(c) \/ FetchFails(c)
    \/ Sign(c) \/ SignFails(c) \/ SendAccepted(c) \/ SendRejected(c) \/ SendLost(c)
    \/ PollGone(c) \/ PollAnswered(c) \/ SearchFound(c) \/ SearchMissed(c)
    \/ EventsRead(c) \/ PollFails(c) \/ Timeout(c) \/ Fee(c)
    \/ BackoffEnds(c) \/ AutoBackoffEnds(c)

\* Every call has returned: the service is at rest.
AllDone == (\A c \in Calls : pc[c] = "done") /\ UNCHANGED vars

Next ==
    \/ \E c \in Calls : Call(c) \/ Run(c)
    \/ \E t \in Tx : NodeActs(t) \/ Notify(t)
    \/ \E a \in Accounts : Elsewhere(a)
    \/ Clear
    \/ AllDone

Spec == Init /\ [][Next]_vars

\* What must go on: requests are answered or fail, timers fire, a keyring signs.
\* Nothing is assumed of the node's blocks, or of a caller starting a call.
FairSpec == Spec /\ \A c \in Calls : WF_vars(Run(c))

---------------------------------------------------------------------------
(* Properties.                                                             *)

OnChain(t) == chain[t] \in {"best", "final"}

\* A call that reports success has a finalized transaction: no poll, late event
\* or retry turns a dropped or merely included transaction into a success.
SuccessIsFinal ==
    \A c \in Calls : result[c] = "success" => chain[Current(c)] = "final"

\* However often submitTransaction times out, loses its connection and signs
\* again, at most one of the call's transactions is ever executed: the retry
\* reuses the nonce of the attempt before.
AtMostOnce ==
    \A c \in Calls : op[c] # "auto" =>
        \A i, j \in 1..TxBound : OnChain(<<c, i>>) /\ OnChain(<<c, j>>) => i = j

\* The same for retryTransaction, also when other calls of the account run at
\* the same time and the cache is cleared: options.nonce is set once.
RetryAtMostOnce ==
    \A c \in Calls : op[c] = "retry" =>
        \A i, j \in 1..TxBound : OnChain(<<c, i>>) /\ OnChain(<<c, j>>) => i = j

\* The call's nonce comes from getNonce: its caller passed none, or a retry has
\* replaced it.
Managed(c) ==
    /\ op[c] # "signed"
    /\ fixed[c] = None \/ op[c] = "retry" \/ auto[c] > 0

\* After a success with a nonce of getNonce the cache never hands out that nonce,
\* or one below it, again, whatever nonces other callers pass.  Of a nonce the
\* caller passed this cannot be said: incrementNonce moves the cache by one.
CachePastSuccess ==
    \A c \in Calls :
        /\ pc[c] \in {"fee", "done"}
        /\ result[c] = "success"
        /\ Managed(c)
        /\ Cached(c) # None
        => txNonce[Current(c)] < Cached(c)

\* A call that returned a result left no entry in the map, and no late event
\* puts one back.
ResultClearsEntry ==
    \A c \in Calls :
        pc[c] = "done" /\ result[c] \in {"success", "unconfirmed"}
            => pending[Current(c)] = "absent"

\* KILTTransactionService.ts:735 says autoRetryTransaction "automatically retries
\* failed transactions".  It also retries one that is in a block, with a new nonce.
AutoRetriesFailed ==
    [][\A c \in Calls : pc[c] = "autoBackoff" /\ pc'[c] = "renew" /\ sent[c] > 0
                          => ~OnChain(Current(c))]_vars

\* Every call returns: backoffs are bounded and a wait always ends, so in the end
\* none of the calls, each of which is made once, is under way.
Returns == <>[](\A c \in Calls : ~Active(c))

---------------------------------------------------------------------------
(* What the service promises, and how its state says it.                   *)

\* What a call has told its caller.
Answer(c) == CASE pc[c] = "idle" -> "idle"
               [] pc[c] = "done" -> result[c]
               [] OTHER -> "open"

\* One transaction, retries with the nonce of the first, or new ones.
KindOf(c) == CASE op[c] = "signed" -> "once"
               [] op[c] = "auto" -> "many"
               [] OTHER -> "retried"

KindLimit == [once |-> 1, retried |-> MaxRetries + 1,
              many |-> (MaxRetries + 1) * (MaxRetries + 1)]

\* No call signs more transactions than its retries allow.
SignsWithinLimit == \A c \in Calls : sent[c] <= KindLimit[KindOf(c)]

Promise == INSTANCE Submissions WITH
    Limit <- KindLimit,
    state <- [c \in Calls |-> Answer(c)],
    kind <- [c \in Calls |-> KindOf(c)],
    signed <- sent,
    included <- {t \in Tx : chain[t] = "best"},
    final <- {t \in Tx : chain[t] = "final"}

\* With serial callers and the managed cache the service keeps that promise:
\* timeouts, lost connections, late events, retries and the blocks' own comings
\* and goings are steps of Submissions or change nothing it shows.
ImplementsSubmissions == Promise!SubmissionSpec

---------------------------------------------------------------------------
(* Inductive invariants: what the proofs of KiltTxProofs need.             *)

\* What holds of a call at its program counter.
CallInv(c) ==
    /\ pc[c] = "backoff" => attempt[c] < MaxRetries
    /\ pc[c] = "autoBackoff" => auto[c] < MaxRetries
    /\ pc[c] \in {"gasFetch", "sign", "send"} => nonce[c] \in Nat
    /\ pc[c] \in {"send", "wait", "fee"} => sent[c] > 0
    /\ pc[c] = "send" => chain[Current(c)] = "none" /\ txNonce[Current(c)] = nonce[c]
    /\ pc[c] = "idle" => sent[c] = 0
    /\ result[c] = "success" => pc[c] \in {"fee", "done"} /\ sent[c] > 0

\* What holds of a transaction.
TxInv(t) ==
    /\ chain[t] # "none" => txNonce[t] \in Nat
    /\ t[2] > sent[t[1]] => chain[t] = "none" /\ pending[t] = "absent"
    /\ pending[t] = "confirmed" => chain[t] = "final"

\* Every transaction has its place, and 'confirmed' and success mean finalized.
ConfirmedInv ==
    /\ \A c \in Calls : CallInv(c)
    /\ \A t \in Tx : TxInv(t)
    /\ SuccessIsFinal

\* The inductive invariant under which a success is final: the types, and what
\* every place of a call says of its transactions and their entries.
Core == TypeOK /\ ConfirmedInv

\* The node executes a nonce of an account once.
NonceInv ==
    /\ \A t \in Tx : OnChain(t) => txNonce[t] < index[Owner(t)]
    /\ \A t, u \in Tx :
          /\ Owner(t) = Owner(u)
          /\ txNonce[t] = txNonce[u]
          /\ OnChain(t) \/ chain[t] = "pool"
          /\ OnChain(u) \/ chain[u] = "pool"
          => t = u

\* The call may still sign another transaction.
Retrying(c) == pc[c] \in {"attempt", "fetch", "gasFetch", "sign", "send", "wait", "backoff"}

\* Every attempt of a retryTransaction uses the one options.nonce it fetched.
FixedCall(c) ==
    op[c] = "retry" =>
        /\ pc[c] \notin {"fetch", "autoBackoff"}
        /\ pc[c] \in {"renew", "refetch"} => sent[c] = 0
        /\ Retrying(c) => fixed[c] \in Nat
        /\ pc[c] \in {"gasFetch", "sign", "send"} => nonce[c] = fixed[c]
        /\ \A i \in 1..sent[c] : txNonce[<<c, i>>] = fixed[c]

FixedInv == \A c \in Calls : FixedCall(c)

\* The nonce of an attempt: the caller's, or the one in the cache.
Source(c) == IF fixed[c] = None THEN Cached(c) ELSE fixed[c]

\* Every attempt of a submitTransaction uses the nonce its caller passed, or the
\* one in the cache, which moves only when the call is over.
CachedCall(c) ==
    op[c] \in {"submit", "noWait"} =>
        /\ pc[c] \notin {"renew", "refetch", "autoBackoff"}
        /\ pc[c] = "gasFetch" => fixed[c] # None
        /\ pc[c] = "fetch" => sent[c] = 0 /\ fixed[c] = None
        /\ pc[c] \in {"gasFetch", "sign", "send"} => nonce[c] = Source(c)
        /\ Retrying(c) /\ sent[c] > 0 => Source(c) # None
        /\ Retrying(c) => \A i \in 1..sent[c] : txNonce[<<c, i>>] = Source(c)
        /\ \A i, j \in 1..sent[c] : txNonce[<<c, i>>] = txNonce[<<c, j>>]

\* submitSignedTransaction has one transaction.
SignedCall(c) ==
    op[c] = "signed" =>
        /\ sent[c] <= 1
        /\ pc[c] \in {"idle", "sign", "send", "wait", "fee", "done"}
        /\ pc[c] \in {"idle", "sign"} => sent[c] = 0

\* With serial callers and a managed cache that nobody clears.
CacheInv ==
    /\ \A c, d \in Calls : Signer[c] = Signer[d] /\ Active(c) /\ Active(d) => c = d
    /\ \A c \in Calls : pc[c] = "idle" => fixed[c] = None
    /\ \A c \in Calls : CachedCall(c) /\ SignedCall(c)

\* A call has a result only at its end, and its entry is gone once it returned.
ClearedCall(c) ==
    /\ result[c] # "none" => pc[c] \in {"fee", "done"}
    /\ pc[c] = "done" /\ result[c] \in {"success", "unconfirmed"}
           => sent[c] > 0 /\ pending[Current(c)] = "absent"

ClearedInv == \A c \in Calls : ClearedCall(c)

\* Serial calls ask the node for a nonce only while the cache has none.
FetchingCall(c) ==
    op[c] # "signed" =>
        /\ pc[c] = "fetch" => fixed[c] = None
        /\ pc[c] \in {"fetch", "refetch", "gasFetch"} => Cached(c) = None

\* Every call whose nonce comes from getNonce signs with the one in the cache,
\* which is there from the first attempt on and is never asked for again.
PastCall(c) ==
    Managed(c) =>
        /\ pc[c] # "gasFetch"
        /\ Retrying(c) /\ fixed[c] # None => fixed[c] = Cached(c)
        /\ pc[c] \in {"sign", "send"} => nonce[c] = Cached(c)
        /\ pc[c] = "wait" => Cached(c) # None /\ txNonce[Current(c)] = Cached(c)
        /\ pc[c] \in {"fee", "done"} /\ result[c] = "success"
               => Cached(c) # None /\ txNonce[Current(c)] < Cached(c)

PastInv == \A c \in Calls : FetchingCall(c) /\ PastCall(c)

\* The attempt has signed its transaction, or never will.
PastSigning(c) == pc[c] \in {"send", "wait", "fee", "backoff", "autoBackoff", "done"}

\* The transactions a call may have signed by now: one for every attempt before
\* this one, and this one's.
SignedSoFar(c) ==
    auto[c] * (MaxRetries + 1) + attempt[c] + IF PastSigning(c) THEN 1 ELSE 0

\* However an attempt ends, the next one is counted: no call signs more often
\* than its retries allow.
SignsCounted(c) ==
    /\ pc[c] = "idle" \/ op[c] # "auto" => auto[c] = 0
    /\ pc[c] = "autoBackoff" => op[c] = "auto"
    /\ op[c] # "signed" => sent[c] <= SignedSoFar(c)

SignsInv == \A c \in Calls : SignsCounted(c) /\ SignedCall(c)

\* A call that works out its fee already has its result.
FeeInv == \A c \in Calls : pc[c] = "fee" => result[c] \in {"success", "unconfirmed"}
=============================================================================
