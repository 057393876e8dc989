---------------------------- MODULE KiltTxProofs ----------------------------
(***************************************************************************)
(* Proofs about KiltTx, for every value of its constants: its types, that  *)
(* success means finalized (ConfirmedInv), and that the attempts of a call *)
(* execute at most once (NonceInv with FixedInv or CacheInv).               *)
(***************************************************************************)
EXTENDS KiltTx, TLAPS

LEMMA CurrentTx ==
    ASSUME TypeOK, NEW c \in Calls, sent[c] > 0
    PROVE  /\ Current(c) \in Tx
           /\ Owner(Current(c)) = Signer[c]
           /\ Current(c)[1] = c /\ Current(c)[2] = sent[c]
  BY DEF TypeOK, Current, Tx, Owner

LEMMA TxParts ==
    ASSUME NEW t \in Tx
    PROVE  /\ t[1] \in Calls /\ t[2] \in 1..TxBound
           /\ t = <<t[1], t[2]>>
           /\ Owner(t) \in Accounts
  BY NodeAssumption DEF Tx, Owner

---------------------------------------------------------------------------
(* Where an exception, or the end of the wait, takes a call.               *)

LEMMA ThrowToCallerEffect ==
    ASSUME TypeOK, NEW c \in Calls, NEW r \in BOOLEAN, ThrowToCaller(c, r)
    PROVE  /\ pc' \in [Calls -> Points]
           /\ result' \in [Calls -> {"none", "success", "unconfirmed", "error"}]
           /\ \A d \in Calls \ {c} : pc'[d] = pc[d] /\ result'[d] = result[d]
           /\ pc'[c] \in {"autoBackoff", "done"}
           /\ pc'[c] = "autoBackoff" => op[c] = "auto" /\ auto[c] < MaxRetries
           /\ result'[c] = result[c] \/ result'[c] = "error"
  BY DEF ThrowToCaller, Goto, TypeOK, Points

LEMMA ThrowEffect ==
    ASSUME TypeOK, NEW c \in Calls, NEW r \in BOOLEAN, Throw(c, r)
    PROVE  /\ pc' \in [Calls -> Points]
           /\ result' \in [Calls -> {"none", "success", "unconfirmed", "error"}]
           /\ \A d \in Calls \ {c} : pc'[d] = pc[d] /\ result'[d] = result[d]
           /\ pc'[c] \in {"backoff", "autoBackoff", "done"}
           /\ pc'[c] = "backoff" => op[c] # "signed" /\ attempt[c] < MaxRetries
           /\ pc'[c] = "autoBackoff" => op[c] = "auto" /\ auto[c] < MaxRetries
           /\ result'[c] = result[c] \/ result'[c] = "error"
<1>1. CASE op[c] # "signed" /\ r /\ attempt[c] < MaxRetries
  BY <1>1 DEF Throw, Goto, TypeOK, Points
<1>2. CASE ~(op[c] # "signed" /\ r /\ attempt[c] < MaxRetries)
  BY <1>2, ThrowToCallerEffect DEF Throw
<1> QED BY <1>1, <1>2

LEMMA ResolveEffect ==
    ASSUME TypeOK, NEW c \in Calls, NEW st \in Statuses, Resolve(c, st)
    PROVE  /\ nonceCache' \in [Accounts -> Nat \cup {None}]
           /\ \A a \in Accounts \ {Signer[c]} : nonceCache'[a] = nonceCache[a]
           /\ pc' \in [Calls -> Points]
           /\ result' \in [Calls -> {"none", "success", "unconfirmed", "error"}]
           /\ \A d \in Calls \ {c} : pc'[d] = pc[d] /\ result'[d] = result[d]
           /\ pc'[c] \in {"fee", "autoBackoff", "done"}
           /\ pc'[c] = "autoBackoff" => op[c] = "auto" /\ auto[c] < MaxRetries
           /\ (result'[c] = "success" /\ result[c] # "success") => (st = "confirmed" /\ pc'[c] = "fee")
<1>1. /\ nonceCache' \in [Accounts -> Nat \cup {None}]
      /\ \A a \in Accounts \ {Signer[c]} : nonceCache'[a] = nonceCache[a]
  BY NodeAssumption DEF Resolve, TypeOK, Cached
<1>2. CASE st = "absent"
  <2>1. ThrowToCaller(c, FALSE)
    BY <1>2 DEF Resolve
  <2>2. /\ pc' \in [Calls -> Points]
        /\ result' \in [Calls -> {"none", "success", "unconfirmed", "error"}]
        /\ \A d \in Calls \ {c} : pc'[d] = pc[d] /\ result'[d] = result[d]
        /\ pc'[c] \in {"autoBackoff", "done"}
        /\ pc'[c] = "autoBackoff" => op[c] = "auto" /\ auto[c] < MaxRetries
        /\ result'[c] = result[c] \/ result'[c] = "error"
    BY <2>1, ThrowToCallerEffect
  <2>3. result'[c] = "success" => result[c] = "success"
    BY <2>2
  <2> QED BY <1>1, <2>2, <2>3
<1>3. CASE st # "absent"
  BY <1>1, <1>3 DEF Resolve, Goto, TypeOK, Points
<1> QED BY <1>2, <1>3

---------------------------------------------------------------------------
(* What a step of one call must do to preserve Core.                       *)

LEMMA NextIndexNat ==
    ASSUME Core, NEW a \in Accounts
    PROVE  NextIndex(a) \subseteq Nat
  BY DEF Core, TypeOK, NodeTypeOK, ConfirmedInv, TxInv, NextIndex

OnlyCall(c) ==
    \A d \in Calls \ {c} :
        /\ pc'[d] = pc[d] /\ result'[d] = result[d] /\ nonce'[d] = nonce[d]
        /\ attempt'[d] = attempt[d] /\ auto'[d] = auto[d]

LEMMA CallStep ==
    ASSUME Core, TypeOK', NEW c \in Calls, OnlyCall(c),
           UNCHANGED <<chain, txNonce, sent>>,
           \A u \in Tx : /\ pending[u] = "absent" => pending'[u] = "absent"
                         /\ pending'[u] = "confirmed" => chain[u] = "final",
           CallInv(c)',
           result'[c] = "success" => chain[Current(c)] = "final"
    PROVE  Core'
<1>1. ASSUME NEW d \in Calls PROVE CallInv(d)'
  BY DEF Core, ConfirmedInv, CallInv, OnlyCall, Current
<1>2. ASSUME NEW u \in Tx PROVE TxInv(u)'
  BY DEF Core, ConfirmedInv, TxInv
<1>3. SuccessIsFinal'
  BY DEF Core, ConfirmedInv, SuccessIsFinal, OnlyCall, Current
<1> QED BY <1>1, <1>2, <1>3 DEF Core, ConfirmedInv

---------------------------------------------------------------------------
(* The steps that only move a call.                                        *)

LEMMA BackoffEndsCore ==
    ASSUME Core, NEW c \in Calls, BackoffEnds(c)
    PROVE  Core'
<1>1. TypeOK'
  BY NodeAssumption, TxAssumption
     DEF Core, TypeOK, NodeTypeOK, ConfirmedInv, CallInv, BackoffEnds, Goto, Points, nodeVars,
         svcVars
<1>2. /\ OnlyCall(c)
      /\ UNCHANGED <<chain, txNonce, sent, pending>>
  BY DEF OnlyCall, BackoffEnds, Goto, Core, TypeOK, nodeVars, svcVars
<1>3. /\ CallInv(c)'
      /\ result'[c] = "success" => result[c] = "success"
  BY <1>1 DEF Core, TypeOK, ConfirmedInv, CallInv, Current, BackoffEnds, Goto, nodeVars, svcVars
<1> QED
  BY <1>1, <1>2, <1>3, CallStep DEF Core, ConfirmedInv, SuccessIsFinal, TxInv

LEMMA AutoBackoffEndsCore ==
    ASSUME Core, NEW c \in Calls, AutoBackoffEnds(c)
    PROVE  Core'
<1>1. TypeOK'
  BY NodeAssumption, TxAssumption
     DEF Core, TypeOK, NodeTypeOK, ConfirmedInv, CallInv, AutoBackoffEnds, Goto, Points,
         nodeVars, svcVars
<1>2. /\ OnlyCall(c)
      /\ UNCHANGED <<chain, txNonce, sent, pending>>
  BY DEF OnlyCall, AutoBackoffEnds, Goto, Core, TypeOK, nodeVars, svcVars
<1>3. /\ CallInv(c)'
      /\ result'[c] = "success" => result[c] = "success"
  BY <1>1 DEF Core, TypeOK, ConfirmedInv, CallInv, Current, AutoBackoffEnds, Goto, nodeVars, svcVars
<1> QED
  BY <1>1, <1>2, <1>3, CallStep DEF Core, ConfirmedInv, SuccessIsFinal, TxInv

LEMMA StartCore ==
    ASSUME Core, NEW c \in Calls, Start(c)
    PROVE  Core'
<1>1. TypeOK'
  BY NodeAssumption, TxAssumption
     DEF Core, TypeOK, NodeTypeOK, ConfirmedInv, CallInv, Start, Goto, Points, nodeVars,
         svcVars, MayStart, Active
<1>2. /\ OnlyCall(c)
      /\ UNCHANGED <<chain, txNonce, sent, pending>>
  BY DEF OnlyCall, Start, Goto, Core, TypeOK, nodeVars, svcVars
<1>3. /\ CallInv(c)'
      /\ result'[c] = "success" => result[c] = "success"
  BY <1>1 DEF Core, TypeOK, ConfirmedInv, CallInv, Current, Start, Goto, nodeVars, svcVars,
     MayStart, Active
<1> QED
  BY <1>1, <1>2, <1>3, CallStep DEF Core, ConfirmedInv, SuccessIsFinal, TxInv

LEMMA StartSignedCore ==
    ASSUME Core, NEW c \in Calls, StartSigned(c)
    PROVE  Core'
<1>0. NextIndex(Signer[c]) \subseteq Nat
  BY NextIndexNat, NodeAssumption
<1>1. TypeOK'
  BY <1>0, NodeAssumption, TxAssumption
     DEF Core, TypeOK, NodeTypeOK, ConfirmedInv, CallInv, StartSigned, Goto, Points, nodeVars,
         svcVars, MayStart, Active
<1>2. /\ OnlyCall(c)
      /\ UNCHANGED <<chain, txNonce, sent, pending>>
  BY DEF OnlyCall, StartSigned, Goto, Core, TypeOK, nodeVars, svcVars
<1>3. /\ CallInv(c)'
      /\ result'[c] = "success" => result[c] = "success"
  <2>1. pc'[c] = "sign" /\ nonce'[c] \in Nat /\ result'[c] = result[c] /\ pc[c] = "idle"
    BY <1>0 DEF Core, TypeOK, StartSigned, Goto, MayStart
  <2> QED
    BY <2>1 DEF Core, ConfirmedInv, CallInv
<1> QED
  BY <1>1, <1>2, <1>3, CallStep DEF Core, ConfirmedInv, SuccessIsFinal, TxInv

LEMMA UseFixedCore ==
    ASSUME Core, NEW c \in Calls, UseFixed(c)
    PROVE  Core'
<1>1. TypeOK'
  BY NodeAssumption, TxAssumption
     DEF Core, TypeOK, NodeTypeOK, ConfirmedInv, CallInv, UseFixed, Goto, Points, nodeVars,
         svcVars
<1>2. /\ OnlyCall(c)
      /\ UNCHANGED <<chain, txNonce, sent, pending>>
  BY DEF OnlyCall, UseFixed, Goto, Core, TypeOK, nodeVars, svcVars
<1>3. /\ CallInv(c)'
      /\ result'[c] = "success" => result[c] = "success"
  BY <1>1 DEF Core, TypeOK, ConfirmedInv, CallInv, Current, UseFixed, Goto, nodeVars, svcVars
<1> QED
  BY <1>1, <1>2, <1>3, CallStep DEF Core, ConfirmedInv, SuccessIsFinal, TxInv

LEMMA UseCachedCore ==
    ASSUME Core, NEW c \in Calls, UseCached(c)
    PROVE  Core'
<1>1. TypeOK'
  BY NodeAssumption, TxAssumption
     DEF Core, TypeOK, NodeTypeOK, ConfirmedInv, CallInv, UseCached, Goto, Points, nodeVars,
         svcVars, Known, Cached
<1>2. /\ OnlyCall(c)
      /\ UNCHANGED <<chain, txNonce, sent, pending>>
  BY DEF OnlyCall, UseCached, Goto, Core, TypeOK, nodeVars, svcVars
<1>3. /\ CallInv(c)'
      /\ result'[c] = "success" => result[c] = "success"
  BY <1>1 DEF Core, TypeOK, ConfirmedInv, CallInv, Current, UseCached, Goto, nodeVars, svcVars,
     Known, Cached
<1> QED
  BY <1>1, <1>2, <1>3, CallStep DEF Core, ConfirmedInv, SuccessIsFinal, TxInv

LEMMA AskNonceCore ==
    ASSUME Core, NEW c \in Calls, AskNonce(c)
    PROVE  Core'
<1>1. TypeOK'
  BY NodeAssumption, TxAssumption
     DEF Core, TypeOK, NodeTypeOK, ConfirmedInv, CallInv, AskNonce, Goto, Points, nodeVars,
         svcVars
<1>2. /\ OnlyCall(c)
      /\ UNCHANGED <<chain, txNonce, sent, pending>>
  BY DEF OnlyCall, AskNonce, Goto, Core, TypeOK, nodeVars, svcVars
<1>3. /\ CallInv(c)'
      /\ result'[c] = "success" => result[c] = "success"
  BY <1>1 DEF Core, TypeOK, ConfirmedInv, CallInv, Current, AskNonce, Goto, nodeVars, svcVars
<1> QED
  BY <1>1, <1>2, <1>3, CallStep DEF Core, ConfirmedInv, SuccessIsFinal, TxInv

LEMMA NodeAnswersCore ==
    ASSUME Core, NEW c \in Calls, NodeAnswers(c)
    PROVE  Core'
<1>0. NextIndex(Signer[c]) \subseteq Nat
  BY NextIndexNat, NodeAssumption
<1>1. TypeOK'
  BY <1>0, NodeAssumption, TxAssumption
     DEF Core, TypeOK, NodeTypeOK, ConfirmedInv, CallInv, NodeAnswers, Goto, Points, nodeVars,
         svcVars
<1>2. /\ OnlyCall(c)
      /\ UNCHANGED <<chain, txNonce, sent, pending>>
  BY DEF OnlyCall, NodeAnswers, Goto, Core, TypeOK, nodeVars, svcVars
<1>3. /\ CallInv(c)'
      /\ result'[c] = "success" => result[c] = "success"
  BY <1>0, <1>1 DEF Core, TypeOK, ConfirmedInv, CallInv, Current, NodeAnswers, Goto, nodeVars,
     svcVars
<1> QED
  BY <1>1, <1>2, <1>3, CallStep DEF Core, ConfirmedInv, SuccessIsFinal, TxInv

LEMMA FetchedCore ==
    ASSUME Core, NEW c \in Calls, Fetched(c)
    PROVE  Core'
<1>1. TypeOK'
  BY NodeAssumption, TxAssumption
     DEF Core, TypeOK, NodeTypeOK, ConfirmedInv, CallInv, Fetched, Goto, Points, nodeVars, svcVars
<1>2. /\ OnlyCall(c)
      /\ UNCHANGED <<chain, txNonce, sent, pending>>
  BY DEF OnlyCall, Fetched, Goto, Core, TypeOK, nodeVars, svcVars
<1>3. /\ CallInv(c)'
      /\ result'[c] = "success" => result[c] = "success"
  BY <1>1 DEF Core, TypeOK, ConfirmedInv, CallInv, Current, Fetched, Goto, nodeVars, svcVars
<1> QED
  BY <1>1, <1>2, <1>3, CallStep DEF Core, ConfirmedInv, SuccessIsFinal, TxInv

LEMMA PollGoneCore ==
    ASSUME Core, NEW c \in Calls, PollGone(c)
    PROVE  Core'
<1>1. TypeOK'
  BY NodeAssumption, TxAssumption
     DEF Core, TypeOK, NodeTypeOK, ConfirmedInv, CallInv, PollGone, Goto, Points, nodeVars,
         svcVars
<1>2. /\ OnlyCall(c)
      /\ UNCHANGED <<chain, txNonce, sent, pending>>
  BY DEF OnlyCall, PollGone, Goto, Core, TypeOK, nodeVars, svcVars
<1>3. /\ CallInv(c)'
      /\ result'[c] = "success" => result[c] = "success"
  BY <1>1 DEF Core, TypeOK, ConfirmedInv, CallInv, Current, PollGone, Goto, nodeVars, svcVars
<1> QED
  BY <1>1, <1>2, <1>3, CallStep DEF Core, ConfirmedInv, SuccessIsFinal, TxInv

---------------------------------------------------------------------------
(* The steps that throw.                                                   *)

LEMMA StartRetryCore ==
    ASSUME Core, NEW c \in Calls, NEW t \in Tx, StartRetry(c, t)
    PROVE  Core'
<1>1. CASE pending[t] # "absent" /\ retries[t] < MaxRetries
  <2>1. TypeOK'
    BY <1>1, TxAssumption DEF Core, TypeOK, NodeTypeOK, StartRetry, Goto, Points, nodeVars
  <2>2. OnlyCall(c) /\ UNCHANGED <<chain, txNonce, sent, pending>>
    BY <1>1 DEF OnlyCall, StartRetry, Goto, Core, TypeOK, nodeVars
  <2>3. CallInv(c)' /\ result'[c] = result[c]
    BY <1>1 DEF Core, TypeOK, ConfirmedInv, CallInv, StartRetry, MayStart, Goto
  <2> QED
    BY <2>1, <2>2, <2>3, CallStep DEF Core, ConfirmedInv, SuccessIsFinal, TxInv
<1>2. CASE ~(pending[t] # "absent" /\ retries[t] < MaxRetries)
  <2>1. /\ ThrowToCaller(c, FALSE)
        /\ pc[c] = "idle"
        /\ op' = [op EXCEPT ![c] = "retry"]
        /\ UNCHANGED <<nodeVars, svcVars, nonce, fixed, answer, sent, attempt, auto, poll>>
    BY <1>2 DEF StartRetry, MayStart, svcVars
  <2>2. /\ pc' \in [Calls -> Points]
        /\ result' \in [Calls -> {"none", "success", "unconfirmed", "error"}]
        /\ \A d \in Calls \ {c} : pc'[d] = pc[d] /\ result'[d] = result[d]
        /\ pc'[c] = "done" /\ result'[c] = "error"
    BY <2>1 DEF ThrowToCaller, Goto, Core, TypeOK, Points
  <2>3. TypeOK'
    BY <2>1, <2>2 DEF Core, TypeOK, NodeTypeOK, nodeVars, svcVars
  <2>4. OnlyCall(c) /\ UNCHANGED <<chain, txNonce, sent, pending>> /\ CallInv(c)'
    BY <2>1, <2>2 DEF OnlyCall, CallInv, nodeVars, svcVars
  <2> QED
    BY <2>2, <2>3, <2>4, CallStep DEF Core, ConfirmedInv, TxInv
<1> QED BY <1>1, <1>2

\* An exception thrown before the call has a result.
LEMMA ThrowCore ==
    ASSUME Core, TypeOK', NEW c \in Calls, NEW r \in BOOLEAN,
           Throw(c, r) \/ ThrowToCaller(c, r), pc[c] \notin {"fee", "done"},
           UNCHANGED <<chain, txNonce, sent, nonce, attempt, auto>>,
           \A u \in Tx : /\ pending[u] = "absent" => pending'[u] = "absent"
                         /\ pending'[u] = "confirmed" => chain[u] = "final"
    PROVE  Core'
<1>1. /\ pc' \in [Calls -> Points]
      /\ \A d \in Calls \ {c} : pc'[d] = pc[d] /\ result'[d] = result[d]
      /\ pc'[c] \in {"backoff", "autoBackoff", "done"}
      /\ pc'[c] = "backoff" => attempt[c] < MaxRetries
      /\ pc'[c] = "autoBackoff" => auto[c] < MaxRetries
      /\ result'[c] = result[c] \/ result'[c] = "error"
  BY ThrowEffect, ThrowToCallerEffect DEF Core
<1>2. result'[c] # "success"
  BY <1>1 DEF Core, ConfirmedInv, CallInv
<1>3. OnlyCall(c) /\ CallInv(c)'
  BY <1>1, <1>2 DEF OnlyCall, CallInv
<1> QED
  BY <1>2, <1>3, CallStep

LEMMA FetchFailsCore ==
    ASSUME Core, NEW c \in Calls, FetchFails(c)
    PROVE  Core'
<1>1. /\ UNCHANGED <<nodeVars, svcVars, op, nonce, fixed, sent, attempt, auto, poll>>
      /\ answer' = [answer EXCEPT ![c] = None]
  BY DEF FetchFails
<1>2. CASE pc[c] \in {"fetch", "refetch"}
  <2>1. PICK r \in BOOLEAN : Throw(c, r) \/ ThrowToCaller(c, r)
    BY <1>2 DEF FetchFails
  <2>2. /\ pc' \in [Calls -> Points]
        /\ result' \in [Calls -> {"none", "success", "unconfirmed", "error"}]
    BY <2>1, ThrowEffect, ThrowToCallerEffect DEF Core
  <2>3. TypeOK'
    BY <1>1, <2>2 DEF Core, TypeOK, NodeTypeOK, nodeVars, svcVars
  <2> QED
    BY <1>1, <1>2, <2>1, <2>3, ThrowCore DEF Core, ConfirmedInv, TxInv, nodeVars, svcVars
<1>3. CASE pc[c] = "gasFetch" /\ Goto(c, "sign") /\ UNCHANGED result
  <2>1. TypeOK'
    BY <1>1, <1>3 DEF Core, TypeOK, NodeTypeOK, Goto, Points, nodeVars, svcVars
  <2>2. OnlyCall(c) /\ CallInv(c)'
    BY <1>1, <1>3 DEF OnlyCall, CallInv, Core, ConfirmedInv, TypeOK, Goto
  <2> QED
    BY <1>1, <1>3, <2>1, <2>2, CallStep
       DEF Core, ConfirmedInv, TxInv, SuccessIsFinal, nodeVars, svcVars
<1> QED BY <1>2, <1>3 DEF FetchFails

LEMMA SignFailsCore ==
    ASSUME Core, NEW c \in Calls, SignFails(c)
    PROVE  Core'
<1>1. PICK r \in BOOLEAN : Throw(c, r)
  BY DEF SignFails
<1>2. TypeOK'
  BY <1>1, ThrowEffect DEF Core, TypeOK, NodeTypeOK, SignFails, nodeVars, svcVars
<1> QED
  BY <1>1, <1>2, ThrowCore DEF SignFails, Core, ConfirmedInv, TxInv, nodeVars, svcVars

LEMMA SendRejectedCore ==
    ASSUME Core, NEW c \in Calls, SendRejected(c)
    PROVE  Core'
<1>1. Throw(c, FALSE) /\ FALSE \in BOOLEAN
  BY DEF SendRejected
<1>2. TypeOK'
  BY <1>1, ThrowEffect DEF Core, TypeOK, NodeTypeOK, SendRejected, nodeVars, svcVars
<1> QED
  BY <1>1, <1>2, ThrowCore DEF SendRejected, Core, ConfirmedInv, TxInv, nodeVars, svcVars

LEMMA PollFailsCore ==
    ASSUME Core, NEW c \in Calls, PollFails(c)
    PROVE  Core'
<1>1. PICK r \in BOOLEAN : Throw(c, r)
  BY DEF PollFails
<1>2. Current(c) \in Tx
  BY CurrentTx DEF Core, ConfirmedInv, CallInv, PollFails
<1>3. pending' \in [Tx -> Statuses]
  BY <1>2 DEF PollFails, SetEntry, Core, TypeOK, Statuses
<1>4. TypeOK'
  BY <1>1, <1>3, ThrowEffect DEF Core, TypeOK, NodeTypeOK, PollFails, nodeVars
<1>5. \A u \in Tx : /\ pending[u] = "absent" => pending'[u] = "absent"
                    /\ pending'[u] = "confirmed" => chain[u] = "final"
  BY <1>2 DEF PollFails, SetEntry, Core, TypeOK, ConfirmedInv, TxInv
<1> QED
  BY <1>1, <1>4, <1>5, ThrowCore DEF PollFails, nodeVars

LEMMA TimeoutCore ==
    ASSUME Core, NEW c \in Calls, Timeout(c)
    PROVE  Core'
<1>1. Throw(c, TRUE) /\ TRUE \in BOOLEAN
  BY DEF Timeout
<1>2. Current(c) \in Tx
  BY CurrentTx DEF Core, ConfirmedInv, CallInv, Timeout
<1>3. pending' \in [Tx -> Statuses] /\ poll' \in [Calls -> {"none", "gone", "search", "events"}]
  BY <1>2 DEF Timeout, Core, TypeOK, Statuses
<1>4. TypeOK'
  BY <1>1, <1>3, ThrowEffect DEF Core, TypeOK, NodeTypeOK, Timeout, nodeVars
<1>5. \A u \in Tx : /\ pending[u] = "absent" => pending'[u] = "absent"
                    /\ pending'[u] = "confirmed" => chain[u] = "final"
  BY <1>2 DEF Timeout, Core, TypeOK, ConfirmedInv, TxInv
<1> QED
  BY <1>1, <1>4, <1>5, ThrowCore DEF Timeout, nodeVars

LEMMA SignCore ==
    ASSUME Core, NEW c \in Calls, Sign(c)
    PROVE  Core'
<1> DEFINE t == <<c, sent[c] + 1>>
<1>a. t \in Tx /\ t[1] = c /\ t[2] = sent[c] + 1 /\ Owner(t) = Signer[c]
  BY NodeAssumption DEF Core, TypeOK, Sign, Tx, Owner
<1> HIDE DEF t
<1>b. /\ txNonce' = [txNonce EXCEPT ![t] = nonce[c]]
      /\ pending' = [pending EXCEPT ![t] = "pending"]
      /\ sent' = [sent EXCEPT ![c] = @ + 1]
      /\ pc' = [pc EXCEPT ![c] = "send"]
      /\ Current(c)' = t
  BY DEF t, Sign, Goto, Core, TypeOK, Current
<1>1. TypeOK'
  <2>1. nonce[c] \in Nat
    BY DEF Core, ConfirmedInv, CallInv, Sign
  <2>2. NodeTypeOK'
    BY <1>a, <1>b, <2>1 DEF Core, TypeOK, NodeTypeOK, Sign
  <2>3. pending' \in [Tx -> Statuses] /\ pc' \in [Calls -> Points]
    BY <1>a, <1>b DEF Core, TypeOK, Points, Statuses
  <2>4. sent' \in [Calls -> 0..TxBound]
    BY <1>b, NodeAssumption DEF Core, TypeOK, Sign
  <2> QED
    BY <2>2, <2>3, <2>4 DEF Core, TypeOK, Sign
<1>2. ASSUME NEW d \in Calls PROVE CallInv(d)'
  <2>1. CASE d = c
    BY <1>a, <1>b, <2>1 DEF Core, TypeOK, ConfirmedInv, CallInv, Sign, NodeTypeOK, TxInv
  <2>2. CASE d # c
    BY <1>a, <1>b, <2>2, CurrentTx
       DEF Core, TypeOK, ConfirmedInv, CallInv, Sign, NodeTypeOK, Current
  <2> QED BY <2>1, <2>2
<1>3. ASSUME NEW u \in Tx PROVE TxInv(u)'
  BY <1>a, <1>b, TxParts DEF Core, TypeOK, ConfirmedInv, TxInv, Sign, NodeTypeOK, CallInv
<1>4. ASSUME NEW d \in Calls, result'[d] = "success" PROVE chain'[Current(d)'] = "final"
  <2>1. d # c
    BY <1>4 DEF Core, ConfirmedInv, CallInv, Sign
  <2> QED
    BY <1>4, <1>b, <2>1 DEF Core, TypeOK, ConfirmedInv, Sign, SuccessIsFinal, Current
<1> QED BY <1>1, <1>2, <1>3, <1>4 DEF Core, ConfirmedInv, SuccessIsFinal
---------------------------------------------------------------------------
(* The wait and its end.                                                   *)

LEMMA ResolveCore ==
    ASSUME Core, TypeOK', NEW c \in Calls, NEW st \in Statuses, Resolve(c, st),
           pc[c] = "wait", st = "confirmed" => chain[Current(c)] = "final",
           UNCHANGED <<chain, txNonce, sent, nonce, attempt, auto>>,
           \A u \in Tx : /\ pending[u] = "absent" => pending'[u] = "absent"
                         /\ pending'[u] = "confirmed" => chain[u] = "final"
    PROVE  Core'
<1>1. /\ \A d \in Calls \ {c} : pc'[d] = pc[d] /\ result'[d] = result[d]
      /\ pc'[c] \in {"fee", "autoBackoff", "done"}
      /\ pc'[c] = "autoBackoff" => auto[c] < MaxRetries
      /\ (result'[c] = "success" /\ result[c] # "success") => (st = "confirmed" /\ pc'[c] = "fee")
  BY ResolveEffect DEF Core
<1>2. result[c] # "success" /\ sent[c] > 0
  BY DEF Core, ConfirmedInv, CallInv
<1>3. OnlyCall(c) /\ CallInv(c)'
  BY <1>1, <1>2 DEF OnlyCall, CallInv
<1>4. result'[c] = "success" => chain[Current(c)] = "final"
  BY <1>1, <1>2
<1> QED
  BY <1>3, <1>4, CallStep

LEMMA PollAnsweredCore ==
    ASSUME Core, NEW c \in Calls, PollAnswered(c)
    PROVE  Core'
<1>1. Current(c) \in Tx
  BY CurrentTx DEF Core, ConfirmedInv, CallInv, PollAnswered
<1>2. CASE pending[Current(c)] = "pending"
  <2>1. TypeOK'
    BY <1>2 DEF PollAnswered, Core, TypeOK, NodeTypeOK, nodeVars
  <2>2. OnlyCall(c) /\ CallInv(c)'
    BY <1>2 DEF PollAnswered, OnlyCall, CallInv, Core, ConfirmedInv, Current, nodeVars
  <2> QED
    BY <1>2, <2>1, <2>2, CallStep
    DEF PollAnswered, Core, ConfirmedInv, TxInv, SuccessIsFinal, nodeVars
<1>3. CASE pending[Current(c)] # "pending"
  <2>1. Resolve(c, pending[Current(c)]) /\ pending[Current(c)] \in Statuses
    BY <1>1, <1>3 DEF PollAnswered, Core, TypeOK
  <2>2. TypeOK'
    BY <1>3, <2>1, ResolveEffect DEF PollAnswered, Core, TypeOK, NodeTypeOK, nodeVars
  <2>3. /\ pending[Current(c)] = "confirmed" => chain[Current(c)] = "final"
        /\ \A u \in Tx : pending[u] = "confirmed" => chain[u] = "final"
    BY <1>1 DEF Core, ConfirmedInv, TxInv
  <2> QED
    BY <2>1, <2>2, <2>3, ResolveCore DEF PollAnswered, nodeVars
<1> QED BY <1>2, <1>3

LEMMA SearchFoundCore ==
    ASSUME Core, NEW c \in Calls, SearchFound(c)
    PROVE  Core'
<1>1. Current(c) \in Tx
  BY CurrentTx DEF Core, ConfirmedInv, CallInv, SearchFound
<1>2. TypeOK'
  BY <1>1 DEF SearchFound, SetEntry, Core, TypeOK, NodeTypeOK, Statuses, nodeVars
<1>3. \A u \in Tx : /\ pending[u] = "absent" => pending'[u] = "absent"
                    /\ pending'[u] = "confirmed" => chain[u] = "final"
  BY <1>1 DEF SearchFound, SetEntry, Core, TypeOK, ConfirmedInv, TxInv
<1>4. OnlyCall(c) /\ CallInv(c)'
  BY DEF SearchFound, OnlyCall, CallInv, Core, ConfirmedInv, Current, nodeVars
<1> QED
  BY <1>2, <1>3, <1>4, CallStep DEF SearchFound, nodeVars

LEMMA SearchMissedCore ==
    ASSUME Core, NEW c \in Calls, SearchMissed(c)
    PROVE  Core'
<1>1. Current(c) \in Tx
  BY CurrentTx DEF Core, ConfirmedInv, CallInv, SearchMissed
<1>2. /\ pending' \in [Tx -> Statuses]
      /\ pending'[Current(c)] \in {"absent", "failed"}
  BY <1>1 DEF SearchMissed, SetEntry, Core, TypeOK, Statuses
<1>3. \A u \in Tx : /\ pending[u] = "absent" => pending'[u] = "absent"
                    /\ pending'[u] = "confirmed" => chain[u] = "final"
  BY <1>1 DEF SearchMissed, SetEntry, Core, TypeOK, ConfirmedInv, TxInv
<1> DEFINE st == pending'[Current(c)]
<1>4. st \in Statuses /\ st # "confirmed" /\ Resolve(c, st)
  BY <1>2 DEF SearchMissed, Statuses
<1> HIDE DEF st
<1>5. TypeOK'
  BY <1>2, <1>4, ResolveEffect DEF SearchMissed, Core, TypeOK, NodeTypeOK, nodeVars
<1> QED
  BY <1>3, <1>4, <1>5, ResolveCore DEF SearchMissed, nodeVars

LEMMA EventsReadCore ==
    ASSUME Core, NEW c \in Calls, EventsRead(c)
    PROVE  Core'
<1>1. Current(c) \in Tx
  BY CurrentTx DEF Core, ConfirmedInv, CallInv, EventsRead
<1>2. Resolve(c, pending[Current(c)]) /\ pending[Current(c)] \in Statuses
  BY <1>1 DEF EventsRead, Core, TypeOK
<1>3. TypeOK'
  BY <1>2, ResolveEffect DEF EventsRead, Core, TypeOK, NodeTypeOK, nodeVars
<1>4. /\ pending[Current(c)] = "confirmed" => chain[Current(c)] = "final"
      /\ \A u \in Tx : pending[u] = "confirmed" => chain[u] = "final"
  BY <1>1 DEF Core, ConfirmedInv, TxInv
<1> QED
  BY <1>2, <1>3, <1>4, ResolveCore DEF EventsRead, nodeVars

LEMMA FeeCore ==
    ASSUME Core, NEW c \in Calls, Fee(c)
    PROVE  Core'
<1>1. Current(c) \in Tx
  BY CurrentTx DEF Core, ConfirmedInv, CallInv, Fee
<1>2. /\ pc' \in [Calls -> Points]
      /\ result' \in [Calls -> {"none", "success", "unconfirmed", "error"}]
      /\ \A d \in Calls \ {c} : pc'[d] = pc[d] /\ result'[d] = result[d]
      /\ pc'[c] \in {"autoBackoff", "done"}
      /\ pc'[c] = "autoBackoff" => auto[c] < MaxRetries
      /\ result'[c] = "success" => result[c] = "success"
      /\ pc'[c] = "autoBackoff" => result'[c] = "none"
  BY DEF Fee, Goto, Core, TypeOK, Points
<1>3. TypeOK'
  BY <1>1, <1>2 DEF Fee, Core, TypeOK, NodeTypeOK, Statuses, nodeVars
<1>4. \A u \in Tx : /\ pending[u] = "absent" => pending'[u] = "absent"
                    /\ pending'[u] = "confirmed" => chain[u] = "final"
  BY <1>1 DEF Fee, Core, TypeOK, ConfirmedInv, TxInv
<1>5. OnlyCall(c) /\ CallInv(c)'
  BY <1>2 DEF Fee, OnlyCall, CallInv, Core, ConfirmedInv, nodeVars
<1>6. result'[c] = "success" => chain[Current(c)] = "final"
  BY <1>2 DEF Core, ConfirmedInv, SuccessIsFinal
<1> QED
  BY <1>3, <1>4, <1>5, <1>6, CallStep DEF Fee, nodeVars

---------------------------------------------------------------------------
(* The steps that give the node a transaction.                             *)

LEMMA SendStep ==
    ASSUME Core, TypeOK', NEW c \in Calls, OnlyCall(c), pc[c] = "send",
           chain' = [chain EXCEPT ![Current(c)] = "pool"],
           UNCHANGED <<txNonce, sent, pending>>,
           CallInv(c)', result'[c] # "success"
    PROVE  Core'
<1>1. /\ Current(c) \in Tx /\ chain[Current(c)] = "none" /\ sent[c] > 0
      /\ txNonce[Current(c)] \in Nat
      /\ Current(c)[1] = c /\ Current(c)[2] = sent[c]
  BY CurrentTx DEF Core, ConfirmedInv, CallInv
<1>2. \A u \in Tx : u # Current(c) => chain'[u] = chain[u]
  BY <1>1 DEF Core, TypeOK, NodeTypeOK
<1>3. ASSUME NEW d \in Calls PROVE CallInv(d)'
  <2>1. CASE d # c
    <3>1. Current(d)' = Current(d)
      BY DEF Current
    <3>2. sent[d] > 0 => chain'[Current(d)] = chain[Current(d)]
      BY <1>1, <1>2, <2>1, CurrentTx DEF Core
    <3> QED
      BY <2>1, <3>1, <3>2 DEF Core, ConfirmedInv, CallInv, OnlyCall
  <2> QED BY <2>1
<1>4. ASSUME NEW u \in Tx PROVE TxInv(u)'
  <2>1. CASE u = Current(c)
    <3>1. chain'[u] = "pool" /\ u[2] = sent[u[1]]
      BY <1>1, <2>1 DEF Core, TypeOK, NodeTypeOK
    <3>2. txNonce[u] \in Nat /\ pending[u] # "confirmed"
      BY <1>1, <2>1 DEF Core, ConfirmedInv, TxInv
    <3>3. ~(u[2] > sent[u[1]])
      BY <3>1, <1>1, <2>1 DEF Core, TypeOK
    <3> QED
      BY <3>1, <3>2, <3>3 DEF TxInv
  <2>2. CASE u # Current(c)
    BY <1>2, <2>2 DEF Core, ConfirmedInv, TxInv
  <2> QED BY <2>1, <2>2
<1>5. ASSUME NEW d \in Calls, result'[d] = "success" PROVE chain'[Current(d)'] = "final"
  <2>1. d # c /\ result[d] = "success" /\ sent[d] > 0
    BY <1>5 DEF OnlyCall, Core, ConfirmedInv, CallInv
  <2>2. Current(d) \in Tx /\ Current(d) # Current(c) /\ chain[Current(d)] = "final"
    BY <1>1, <2>1, CurrentTx DEF Core, ConfirmedInv, SuccessIsFinal
  <2> QED
    BY <1>2, <2>2 DEF Current
<1> QED
  BY <1>3, <1>4, <1>5 DEF Core, ConfirmedInv, SuccessIsFinal

LEMMA SendAcceptedCore ==
    ASSUME Core, NEW c \in Calls, SendAccepted(c)
    PROVE  Core'
<1>1. /\ Current(c) \in Tx /\ sent[c] > 0 /\ nonce[c] \in Nat /\ result[c] # "success"
      /\ pending[Current(c)] # "confirmed" /\ pending[Current(c)] \in Statuses
  BY CurrentTx DEF Core, TypeOK, ConfirmedInv, CallInv, TxInv, SendAccepted
<1>2. /\ pc' \in [Calls -> Points]
      /\ result' \in [Calls -> {"none", "success", "unconfirmed", "error"}]
      /\ nonceCache' \in [Accounts -> Nat \cup {None}]
      /\ \A d \in Calls \ {c} : pc'[d] = pc[d] /\ result'[d] = result[d]
      /\ pc'[c] \in {"wait", "fee", "autoBackoff", "done"}
      /\ pc'[c] = "autoBackoff" => auto[c] < MaxRetries
      /\ result'[c] # "success"
  <2>1. CASE op[c] = "noWait"
    BY <1>1, <2>1, ResolveEffect DEF SendAccepted, Core
  <2>2. CASE op[c] # "noWait" /\ pending[Current(c)] = "absent"
    BY <1>1, <2>2, ThrowToCallerEffect DEF SendAccepted, Core, TypeOK
  <2>3. CASE op[c] # "noWait" /\ pending[Current(c)] # "absent"
    BY <1>1, <2>3 DEF SendAccepted, Goto, Core, TypeOK, Points
  <2> QED BY <2>1, <2>2, <2>3
<1>3. TypeOK'
  BY <1>1, <1>2 DEF SendAccepted, Core, TypeOK, NodeTypeOK
<1>4. OnlyCall(c) /\ CallInv(c)'
  BY <1>1, <1>2 DEF SendAccepted, OnlyCall, CallInv
<1> QED
  BY <1>2, <1>3, <1>4, SendStep DEF SendAccepted

LEMMA SendLostCore ==
    ASSUME Core, NEW c \in Calls, SendLost(c)
    PROVE  Core'
<1>1. Current(c) \in Tx /\ sent[c] > 0 /\ result[c] # "success"
  BY CurrentTx DEF Core, ConfirmedInv, CallInv, SendLost
<1>2. Throw(c, TRUE) /\ TRUE \in BOOLEAN
  BY DEF SendLost
<1>3. /\ pc' \in [Calls -> Points]
      /\ result' \in [Calls -> {"none", "success", "unconfirmed", "error"}]
      /\ \A d \in Calls \ {c} : pc'[d] = pc[d] /\ result'[d] = result[d]
      /\ pc'[c] \in {"backoff", "autoBackoff", "done"}
      /\ pc'[c] = "backoff" => attempt[c] < MaxRetries
      /\ pc'[c] = "autoBackoff" => auto[c] < MaxRetries
      /\ result'[c] # "success"
  BY <1>1, <1>2, ThrowEffect DEF Core
<1>4. TypeOK'
  BY <1>1, <1>3 DEF SendLost, svcVars, Core, TypeOK, NodeTypeOK
<1>5. OnlyCall(c) /\ CallInv(c)'
  BY <1>1, <1>3 DEF SendLost, OnlyCall, CallInv
<1>6. CASE UNCHANGED chain
  BY <1>3, <1>4, <1>5, <1>6, CallStep DEF SendLost, svcVars, Core, ConfirmedInv, TxInv
<1>7. CASE chain' = [chain EXCEPT ![Current(c)] = "pool"]
  BY <1>3, <1>4, <1>5, <1>7, SendStep DEF SendLost, svcVars
<1> QED BY <1>6, <1>7 DEF SendLost

---------------------------------------------------------------------------
(* The steps that belong to no call.                                       *)

LEMMA NodeCore ==
    ASSUME Core, NEW t \in Tx, NodeActs(t)
    PROVE  Core'
<1>1. /\ UNCHANGED <<svcVars, callVars, txNonce>>
      /\ chain[t] \in {"pool", "best"}
      /\ \E s \in {"pool", "best", "final", "dropped"} : chain' = [chain EXCEPT ![t] = s]
      /\ chain[t] = "best" => chain'[t] # "none"
  BY DEF NodeActs, NodeStep, Include, Retract, Finalize, Drop, Core, TypeOK, NodeTypeOK
<1>2. Owner(t) \in Accounts /\ txNonce[t] \in Nat
  BY <1>1, TxParts DEF Core, ConfirmedInv, TxInv
<1>3. index' \in [Accounts -> Nat] /\ notice' \in [Tx -> {"none", "due", "inBlock", "finalized", "lost"}]
  BY <1>2 DEF NodeActs, NodeStep, Include, Retract, Finalize, Drop, Core, TypeOK, NodeTypeOK
<1>4. TypeOK'
  <2>1. chain' \in [Tx -> {"none", "pool", "best", "final", "dropped"}]
    BY <1>1 DEF Core, TypeOK, NodeTypeOK
  <2> QED
    BY <1>1, <1>3, <2>1 DEF Core, TypeOK, NodeTypeOK, svcVars, callVars
<1>5. ASSUME NEW u \in Tx
      PROVE  /\ chain[u] = "none" <=> chain'[u] = "none"
             /\ chain[u] = "final" => chain'[u] = "final"
  BY <1>1 DEF Core, TypeOK, NodeTypeOK
<1>6. ASSUME NEW d \in Calls PROVE CallInv(d)'
  BY <1>1, <1>5, CurrentTx DEF Core, ConfirmedInv, CallInv, Current, svcVars, callVars
<1>7. ASSUME NEW u \in Tx PROVE TxInv(u)'
  BY <1>1, <1>5 DEF Core, ConfirmedInv, TxInv, svcVars, callVars
<1>8. SuccessIsFinal'
  BY <1>1, <1>5, CurrentTx
     DEF Core, ConfirmedInv, CallInv, SuccessIsFinal, Current, svcVars, callVars
<1> QED BY <1>4, <1>6, <1>7, <1>8 DEF Core, ConfirmedInv

\* A step that changes nothing but entries of the map, notices and the cache.
LEMMA EntryStep ==
    ASSUME Core, TypeOK', UNCHANGED <<callVars, chain, txNonce>>,
           \A u \in Tx : /\ pending[u] = "absent" => pending'[u] = "absent"
                         /\ pending'[u] = "confirmed" => chain[u] = "final"
    PROVE  Core'
<1>1. ASSUME NEW d \in Calls PROVE CallInv(d)'
  BY DEF Core, ConfirmedInv, CallInv, Current, callVars
<1>2. ASSUME NEW u \in Tx PROVE TxInv(u)'
  BY DEF Core, ConfirmedInv, TxInv, callVars
<1>3. SuccessIsFinal'
  BY DEF Core, ConfirmedInv, SuccessIsFinal, Current, callVars
<1> QED BY <1>1, <1>2, <1>3 DEF Core, ConfirmedInv

LEMMA NotifyCore ==
    ASSUME Core, NEW t \in Tx, Notify(t)
    PROVE  Core'
<1>1. TypeOK'
  BY DEF Notify, NotifyInBlock, NotifyFinalized, SetEntry, Core, TypeOK, NodeTypeOK, Statuses,
     callVars
<1>2. \A u \in Tx : /\ pending[u] = "absent" => pending'[u] = "absent"
                    /\ pending'[u] = "confirmed" => chain[u] = "final"
  BY DEF Notify, NotifyInBlock, NotifyFinalized, SetEntry, Core, TypeOK, ConfirmedInv, TxInv
<1> QED
  BY <1>1, <1>2, EntryStep DEF Notify, NotifyInBlock, NotifyFinalized

LEMMA ClearCore ==
    ASSUME Core, Clear
    PROVE  Core'
<1>1. TypeOK'
  BY TxAssumption DEF Clear, Core, TypeOK, NodeTypeOK, Statuses, nodeVars, callVars
<1>2. \A u \in Tx : /\ pending[u] = "absent" => pending'[u] = "absent"
                    /\ pending'[u] = "confirmed" => chain[u] = "final"
  BY DEF Clear, Core, TypeOK, ConfirmedInv, TxInv
<1> QED
  BY <1>1, <1>2, EntryStep DEF Clear, nodeVars

LEMMA ElsewhereCore ==
    ASSUME Core, NEW a \in Accounts, Elsewhere(a)
    PROVE  Core'
<1>1. TypeOK'
  BY DEF Elsewhere, Core, TypeOK, NodeTypeOK, svcVars, callVars
<1> QED
  BY <1>1, EntryStep DEF Elsewhere, Core, ConfirmedInv, TxInv, svcVars

---------------------------------------------------------------------------
LEMMA InitCore == Init => Core
<1> SUFFICES ASSUME Init PROVE Core
  OBVIOUS
<1>1. TypeOK
  BY NodeAssumption, TxAssumption DEF Init, NodeInit, TypeOK, NodeTypeOK, Points, Statuses
<1>2. ConfirmedInv
  BY TxParts DEF Init, NodeInit, ConfirmedInv, CallInv, TxInv, SuccessIsFinal
<1> QED BY <1>1, <1>2 DEF Core

LEMMA NextCore == Core /\ [Next]_vars => Core'
<1> SUFFICES ASSUME Core, [Next]_vars PROVE Core'
  OBVIOUS
<1>1. ASSUME NEW c \in Calls, Call(c) PROVE Core'
  BY <1>1, StartCore, StartSignedCore, StartRetryCore DEF Call
<1>2. ASSUME NEW c \in Calls, Run(c) PROVE Core'
  BY <1>2, UseFixedCore, UseCachedCore, AskNonceCore, NodeAnswersCore, FetchedCore,
     FetchFailsCore, SignCore, SignFailsCore, SendAcceptedCore, SendRejectedCore,
     SendLostCore, PollGoneCore, PollAnsweredCore, SearchFoundCore, SearchMissedCore,
     EventsReadCore, PollFailsCore, TimeoutCore, FeeCore, BackoffEndsCore, AutoBackoffEndsCore
  DEF Run
<1>3. ASSUME NEW t \in Tx, NodeActs(t) \/ Notify(t) PROVE Core'
  BY <1>3, NodeCore, NotifyCore
<1>4. CASE UNCHANGED vars
  BY <1>4 DEF vars, nodeVars, svcVars, callVars, Core, TypeOK, NodeTypeOK, ConfirmedInv,
              CallInv, TxInv, SuccessIsFinal, Current
<1> QED
  BY <1>1, <1>2, <1>3, <1>4, ClearCore, ElsewhereCore DEF Next, AllDone

\* The service's maps, counters and program counters keep their types, and
\* ConfirmedInv is an invariant: 'confirmed' in the map means finalized.
THEOREM CoreInvariant == Spec => []Core
<1> QED BY InitCore, NextCore, PTL DEF Spec

\* KILTTransactionService reports success only for a finalized transaction,
\* whatever polls, events, retries, clears and other calls do meanwhile.
THEOREM SuccessMeansFinal == Spec => []SuccessIsFinal
<1>1. Core => SuccessIsFinal
  BY DEF Core, ConfirmedInv
<1> QED
  BY <1>1, InitCore, NextCore, PTL DEF Spec
=============================================================================
