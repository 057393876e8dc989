-------------------------- MODULE KiltTxOnceProofs --------------------------
(***************************************************************************)
(* Proofs about the nonces and the results of KiltTx's calls.              *)
(* The attempts of one call execute at most once: the node executes a      *)
(* nonce once (NonceInv), so it is enough that all attempts carry the same *)
(* nonce, because options.nonce is set once (FixedInv, retryTransaction),  *)
(* or because nothing moves the cached nonce while the call runs           *)
(* (CacheInv, submitTransaction).  A call that returned a result left no   *)
(* entry in the map (ClearedInv), and the cache stays past the nonce of    *)
(* every success (PastInv).  No call signs more often than its retries     *)
(* allow (SignsInv), and all of it together makes the service implement    *)
(* Submissions.                                                            *)
(***************************************************************************)
EXTENDS KiltTxProofs

Live(t) == OnChain(t) \/ chain[t] = "pool"

---------------------------------------------------------------------------
(* NonceInv.                                                               *)

\* All the steps of a call but three leave the node alone.
LEMMA RunKeepsNode ==
    ASSUME NEW c \in Calls, Run(c), ~Sign(c), ~SendAccepted(c), ~SendLost(c)
    PROVE  UNCHANGED nodeVars
  BY DEF Run, UseFixed, UseCached, AskNonce, NodeAnswers, Fetched, FetchFails, SignFails,
         SendRejected, PollGone, PollAnswered, SearchFound, SearchMissed, EventsRead,
         PollFails, Timeout, Fee, BackoffEnds, AutoBackoffEnds

LEMMA CallKeepsNode ==
    ASSUME NEW c \in Calls, Call(c)
    PROVE  UNCHANGED nodeVars
  BY DEF Call, Start, StartSigned, StartRetry

LEMMA NonceSame ==
    ASSUME NonceInv, UNCHANGED nodeVars
    PROVE  NonceInv'
  BY DEF NonceInv, nodeVars, OnChain

LEMMA NonceSign ==
    ASSUME Core, NonceInv, NEW c \in Calls, Sign(c)
    PROVE  NonceInv'
<1> DEFINE t == <<c, sent[c] + 1>>
<1>1. t \in Tx /\ t[1] = c /\ t[2] = sent[c] + 1
  BY NodeAssumption DEF Core, TypeOK, Sign, Tx
<1>2. txNonce' = [txNonce EXCEPT ![t] = nonce[c]] /\ UNCHANGED <<chain, index>>
  BY DEF Sign
<1> HIDE DEF t
<1>3. chain[t] = "none"
  BY <1>1 DEF Core, TypeOK, ConfirmedInv, TxInv
<1> QED
  BY <1>1, <1>2, <1>3 DEF NonceInv, OnChain, Core, TypeOK, NodeTypeOK

LEMMA NonceSend ==
    ASSUME Core, NonceInv, NEW c \in Calls, pc[c] = "send",
           Acceptable(Signer[c], nonce[c]),
           chain' = [chain EXCEPT ![Current(c)] = "pool"],
           UNCHANGED <<txNonce, index>>
    PROVE  NonceInv'
<1> DEFINE t == Current(c)
<1>1. /\ t \in Tx /\ Owner(t) = Signer[c]
      /\ chain[t] = "none" /\ txNonce[t] = nonce[c] /\ nonce[c] \in Nat
  BY CurrentTx DEF Core, ConfirmedInv, CallInv
<1> HIDE DEF t
<1>2. chain' = [chain EXCEPT ![t] = "pool"]
  BY DEF t
<1>3. /\ \A u \in Tx : u # t => chain'[u] = chain[u]
      /\ chain'[t] = "pool"
  BY <1>1, <1>2 DEF Core, TypeOK, NodeTypeOK
<1>4. ASSUME NEW u \in Tx, OnChain(u)' PROVE (txNonce[u] < index[Owner(u)])'
  BY <1>3, <1>4 DEF NonceInv, OnChain, Owner
<1>5. \A u \in Tx : Live(u) /\ Owner(u) = Owner(t) => txNonce[u] # txNonce[t]
  <2> SUFFICES ASSUME NEW u \in Tx, Live(u), Owner(u) = Owner(t), txNonce[u] = txNonce[t]
               PROVE  FALSE
    OBVIOUS
  <2>1. CASE OnChain(u)
    <3>1. txNonce[u] < index[Signer[c]] /\ index[Signer[c]] \in Nat
      BY <1>1, <2>1, NodeAssumption DEF NonceInv, Core, TypeOK, NodeTypeOK
    <3> QED BY <1>1, <3>1 DEF Acceptable
  <2>2. CASE chain[u] = "pool"
    BY <1>1, <2>2 DEF Acceptable, Pooled
  <2> QED BY <2>1, <2>2 DEF Live
<1>6. ASSUME NEW u \in Tx, NEW v \in Tx, Owner(u) = Owner(v), txNonce[u] = txNonce[v],
             Live(u)', Live(v)'
      PROVE  u = v
  BY <1>3, <1>5, <1>6 DEF NonceInv, Live, OnChain
<1> QED
  BY <1>4, <1>6 DEF NonceInv, Live, Owner

LEMMA NonceNode ==
    ASSUME Core, NonceInv, NEW t \in Tx, NodeActs(t)
    PROVE  NonceInv'
<1>1. /\ UNCHANGED txNonce
      /\ Live(t)
      /\ \A u \in Tx : u # t => chain'[u] = chain[u]
      /\ Owner(t) \in Accounts /\ index[Owner(t)] \in Nat /\ txNonce[t] \in Nat
  BY TxParts DEF NodeActs, NodeStep, Include, Retract, Finalize, Drop, Live, OnChain,
                 Core, TypeOK, NodeTypeOK, ConfirmedInv, TxInv
<1>2. ASSUME NEW u \in Tx, NEW v \in Tx, Owner(u) = Owner(v), txNonce[u] = txNonce[v],
             Live(u)', Live(v)'
      PROVE  u = v
  BY <1>1, <1>2 DEF NonceInv, Live, OnChain
<1>3. \A u \in Tx : chain[u] # "none" => txNonce[u] \in Nat
  BY DEF Core, ConfirmedInv, TxInv
<1>4. ASSUME NEW u \in Tx, OnChain(u)' PROVE txNonce[u] < index'[Owner(u)]
  <2>1. CASE Include(t)
    BY <1>1, <1>3, <1>4, <2>1, TxParts DEF Include, NonceInv, OnChain, Core, TypeOK, NodeTypeOK
  <2>2. CASE Retract(t)
    <3>1. u # t /\ OnChain(u)
      BY <1>1, <1>4, <2>2 DEF Retract, OnChain, Core, TypeOK, NodeTypeOK
    <3>2. txNonce[u] \in Nat /\ txNonce[u] < index[Owner(u)] /\ index[Owner(u)] \in Nat
      BY <1>3, <3>1, TxParts DEF NonceInv, OnChain, Core, TypeOK, NodeTypeOK
    <3>3. CASE Owner(u) = Owner(t)
      <4>1. txNonce[u] # txNonce[t]
        BY <1>1, <3>1, <3>3 DEF NonceInv, Live
      <4>2. index'[Owner(u)] = index[Owner(u)] - 1 /\ txNonce[t] = index[Owner(u)] - 1
        BY <1>1, <2>2, <3>3 DEF Retract, Core, TypeOK, NodeTypeOK
      <4> QED BY <1>1, <3>2, <4>1, <4>2
    <3>4. CASE Owner(u) # Owner(t)
      BY <1>1, <2>2, <3>2, <3>4, TxParts DEF Retract, Core, TypeOK, NodeTypeOK
    <3> QED BY <3>3, <3>4
  <2>3. CASE Finalize(t) \/ Drop(t)
    BY <1>1, <1>4, <2>3 DEF Finalize, Drop, NonceInv, OnChain, Core, TypeOK, NodeTypeOK
  <2> QED BY <2>1, <2>2, <2>3 DEF NodeActs, NodeStep
<1> QED
  BY <1>1, <1>2, <1>4 DEF NonceInv, Live, Owner

LEMMA NonceNext == Core /\ NonceInv /\ [Next]_vars => NonceInv'
<1> SUFFICES ASSUME Core, NonceInv, [Next]_vars PROVE NonceInv'
  OBVIOUS
<1>1. ASSUME NEW c \in Calls, Call(c) PROVE NonceInv'
  BY <1>1, CallKeepsNode, NonceSame
<1>2. ASSUME NEW c \in Calls, Run(c) PROVE NonceInv'
  <2>1. CASE Sign(c)
    BY <2>1, NonceSign
  <2>2. CASE SendAccepted(c)
    BY <2>2, NonceSend DEF SendAccepted
  <2>3. CASE SendLost(c) /\ UNCHANGED chain
    BY <2>3 DEF SendLost, NonceInv, OnChain
  <2>4. CASE SendLost(c) /\ ~UNCHANGED chain
    BY <2>4, NonceSend DEF SendLost
  <2> QED
    BY <1>2, <2>1, <2>2, <2>3, <2>4, RunKeepsNode, NonceSame
<1>3. ASSUME NEW t \in Tx, NodeActs(t) PROVE NonceInv'
  BY <1>3, NonceNode
<1>4. ASSUME NEW t \in Tx, Notify(t) PROVE NonceInv'
  BY <1>4 DEF Notify, NotifyInBlock, NotifyFinalized, NonceInv, OnChain
<1>5. ASSUME NEW a \in Accounts, Elsewhere(a) PROVE NonceInv'
  BY <1>5, TxParts DEF Elsewhere, NonceInv, OnChain, Live, Owner, Core, TypeOK, NodeTypeOK,
                       ConfirmedInv, TxInv
<1>6. CASE Clear \/ UNCHANGED vars
  BY <1>6, NonceSame DEF Clear, vars
<1> QED
  BY <1>1, <1>2, <1>3, <1>4, <1>5, <1>6 DEF Next, AllDone

---------------------------------------------------------------------------
(* FixedInv.                                                               *)

\* What a step of call c leaves alone of the other calls.
OthersStay(c) ==
    /\ \A d \in Calls \ {c} : /\ op'[d] = op[d] /\ pc'[d] = pc[d] /\ sent'[d] = sent[d]
                              /\ fixed'[d] = fixed[d] /\ nonce'[d] = nonce[d]
    /\ \A t \in Tx : t[1] # c => txNonce'[t] = txNonce[t]

LEMMA OwnTx ==
    ASSUME Core, NEW c \in Calls, NEW i \in 1..sent[c]
    PROVE  <<c, i>> \in Tx /\ <<c, i>>[1] = c
  BY NodeAssumption DEF Core, TypeOK, Tx

LEMMA FixedOther ==
    ASSUME Core, NEW c \in Calls, OthersStay(c), NEW d \in Calls, d # c, FixedCall(d)
    PROVE  FixedCall(d)'
<1>1. /\ op'[d] = op[d] /\ pc'[d] = pc[d] /\ sent'[d] = sent[d]
      /\ fixed'[d] = fixed[d] /\ nonce'[d] = nonce[d]
  BY DEF OthersStay
<1>2. \A i \in 1..sent[d] : txNonce'[<<d, i>>] = txNonce[<<d, i>>]
  BY OwnTx DEF OthersStay
<1> QED
  BY <1>1, <1>2 DEF FixedCall, Retrying

LEMMA RunOthersStay ==
    ASSUME Core, NEW c \in Calls, Run(c)
    PROVE  OthersStay(c)
<1>1. CASE Sign(c)
  <2>1. <<c, sent[c] + 1>> \in Tx /\ <<c, sent[c] + 1>>[1] = c
    BY <1>1, NodeAssumption DEF Sign, Core, TypeOK, Tx
  <2> QED
    BY <1>1, <2>1 DEF OthersStay, Sign, Goto, Core, TypeOK, NodeTypeOK
<1>2. CASE UseFixed(c) \/ UseCached(c) \/ AskNonce(c) \/ NodeAnswers(c) \/ Fetched(c)
           \/ BackoffEnds(c) \/ AutoBackoffEnds(c) \/ PollGone(c) \/ SearchFound(c)
  BY <1>2 DEF UseFixed, UseCached, AskNonce, NodeAnswers, Fetched, BackoffEnds, AutoBackoffEnds,
              PollGone, SearchFound, OthersStay, Goto, Core, TypeOK, nodeVars
<1>3. CASE SignFails(c) \/ SendRejected(c) \/ SendLost(c) \/ PollFails(c) \/ Timeout(c)
  <2>1. PICK r \in BOOLEAN : Throw(c, r)
    BY <1>3 DEF SignFails, SendRejected, SendLost, PollFails, Timeout
  <2> QED
    BY <1>3, <2>1, ThrowEffect
    DEF SignFails, SendRejected, SendLost, PollFails, Timeout, OthersStay, Core, nodeVars
<1>4. CASE FetchFails(c)
  <2>1. \A d \in Calls \ {c} : pc'[d] = pc[d]
    BY <1>4, ThrowEffect, ThrowToCallerEffect DEF FetchFails, Goto, Core, TypeOK
  <2> QED
    BY <1>4, <2>1 DEF FetchFails, OthersStay, nodeVars
<1>5. CASE PollAnswered(c) \/ SearchMissed(c) \/ EventsRead(c) \/ SendAccepted(c) \/ Fee(c)
  <2>1. \A d \in Calls \ {c} : pc'[d] = pc[d]
    BY <1>5, ResolveEffect DEF PollAnswered, SearchMissed, EventsRead, SendAccepted, Fee,
                 Resolve, ThrowToCaller, Goto, Core, TypeOK
  <2> QED
    BY <1>5, <2>1 DEF PollAnswered, SearchMissed, EventsRead, SendAccepted, Fee, OthersStay,
       nodeVars
<1> QED
  BY <1>1, <1>2, <1>3, <1>4, <1>5 DEF Run

\* Where a call other than autoRetryTransaction goes when it throws or ends.
LEMMA FailurePoints ==
    ASSUME Core, NEW c \in Calls, op[c] # "auto",
           FetchFails(c) \/ SignFails(c) \/ SendRejected(c) \/ SendLost(c) \/ PollFails(c)
               \/ Timeout(c)
    PROVE  /\ pc'[c] \in {"backoff", "done"} \/ (pc[c] = "gasFetch" /\ pc'[c] = "sign")
           /\ pc'[c] = "backoff" => Retrying(c) /\ op[c] # "signed"
           /\ UNCHANGED <<op, sent, fixed, nonce, txNonce, nonceCache>>
<1>1. UNCHANGED <<op, sent, fixed, nonce, txNonce, nonceCache>>
  BY DEF FetchFails, SignFails, SendRejected, SendLost, PollFails, Timeout, nodeVars, svcVars
<1>2. CASE FetchFails(c)
  BY <1>1, <1>2, ThrowEffect, ThrowToCallerEffect DEF FetchFails, Retrying, Goto, Core, TypeOK
<1>3. CASE ~FetchFails(c)
  <2>1. PICK r \in BOOLEAN : Throw(c, r)
    BY <1>3 DEF SignFails, SendRejected, SendLost, PollFails, Timeout
  <2>2. pc[c] \in {"attempt", "sign", "send", "wait"}
    BY <1>3 DEF SignFails, SendRejected, SendLost, PollFails, Timeout
  <2> QED
    BY <1>1, <2>1, <2>2, ThrowEffect DEF Core, Retrying
<1> QED BY <1>2, <1>3

LEMMA EndPoints ==
    ASSUME Core, NEW c \in Calls, op[c] # "auto",
           PollAnswered(c) \/ SearchMissed(c) \/ EventsRead(c) \/ SendAccepted(c) \/ Fee(c)
    PROVE  /\ pc'[c] \in {"wait", "fee", "done"}
           /\ pc'[c] = "wait" => pc[c] \in {"send", "wait"} /\ UNCHANGED nonceCache
           /\ UNCHANGED <<op, sent, fixed, nonce, txNonce>>
<1>1. UNCHANGED <<op, sent, fixed, nonce, txNonce>>
  BY DEF PollAnswered, SearchMissed, EventsRead, SendAccepted, Fee, nodeVars
<1>2. /\ pc'[c] \in {"wait", "fee", "done"}
      /\ pc'[c] = "wait" => pc[c] \in {"send", "wait"} /\ UNCHANGED nonceCache
  BY DEF PollAnswered, SearchMissed, EventsRead, SendAccepted, Fee, Resolve, ThrowToCaller,
         Goto, Core, TypeOK
<1> QED BY <1>1, <1>2

LEMMA FixedRun ==
    ASSUME Core, NEW c \in Calls, FixedCall(c), Run(c)
    PROVE  FixedCall(c)'
<1> SUFFICES ASSUME op'[c] = "retry" PROVE FixedCall(c)'
  BY DEF FixedCall
<1>1. op' = op /\ op[c] = "retry"
  BY DEF Run, UseFixed, UseCached, AskNonce, NodeAnswers, Fetched, FetchFails, Sign, SignFails,
         SendAccepted, SendRejected, SendLost, PollGone, PollAnswered, SearchFound, SearchMissed,
         EventsRead, PollFails, Timeout, Fee, BackoffEnds, AutoBackoffEnds
<1>2. CASE Sign(c)
  <2> DEFINE t == <<c, sent[c] + 1>>
  <2>1. t \in Tx /\ sent[c] \in Nat
    BY <1>2, NodeAssumption DEF Sign, Core, TypeOK, Tx
  <2>2. txNonce' = [txNonce EXCEPT ![t] = nonce[c]] /\ sent'[c] = sent[c] + 1 /\ pc'[c] = "send"
        /\ UNCHANGED <<fixed, nonce>>
    BY <1>2 DEF Sign, Goto, Core, TypeOK
  <2>3. txNonce'[t] = fixed[c]
    BY <1>1, <1>2, <2>1, <2>2 DEF FixedCall, Sign, Core, TypeOK, NodeTypeOK
  <2>4. \A i \in 1..sent[c] : <<c, i>> # t /\ txNonce'[<<c, i>>] = txNonce[<<c, i>>]
    BY <2>1, <2>2, OwnTx DEF Core, TypeOK, NodeTypeOK
  <2>5. \A i \in 1..sent'[c] : txNonce'[<<c, i>>] = fixed[c]
    BY <1>1, <2>1, <2>2, <2>3, <2>4 DEF FixedCall
  <2> QED
    BY <1>1, <1>2, <2>2, <2>5 DEF FixedCall, Retrying, Sign
<1>3. CASE UseFixed(c) \/ UseCached(c) \/ AskNonce(c) \/ NodeAnswers(c) \/ Fetched(c)
           \/ BackoffEnds(c) \/ AutoBackoffEnds(c) \/ PollGone(c) \/ SearchFound(c)
  <2>1. UNCHANGED <<sent, txNonce>>
    BY <1>3 DEF UseFixed, UseCached, AskNonce, NodeAnswers, Fetched, BackoffEnds, AutoBackoffEnds,
                PollGone, SearchFound, nodeVars
  <2>2. CASE UseFixed(c) \/ AskNonce(c) \/ NodeAnswers(c)
    BY <1>1, <2>1, <2>2, NodeAssumption
       DEF FixedCall, Retrying, UseFixed, AskNonce, NodeAnswers, Goto, Core, TypeOK
  <2>3. CASE UseCached(c)
    BY <1>1, <2>1, <2>3, NodeAssumption
       DEF FixedCall, Retrying, UseCached, Known, Cached, Goto, Core, TypeOK
  <2>4. CASE Fetched(c)
    BY <1>1, <2>1, <2>4, NodeAssumption DEF FixedCall, Retrying, Fetched, Goto, Core, TypeOK
  <2>5. CASE BackoffEnds(c) \/ AutoBackoffEnds(c) \/ PollGone(c) \/ SearchFound(c)
    BY <1>1, <2>1, <2>5
       DEF FixedCall, Retrying, BackoffEnds, AutoBackoffEnds, PollGone, SearchFound, Goto, Core,
           TypeOK
  <2> QED BY <1>3, <2>2, <2>3, <2>4, <2>5
<1>4. CASE FetchFails(c) \/ SignFails(c) \/ SendRejected(c) \/ SendLost(c) \/ PollFails(c) \/ Timeout(c)
  BY <1>1, <1>4, FailurePoints DEF FixedCall, Retrying
<1>5. CASE PollAnswered(c) \/ SearchMissed(c) \/ EventsRead(c) \/ SendAccepted(c) \/ Fee(c)
  BY <1>1, <1>5, EndPoints DEF FixedCall, Retrying
<1> QED
  BY <1>2, <1>3, <1>4, <1>5 DEF Run

LEMMA FixedNext == Core /\ FixedInv /\ [Next]_vars => FixedInv'
<1> SUFFICES ASSUME Core, FixedInv, [Next]_vars, NEW d \in Calls PROVE FixedCall(d)'
  BY DEF FixedInv
<1> FixedCall(d)
  BY DEF FixedInv
<1>1. ASSUME NEW c \in Calls, Run(c) PROVE FixedCall(d)'
  BY <1>1, FixedRun, FixedOther, RunOthersStay
<1>2. ASSUME NEW c \in Calls, Call(c) PROVE FixedCall(d)'
  <2>1. /\ UNCHANGED <<sent, txNonce>> /\ pc[c] = "idle" /\ sent[c] = 0
        /\ \A e \in Calls \ {c} : fixed'[e] = fixed[e]
    BY <1>2 DEF Call, Start, StartSigned, StartRetry, MayStart, nodeVars, Core, TypeOK,
       ConfirmedInv, CallInv
  <2>2. CASE d # c
    BY <1>2, <2>1, <2>2 DEF Call, Start, StartSigned, StartRetry, ThrowToCaller, Goto, FixedCall,
                            Retrying, Core, TypeOK
  <2>3. CASE d = c
    BY <1>2, <2>1, <2>3 DEF Call, Start, StartSigned, StartRetry, ThrowToCaller, Goto, FixedCall,
                            Retrying, Core, TypeOK
  <2> QED BY <2>2, <2>3
<1>3. CASE UNCHANGED <<callVars, txNonce>>
  BY <1>3 DEF callVars, FixedCall, Retrying
<1> QED
  BY <1>1, <1>2, <1>3 DEF Next, AllDone, NodeActs, NodeStep, Include, Retract, Finalize, Drop,
     Elsewhere, Notify, NotifyInBlock, NotifyFinalized, Clear, vars, nodeVars

---------------------------------------------------------------------------
(* CacheInv.                                                               *)

Serial == ~Overlap /\ MaxClears = 0 /\ NonceManagement

LEMMA RunCache ==
    ASSUME Core, NEW c \in Calls, Run(c)
    PROVE  /\ Active(c)
           /\ op' = op
           /\ \A a \in Accounts \ {Signer[c]} : nonceCache'[a] = nonceCache[a]
<1>1. Active(c) /\ op' = op
  BY DEF Active, Run, UseFixed, UseCached, AskNonce, NodeAnswers, Fetched, FetchFails, Sign,
     SignFails,
         SendAccepted, SendRejected, SendLost, PollGone, PollAnswered, SearchFound, SearchMissed,
         EventsRead, PollFails, Timeout, Fee, BackoffEnds, AutoBackoffEnds
<1>2. CASE Fetched(c)
  BY <1>1, <1>2, NodeAssumption DEF Fetched, Core, TypeOK
<1>3. CASE PollAnswered(c) \/ SearchMissed(c) \/ EventsRead(c) \/ SendAccepted(c)
  BY <1>1, <1>3, NodeAssumption
     DEF PollAnswered, SearchMissed, EventsRead, SendAccepted, Resolve, Core, TypeOK
<1>4. CASE ~(Fetched(c) \/ PollAnswered(c) \/ SearchMissed(c) \/ EventsRead(c) \/ SendAccepted(c))
  BY <1>1, <1>4 DEF Run, UseFixed, UseCached, AskNonce, NodeAnswers, FetchFails, Sign, SignFails,
         SendRejected, SendLost, PollGone, SearchFound,
         PollFails, Timeout, Fee, BackoffEnds, AutoBackoffEnds, svcVars
<1> QED BY <1>2, <1>3, <1>4

LEMMA RunStarted ==
    ASSUME Core, NEW c \in Calls, Run(c)
    PROVE  pc'[c] # "idle"
<1>1. CASE UseFixed(c) \/ UseCached(c) \/ AskNonce(c) \/ NodeAnswers(c) \/ Fetched(c) \/ Sign(c)
           \/ BackoffEnds(c) \/ AutoBackoffEnds(c) \/ PollGone(c) \/ SearchFound(c) \/ Fee(c)
  BY <1>1 DEF UseFixed, UseCached, AskNonce, NodeAnswers, Fetched, Sign, BackoffEnds,
     AutoBackoffEnds,
              PollGone, SearchFound, Fee, Goto, Core, TypeOK
<1>2. CASE FetchFails(c) \/ SignFails(c) \/ SendRejected(c) \/ SendLost(c) \/ PollFails(c) \/ Timeout(c)
  BY <1>2, ThrowEffect, ThrowToCallerEffect
  DEF FetchFails, SignFails, SendRejected, SendLost, PollFails, Timeout, Goto, Core, TypeOK
<1>3. CASE PollAnswered(c) \/ SearchMissed(c) \/ EventsRead(c) \/ SendAccepted(c)
  BY <1>3 DEF PollAnswered, SearchMissed, EventsRead, SendAccepted, Resolve, ThrowToCaller, Goto,
              Core, TypeOK
<1> QED
  BY <1>1, <1>2, <1>3 DEF Run

\* A call of another account, or one that is not running, is not disturbed.
LEMMA CachedOther ==
    ASSUME Core, NEW c \in Calls, OthersStay(c), NEW d \in Calls, d # c,
           CachedCall(d), SignedCall(d), ~Active(d) \/ Cached(d)' = Cached(d)
    PROVE  CachedCall(d)' /\ SignedCall(d)'
<1>1. /\ op'[d] = op[d] /\ pc'[d] = pc[d] /\ sent'[d] = sent[d]
      /\ fixed'[d] = fixed[d] /\ nonce'[d] = nonce[d]
  BY DEF OthersStay
<1>2. \A i \in 1..sent[d] : txNonce'[<<d, i>>] = txNonce[<<d, i>>]
  BY OwnTx DEF OthersStay
<1>3. CASE Active(d)
  BY <1>1, <1>2, <1>3 DEF CachedCall, SignedCall, Retrying, Source
<1>4. CASE ~Active(d)
  BY <1>1, <1>2, <1>4 DEF CachedCall, SignedCall, Retrying, Active
<1> QED BY <1>3, <1>4

LEMMA SignedRun ==
    ASSUME Core, NEW c \in Calls, SignedCall(c), Run(c)
    PROVE  SignedCall(c)'
<1> SUFFICES ASSUME op'[c] = "signed" PROVE SignedCall(c)'
  BY DEF SignedCall
<1>1. op[c] = "signed" /\ op' = op
  BY RunCache
<1>2. CASE Sign(c)
  BY <1>1, <1>2 DEF SignedCall, Sign, Goto, Core, TypeOK
<1>3. CASE UseFixed(c) \/ UseCached(c) \/ AskNonce(c) \/ NodeAnswers(c) \/ Fetched(c)
           \/ BackoffEnds(c) \/ AutoBackoffEnds(c)
  BY <1>1, <1>3 DEF SignedCall, UseFixed, UseCached, AskNonce, NodeAnswers, Fetched, BackoffEnds,
                    AutoBackoffEnds
<1>4. CASE PollGone(c) \/ SearchFound(c)
  BY <1>1, <1>4 DEF SignedCall, PollGone, SearchFound
<1>5. CASE FetchFails(c) \/ SignFails(c) \/ SendRejected(c) \/ SendLost(c) \/ PollFails(c) \/ Timeout(c)
  BY <1>1, <1>5, FailurePoints DEF SignedCall
<1>6. CASE PollAnswered(c) \/ SearchMissed(c) \/ EventsRead(c) \/ SendAccepted(c) \/ Fee(c)
  BY <1>1, <1>6, EndPoints DEF SignedCall
<1> QED
  BY <1>2, <1>3, <1>4, <1>5, <1>6 DEF Run

LEMMA CachedRun ==
    ASSUME Serial, Core, NEW c \in Calls, CachedCall(c), Run(c)
    PROVE  CachedCall(c)'
<1> SUFFICES ASSUME op'[c] \in {"submit", "noWait"} PROVE CachedCall(c)'
  BY DEF CachedCall
<1>1. op[c] \in {"submit", "noWait"} /\ op' = op /\ Signer[c] \in Accounts
  BY RunCache, NodeAssumption
<1>2. CASE Sign(c)
  <2> DEFINE t == <<c, sent[c] + 1>>
  <2>1. t \in Tx /\ sent[c] \in Nat
    BY <1>2, NodeAssumption DEF Sign, Core, TypeOK, Tx
  <2>2. /\ txNonce' = [txNonce EXCEPT ![t] = nonce[c]] /\ sent'[c] = sent[c] + 1 /\ pc'[c] = "send"
        /\ UNCHANGED <<fixed, nonce, nonceCache>>
    BY <1>2 DEF Sign, Goto, Core, TypeOK
  <2>3. txNonce'[t] = Source(c) /\ nonce[c] = Source(c) /\ Source(c) # None
    BY <1>1, <1>2, <2>1, <2>2, NodeAssumption
    DEF CachedCall, Sign, Core, TypeOK, NodeTypeOK, ConfirmedInv, CallInv
  <2>4. \A i \in 1..sent[c] : <<c, i>> # t /\ txNonce'[<<c, i>>] = txNonce[<<c, i>>]
    BY <2>1, <2>2, OwnTx DEF Core, TypeOK, NodeTypeOK
  <2>5. \A i \in 1..sent'[c] : txNonce'[<<c, i>>] = Source(c)
    BY <1>1, <1>2, <2>1, <2>2, <2>3, <2>4 DEF CachedCall, Retrying, Sign
  <2> QED
    BY <1>1, <1>2, <2>2, <2>3, <2>5 DEF CachedCall, Retrying, Sign, Source, Cached
<1>3. CASE UseFixed(c) \/ UseCached(c) \/ AskNonce(c) \/ NodeAnswers(c)
           \/ BackoffEnds(c) \/ AutoBackoffEnds(c) \/ PollGone(c) \/ SearchFound(c)
  <2>1. UNCHANGED <<sent, txNonce, nonceCache>>
    BY <1>3 DEF UseFixed, UseCached, AskNonce, NodeAnswers, BackoffEnds, AutoBackoffEnds,
                PollGone, SearchFound, nodeVars, svcVars
  <2>2. CASE NodeAnswers(c) \/ UseCached(c)
    BY <1>1, <2>1, <2>2 DEF CachedCall, Retrying, NodeAnswers, UseCached, Known, Source, Cached,
                            Goto, Core, TypeOK, Serial
  <2>a. CASE UseFixed(c)
    <3>1. /\ fixed' = fixed /\ fixed[c] # None /\ nonce'[c] = fixed[c]
          /\ pc[c] = "attempt" /\ pc'[c] \in {"sign", "gasFetch"}
      BY <2>a DEF UseFixed, Goto, Core, TypeOK
    <3>2. Source(c)' = Source(c) /\ nonce'[c] = Source(c)'
      BY <3>1 DEF Source
    <3> QED BY <1>1, <2>1, <3>1, <3>2 DEF CachedCall, Retrying
  <2>3. CASE AskNonce(c)
    <3>1. /\ pc[c] = "attempt" /\ fixed[c] = None /\ Cached(c) = None
          /\ pc'[c] = "fetch" /\ fixed' = fixed
      BY <1>1, <2>3 DEF CachedCall, AskNonce, Known, Goto, Core, TypeOK, Serial
    <3>2. sent[c] = 0
      BY <1>1, <3>1 DEF CachedCall, Retrying, Source, Core, TypeOK
    <3> QED BY <1>1, <2>1, <3>1, <3>2 DEF CachedCall, Retrying
  <2>4. CASE BackoffEnds(c) \/ AutoBackoffEnds(c) \/ PollGone(c) \/ SearchFound(c)
    BY <1>1, <2>1, <2>4
       DEF CachedCall, Retrying, BackoffEnds, AutoBackoffEnds, PollGone, SearchFound,
                            Source, Cached, Goto, Core, TypeOK
  <2> QED BY <1>3, <2>2, <2>a, <2>3, <2>4
<1>4. CASE Fetched(c)
  <2>1. \/ pc[c] = "fetch" /\ sent[c] = 0 /\ fixed[c] = None
        \/ pc[c] = "gasFetch" /\ fixed[c] # None
    BY <1>1, <1>4 DEF CachedCall, Fetched
  <2>2. /\ nonceCache' = [nonceCache EXCEPT ![Signer[c]] = answer[c]]
        /\ nonce'[c] = IF pc[c] = "fetch" THEN answer[c] ELSE nonce[c]
        /\ UNCHANGED <<sent, txNonce>> /\ fixed'[c] = fixed[c] /\ pc'[c] = "sign"
    BY <1>4, <2>1 DEF Fetched, Goto, Core, TypeOK, Serial, nodeVars
  <2>3. CASE pc[c] = "fetch"
    BY <1>1, <2>1, <2>2, <2>3 DEF CachedCall, Retrying, Source, Cached, Core, TypeOK
  <2>4. CASE pc[c] = "gasFetch"
    <3>1. Source(c)' = Source(c)
      BY <2>1, <2>2, <2>4 DEF Source
    <3> QED BY <1>1, <2>1, <2>2, <2>4, <3>1 DEF CachedCall, Retrying
  <2> QED BY <2>1, <2>3, <2>4
<1>5. CASE FetchFails(c) \/ SignFails(c) \/ SendRejected(c) \/ SendLost(c) \/ PollFails(c) \/ Timeout(c)
  BY <1>1, <1>5, FailurePoints DEF CachedCall, Retrying, Source, Cached
<1>6. CASE PollAnswered(c) \/ SearchMissed(c) \/ EventsRead(c) \/ SendAccepted(c) \/ Fee(c)
  BY <1>1, <1>6, EndPoints DEF CachedCall, Retrying, Source, Cached
<1> QED
  BY <1>2, <1>3, <1>4, <1>5, <1>6 DEF Run

LEMMA CacheNext == Serial /\ Core /\ CacheInv /\ [Next]_vars => CacheInv'
<1> SUFFICES ASSUME Serial, Core, CacheInv, [Next]_vars PROVE CacheInv'
  OBVIOUS
<1>1. ASSUME NEW c \in Calls, Run(c) PROVE CacheInv'
  <2>1. Active(c) /\ OthersStay(c)
    BY <1>1, RunCache, RunOthersStay
  <2>2. \A d, e \in Calls : Signer[d] = Signer[e] /\ Active(d)' /\ Active(e)' => d = e
    BY <2>1 DEF CacheInv, OthersStay, Active
  <2>a. \A d \in Calls : pc'[d] = "idle" => fixed'[d] = None
    BY <1>1, <2>1, RunStarted DEF CacheInv, OthersStay
  <2>3. ASSUME NEW d \in Calls PROVE CachedCall(d)' /\ SignedCall(d)'
    <3>1. CASE d = c
      BY <1>1, <3>1, CachedRun, SignedRun DEF CacheInv
    <3>2. CASE d # c
      <4>1. ~Active(d) \/ Cached(d)' = Cached(d)
        BY <1>1, <2>1, <3>2, RunCache, NodeAssumption DEF CacheInv, Cached
      <4> QED
        BY <2>1, <3>2, <4>1, CachedOther DEF CacheInv
    <3> QED BY <3>1, <3>2
  <2> QED
    BY <2>2, <2>a, <2>3 DEF CacheInv
<1>2. ASSUME NEW c \in Calls, Call(c) PROVE CacheInv'
  <2>1. /\ UNCHANGED <<sent, txNonce, nonceCache>> /\ pc[c] = "idle" /\ sent[c] = 0
        /\ \A d \in Calls : Signer[d] = Signer[c] => ~Active(d)
    BY <1>2 DEF Call, Start, StartSigned, StartRetry, MayStart, nodeVars, svcVars, Core,
       ConfirmedInv,
                CallInv, Serial
  <2>2. /\ \A d \in Calls \ {c} : /\ op'[d] = op[d] /\ pc'[d] = pc[d]
                                /\ nonce'[d] = nonce[d] /\ fixed'[d] = fixed[d]
        /\ pc'[c] # "idle"
        /\ op'[c] \in {"submit", "noWait"} => pc'[c] = "attempt" /\ op'[c] \in {"submit", "noWait"}
        /\ op'[c] = "signed" => pc'[c] = "sign"
    BY <1>2 DEF Call, Start, StartSigned, StartRetry, ThrowToCaller, Goto, Core, TypeOK
  <2>4. ASSUME NEW d \in Calls PROVE CachedCall(d)' /\ SignedCall(d)'
    <3>1. CASE d = c
      BY <2>1, <2>2, <3>1 DEF CachedCall, SignedCall, Retrying
    <3>2. CASE d # c
      BY <2>1, <2>2, <3>2 DEF CacheInv, CachedCall, SignedCall, Retrying, Source, Cached
    <3> QED BY <3>1, <3>2
  <2>5. \A d, e \in Calls : Signer[d] = Signer[e] /\ Active(d)' /\ Active(e)' => d = e
    BY <2>1, <2>2 DEF CacheInv, Active
  <2>6. \A d \in Calls : pc'[d] = "idle" => fixed'[d] = None
    BY <2>1, <2>2 DEF CacheInv
  <2> QED
    BY <2>4, <2>5, <2>6 DEF CacheInv
<1>3. CASE UNCHANGED <<callVars, txNonce, nonceCache>>
  BY <1>3 DEF callVars, CacheInv, CachedCall, SignedCall, Retrying, Source, Cached, Active
<1>4. ~Clear
  BY DEF Clear, Serial, Core, TypeOK
<1> QED
  BY <1>1, <1>2, <1>3, <1>4 DEF Next, AllDone, NodeActs, NodeStep, Include, Retract, Finalize, Drop,
     Elsewhere, Notify, NotifyInBlock, NotifyFinalized, vars, nodeVars, svcVars

---------------------------------------------------------------------------
(* ClearedInv: a call that returned a result left no entry.                *)

\* Every step but Fee: a call has no result before it resolves, and one that
\* throws ends with an error or goes on without a result.
LEMMA RunResult ==
    ASSUME Core, ClearedInv, NEW c \in Calls, Run(c), ~Fee(c)
    PROVE  /\ \A d \in Calls \ {c} : result'[d] = result[d]
           /\ result'[c] # "none" => pc'[c] \in {"fee", "done"}
           /\ pc'[c] = "done" => result'[c] \in {"none", "error"}
<1>1. result[c] = "none" \/ pc[c] = "fee"
  BY RunCache DEF ClearedInv, ClearedCall, Active
<1>2. pc[c] # "fee"
  BY DEF Run, UseFixed, UseCached, AskNonce, NodeAnswers, Fetched, FetchFails, Sign, SignFails,
         SendAccepted, SendRejected, SendLost, PollGone, PollAnswered, SearchFound, SearchMissed,
         EventsRead, PollFails, Timeout, BackoffEnds, AutoBackoffEnds
<1>3. CASE UseFixed(c) \/ UseCached(c) \/ AskNonce(c) \/ NodeAnswers(c) \/ Fetched(c) \/ Sign(c)
           \/ BackoffEnds(c) \/ AutoBackoffEnds(c) \/ PollGone(c) \/ SearchFound(c)
  <2>1. result' = result
    BY <1>3 DEF UseFixed, UseCached, AskNonce, NodeAnswers, Fetched, Sign, BackoffEnds,
                AutoBackoffEnds, PollGone, SearchFound
  <2> QED BY <1>1, <1>2, <2>1
<1>4. CASE FetchFails(c) \/ SignFails(c) \/ SendRejected(c) \/ SendLost(c) \/ PollFails(c) \/ Timeout(c)
  <2>1. CASE pc[c] = "gasFetch" /\ FetchFails(c)
    BY <1>1, <1>2, <2>1 DEF FetchFails, Goto, Core, TypeOK
  <2>2. CASE ~(pc[c] = "gasFetch" /\ FetchFails(c))
    <3>1. \E r \in BOOLEAN : Throw(c, r) \/ ThrowToCaller(c, r)
      BY <1>4, <2>2 DEF FetchFails, SignFails, SendRejected, SendLost, PollFails, Timeout
    <3>2. /\ \A d \in Calls \ {c} : result'[d] = result[d]
          /\ (pc'[c] = "done" /\ result'[c] = "error") \/ result'[c] = result[c]
      BY <3>1 DEF Throw, ThrowToCaller, Goto, Core, TypeOK
    <3> QED BY <1>1, <1>2, <3>2
  <2> QED BY <2>1, <2>2
<1>5. CASE PollAnswered(c) \/ SearchMissed(c) \/ EventsRead(c) \/ SendAccepted(c)
  <2>1. \/ UNCHANGED result
        \/ ThrowToCaller(c, FALSE)
        \/ Goto(c, "fee") /\ \A d \in Calls \ {c} : result'[d] = result[d]
    BY <1>5 DEF PollAnswered, SearchMissed, EventsRead, SendAccepted, Resolve, Core, TypeOK
  <2> QED BY <1>1, <1>2, <2>1 DEF ThrowToCaller, Goto, Core, TypeOK
<1> QED BY <1>3, <1>4, <1>5 DEF Run

\* A step of a call writes no other call's result.
LEMMA ResultsOfOthers ==
    ASSUME Core, ClearedInv, NEW c \in Calls, Run(c), NEW d \in Calls, d # c
    PROVE  result'[d] = result[d]
<1>1. CASE Fee(c)
  BY <1>1 DEF Fee, Core, TypeOK
<1> QED BY <1>1, RunResult

\* An entry that is gone comes back only when its call signs the transaction.
LEMMA EntriesStayGone ==
    ASSUME Core, [Next]_vars, NEW t \in Tx, pending[t] = "absent", ~Sign(t[1])
    PROVE  pending'[t] = "absent"
<1>1. ASSUME NEW c \in Calls, Run(c) PROVE pending'[t] = "absent"
  <2>1. CASE Sign(c)
    <3>1. c # t[1] /\ <<c, sent[c] + 1>>[1] = c
      BY <2>1
    <3> QED BY <2>1, <3>1 DEF Sign, Core, TypeOK
  <2>2. CASE ~Sign(c)
    BY <1>1, <2>2 DEF Run, UseFixed, UseCached, AskNonce, NodeAnswers, Fetched, FetchFails,
       SignFails,
         SendAccepted, SendRejected, SendLost, PollGone, PollAnswered, SearchFound, SearchMissed,
         EventsRead, PollFails, Timeout, Fee, BackoffEnds, AutoBackoffEnds, SetEntry, svcVars,
         Core, TypeOK
  <2> QED BY <2>1, <2>2
<1>2. ASSUME NEW c \in Calls, Call(c) PROVE pending'[t] = "absent"
  BY <1>2 DEF Call, Start, StartSigned, StartRetry, svcVars
<1>3. ASSUME NEW u \in Tx, NodeActs(u) \/ Notify(u) PROVE pending'[t] = "absent"
  BY <1>3 DEF NodeActs, Notify, NotifyInBlock, NotifyFinalized, SetEntry, svcVars, Core, TypeOK
<1>4. CASE Clear \/ UNCHANGED vars \/ \E a \in Accounts : Elsewhere(a)
  BY <1>4 DEF Clear, Elsewhere, vars, svcVars
<1> QED BY <1>1, <1>2, <1>3, <1>4 DEF Next, AllDone

LEMMA ClearedNext == Core /\ ClearedInv /\ [Next]_vars => ClearedInv'
<1> SUFFICES ASSUME Core, ClearedInv, [Next]_vars, NEW d \in Calls PROVE ClearedCall(d)'
  BY DEF ClearedInv
<1>1. ClearedCall(d)
  BY DEF ClearedInv
<1>2. ASSUME pc[d] = "done", UNCHANGED <<sent[d], pc[d], result[d]>>, ~Sign(d)
      PROVE  ClearedCall(d)'
  <2>1. ASSUME sent[d] > 0, pending[Current(d)] = "absent"
        PROVE  pending'[Current(d)] = "absent"
    BY <1>2, <2>1, CurrentTx, EntriesStayGone DEF Core
  <2> QED BY <1>1, <1>2, <2>1 DEF ClearedCall, Current
<1>3. ASSUME NEW c \in Calls, Run(c) PROVE ClearedCall(d)'
  <2>1. CASE d # c
    <3>1. UNCHANGED <<pc[d], sent[d]>>
      BY <1>3, <2>1, RunOthersStay DEF OthersStay
    <3>2. UNCHANGED result[d]
      BY <1>3, <2>1, ResultsOfOthers
    <3>3. ~(pc[d] = "done" /\ Sign(d))
      BY DEF Sign
    <3> QED BY <1>1, <1>2, <3>1, <3>2, <3>3 DEF ClearedCall
  <2>2. CASE d = c /\ Fee(c)
    <3>1. sent[c] > 0 /\ Current(c) \in Tx
      BY <2>2, CurrentTx DEF Fee, Core, ConfirmedInv, CallInv
    <3>2. pending'[Current(c)] = "absent" /\ sent' = sent
      BY <2>2, <3>1 DEF Fee, Core, TypeOK
    <3>3. result'[c] # "none" => pc'[c] \in {"fee", "done"}
      BY <2>2, <1>1 DEF Fee, Goto, Core, TypeOK
    <3> QED BY <2>2, <3>1, <3>2, <3>3 DEF ClearedCall, Current
  <2>3. CASE d = c /\ ~Fee(c)
    BY <1>3, <2>3, RunResult DEF ClearedCall
  <2> QED BY <2>1, <2>2, <2>3
<1>4. ASSUME NEW c \in Calls, Call(c) PROVE ClearedCall(d)'
  <2>1. /\ pc[c] = "idle" /\ sent' = sent
        /\ \A e \in Calls \ {c} : UNCHANGED <<pc[e], result[e]>>
        /\ \/ pc'[c] # "done" /\ result' = result
           \/ pc'[c] = "done" /\ result'[c] = "error"
    BY <1>4 DEF Call, Start, StartSigned, StartRetry, MayStart, ThrowToCaller, Goto, Core, TypeOK
  <2>2. CASE d # c
    <3>1. ~(pc[d] = "done" /\ Sign(d))
      BY DEF Sign
    <3> QED BY <1>1, <1>2, <2>1, <2>2, <3>1 DEF ClearedCall
  <2>3. CASE d = c
    BY <1>1, <2>1, <2>3 DEF ClearedCall
  <2> QED BY <2>2, <2>3
<1>5. CASE UNCHANGED callVars
  <2>1. ~(pc[d] = "done" /\ Sign(d))
    BY DEF Sign
  <2> QED BY <1>1, <1>2, <1>5, <2>1 DEF ClearedCall, callVars
<1> QED
  BY <1>3, <1>4, <1>5 DEF Next, AllDone, NodeActs, Elsewhere, Notify, NotifyInBlock,
     NotifyFinalized, Clear, vars

---------------------------------------------------------------------------
(* The theorems on executing once and on the map's entries.                *)

LEMMA InitOnce == Init => NonceInv /\ FixedInv /\ CacheInv
<1> SUFFICES ASSUME Init PROVE NonceInv /\ FixedInv /\ CacheInv
  OBVIOUS
<1>1. NonceInv
  BY DEF Init, NodeInit, NonceInv, OnChain
<1>2. FixedInv
  BY DEF Init, FixedInv, FixedCall
<1>3. CacheInv
  BY DEF Init, CacheInv, CachedCall, SignedCall, Retrying, Active
<1> QED BY <1>1, <1>2, <1>3

\* Transactions of one call that carry the same nonce are executed once.
LEMMA SameNonceOnce ==
    ASSUME Core, NonceInv, NEW c \in Calls,
           \A i, j \in 1..sent[c] : txNonce[<<c, i>>] = txNonce[<<c, j>>],
           NEW i \in 1..TxBound, NEW j \in 1..TxBound, OnChain(<<c, i>>), OnChain(<<c, j>>)
    PROVE  i = j
<1>1. <<c, i>> \in Tx /\ <<c, j>> \in Tx /\ Owner(<<c, i>>) = Owner(<<c, j>>)
  BY DEF Tx, Owner
<1>2. i \in 1..sent[c] /\ j \in 1..sent[c]
  BY <1>1, NodeAssumption DEF Core, TypeOK, ConfirmedInv, TxInv, OnChain
<1>3. txNonce[<<c, i>>] = txNonce[<<c, j>>]
  BY <1>2
<1>4. <<c, i>> = <<c, j>>
  BY <1>1, <1>3 DEF NonceInv
<1> QED BY <1>4

\* Inside one retryTransaction at most one attempt is executed, whatever other
\* calls of the account do and however often the maps are cleared.
THEOREM RetryExecutesOnce == Spec => []RetryAtMostOnce
<1>1. Core /\ NonceInv /\ FixedInv => RetryAtMostOnce
  BY SameNonceOnce DEF RetryAtMostOnce, FixedInv, FixedCall
<1> QED
  BY <1>1, InitCore, NextCore, InitOnce, NonceNext, FixedNext, PTL DEF Spec

\* With nonce management on, callers that wait for one call of an account before
\* the next, and no clearing of the cache, a submitTransaction that times out,
\* loses its connection and retries still executes at most once.
THEOREM SubmitExecutesOnce == Serial => (Spec => []AtMostOnce)
<1> SUFFICES ASSUME Serial PROVE Spec => []AtMostOnce
  OBVIOUS
<1>1. Core /\ NonceInv /\ FixedInv /\ CacheInv => AtMostOnce
  <2> SUFFICES ASSUME Core, NonceInv, FixedInv, CacheInv, NEW c \in Calls, op[c] # "auto",
                      NEW i \in 1..TxBound, NEW j \in 1..TxBound,
                      OnChain(<<c, i>>), OnChain(<<c, j>>)
               PROVE  i = j
    BY DEF AtMostOnce
  <2>1. \A k, l \in 1..sent[c] : txNonce[<<c, k>>] = txNonce[<<c, l>>]
    <3>1. CASE op[c] = "retry"
      BY <3>1 DEF FixedInv, FixedCall
    <3>2. CASE op[c] \in {"submit", "noWait"}
      BY <3>2 DEF CacheInv, CachedCall
    <3>3. CASE op[c] = "signed"
      <4>1. sent[c] \in 0..1
        BY <3>3 DEF CacheInv, SignedCall, Core, TypeOK
      <4> QED BY <4>1
    <3> QED BY <3>1, <3>2, <3>3 DEF Core, TypeOK
  <2> QED BY <2>1, SameNonceOnce
<1> QED
  BY <1>1, InitCore, NextCore, InitOnce, NonceNext, FixedNext, CacheNext, PTL DEF Spec

\* Whatever overlaps, times out, is cleared or arrives late: a call that returned
\* a result left no entry in pendingTransactions, and no event puts one back.
THEOREM ResultsAreCleared == Spec => []ResultClearsEntry
<1>1. Init => ClearedInv
  BY DEF Init, ClearedInv, ClearedCall
<1>2. ClearedInv => ResultClearsEntry
  BY DEF ClearedInv, ClearedCall, ResultClearsEntry
<1> QED
  BY <1>1, <1>2, InitCore, NextCore, ClearedNext, PTL DEF Spec

---------------------------------------------------------------------------
(* SignsInv: how often a call signs.                                       *)

LEMMA Rounds ==
    ASSUME NEW m \in Nat, NEW u \in Nat
    PROVE  /\ (u + 1) * (m + 1) = u * (m + 1) + (m + 1)
           /\ u <= m => u * (m + 1) + m < (m + 1) * (m + 1)
           /\ u * (m + 1) \in Nat
<1>1. (u + 1) * (m + 1) = u * (m + 1) + (m + 1)
  BY SMT
<1>2. u * (m + 1) \in Nat
  BY SMT
<1>3. ASSUME u <= m PROVE u * (m + 1) + m < (m + 1) * (m + 1)
  <2>1. (m + 1) * (m + 1) - u * (m + 1) = (m + 1 - u) * (m + 1)
    BY SMT
  <2>2. (m + 1 - u) * (m + 1) = (m - u) * (m + 1) + (m + 1)
    BY SMT
  <2>3. (m - u) * (m + 1) >= 0
    BY <1>3, SMT
  <2> QED BY <1>2, <2>1, <2>2, <2>3, SMT
<1> QED BY <1>1, <1>2, <1>3

\* Only the end of a backoff takes a call back to before its signing.
LEMMA SigningPoints ==
    ASSUME Core, NEW c \in Calls, Run(c), ~BackoffEnds(c), ~AutoBackoffEnds(c)
    PROVE  /\ UNCHANGED <<op, attempt, auto>>
           /\ PastSigning(c) => PastSigning(c)'
           /\ pc'[c] = "autoBackoff" => op[c] = "auto"
<1>1. UNCHANGED <<op, attempt, auto>>
  BY DEF Run, UseFixed, UseCached, AskNonce, NodeAnswers, Fetched, FetchFails, Sign, SignFails,
         SendAccepted, SendRejected, SendLost, PollGone, PollAnswered, SearchFound, SearchMissed,
         EventsRead, PollFails, Timeout, Fee
<1>2. CASE UseFixed(c) \/ UseCached(c) \/ AskNonce(c) \/ NodeAnswers(c) \/ Fetched(c) \/ Sign(c)
           \/ FetchFails(c) \/ SignFails(c)
  <2>1. pc[c] \in {"attempt", "renew", "fetch", "refetch", "gasFetch", "sign"}
    BY <1>2 DEF UseFixed, UseCached, AskNonce, NodeAnswers, Fetched, Sign, FetchFails, SignFails
  <2>2. pc'[c] = "autoBackoff" => op[c] = "auto"
    BY <1>2, ThrowEffect, ThrowToCallerEffect
    DEF UseFixed, UseCached, AskNonce, NodeAnswers, Fetched, Sign, FetchFails, SignFails, Goto,
        Core, TypeOK
  <2> QED BY <1>1, <2>1, <2>2 DEF PastSigning
<1>3. CASE SendRejected(c) \/ SendLost(c) \/ PollFails(c) \/ Timeout(c)
  <2>1. \E r \in BOOLEAN : Throw(c, r)
    BY <1>3 DEF SendRejected, SendLost, PollFails, Timeout
  <2> QED BY <1>1, <2>1, ThrowEffect DEF PastSigning, Core
<1>4. CASE PollAnswered(c) \/ SearchMissed(c) \/ EventsRead(c) \/ SendAccepted(c) \/ PollGone(c)
           \/ SearchFound(c) \/ Fee(c)
  BY <1>1, <1>4 DEF PollAnswered, SearchMissed, EventsRead, SendAccepted, PollGone, SearchFound,
                    Fee, Resolve, ThrowToCaller, Goto, PastSigning, Core, TypeOK
<1> QED BY <1>2, <1>3, <1>4 DEF Run

LEMMA SignsRun ==
    ASSUME Core, NEW c \in Calls, SignsCounted(c), Run(c)
    PROVE  SignsCounted(c)'
<1> DEFINE b == auto[c] * (MaxRetries + 1)
           One(P) == IF P THEN 1 ELSE 0
<1>1. /\ MaxRetries \in Nat /\ sent[c] \in Nat /\ attempt[c] \in 0..MaxRetries
      /\ b \in Nat /\ op' = op /\ pc'[c] # "idle"
  BY NodeAssumption, TxAssumption, Rounds, RunCache, RunStarted DEF Core, TypeOK
<1>2. /\ op[c] # "auto" => auto[c] = 0
      /\ op[c] # "signed" => sent[c] <= b + attempt[c] + One(PastSigning(c))
  BY RunCache DEF SignsCounted, Active, SignedSoFar
<1>3. ASSUME auto'[c] = auto[c]
      PROVE  SignedSoFar(c)' = b + attempt'[c] + One(PastSigning(c)')
  BY <1>3 DEF SignedSoFar
<1>4. CASE BackoffEnds(c)
  <2>1. /\ sent' = sent /\ auto'[c] = auto[c] /\ attempt'[c] = attempt[c] + 1
        /\ PastSigning(c) /\ ~PastSigning(c)' /\ pc'[c] = "attempt"
    BY <1>4 DEF BackoffEnds, Goto, PastSigning, Core, TypeOK
  <2>2. SignedSoFar(c)' = b + attempt[c] + 1
    BY <1>1, <1>3, <2>1
  <2> HIDE DEF b
  <2> QED BY <1>1, <1>2, <2>1, <2>2 DEF SignsCounted
<1>5. CASE AutoBackoffEnds(c)
  <2>1. /\ sent' = sent /\ auto'[c] = auto[c] + 1 /\ attempt'[c] = 0
        /\ PastSigning(c) /\ ~PastSigning(c)' /\ op[c] = "auto" /\ pc'[c] = "renew"
    BY <1>5 DEF AutoBackoffEnds, Goto, PastSigning, SignsCounted, Core, TypeOK
  <2>2. auto'[c] * (MaxRetries + 1) = b + (MaxRetries + 1)
    BY <1>1, <2>1, Rounds DEF Core, TypeOK
  <2>3. SignedSoFar(c)' = b + (MaxRetries + 1)
    <3>1. SignedSoFar(c)' = auto'[c] * (MaxRetries + 1) + 0 + 0
      BY <2>1 DEF SignedSoFar
    <3> HIDE DEF b
    <3> QED BY <1>1, <2>2, <3>1
  <2> HIDE DEF b
  <2> QED BY <1>1, <1>2, <2>1, <2>3 DEF SignsCounted
<1>6. CASE Sign(c)
  <2>1. /\ sent'[c] = sent[c] + 1 /\ auto'[c] = auto[c] /\ attempt'[c] = attempt[c]
        /\ ~PastSigning(c) /\ PastSigning(c)' /\ pc'[c] = "send"
    BY <1>6 DEF Sign, Goto, PastSigning, Core, TypeOK
  <2>2. SignedSoFar(c)' = b + attempt[c] + 1
    BY <1>1, <1>3, <2>1
  <2> HIDE DEF b
  <2> QED BY <1>1, <1>2, <2>1, <2>2 DEF SignsCounted
<1>7. CASE ~BackoffEnds(c) /\ ~AutoBackoffEnds(c) /\ ~Sign(c)
  <2>1. /\ auto'[c] = auto[c] /\ attempt'[c] = attempt[c]
        /\ PastSigning(c) => PastSigning(c)'
        /\ pc'[c] = "autoBackoff" => op[c] = "auto"
    BY <1>7, SigningPoints
  <2>2. UNCHANGED sent
    BY <1>7 DEF Run, UseFixed, UseCached, AskNonce, NodeAnswers, Fetched, FetchFails, SignFails,
         SendAccepted, SendRejected, SendLost, PollGone, PollAnswered, SearchFound, SearchMissed,
         EventsRead, PollFails, Timeout, Fee
  <2>3. SignedSoFar(c)' = b + attempt[c] + One(PastSigning(c)')
    BY <1>1, <1>3, <2>1
  <2> HIDE DEF b
  <2> QED BY <1>1, <1>2, <2>1, <2>2, <2>3 DEF SignsCounted
<1> QED BY <1>4, <1>5, <1>6, <1>7

LEMMA SignsNext == Core /\ SignsInv /\ [Next]_vars => SignsInv'
<1> SUFFICES ASSUME Core, SignsInv, [Next]_vars, NEW d \in Calls
             PROVE  SignsCounted(d)' /\ SignedCall(d)'
  BY DEF SignsInv
<1>1. SignsCounted(d) /\ SignedCall(d)
  BY DEF SignsInv
<1>2. ASSUME UNCHANGED <<pc[d], op[d], sent[d], attempt[d], auto[d]>>
      PROVE  SignsCounted(d)' /\ SignedCall(d)'
  BY <1>1, <1>2 DEF SignsCounted, SignedSoFar, PastSigning, SignedCall
<1>3. ASSUME NEW c \in Calls, Run(c) PROVE SignsCounted(d)' /\ SignedCall(d)'
  <2>1. CASE d = c
    BY <1>1, <1>3, <2>1, SignsRun, SignedRun
  <2>2. CASE d # c
    <3>1. UNCHANGED <<pc[d], op[d], sent[d]>>
      BY <1>3, <2>2, RunOthersStay DEF OthersStay
    <3>2. UNCHANGED <<attempt[d], auto[d]>>
      <4>1. CASE BackoffEnds(c) \/ AutoBackoffEnds(c)
        BY <2>2, <4>1 DEF BackoffEnds, AutoBackoffEnds, Core, TypeOK
      <4>2. CASE ~BackoffEnds(c) /\ ~AutoBackoffEnds(c)
        BY <1>3, <4>2, SigningPoints
      <4> QED BY <4>1, <4>2
    <3> QED BY <1>2, <3>1, <3>2
  <2> QED BY <2>1, <2>2
<1>4. ASSUME NEW c \in Calls, Call(c) PROVE SignsCounted(d)' /\ SignedCall(d)'
  <2>1. /\ pc[c] = "idle" /\ sent[c] = 0 /\ auto[c] = 0
        /\ UNCHANGED <<sent, attempt, auto>>
        /\ \A e \in Calls \ {c} : UNCHANGED <<pc[e], op[e]>>
    BY <1>1, <1>4 DEF Call, Start, StartSigned, StartRetry, MayStart, ThrowToCaller, Goto,
                      SignsInv, SignsCounted, Core, TypeOK, ConfirmedInv, CallInv
  <2>2. CASE d # c
    BY <1>2, <2>1, <2>2
  <2>3. CASE d = c
    <3>1. /\ op'[c] = "signed" => pc'[c] = "sign"
          /\ pc'[c] # "autoBackoff"
      BY <1>4 DEF Call, Start, StartSigned, StartRetry, ThrowToCaller, Goto, Core, TypeOK
    <3>2. SignedSoFar(c)' >= 0
      <4>1. SignedSoFar(c)' = 0 * (MaxRetries + 1) + attempt[c] + IF PastSigning(c)' THEN 1 ELSE 0
        BY <2>1 DEF SignedSoFar
      <4>2. 0 * (MaxRetries + 1) = 0
        BY TxAssumption
      <4> QED BY <4>1, <4>2 DEF Core, TypeOK
    <3> QED BY <2>1, <2>3, <3>1, <3>2 DEF SignsCounted, SignedCall
  <2> QED BY <2>2, <2>3
<1>5. CASE UNCHANGED callVars
  BY <1>2, <1>5 DEF callVars
<1> QED
  BY <1>3, <1>4, <1>5 DEF Next, AllDone, NodeActs, Elsewhere, Notify, NotifyInBlock,
     NotifyFinalized, Clear, vars

LEMMA LimitHolds ==
    ASSUME Core, SignsInv, NEW c \in Calls
    PROVE  /\ sent[c] <= KindLimit[KindOf(c)]
           /\ pc[c] = "sign" => sent[c] < KindLimit[KindOf(c)]
<1>1. /\ MaxRetries \in Nat /\ sent[c] \in Nat /\ attempt[c] \in 0..MaxRetries
      /\ auto[c] \in 0..MaxRetries /\ SignsCounted(c) /\ SignedCall(c)
  BY NodeAssumption, TxAssumption DEF Core, TypeOK, SignsInv
<1>2. CASE op[c] = "signed"
  BY <1>1, <1>2 DEF SignedCall, KindLimit, KindOf
<1>3. CASE op[c] = "auto"
  <2> DEFINE b == auto[c] * (MaxRetries + 1)
             l == (MaxRetries + 1) * (MaxRetries + 1)
  <2>1. b \in Nat /\ b + MaxRetries < l /\ l \in Int
    BY <1>1, Rounds
  <2>2. KindLimit[KindOf(c)] = l
    BY <1>3 DEF KindLimit, KindOf
  <2>3. sent[c] <= b + attempt[c] + IF PastSigning(c) THEN 1 ELSE 0
    BY <1>1, <1>3 DEF SignsCounted, SignedSoFar
  <2> HIDE DEF b, l
  <2> QED BY <1>1, <2>1, <2>2, <2>3 DEF PastSigning
<1>4. CASE op[c] \notin {"signed", "auto"}
  <2>1. KindLimit[KindOf(c)] = MaxRetries + 1
    BY <1>4 DEF KindLimit, KindOf
  <2>2. 0 * (MaxRetries + 1) = 0
    BY <1>1
  <2>3. sent[c] <= attempt[c] + IF PastSigning(c) THEN 1 ELSE 0
    BY <1>1, <1>4, <2>2 DEF SignsCounted, SignedSoFar
  <2> QED BY <1>1, <2>1, <2>3 DEF PastSigning
<1> QED BY <1>2, <1>3, <1>4

LEMMA InitSigns == Init => SignsInv /\ FeeInv
<1> SUFFICES ASSUME Init PROVE SignsInv /\ FeeInv
  OBVIOUS
<1>1. 0 * (MaxRetries + 1) = 0
  BY TxAssumption
<1>2. ASSUME NEW c \in Calls PROVE SignedSoFar(c) = 0
  <2>1. auto[c] = 0 /\ attempt[c] = 0 /\ ~PastSigning(c)
    BY DEF Init, PastSigning
  <2>2. SignedSoFar(c) = 0 * (MaxRetries + 1) + 0 + 0
    BY <2>1 DEF SignedSoFar
  <2> QED BY <1>1, <2>2
<1> QED BY <1>2 DEF Init, SignsInv, SignsCounted, SignedCall, FeeInv

\* However the attempts of a call end, with whatever overlap, it signs no more
\* transactions than its retries allow: one for submitSignedTransaction,
\* maxRetries + 1 for a submission, and that many per attempt of
\* autoRetryTransaction.
THEOREM SigningIsBounded == Spec => []SignsWithinLimit
<1>1. Core /\ SignsInv => SignsWithinLimit
  BY LimitHolds DEF SignsWithinLimit
<1> QED
  BY <1>1, InitCore, NextCore, InitSigns, SignsNext, PTL DEF Spec

---------------------------------------------------------------------------
(* PastInv: the cache stays past the nonce of a success.                   *)

\* While callers are serial only a call that resolves, or that found the cache
\* empty, writes the cache: it never loses a nonce and never goes back.
LEMMA CacheMoves ==
    ASSUME Serial, Core, CacheInv, PastInv, NEW c \in Calls, Run(c), NEW a \in Accounts,
           nonceCache[a] # None
    PROVE  nonceCache'[a] \in {nonceCache[a], nonceCache[a] + 1}
<1>1. CASE Fetched(c)
  <2>1. Cached(c) = None
    BY <1>1 DEF PastInv, FetchingCall, CacheInv, SignedCall, Fetched
  <2> QED
    BY <1>1, <2>1, NodeAssumption DEF Fetched, Cached, Core, TypeOK
<1>2. CASE PollAnswered(c) \/ SearchMissed(c) \/ EventsRead(c) \/ SendAccepted(c)
  <2>1. \/ UNCHANGED nonceCache
        \/ nonceCache' = [nonceCache EXCEPT ![Signer[c]] = @ + 1]
    BY <1>2 DEF PollAnswered, SearchMissed, EventsRead, SendAccepted, Resolve
  <2> QED BY <2>1, NodeAssumption DEF Core, TypeOK
<1>3. CASE ~(Fetched(c) \/ PollAnswered(c) \/ SearchMissed(c) \/ EventsRead(c) \/ SendAccepted(c))
  BY <1>3 DEF Run, UseFixed, UseCached, AskNonce, NodeAnswers, FetchFails, Sign, SignFails,
         SendRejected, SendLost, PollGone, SearchFound,
         PollFails, Timeout, Fee, BackoffEnds, AutoBackoffEnds, svcVars
<1> QED BY <1>1, <1>2, <1>3

\* Only the end of autoRetryTransaction's backoff puts a call under getNonce.
LEMMA ManagedBefore ==
    ASSUME Core, NEW c \in Calls, Run(c), Managed(c)'
    PROVE  Managed(c) \/ AutoBackoffEnds(c)
<1>1. op' = op
  BY RunCache
<1>2. CASE BackoffEnds(c)
  BY <1>1, <1>2 DEF BackoffEnds, Managed
<1>3. CASE ~BackoffEnds(c) /\ ~AutoBackoffEnds(c)
  <2>1. UNCHANGED auto
    BY <1>3, SigningPoints
  <2>2. fixed'[c] = None => fixed[c] = None
    <3>1. CASE UseCached(c)
      BY <3>1 DEF UseCached, Core, TypeOK
    <3>2. CASE Fetched(c)
      BY <3>2 DEF Fetched, Core, TypeOK
    <3>3. CASE ~UseCached(c) /\ ~Fetched(c)
      BY <1>3, <3>3
      DEF Run, UseFixed, AskNonce, NodeAnswers, FetchFails, Sign, SignFails, SendAccepted,
          SendRejected, SendLost, PollGone, PollAnswered, SearchFound, SearchMissed, EventsRead,
          PollFails, Timeout, Fee
    <3> QED BY <3>1, <3>2, <3>3
  <2> QED BY <1>1, <2>1, <2>2 DEF Managed
<1> QED BY <1>2, <1>3

LEMMA FetchingRun ==
    ASSUME Serial, Core, NEW c \in Calls, FetchingCall(c), Run(c)
    PROVE  FetchingCall(c)'
<1> SUFFICES ASSUME op'[c] # "signed" PROVE FetchingCall(c)'
  BY DEF FetchingCall
<1>1. op[c] # "signed" /\ op' = op
  BY RunCache
<1>2. CASE UseFixed(c) \/ AskNonce(c) \/ NodeAnswers(c)
  BY <1>1, <1>2 DEF FetchingCall, UseFixed, AskNonce, NodeAnswers, Known, Cached, Serial, Goto,
     svcVars, Core, TypeOK
<1>3. CASE ~(UseFixed(c) \/ AskNonce(c) \/ NodeAnswers(c))
  <2>1. CASE UseCached(c) \/ Fetched(c) \/ Sign(c) \/ BackoffEnds(c) \/ AutoBackoffEnds(c)
             \/ PollGone(c) \/ SearchFound(c)
    BY <2>1 DEF FetchingCall, UseCached, Fetched, Sign, BackoffEnds, AutoBackoffEnds, PollGone,
                SearchFound, Goto, Core, TypeOK
  <2>2. CASE FetchFails(c)
    BY <2>2, ThrowEffect, ThrowToCallerEffect DEF FetchFails, FetchingCall, Goto, Core, TypeOK
  <2>3. CASE SignFails(c) \/ SendRejected(c) \/ SendLost(c) \/ PollFails(c) \/ Timeout(c)
    <3>1. PICK r \in BOOLEAN : Throw(c, r)
      BY <2>3 DEF SignFails, SendRejected, SendLost, PollFails, Timeout
    <3> QED BY <3>1, ThrowEffect DEF FetchingCall, Core
  <2>4. CASE PollAnswered(c) \/ SearchMissed(c) \/ EventsRead(c) \/ SendAccepted(c) \/ Fee(c)
    BY <2>4 DEF FetchingCall, PollAnswered, SearchMissed, EventsRead, SendAccepted, Fee, Resolve,
                ThrowToCaller, Goto, Core, TypeOK
  <2> QED BY <1>3, <2>1, <2>2, <2>3, <2>4 DEF Run
<1> QED BY <1>2, <1>3

\* The end of a wait moves the cache past the nonce of the transaction.
LEMMA ResolvePast ==
    ASSUME Serial, Core, ClearedInv, NEW c \in Calls, Run(c), op[c] # "signed",
           NEW st \in Statuses, Resolve(c, st), UNCHANGED <<op, sent, txNonce>>,
           pc[c] \in {"send", "wait"}, Cached(c) # None, txNonce[Current(c)] = Cached(c)
    PROVE  PastCall(c)'
<1>1. Cached(c)' = Cached(c) + 1 /\ Cached(c) \in Nat
  BY NodeAssumption DEF Resolve, Cached, Serial, Core, TypeOK
<1>2. pc'[c] \in {"fee", "autoBackoff", "done"}
  BY ResolveEffect DEF Core
<1>3. ~Fee(c)
  BY DEF Fee
<1>4. pc'[c] = "done" => result'[c] # "success"
  BY <1>3, RunResult
<1>5. txNonce'[Current(c)'] < Cached(c)'
  BY <1>1 DEF Current
<1> QED BY <1>1, <1>2, <1>4, <1>5, NodeAssumption DEF PastCall, Retrying

LEMMA PastRun ==
    ASSUME Serial, Core, ClearedInv, CacheInv, PastInv, NEW c \in Calls, Run(c)
    PROVE  PastCall(c)'
<1> SUFFICES ASSUME Managed(c)' PROVE PastCall(c)'
  BY DEF PastCall
<1>1. op[c] # "signed" /\ op' = op /\ Signer[c] \in Accounts /\ PastCall(c) /\ FetchingCall(c)
  BY RunCache, NodeAssumption DEF PastInv, Managed
<1>2. CASE AutoBackoffEnds(c)
  BY <1>2 DEF AutoBackoffEnds, PastCall, Retrying, Goto, Core, TypeOK
<1>3. CASE ~AutoBackoffEnds(c)
  <2>1. Managed(c)
    BY <1>3, ManagedBefore
  <2>2. CASE Sign(c) \/ BackoffEnds(c) \/ SearchFound(c) \/ PollGone(c) \/ NodeAnswers(c)
    <3>1. UNCHANGED <<fixed, nonce, nonceCache, result>>
      BY <2>2 DEF Sign, BackoffEnds, SearchFound, PollGone, NodeAnswers, svcVars
    <3>2. /\ Sign(c) => pc[c] = "sign" /\ pc'[c] = "send"
          /\ BackoffEnds(c) => pc[c] = "backoff" /\ pc'[c] = "attempt"
          /\ ~(Sign(c) \/ BackoffEnds(c))
                => UNCHANGED <<pc, sent, txNonce>> /\ pc[c] \notin {"fee", "done"}
      BY <2>2 DEF Sign, BackoffEnds, SearchFound, PollGone, NodeAnswers, Goto, nodeVars, Core,
                  TypeOK
    <3> QED BY <1>1, <2>1, <2>2, <3>1, <3>2 DEF PastCall, Retrying, Cached, Current
  <2>3. CASE UseFixed(c) \/ UseCached(c) \/ AskNonce(c)
    <3>1. UNCHANGED nonceCache
      BY <2>3 DEF UseFixed, UseCached, AskNonce, svcVars
    <3> QED
      BY <1>1, <2>1, <2>3, <3>1, NodeAssumption
      DEF PastCall, Retrying, Cached, Known, Serial, UseFixed, UseCached, AskNonce, Goto,
          Core, TypeOK
  <2>4. CASE Fetched(c)
    <3>1. \/ pc[c] = "fetch" /\ pc'[c] = "sign" /\ nonce'[c] = answer[c] /\ fixed'[c] = None
          \/ pc[c] = "refetch" /\ pc'[c] = "attempt" /\ fixed'[c] = answer[c]
      BY <1>1, <2>1, <2>4 DEF PastCall, FetchingCall, Fetched, Goto, Core, TypeOK
    <3>2. Cached(c)' = answer[c]
      BY <1>1, <2>4 DEF Fetched, Cached, Serial, Core, TypeOK
    <3> QED BY <1>1, <3>1, <3>2, NodeAssumption DEF PastCall, Retrying
  <2>5. CASE FetchFails(c) \/ SignFails(c) \/ SendRejected(c) \/ SendLost(c) \/ PollFails(c)
             \/ Timeout(c)
    <3>1. UNCHANGED <<fixed, nonceCache>> /\ ~Fee(c)
      BY <2>5 DEF FetchFails, SignFails, SendRejected, SendLost, PollFails, Timeout, Fee, svcVars
    <3>2. pc'[c] = "done" => result'[c] # "success"
      BY <3>1, RunResult
    <3>3. pc'[c] \in {"backoff", "autoBackoff", "done"} /\ (pc'[c] = "backoff" => Retrying(c))
      <4>1. CASE FetchFails(c)
        BY <1>1, <2>1, <4>1, ThrowEffect, ThrowToCallerEffect
        DEF FetchFails, PastCall, Retrying, Core
      <4>2. CASE ~FetchFails(c)
        <5>1. PICK r \in BOOLEAN : Throw(c, r)
          BY <2>5, <4>2 DEF SignFails, SendRejected, SendLost, PollFails, Timeout
        <5>2. Retrying(c)
          BY <2>5, <4>2 DEF SignFails, SendRejected, SendLost, PollFails, Timeout, Retrying
        <5> QED BY <5>1, <5>2, ThrowEffect DEF Core
      <4> QED BY <4>1, <4>2
    <3> QED BY <1>1, <2>1, <3>1, <3>2, <3>3 DEF PastCall, Retrying, Cached
  <2>6. CASE SendAccepted(c)
    <3>1. /\ Cached(c) # None /\ txNonce[Current(c)] = Cached(c)
          /\ pending[Current(c)] \in Statuses
      BY <1>1, <2>1, <2>6, CurrentTx, NodeAssumption
      DEF SendAccepted, PastCall, Core, TypeOK, ConfirmedInv, CallInv
    <3>2. UNCHANGED <<op, sent, txNonce>> /\ pc[c] = "send" /\ ~Fee(c)
      BY <2>6 DEF SendAccepted, Fee
    <3>3. CASE op[c] = "noWait"
      BY <1>1, <2>6, <3>1, <3>2, <3>3, ResolvePast DEF SendAccepted
    <3>4. CASE op[c] # "noWait"
      <4>1. UNCHANGED <<nonceCache, fixed>> /\ pc'[c] \in {"autoBackoff", "done", "wait"}
        BY <2>6, <3>4, ThrowToCallerEffect DEF SendAccepted, Goto, Core, TypeOK
      <4>2. pc'[c] = "done" => result'[c] # "success"
        BY <3>2, RunResult
      <4> QED BY <1>1, <2>1, <3>1, <3>2, <4>1, <4>2 DEF PastCall, Retrying, Cached, Current
    <3> QED BY <3>3, <3>4
  <2>7. CASE PollAnswered(c) \/ SearchMissed(c) \/ EventsRead(c)
    <3>1. /\ UNCHANGED <<op, sent, txNonce, fixed, nonce>> /\ pc[c] = "wait"
          /\ Cached(c) # None /\ txNonce[Current(c)] = Cached(c)
      BY <1>1, <2>1, <2>7 DEF PollAnswered, SearchMissed, EventsRead, nodeVars, PastCall
    <3>2. Current(c) \in Tx /\ pending[Current(c)] \in Statuses
      BY <3>1, CurrentTx DEF Core, TypeOK, ConfirmedInv, CallInv
    <3>3. CASE UNCHANGED <<nonceCache, pc>>
      BY <1>1, <2>1, <3>1, <3>3 DEF PastCall, Retrying, Cached, Current
    <3>4. CASE \E st \in Statuses : Resolve(c, st)
      BY <1>1, <3>1, <3>4, ResolvePast
    <3> QED
      BY <2>7, <3>2, <3>3, <3>4 DEF PollAnswered, SearchMissed, EventsRead, SetEntry, Statuses,
         Core, TypeOK
  <2>8. CASE Fee(c)
    <3>1. /\ UNCHANGED <<nonceCache, sent, txNonce>> /\ pc[c] = "fee"
          /\ pc'[c] \in {"autoBackoff", "done"}
          /\ result'[c] = "success" => result[c] = "success"
      BY <2>8 DEF Fee, Goto, nodeVars, Core, TypeOK
    <3> QED BY <1>1, <2>1, <3>1 DEF PastCall, Retrying, Cached, Current
  <2> QED BY <1>3, <2>2, <2>3, <2>4, <2>5, <2>6, <2>7, <2>8 DEF Run
<1> QED BY <1>2, <1>3

\* A step of a call counts no other call's rounds.
LEMMA AutoOfOthers ==
    ASSUME Core, NEW c \in Calls, Run(c), NEW d \in Calls, d # c
    PROVE  auto'[d] = auto[d]
<1>1. CASE BackoffEnds(c) \/ AutoBackoffEnds(c)
  BY <1>1 DEF BackoffEnds, AutoBackoffEnds, Core, TypeOK
<1>2. CASE ~BackoffEnds(c) /\ ~AutoBackoffEnds(c)
  BY <1>2, SigningPoints
<1> QED BY <1>1, <1>2

LEMMA PastNext ==
    Serial /\ Core /\ ClearedInv /\ CacheInv /\ SignsInv /\ PastInv /\ [Next]_vars => PastInv'
<1> SUFFICES ASSUME Serial, Core, ClearedInv, CacheInv, SignsInv, PastInv, [Next]_vars,
                    NEW d \in Calls
             PROVE  FetchingCall(d)' /\ PastCall(d)'
  BY DEF PastInv
<1>1. FetchingCall(d) /\ PastCall(d)
  BY DEF PastInv
<1>2. ASSUME NEW c \in Calls, Run(c) PROVE FetchingCall(d)' /\ PastCall(d)'
  <2>1. CASE d = c
    BY <1>1, <1>2, <2>1, PastRun, FetchingRun
  <2>2. CASE d # c
    <3>1. UNCHANGED <<op[d], pc[d], sent[d], fixed[d], nonce[d], result[d]>>
      BY <1>2, <2>2, RunOthersStay, ResultsOfOthers DEF OthersStay
    <3>2. sent[d] > 0 => txNonce'[Current(d)] = txNonce[Current(d)] /\ Current(d) \in Tx
      BY <1>2, <2>2, RunOthersStay, CurrentTx DEF OthersStay, Core
    <3>a. Managed(d)' = Managed(d)
      BY <1>2, <2>2, <3>1, AutoOfOthers DEF Managed
    <3>3. CASE Active(d)
      <4>1. Signer[d] # Signer[c] /\ Signer[d] \in Accounts
        BY <1>2, <2>2, <3>3, RunCache, NodeAssumption DEF CacheInv
      <4>2. Cached(d)' = Cached(d)
        BY <1>2, <4>1, RunCache DEF Cached
      <4>3. FetchingCall(d)'
        BY <1>1, <3>1, <4>2 DEF FetchingCall
      <4> QED
        BY <1>1, <3>1, <3>2, <3>a, <3>3, <4>2, <4>3
        DEF PastCall, Retrying, Current, Core, ConfirmedInv, CallInv
    <3>4. CASE ~Active(d)
      <4>1. CASE Managed(d) /\ pc[d] = "done" /\ result[d] = "success"
        <5>1. /\ Cached(d) \in Nat /\ txNonce[Current(d)] < Cached(d) /\ sent[d] > 0
              /\ Signer[d] \in Accounts /\ txNonce[Current(d)] \in Nat
          BY <1>1, <4>1, CurrentTx, NodeAssumption
          DEF PastCall, Cached, Core, TypeOK, NodeTypeOK, ConfirmedInv, CallInv, TxInv,
              SuccessIsFinal
        <5>2. Cached(d)' \in {Cached(d), Cached(d) + 1}
          BY <1>2, <5>1, CacheMoves, NodeAssumption DEF Cached
        <5>3. Cached(d)' # None /\ txNonce[Current(d)] < Cached(d)'
          BY <5>1, <5>2, NodeAssumption
        <5> QED BY <3>1, <3>2, <4>1, <5>1, <5>3 DEF FetchingCall, PastCall, Retrying, Current
      <4>2. CASE ~(Managed(d) /\ pc[d] = "done" /\ result[d] = "success")
        BY <3>1, <3>a, <3>4, <4>2 DEF FetchingCall, PastCall, Retrying, Active
      <4> QED BY <4>1, <4>2
    <3> QED BY <3>3, <3>4
  <2> QED BY <2>1, <2>2
<1>3. ASSUME NEW c \in Calls, Call(c) PROVE FetchingCall(d)' /\ PastCall(d)'
  <2>1. /\ pc[c] = "idle" /\ fixed[c] = None /\ auto[c] = 0
        /\ UNCHANGED <<sent, nonceCache, txNonce, auto>>
        /\ \A e \in Calls \ {c} :
              UNCHANGED <<op[e], pc[e], nonce[e], result[e], fixed[e]>>
        /\ \/ op'[c] = "signed"
           \/ pc'[c] = "attempt" /\ op'[c] # "retry"
           \/ pc'[c] = "renew"
           \/ pc'[c] = "done" /\ result'[c] = "error"
    BY <1>3 DEF Call, Start, StartSigned, StartRetry, MayStart, ThrowToCaller, Goto, CacheInv,
                SignsInv, SignsCounted, Core, TypeOK, nodeVars, svcVars
  <2>2. CASE d # c
    BY <1>1, <2>1, <2>2 DEF FetchingCall, PastCall, Managed, Retrying, Cached, Current
  <2>3. CASE d = c
    BY <2>1, <2>3 DEF FetchingCall, PastCall, Managed, Retrying, Cached
  <2> QED BY <2>2, <2>3
<1>4. CASE UNCHANGED <<callVars, txNonce, nonceCache>>
  BY <1>1, <1>4 DEF callVars, FetchingCall, PastCall, Managed, Retrying, Cached, Current
<1>5. ~Clear
  BY DEF Clear, Serial, Core, TypeOK
<1> QED
  BY <1>2, <1>3, <1>4, <1>5 DEF Next, AllDone, NodeActs, NodeStep, Include, Retract, Finalize, Drop,
     Elsewhere, Notify, NotifyInBlock, NotifyFinalized, vars, nodeVars, svcVars

\* With nonce management on, serial callers and no clearing: after a success with
\* a nonce of getNonce the cache holds one above it, through any later calls,
\* those with nonces of their callers included.
THEOREM CacheStaysPast == Serial => (Spec => []CachePastSuccess)
<1> SUFFICES ASSUME Serial PROVE Spec => []CachePastSuccess
  OBVIOUS
<1>1. Init => ClearedInv /\ PastInv
  BY DEF Init, ClearedInv, ClearedCall, PastInv, FetchingCall, PastCall, Retrying
<1>2. PastInv => CachePastSuccess
  BY DEF PastInv, PastCall, CachePastSuccess
<1> QED
  BY <1>1, <1>2, InitCore, NextCore, InitOnce, InitSigns, ClearedNext, CacheNext, SignsNext,
     PastNext, PTL DEF Spec

---------------------------------------------------------------------------
(* The service implements Submissions.                                     *)

\* A call that is not in its fee step ends with an error, and enters the fee
\* step with a result.
LEMMA RunReturns ==
    ASSUME Core, ClearedInv, NEW c \in Calls, Run(c), ~Fee(c)
    PROVE  /\ pc'[c] = "done" => result'[c] = "error"
           /\ pc'[c] = "fee" => result'[c] \in {"success", "unconfirmed"}
<1>1. pc[c] \notin {"fee", "done"}
  BY DEF Run, UseFixed, UseCached, AskNonce, NodeAnswers, Fetched, FetchFails, Sign, SignFails,
         SendAccepted, SendRejected, SendLost, PollGone, PollAnswered, SearchFound, SearchMissed,
         EventsRead, PollFails, Timeout, BackoffEnds, AutoBackoffEnds
<1>2. CASE UseFixed(c) \/ UseCached(c) \/ AskNonce(c) \/ NodeAnswers(c) \/ Fetched(c) \/ Sign(c)
           \/ BackoffEnds(c) \/ AutoBackoffEnds(c) \/ PollGone(c) \/ SearchFound(c)
  <2>1. pc'[c] \notin {"fee", "done"}
    BY <1>1, <1>2 DEF UseFixed, UseCached, AskNonce, NodeAnswers, Fetched, Sign, BackoffEnds,
                      AutoBackoffEnds, PollGone, SearchFound, Goto, Core, TypeOK
  <2> QED BY <2>1
<1>3. CASE FetchFails(c) \/ SignFails(c) \/ SendRejected(c) \/ SendLost(c) \/ PollFails(c) \/ Timeout(c)
  <2>1. \/ \E r \in BOOLEAN : Throw(c, r) \/ ThrowToCaller(c, r)
        \/ Goto(c, "sign")
    BY <1>3 DEF FetchFails, SignFails, SendRejected, SendLost, PollFails, Timeout
  <2> QED BY <1>1, <2>1 DEF Throw, ThrowToCaller, Goto, Core, TypeOK
<1>4. CASE PollAnswered(c) \/ SearchMissed(c) \/ EventsRead(c) \/ SendAccepted(c)
  BY <1>1, <1>4 DEF PollAnswered, SearchMissed, EventsRead, SendAccepted, Resolve, ThrowToCaller,
                    Goto, Core, TypeOK
<1> QED BY <1>2, <1>3, <1>4 DEF Run

LEMMA FeeNext == Core /\ ClearedInv /\ FeeInv /\ [Next]_vars => FeeInv'
<1> SUFFICES ASSUME Core, ClearedInv, FeeInv, [Next]_vars, NEW d \in Calls, pc'[d] = "fee"
             PROVE  result'[d] \in {"success", "unconfirmed"}
  BY DEF FeeInv
<1>1. ASSUME UNCHANGED <<pc[d], result[d]>> PROVE result'[d] \in {"success", "unconfirmed"}
  BY <1>1 DEF FeeInv
<1>2. ASSUME NEW c \in Calls, Run(c) PROVE result'[d] \in {"success", "unconfirmed"}
  <2>1. CASE d # c
    BY <1>1, <1>2, <2>1, RunOthersStay, ResultsOfOthers DEF OthersStay
  <2>2. CASE d = c /\ ~Fee(c)
    BY <1>2, <2>2, RunReturns
  <2>3. CASE d = c /\ Fee(c)
    BY <2>3 DEF Fee, Goto, Core, TypeOK
  <2> QED BY <2>1, <2>2, <2>3
<1>3. ASSUME NEW c \in Calls, Call(c) PROVE result'[d] \in {"success", "unconfirmed"}
  BY <1>1, <1>3 DEF Call, Start, StartSigned, StartRetry, MayStart, ThrowToCaller, Goto, Core,
                    TypeOK
<1>4. CASE UNCHANGED callVars
  BY <1>1, <1>4 DEF callVars
<1> QED
  BY <1>2, <1>3, <1>4 DEF Next, AllDone, NodeActs, Elsewhere, Notify, NotifyInBlock,
     NotifyFinalized, Clear, vars

LEMMA FeeReturns ==
    ASSUME Core, FeeInv, NEW c \in Calls, Fee(c)
    PROVE  /\ pc'[c] \in {"autoBackoff", "done"}
           /\ UNCHANGED <<op, sent, chain>>
           /\ \A d \in Calls \ {c} : UNCHANGED <<pc[d], result[d]>>
           /\ pc'[c] = "done" =>
                /\ result'[c] \in {"success", "unconfirmed", "error"}
                /\ result'[c] = "success" => chain[Current(c)] = "final"
                /\ result'[c] = "unconfirmed" => op[c] # "auto" /\ sent[c] > 0
<1>1. /\ UNCHANGED <<op, sent, chain>> /\ sent[c] > 0
      /\ result[c] \in {"success", "unconfirmed"}
      /\ result[c] = "success" => chain[Current(c)] = "final"
  BY DEF Fee, FeeInv, Core, TypeOK, ConfirmedInv, CallInv, SuccessIsFinal, nodeVars
<1>2. \A d \in Calls \ {c} : UNCHANGED <<pc[d], result[d]>>
  BY DEF Fee, Goto, Core, TypeOK
<1>3. \/ pc'[c] = "autoBackoff"
      \/ pc'[c] = "done" /\ result'[c] = "error"
      \/ pc'[c] = "done" /\ result'[c] = result[c] /\ ~(op[c] = "auto" /\ result[c] = "unconfirmed")
  BY DEF Fee, Goto, Core, TypeOK
<1> QED BY <1>1, <1>2, <1>3

\* What Submissions sees of the state.
State == [c \in Calls |-> Answer(c)]
Kind == [c \in Calls |-> KindOf(c)]
Best == {t \in Tx : chain[t] = "best"}
Final == {t \in Tx : chain[t] = "final"}
shown == <<State, Kind, sent, Best, Final>>

LEMMA SubmissionInitial == Init => Promise!SubmissionInit
<1> SUFFICES ASSUME Init PROVE Promise!SubmissionInit
  OBVIOUS
<1>1. \A c \in Calls : Answer(c) = "idle" /\ KindOf(c) = "retried"
  BY DEF Init, Answer, KindOf
<1>2. sent = [c \in Calls |-> 0] /\ \A t \in Tx : chain[t] = "none"
  BY DEF Init, NodeInit
<1> QED BY <1>1, <1>2 DEF Promise!SubmissionInit

\* A transaction that reaches, leaves or stays in the blocks.
LEMMA BlocksSame ==
    ASSUME \A t \in Tx : (chain[t] \in {"best", "final"} \/ chain'[t] \in {"best", "final"})
                            => chain'[t] = chain[t]
    PROVE  UNCHANGED <<Best, Final>>
  BY DEF Best, Final

LEMMA RunBlocks ==
    ASSUME Core, NEW c \in Calls, Run(c)
    PROVE  UNCHANGED <<Best, Final>>
<1>1. CASE UNCHANGED chain
  BY <1>1, BlocksSame
<1>2. CASE chain' = [chain EXCEPT ![Current(c)] = "pool"] /\ pc[c] = "send"
  <2>1. Current(c) \in Tx /\ chain[Current(c)] = "none"
    BY <1>2, CurrentTx DEF Core, ConfirmedInv, CallInv
  <2> QED BY <1>2, <2>1, BlocksSame DEF Core, TypeOK, NodeTypeOK
<1>3. CASE Sign(c)
  BY <1>1, <1>3 DEF Sign
<1> QED
  BY <1>1, <1>2, <1>3, RunKeepsNode DEF SendAccepted, SendLost, nodeVars

LEMMA ShownSame ==
    ASSUME UNCHANGED shown
    PROVE  UNCHANGED Promise!submissionVars
  BY DEF shown, State, Kind, Best, Final, Promise!submissionVars

\* A step of a call signs, returns, or shows nothing.
LEMMA SubmissionRun ==
    ASSUME Core, ClearedInv, FeeInv, SignsInv, NEW c \in Calls, Run(c)
    PROVE  Promise!SubmissionNext \/ UNCHANGED shown
<1>1. /\ UNCHANGED <<Best, Final>> /\ Kind' = Kind
      /\ Answer(c) = "open" /\ pc'[c] # "idle"
  BY RunBlocks, RunCache, RunStarted DEF Active, Answer, Kind, KindOf
<1>2. \A d \in Calls \ {c} : Answer(d)' = Answer(d)
  BY RunOthersStay, ResultsOfOthers DEF OthersStay, Answer
<1>3. CASE Sign(c)
  <2>1. /\ sent' = [sent EXCEPT ![c] = @ + 1]
        /\ Answer(c)' = "open"
        /\ sent[c] < KindLimit[KindOf(c)]
    BY <1>3, LimitHolds DEF Sign, Goto, Answer, Core, TypeOK
  <2>2. State' = State
    BY <1>1, <1>2, <2>1 DEF State
  <2>3. Promise!SignOne(c)
    BY <1>1, <2>1, <2>2 DEF Promise!SignOne, State, Kind, Best, Final
  <2> QED BY <2>3 DEF Promise!SubmissionNext
<1>4. CASE ~Sign(c)
  <2>1. sent' = sent
    BY <1>4 DEF Run, UseFixed, UseCached, AskNonce, NodeAnswers, Fetched, FetchFails, SignFails,
         SendAccepted, SendRejected, SendLost, PollGone, PollAnswered, SearchFound, SearchMissed,
         EventsRead, PollFails, Timeout, Fee, BackoffEnds, AutoBackoffEnds
  <2>2. CASE pc'[c] # "done"
    <3>1. Answer(c)' = "open"
      BY <1>1, <2>2 DEF Answer
    <3>2. State' = State
      BY <1>1, <1>2, <3>1 DEF State
    <3> QED BY <1>1, <2>1, <3>2 DEF shown
  <2>3. CASE pc'[c] = "done"
    <3> DEFINE r == result'[c]
    <3>1. /\ r \in {"success", "unconfirmed", "error"}
          /\ r = "success" => chain[Current(c)] = "final" /\ sent[c] > 0
          /\ r = "unconfirmed" => op[c] # "auto" /\ sent[c] > 0
      <4>1. CASE Fee(c)
        BY <2>3, <4>1, FeeReturns DEF Fee, Core, ConfirmedInv, CallInv
      <4>2. CASE ~Fee(c)
        BY <2>3, <4>2, RunReturns
      <4> QED BY <4>1, <4>2
    <3>2. State' = [State EXCEPT ![c] = r]
      <4>1. Answer(c)' = r
        BY <1>1, <2>3 DEF Answer
      <4> QED BY <1>2, <4>1 DEF State
    <3>3. r = "success" => <<c, sent[c]>> \in Final
      BY <3>1, CurrentTx DEF Final, Current, Core
    <3>4. r = "unconfirmed" => Kind[c] # "many"
      BY <3>1 DEF Kind, KindOf
    <3> HIDE DEF r
    <3>5. Promise!Return(c, r)
      BY <1>1, <2>1, <3>1, <3>2, <3>3, <3>4 DEF Promise!Return, State, Kind, Best, Final
    <3> QED BY <3>1, <3>5 DEF Promise!SubmissionNext
  <2> QED BY <2>2, <2>3
<1> QED BY <1>3, <1>4

LEMMA SubmissionCall ==
    ASSUME Core, NEW c \in Calls, Call(c)
    PROVE  Promise!SubmissionNext
<1>1. /\ UNCHANGED <<sent, chain>> /\ Answer(c) = "idle"
      /\ \A d \in Calls \ {c} : UNCHANGED <<op[d], pc[d], result[d]>>
      /\ pc'[c] \notin {"idle", "done"} \/ (pc'[c] = "done" /\ result'[c] = "error")
  BY DEF Call, Start, StartSigned, StartRetry, MayStart, ThrowToCaller, Goto, Answer, nodeVars,
         Core, TypeOK
<1>2. Answer(c)' \in {"open", "error"} /\ \A d \in Calls \ {c} : Answer(d)' = Answer(d)
  BY <1>1 DEF Answer
<1>3. State' = [State EXCEPT ![c] = Answer(c)']
  BY <1>2 DEF State
<1>4. KindOf(c)' \in {"once", "retried", "many"} /\ Kind' = [Kind EXCEPT ![c] = KindOf(c)']
  BY <1>1 DEF KindOf, Kind
<1>5. UNCHANGED <<Best, Final>> /\ State[c] = "idle"
  BY <1>1 DEF Best, Final, State
<1>6. Promise!Begin(c)
  BY <1>1, <1>2, <1>3, <1>4, <1>5 DEF Promise!Begin, State, Kind, Best, Final
<1> QED BY <1>6 DEF Promise!SubmissionNext

\* The node includes, retracts or finalizes a transaction a call has signed.
LEMMA SubmissionNode ==
    ASSUME Core, AtMostOnce', NEW t \in Tx, NodeActs(t)
    PROVE  Promise!SubmissionNext \/ UNCHANGED shown
<1> DEFINE c == t[1]
<1>1. /\ c \in Calls /\ t = <<c, t[2]>> /\ t[2] \in 1..TxBound
      /\ UNCHANGED callVars /\ chain[t] # "none"
  BY TxParts DEF NodeActs, NodeStep, Include, Retract, Finalize, Drop
<1>2. UNCHANGED <<State, Kind, sent>>
  BY <1>1 DEF callVars, State, Kind, Answer, KindOf
<1>3. t \in Promise!Of(c)
  <2>1. t[2] \in 1..sent[c]
    BY <1>1, NodeAssumption DEF Core, TypeOK, ConfirmedInv, TxInv
  <2> QED BY <1>1, <2>1 DEF Promise!Of
<1>4. CASE Include(t)
  <2>1. /\ chain[t] = "pool" /\ chain' = [chain EXCEPT ![t] = "best"]
        /\ chain \in [Tx -> {"none", "pool", "best", "final", "dropped"}]
    BY <1>4 DEF Include, Core, TypeOK, NodeTypeOK
  <2>2. Best' = Best \cup {t} /\ Final' = Final /\ t \notin Best \cup Final
    BY <2>1 DEF Best, Final
  <2>3. ASSUME op[c] # "auto", NEW u \in Promise!Of(c), u \in Best \cup Final PROVE FALSE
    <3>1. PICK i \in 1..sent[c] : u = <<c, i>>
      BY <2>3 DEF Promise!Of
    <3>2. i \in 1..TxBound /\ OnChain(<<c, i>>)' /\ OnChain(<<c, t[2]>>)' /\ u # t
      BY <1>1, <2>1, <2>3, <3>1, NodeAssumption DEF OnChain, Best, Final, Core, TypeOK
    <3>3. op'[c] # "auto"
      BY <1>1, <2>3 DEF callVars
    <3>4. i = t[2]
      BY <1>1, <3>2, <3>3 DEF AtMostOnce
    <3> QED BY <1>1, <3>1, <3>2, <3>4
  <2>4. Kind[c] = "many" \/ Promise!Of(c) \cap (Best \cup Final) = {}
    BY <1>1, <2>3 DEF Kind, KindOf
  <2>5. Promise!Included(c, t)
    BY <1>2, <1>3, <2>2, <2>4 DEF Promise!Included, Promise!Executed, State, Kind, Best, Final
  <2> QED BY <1>1, <1>3, <2>5 DEF Promise!SubmissionNext
<1>5. CASE Retract(t)
  <2>1. t \in Best /\ Best' = Best \ {t} /\ Final' = Final
    BY <1>5 DEF Retract, Best, Final, Core, TypeOK, NodeTypeOK
  <2>2. Promise!Retracted(t)
    BY <1>2, <2>1 DEF Promise!Retracted, State, Kind, Best, Final
  <2> QED BY <1>1, <1>3, <2>2 DEF Promise!SubmissionNext
<1>6. CASE Finalize(t)
  <2>1. t \in Best /\ Best' = Best \ {t} /\ Final' = Final \cup {t}
    BY <1>6 DEF Finalize, Best, Final, Core, TypeOK, NodeTypeOK
  <2>2. Promise!Finalized(t)
    BY <1>2, <2>1 DEF Promise!Finalized, State, Kind, Best, Final
  <2> QED BY <1>1, <1>3, <2>2 DEF Promise!SubmissionNext
<1>7. CASE Drop(t)
  <2>1. UNCHANGED <<Best, Final>>
    BY <1>7, BlocksSame DEF Drop, Core, TypeOK, NodeTypeOK
  <2> QED BY <1>2, <2>1 DEF shown
<1> QED BY <1>4, <1>5, <1>6, <1>7 DEF NodeActs, NodeStep

LEMMA SubmissionStep ==
    Core /\ ClearedInv /\ FeeInv /\ SignsInv /\ AtMostOnce' /\ [Next]_vars
        => [Promise!SubmissionNext]_Promise!submissionVars
<1> SUFFICES ASSUME Core, ClearedInv, FeeInv, SignsInv, AtMostOnce', [Next]_vars
             PROVE  Promise!SubmissionNext \/ UNCHANGED shown
  BY ShownSame
<1>1. ASSUME NEW c \in Calls, Call(c) \/ Run(c) PROVE Promise!SubmissionNext \/ UNCHANGED shown
  BY <1>1, SubmissionRun, SubmissionCall
<1>2. ASSUME NEW t \in Tx, NodeActs(t) PROVE Promise!SubmissionNext \/ UNCHANGED shown
  BY <1>2, SubmissionNode
<1>3. CASE UNCHANGED <<callVars, chain>>
  BY <1>3 DEF callVars, shown, State, Kind, Answer, KindOf, Best, Final
<1> QED
  BY <1>1, <1>2, <1>3 DEF Next, AllDone, Elsewhere, Notify, NotifyInBlock, NotifyFinalized,
     Clear, vars, nodeVars

\* With nonce management on, serial callers and no clearing of the maps, the
\* transaction service is an implementation of Submissions.
THEOREM ServiceImplementsSubmissions == Serial => (Spec => ImplementsSubmissions)
<1> SUFFICES ASSUME Serial PROVE Spec => ImplementsSubmissions
  OBVIOUS
<1>1. Init => ClearedInv
  BY DEF Init, ClearedInv, ClearedCall
<1> QED
  BY <1>1, InitCore, NextCore, SubmitExecutesOnce, InitSigns, SignsNext, ClearedNext, FeeNext,
     SubmissionInitial, SubmissionStep, PTL
  DEF Spec, ImplementsSubmissions, Promise!SubmissionSpec

=============================================================================
