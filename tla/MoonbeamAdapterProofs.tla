----------------------- MODULE MoonbeamAdapterProofs ------------------------
(***************************************************************************)
(* For any number of sends, accounts, networks and watches: getNextNonce   *)
(* gives distinct nonces within an era (DistinctNonces), and the adapter   *)
(* implements NonceTickets; both follow from NonceInv: a nonce of the      *)
(* current era is below the cache, which is read and written without an    *)
(* await in between.  Until a switch the cache accounts for every nonce    *)
(* (AccountInv), and what a watch reports as confirmed is as deep as asked *)
(* (DepthInv).                                                             *)
(***************************************************************************)
EXTENDS MoonbeamAdapter, TLAPS

USE DEF Txs

\* The inductive invariant of the nonces holds at the start.
LEMMA InitNonceInv == Init => NonceInv
<1> SUFFICES ASSUME Init PROVE NonceInv
  OBVIOUS
<1>1. ChainTypeOK
  <2>1. height \in [Networks -> 0..MaxBlocks]
    BY ChainAssumption DEF Init, ChainInit
  <2>2. count \in [Networks -> [Accounts -> Nat]]
    <3> 0..MaxCount \subseteq Nat
      OBVIOUS
    <3> QED BY DEF Init, ChainInit
  <2> QED BY <2>1, <2>2, ChainAssumption DEF Init, ChainInit, ChainTypeOK
<1>2. TypeOK
  <2>1. /\ network \in Networks /\ target \in Networks
        /\ provider \in MaybeNetwork /\ connected \in BOOLEAN
        /\ link \in {"idle", "leaving", "opening"}
        /\ switches \in 0..MaxSwitches
    <3>1. network \in Networks /\ target \in Networks /\ connected \in BOOLEAN
      BY Zenon DEF Init
    <3>2. provider \in MaybeNetwork /\ link \in {"idle", "leaving", "opening"}
      BY DEF Init, MaybeNetwork
    <3>3. switches \in 0..MaxSwitches
      BY AdapterAssumption DEF Init
    <3> QED BY <3>1, <3>2, <3>3
  <2>2. /\ nonceCache \in [Accounts -> Nat \cup {None}]
        /\ tracked \in [Accounts -> SUBSET Sends]
        /\ resets \in [Accounts -> 0..MaxResets]
    BY AdapterAssumption DEF Init
  <2>3. /\ pc \in [Sends -> Points]
        /\ kind \in [Sends -> {"send", "sign"}]
        /\ chain \in [Sends -> MaybeNetwork] /\ asked \in [Sends -> MaybeNetwork]
        /\ answer \in [Sends -> Nat \cup {None}] /\ nonce \in [Sends -> Nat \cup {None}]
        /\ given \in [Sends -> BOOLEAN]
        /\ era \in [Sends -> 0..MaxResets]
    BY AdapterAssumption DEF Init, MaybeNetwork, Points
  <2>4. /\ wpc \in [Watches -> WatchPoints]
        /\ wkind \in [Watches -> {"monitor", "wait"}]
        /\ wtx \in [Watches -> Sends \cup {None}]
        /\ wnet \in [Watches -> MaybeNetwork]
        /\ wblock \in [Watches -> (0..MaxBlocks) \cup {None}]
        /\ wsince \in [Watches -> 0..MaxSwitches]
    BY AdapterAssumption DEF Init, MaybeNetwork, WatchPoints
  <2> QED BY <1>1, <2>1, <2>2, <2>3, <2>4 DEF TypeOK
<1>3. SendInv /\ PoolInv /\ WatchInv
  BY DEF Init, ChainInit, SendInv, PoolInv, WatchInv
<1>4. BelowCache /\ EraPast /\ DistinctNonces
  BY DEF Init, BelowCache, EraPast, DistinctNonces, Taken
<1> QED BY <1>2, <1>3, <1>4 DEF NonceInv

\* The connection does not touch sends, nonces, watches or chains.
LEMMA LinkKeeps == ASSUME NonceInv, LinkStep PROVE NonceInv'
<1>1. UNCHANGED <<chainVars, nonceVars, sendVars, watchVars>>
  BY DEF LinkStep, Connect, ConnectEnds, Disconnect, SwitchNetwork, SwitchOpens
<1>2. /\ network' \in Networks /\ target' \in Networks
      /\ provider' \in MaybeNetwork /\ connected' \in BOOLEAN
      /\ link' \in {"idle", "leaving", "opening"}
      /\ switches' \in 0..MaxSwitches
  <2> USE DEF NonceInv, TypeOK, MaybeNetwork
  <2>1. CASE Connect \/ ConnectEnds \/ Disconnect \/ SwitchOpens
    BY <2>1 DEF Connect, ConnectEnds, Disconnect, SwitchOpens
  <2>2. CASE \E n \in Networks : SwitchNetwork(n)
    <3>1. switches < MaxSwitches /\ switches' = switches + 1
      BY <2>2 DEF SwitchNetwork
    <3>2. switches' \in 0..MaxSwitches
      BY <3>1, AdapterAssumption
    <3> QED BY <2>2, <3>2 DEF SwitchNetwork
  <2> QED BY <2>1, <2>2 DEF LinkStep
<1>3. TypeOK'
  BY <1>1, <1>2 DEF NonceInv, TypeOK, ChainTypeOK, chainVars, nonceVars, sendVars, watchVars,
     MaybeNetwork
<1>4. SendInv' /\ PoolInv' /\ WatchInv'
  BY <1>1 DEF NonceInv, SendInv, PoolInv, WatchInv, chainVars, sendVars, watchVars
<1>5. BelowCache' /\ EraPast' /\ DistinctNonces'
  BY <1>1 DEF NonceInv, BelowCache, EraPast, DistinctNonces, Taken, nonceVars, sendVars
<1> QED BY <1>3, <1>4, <1>5 DEF NonceInv

\* Resetting opens a new era, so no nonce taken so far belongs to it.
LEMMA BookKeeps == ASSUME NonceInv, BookStep PROVE NonceInv'
<1>1. CASE \E A \in {{a} : a \in Accounts} \cup {Accounts} : ResetNonces(A)
  <2> PICK A \in {{a} : a \in Accounts} \cup {Accounts} : ResetNonces(A)
    BY <1>1
  <2>1. UNCHANGED <<chainVars, linkVars, tracked, sendVars, watchVars>>
    BY DEF ResetNonces
  <2>2. resets' \in [Accounts -> 0..MaxResets] /\ nonceCache' \in [Accounts -> Nat \cup {None}]
    BY AdapterAssumption DEF ResetNonces, NonceInv, TypeOK
  <2>3. TypeOK'
    BY <2>1, <2>2
    DEF NonceInv, TypeOK, ChainTypeOK, chainVars, linkVars, sendVars, watchVars, MaybeNetwork
  <2>4. SendInv' /\ PoolInv' /\ WatchInv' /\ DistinctNonces'
    BY <2>1 DEF NonceInv, SendInv, PoolInv, WatchInv, DistinctNonces, Taken, chainVars,
       sendVars, watchVars
  <2>5. EraPast'
    BY <2>1, ChainAssumption DEF ResetNonces, NonceInv, TypeOK, EraPast, Taken, sendVars
  <2>6. BelowCache'
    BY <2>1, ChainAssumption DEF ResetNonces, NonceInv, TypeOK, EraPast, BelowCache, Taken, sendVars
  <2> QED BY <2>3, <2>4, <2>5, <2>6 DEF NonceInv
<1>2. CASE \E a \in Accounts : ClearPendingTransactions(a)
  <2>1. UNCHANGED <<chainVars, linkVars, nonceCache, resets, sendVars, watchVars>>
        /\ tracked' \in [Accounts -> SUBSET Sends]
    BY <1>2 DEF ClearPendingTransactions, NonceInv, TypeOK
  <2>2. TypeOK'
    BY <2>1
    DEF NonceInv, TypeOK, ChainTypeOK, chainVars, linkVars, sendVars, watchVars, MaybeNetwork
  <2>3. SendInv' /\ PoolInv' /\ WatchInv'
    BY <2>1 DEF NonceInv, SendInv, PoolInv, WatchInv, chainVars, sendVars, watchVars
  <2>4. BelowCache' /\ EraPast' /\ DistinctNonces'
    BY <2>1 DEF NonceInv, BelowCache, EraPast, DistinctNonces, Taken, sendVars
  <2> QED BY <2>2, <2>3, <2>4 DEF NonceInv
<1> QED BY <1>1, <1>2 DEF BookStep

\* A watch only reads.
LEMMA WatchKeeps == ASSUME NonceInv, NEW w \in Watches, WatchStep(w) PROVE NonceInv'
<1> USE DEF WatchGoto, AskNode
<1>1. UNCHANGED <<chainVars, linkVars, nonceVars, sendVars>>
  BY DEF WatchStep, WatchRuns, StartWatch, Poll, TimesOut, TxAnswers, ReceiptAnswers,
         HeightAnswers, WatchFails, Wakes
<1>2. /\ wpc' \in [Watches -> WatchPoints]
      /\ wkind' \in [Watches -> {"monitor", "wait"}]
      /\ wtx' \in [Watches -> Sends \cup {None}]
      /\ wnet' \in [Watches -> MaybeNetwork]
      /\ wsince' \in [Watches -> 0..MaxSwitches]
      /\ WatchInv'
  <2> /\ wpc \in [Watches -> WatchPoints]
      /\ wkind \in [Watches -> {"monitor", "wait"}]
      /\ wtx \in [Watches -> Sends \cup {None}]
      /\ wnet \in [Watches -> MaybeNetwork]
      /\ wsince \in [Watches -> 0..MaxSwitches]
      /\ provider \in MaybeNetwork /\ switches \in 0..MaxSwitches
      /\ WatchInv
    BY DEF NonceInv, TypeOK
  <2>1. CASE \E c \in Sends : StartWatch(w, c)
    <3> PICK c \in Sends : StartWatch(w, c)
      BY <2>1
    <3>1. wkind' \in [Watches -> {"monitor", "wait"}]
      <4> PICK k \in Kinds \cap {"monitor", "wait"} : wkind' = [wkind EXCEPT ![w] = k]
        BY DEF StartWatch
      <4> QED OBVIOUS
    <3>2. wpc' \in [Watches -> WatchPoints]
      BY DEF StartWatch, WatchPoints
    <3>3. wtx' \in [Watches -> Sends \cup {None}] /\ wsince' \in [Watches -> 0..MaxSwitches]
          /\ wnet' = wnet
      BY DEF StartWatch
    <3>4. WatchInv'
      <4>1. c # None
        BY ChainAssumption
      <4>2. /\ wtx' = [wtx EXCEPT ![w] = c]
            /\ \A v \in Watches : v # w => wpc'[v] = wpc[v]
        BY DEF StartWatch
      <4> QED BY <4>1, <4>2 DEF StartWatch, WatchInv
    <3> QED BY <3>1, <3>2, <3>3, <3>4
  <2>2. CASE Poll(w) \/ TimesOut(w) \/ TxAnswers(w) \/ WatchFails(w) \/ Wakes(w)
    BY <2>2 DEF Poll, TimesOut, TxAnswers, WatchFails, Wakes, WatchPoints, WatchInv
  <2>3. CASE ReceiptAnswers(w)
    BY <2>3 DEF ReceiptAnswers, WatchPoints, WatchInv
  <2>4. CASE HeightAnswers(w)
    BY <2>4 DEF HeightAnswers, WatchPoints, WatchInv
  <2> QED BY <2>1, <2>2, <2>3, <2>4 DEF WatchStep, WatchRuns
<1>3. wblock' \in [Watches -> (0..MaxBlocks) \cup {None}]
  <2>1. CASE ReceiptAnswers(w)
    <3>1. wtx[w] \in Sends
      BY <2>1 DEF ReceiptAnswers, NonceInv, TypeOK, WatchInv
    <3>2. block[wtx[w]] \in 0..MaxBlocks
      BY <3>1 DEF NonceInv, TypeOK, ChainTypeOK
    <3> QED BY <2>1, <3>2 DEF ReceiptAnswers, NonceInv, TypeOK
  <2>2. CASE ~ReceiptAnswers(w)
    BY <2>2 DEF WatchStep, WatchRuns, StartWatch, Poll, TimesOut, TxAnswers, HeightAnswers,
                WatchFails, Wakes, NonceInv, TypeOK
  <2> QED BY <2>1, <2>2
<1>4. TypeOK'
  BY <1>1, <1>2, <1>3
  DEF NonceInv, TypeOK, ChainTypeOK, chainVars, linkVars, nonceVars, sendVars, MaybeNetwork
<1>5. SendInv' /\ PoolInv'
  BY <1>1 DEF NonceInv, SendInv, PoolInv, chainVars, sendVars
<1>6. BelowCache' /\ EraPast' /\ DistinctNonces'
  BY <1>1 DEF NonceInv, BelowCache, EraPast, DistinctNonces, Taken, nonceVars, sendVars
<1> QED BY <1>2, <1>4, <1>5, <1>6 DEF NonceInv

\* A transaction moves, a chain grows: the adapter's own state stays.
LEMMA ChainKeeps == ASSUME NonceInv, Blockchain PROVE NonceInv'
<1>1. UNCHANGED <<linkVars, nonceVars, sendVars, watchVars>> /\ ChainStep
  BY DEF Blockchain
<1>2. ChainTypeOK' /\ PoolInv'
  <2> USE DEF NonceInv, TypeOK, ChainTypeOK, PoolInv
  <2>1. CASE \E n \in Networks : EmptyBlock(n)
    BY <2>1, ChainAssumption DEF EmptyBlock
  <2>2. CASE \E c \in Txs : Drop(c)
    BY <2>2 DEF Drop
  <2>4. CASE \E f \in Foreign : ForeignSent(f)
    <3> PICK f \in Foreign, n \in Networks, k \in ForeignNonces : Accept(f, n, k)
      BY <2>4 DEF ForeignSent
    <3>1. k \in Nat /\ None \notin Nat /\ None \notin Networks
      BY ChainAssumption
    <3> QED BY <3>1 DEF Accept
  <2>3. CASE \E c \in Txs : Mine(c)
    <3> PICK c \in Txs : Mine(c)
      BY <2>3
    <3> DEFINE n == on[c]
               a == Sender[c]
    <3>1. n \in Networks /\ a \in Accounts
      BY ChainAssumption DEF Mine
    <3>2. height' \in [Networks -> 0..MaxBlocks] /\ height[n] + 1 \in 0..MaxBlocks
      BY <3>1, ChainAssumption DEF Mine
    <3>3. count' \in [Networks -> [Accounts -> Nat]]
      <4>1. count[n] \in [Accounts -> Nat] /\ count[n][a] + 1 \in Nat
        BY <3>1
      <4>2. [count[n] EXCEPT ![a] = @ + 1] \in [Accounts -> Nat]
        BY <3>1, <4>1
      <4>3. count' = [count EXCEPT ![n] = [count[n] EXCEPT ![a] = @ + 1]]
        BY DEF Mine
      <4> QED BY <4>2, <4>3
    <3>4. where' \in [Txs -> {"none", "pool", "mined", "reverted", "dropped"}]
          /\ \A d \in Txs : where'[d] = "pool" => where[d] = "pool"
      BY DEF Mine
    <3>5. block' \in [Txs -> 0..MaxBlocks]
      BY <3>2 DEF Mine
    <3>6. on' = on /\ number' = number
      BY DEF Mine
    <3> QED BY <3>2, <3>3, <3>4, <3>5, <3>6
  <2> QED BY <1>1, <2>1, <2>2, <2>3, <2>4 DEF ChainStep
<1>3. TypeOK'
  BY <1>1, <1>2 DEF NonceInv, TypeOK, linkVars, nonceVars, sendVars, watchVars, MaybeNetwork
<1>4. SendInv' /\ WatchInv'
  BY <1>1 DEF NonceInv, SendInv, WatchInv, sendVars, watchVars
<1>5. BelowCache' /\ EraPast' /\ DistinctNonces'
  BY <1>1 DEF NonceInv, BelowCache, EraPast, DistinctNonces, Taken, nonceVars, sendVars
<1> QED BY <1>2, <1>3, <1>4, <1>5 DEF NonceInv

---------------------------------------------------------------------------
(* The sends.                                                              *)

\* A send that neither takes a nonce nor reaches a node.
LEMMA QuietKeeps ==
    ASSUME NonceInv, NEW c \in Sends,
           Prepare(c) \/ AskNonce(c) \/ NodeAnswers(c) \/ Priced(c) \/ SendFails(c)
               \/ Broadcast(c) \/ Sent(c)
    PROVE  NonceInv'
<1> USE DEF Goto
<1>1. UNCHANGED <<chainVars, linkVars, nonceCache, resets, watchVars, kind, nonce, given, era>>
  BY DEF Prepare, AskNonce, NodeAnswers, Priced, SendFails, Broadcast, Sent, nonceVars
<1> /\ pc \in [Sends -> Points] /\ provider \in MaybeNetwork
    /\ chain \in [Sends -> MaybeNetwork] /\ asked \in [Sends -> MaybeNetwork]
    /\ answer \in [Sends -> Nat \cup {None}] /\ tracked \in [Accounts -> SUBSET Sends]
    /\ SendInv
  BY DEF NonceInv, TypeOK
<1>2. tracked' \in [Accounts -> SUBSET Sends]
  BY ChainAssumption DEF Prepare, AskNonce, NodeAnswers, Priced, SendFails, Broadcast, Sent,
     nonceVars
<1>3. /\ pc' \in [Sends -> Points]
      /\ chain' \in [Sends -> MaybeNetwork] /\ asked' \in [Sends -> MaybeNetwork]
      /\ answer' \in [Sends -> Nat \cup {None}]
      /\ SendInv'
  <2>1. CASE Prepare(c)
    <3>1. pc' \in [Sends -> Points] /\ chain' \in [Sends -> MaybeNetwork]
          /\ asked' = asked /\ answer' = answer
      BY <2>1 DEF Prepare, Points
    <3>2. SendInv'
      BY <2>1 DEF Prepare, SendInv, Points
    <3> QED BY <3>1, <3>2
  <2>2. CASE AskNonce(c)
    <3>1. pc' \in [Sends -> Points] /\ asked' \in [Sends -> MaybeNetwork]
          /\ chain' = chain /\ answer' = answer
      BY <2>2 DEF AskNonce, Points
    <3>2. SendInv'
      BY <2>2 DEF AskNonce, SendInv, IsConnected
    <3> QED BY <3>1, <3>2
  <2>3. CASE NodeAnswers(c)
    <3> PICK k \in PendingCounts(asked[c], Sender[c]) : answer' = [answer EXCEPT ![c] = k]
      BY <2>3 DEF NodeAnswers
    <3>1. k \in Nat
      <4>1. asked[c] \in Networks /\ Sender[c] \in Accounts
        BY <2>3, ChainAssumption DEF NodeAnswers, SendInv, MaybeNetwork
      <4>2. count[asked[c]][Sender[c]] \in Nat
        BY <4>1 DEF NonceInv, TypeOK, ChainTypeOK
      <4>3. \A d \in Txs : where[d] = "pool" => number[d] + 1 \in Nat
        BY DEF NonceInv, PoolInv, TypeOK, ChainTypeOK
      <4>4. k \in {count[asked[c]][Sender[c]]} \cup {number[d] + 1 : d \in {e \in Txs : where[e] = "pool"}}
        BY DEF PendingCounts
      <4> QED BY <4>2, <4>3, <4>4
    <3>2. pc' \in [Sends -> Points] /\ answer' \in [Sends -> Nat \cup {None}]
          /\ chain' = chain /\ asked' = asked
      BY <2>3, <3>1 DEF NodeAnswers, Points
    <3>3. SendInv'
      <4>1. k # None
        BY <3>1, ChainAssumption
      <4> QED BY <2>3, <4>1 DEF NodeAnswers, SendInv
    <3> QED BY <3>2, <3>3
  <2>4. CASE Priced(c) \/ SendFails(c) \/ Broadcast(c) \/ Sent(c)
    <3>1. pc' \in [Sends -> Points] /\ chain' = chain /\ asked' = asked /\ answer' = answer
      BY <2>4 DEF Priced, SendFails, Broadcast, Sent, Points
    <3>2. SendInv'
      BY <2>4, <3>1, <1>1 DEF Priced, SendFails, Broadcast, Sent, SendInv
    <3> QED BY <3>1, <3>2
  <2> QED BY <2>1, <2>2, <2>3, <2>4
<1>4. TypeOK'
  BY <1>1, <1>2, <1>3
     DEF NonceInv, TypeOK, ChainTypeOK, chainVars, linkVars, watchVars, MaybeNetwork
<1>5. PoolInv' /\ WatchInv'
  BY <1>1 DEF NonceInv, PoolInv, WatchInv, chainVars, watchVars
<1>6. BelowCache' /\ EraPast' /\ DistinctNonces'
  BY <1>1 DEF NonceInv, BelowCache, EraPast, DistinctNonces, Taken
<1> QED BY <1>3, <1>4, <1>5, <1>6 DEF NonceInv

\* A send begins, with or without a nonce of its caller's.
LEMMA StartKeeps == ASSUME NonceInv, NEW c \in Sends, Start(c) PROVE NonceInv'
<1> USE DEF Goto
<1> PICK g \in Given \cup {None} : /\ nonce' = [nonce EXCEPT ![c] = g]
                                   /\ given' = [given EXCEPT ![c] = g # None]
  BY DEF Start
<1> PICK k \in Kinds \cap {"send", "sign"} : kind' = [kind EXCEPT ![c] = k]
  BY DEF Start
<1>1. UNCHANGED <<chainVars, linkVars, nonceVars, chain, asked, answer, era, watchVars>>
  BY DEF Start
<1>2. /\ pc' \in [Sends -> Points] /\ kind' \in [Sends -> {"send", "sign"}]
      /\ nonce' \in [Sends -> Nat \cup {None}] /\ given' \in [Sends -> BOOLEAN]
  BY AdapterAssumption DEF Start, Points, NonceInv, TypeOK
<1>3. TypeOK'
  BY <1>1, <1>2 DEF NonceInv, TypeOK, ChainTypeOK, chainVars, linkVars, nonceVars, watchVars,
     MaybeNetwork
<1>4. SendInv'
  BY <1>1, AdapterAssumption DEF Start, NonceInv, TypeOK, SendInv
<1>5. PoolInv' /\ WatchInv'
  BY <1>1 DEF NonceInv, PoolInv, WatchInv, chainVars, watchVars
<1>6. \A d \in Sends : Taken(d)' => Taken(d) /\ nonce'[d] = nonce[d]
  BY DEF Taken, NonceInv, TypeOK
<1>7. BelowCache' /\ EraPast' /\ DistinctNonces'
  BY <1>1, <1>6 DEF NonceInv, BelowCache, EraPast, DistinctNonces, nonceVars
<1> QED BY <1>3, <1>4, <1>5, <1>7 DEF NonceInv

\* The nonce taken is at least the cache, so above every nonce of the era.
LEMMA TakenAboveCache ==
    ASSUME NonceInv, NEW c \in Sends, TakeNonce(c)
    PROVE  /\ NextNonce(c) \in Nat
           /\ nonceCache[Sender[c]] # None => nonceCache[Sender[c]] <= NextNonce(c)
<1>1. answer[c] \in Nat /\ Sender[c] \in Accounts
  BY ChainAssumption DEF TakeNonce, NonceInv, TypeOK, SendInv
<1>2. nonceCache[Sender[c]] \in Nat \cup {None}
  BY <1>1 DEF NonceInv, TypeOK
<1> QED BY <1>1, <1>2, ChainAssumption DEF NextNonce

LEMMA TakeKeeps == ASSUME NonceInv, NEW c \in Sends, TakeNonce(c) PROVE NonceInv'
<1> DEFINE n == NextNonce(c)
           a == Sender[c]
<1> n \in Nat /\ (nonceCache[a] # None => nonceCache[a] <= n)
  BY TakenAboveCache
<1>1. /\ UNCHANGED <<chainVars, linkVars, tracked, resets, kind, chain, asked, answer, given, watchVars>>
      /\ nonce' = [nonce EXCEPT ![c] = n]
      /\ nonceCache' = [nonceCache EXCEPT ![a] = n + 1]
      /\ era' = [era EXCEPT ![c] = resets[a]]
      /\ pc' = [pc EXCEPT ![c] = "price"]
      /\ pc[c] = "answered"
  BY DEF TakeNonce, Goto
<1> HIDE DEF n
<1> a \in Accounts /\ n + 1 \in Nat /\ None \notin Nat
  BY ChainAssumption
<1>2. /\ pc' \in [Sends -> Points] /\ nonce' \in [Sends -> Nat \cup {None}]
      /\ nonceCache' \in [Accounts -> Nat \cup {None}]
      /\ era' \in [Sends -> 0..MaxResets]
  BY <1>1 DEF NonceInv, TypeOK, Points
<1>3. TypeOK'
  BY <1>1, <1>2 DEF NonceInv, TypeOK, ChainTypeOK, chainVars, linkVars, watchVars, MaybeNetwork
<1>4. SendInv' /\ PoolInv' /\ WatchInv'
  BY <1>1 DEF NonceInv, TypeOK, SendInv, PoolInv, WatchInv, chainVars, watchVars
<1>5. /\ nonce'[c] = n /\ era'[c] = resets[a] /\ nonceCache'[a] = n + 1
      /\ \A d \in Sends \ {c} :
            nonce'[d] = nonce[d] /\ era'[d] = era[d] /\ (Taken(d)' <=> Taken(d))
      /\ \A b \in Accounts \ {a} : nonceCache'[b] = nonceCache[b]
  BY <1>1 DEF NonceInv, TypeOK, Taken
<1>6. \A d \in Sends \ {c} :
        (Taken(d) /\ Sender[d] = a /\ era[d] = resets[a]) => nonce[d] < n /\ nonce[d] \in Nat
  BY DEF NonceInv, TypeOK, BelowCache, Taken
<1>7. BelowCache'
  <2> SUFFICES ASSUME NEW d \in Sends, Taken(d)', era'[d] = resets'[Sender[d]]
               PROVE  nonceCache'[Sender[d]] # None /\ nonce'[d] < nonceCache'[Sender[d]]
    BY DEF BelowCache
  <2>1. CASE d = c
    BY <1>5, <2>1
  <2>2. CASE d # c /\ Sender[d] = a
    BY <1>1, <1>5, <1>6, <2>2
  <2>3. CASE d # c /\ Sender[d] # a
    BY <1>1, <1>5, <2>3, ChainAssumption DEF NonceInv, BelowCache
  <2> QED BY <2>1, <2>2, <2>3
<1>8. EraPast'
  BY <1>1, <1>5 DEF NonceInv, TypeOK, EraPast
<1>9. DistinctNonces'
  <2> SUFFICES ASSUME NEW d \in Sends, NEW e \in Sends, d # e, Sender[d] = Sender[e],
                      Taken(d)', Taken(e)', era'[d] = era'[e]
               PROVE  nonce'[d] # nonce'[e]
    BY DEF DistinctNonces
  <2>1. CASE d = c
    BY <1>5, <1>6, <2>1
  <2>2. CASE e = c
    BY <1>5, <1>6, <2>2
  <2>3. CASE d # c /\ e # c
    BY <1>5, <2>3 DEF NonceInv, DistinctNonces
  <2> QED BY <2>1, <2>2, <2>3
<1> QED BY <1>3, <1>4, <1>7, <1>8, <1>9 DEF NonceInv

LEMMA AcceptKeeps == ASSUME NonceInv, NEW c \in Sends, NodeAccepts(c) PROVE NonceInv'
<1>1. /\ UNCHANGED <<linkVars, nonceVars, kind, chain, asked, answer, nonce, given, era, watchVars>>
      /\ Accept(c, chain[c], nonce[c])
      /\ pc' = [pc EXCEPT ![c] = "accepted"] /\ pc[c] = "send"
  BY DEF NodeAccepts, Goto
<1>2. nonce[c] \in Nat /\ chain[c] \in Networks
  BY <1>1 DEF NonceInv, TypeOK, SendInv, MaybeNetwork
<1>3. ChainTypeOK'
  BY <1>1, <1>2 DEF Accept, NonceInv, TypeOK, ChainTypeOK
<1>4. PoolInv'
  BY <1>1, <1>2, ChainAssumption DEF Accept, NonceInv, TypeOK, ChainTypeOK, PoolInv
<1>5. pc' \in [Sends -> Points]
  BY <1>1 DEF NonceInv, TypeOK, Points
<1>6. TypeOK'
  BY <1>1, <1>3, <1>5 DEF NonceInv, TypeOK, linkVars, nonceVars, watchVars, MaybeNetwork
<1>7. SendInv' /\ WatchInv'
  BY <1>1 DEF NonceInv, TypeOK, SendInv, WatchInv, watchVars
<1>8. BelowCache' /\ EraPast' /\ DistinctNonces'
  BY <1>1 DEF NonceInv, BelowCache, EraPast, DistinctNonces, Taken, nonceVars
<1> QED BY <1>4, <1>6, <1>7, <1>8 DEF NonceInv

LEMMA SendKeeps == ASSUME NonceInv, NEW c \in Sends, SendStep(c) PROVE NonceInv'
BY QuietKeeps, StartKeeps, TakeKeeps, AcceptKeeps DEF SendStep

\* Every step of the adapter, of a caller and of the chain preserves it.
LEMMA NextNonceInv == NonceInv /\ [Next]_vars => NonceInv'
<1> SUFFICES ASSUME NonceInv, [Next]_vars PROVE NonceInv'
  OBVIOUS
<1>1. CASE Next
  BY <1>1, LinkKeeps, SendKeeps, BookKeeps, WatchKeeps, ChainKeeps DEF Next
<1>2. CASE UNCHANGED vars
  <2> USE <1>2 DEF vars, chainVars, linkVars, nonceVars, sendVars, watchVars
  <2>1. TypeOK'
    BY DEF NonceInv, TypeOK, ChainTypeOK, MaybeNetwork
  <2>2. SendInv' /\ PoolInv' /\ WatchInv' /\ BelowCache' /\ EraPast' /\ DistinctNonces'
    BY DEF NonceInv, SendInv, PoolInv, WatchInv, BelowCache, EraPast, DistinctNonces, Taken
  <2> QED BY <2>1, <2>2 DEF NonceInv
<1> QED BY <1>1, <1>2

\* In every behaviour, for any constants: two sends of one account never get
\* the same nonce from getNextNonce within one era, whatever the interleaving
\* of their awaits and whichever networks they ask.
THEOREM NoncesDistinct == Spec => [](TypeOK /\ DistinctNonces)
<1>1. NonceInv => TypeOK /\ DistinctNonces
  BY DEF NonceInv
<1> QED BY <1>1, InitNonceInv, NextNonceInv, PTL DEF Spec

---------------------------------------------------------------------------
(* The adapter implements NonceTickets.                                    *)

\* The only step that gives out a ticket gives out one above all of its era.
LEMMA TakeIssues ==
    ASSUME NonceInv, NEW c \in Sends, TakeNonce(c)
    PROVE  Tickets!Issue(c)
<1> DEFINE n == NextNonce(c)
           a == Sender[c]
           T == [d \in Sends |-> IF given[d] THEN None ELSE nonce[d]]
<1> n \in Nat /\ (nonceCache[a] # None => nonceCache[a] <= n)
  BY TakenAboveCache
<1>1. /\ resets' = resets /\ given' = given
      /\ nonce' = [nonce EXCEPT ![c] = n]
      /\ era' = [era EXCEPT ![c] = resets[a]]
      /\ pc[c] = "answered"
  BY DEF TakeNonce
<1> HIDE DEF n
<1>2. ~given[c] /\ nonce[c] = None
  BY <1>1 DEF NonceInv, SendInv
<1>3. T[c] = None
  BY <1>2
<1>4. T' = [T EXCEPT ![c] = n]
  BY <1>1, <1>2 DEF NonceInv, TypeOK
<1>5. T'[c] = n
  BY <1>4
<1>6. \A d \in Sends :
        (Sender[d] = a /\ T[d] # None /\ era[d] = resets[a]) => T[d] < n
  <2> SUFFICES ASSUME NEW d \in Sends, Sender[d] = a, T[d] # None, era[d] = resets[a]
               PROVE  T[d] < n
    OBVIOUS
  <2>1. Taken(d) /\ T[d] = nonce[d]
    BY DEF Taken
  <2>2. nonceCache[a] # None /\ nonce[d] < nonceCache[a]
    BY <2>1 DEF NonceInv, BelowCache
  <2>3. nonce[d] \in Nat /\ nonceCache[a] \in Nat
    BY <2>1, <2>2, ChainAssumption DEF NonceInv, TypeOK, Taken
  <2> QED BY <2>1, <2>2, <2>3
<1>7. T' = [T EXCEPT ![c] = T'[c]]
  BY <1>4, <1>5
<1> QED BY <1>1, <1>3, <1>5, <1>6, <1>7 DEF Tickets!Issue

LEMMA StepIsTicketStep ==
    ASSUME NonceInv, [Next]_vars
    PROVE  [Tickets!TicketNext]_(Tickets!ticketVars)
<1> USE DEF Tickets!ticketVars
<1>1. CASE LinkStep
  BY <1>1 DEF LinkStep, Connect, ConnectEnds, Disconnect, SwitchNetwork, SwitchOpens,
              nonceVars, sendVars
<1>2. CASE \E c \in Sends : SendStep(c)
  <2> PICK c \in Sends : SendStep(c)
    BY <1>2
  <2>1. CASE TakeNonce(c)
    BY <2>1, TakeIssues DEF Tickets!TicketNext
  <2>2. CASE Start(c)
    <3>1. nonce[c] = None
      BY <2>2 DEF Start, NonceInv, SendInv
    <3>2. PICK g \in Given \cup {None} : /\ nonce' = [nonce EXCEPT ![c] = g]
                                         /\ given' = [given EXCEPT ![c] = g # None]
      BY <2>2 DEF Start
    <3>3. \A d \in Sends :
            (IF given'[d] THEN None ELSE nonce'[d]) = (IF given[d] THEN None ELSE nonce[d])
      BY <3>1, <3>2 DEF NonceInv, TypeOK
    <3>4. era' = era /\ resets' = resets
      BY <2>2 DEF Start, nonceVars
    <3> QED BY <3>3, <3>4
  <2>3. CASE ~TakeNonce(c) /\ ~Start(c)
    BY <2>3 DEF SendStep, Prepare, AskNonce, NodeAnswers, Priced, SendFails, Broadcast,
                NodeAccepts, Sent, nonceVars
  <2> QED BY <2>1, <2>2, <2>3
<1>3. CASE BookStep
  <2>1. CASE \E A \in {{a} : a \in Accounts} \cup {Accounts} : ResetNonces(A)
    <3> PICK A \in {{a} : a \in Accounts} \cup {Accounts} : ResetNonces(A)
      BY <2>1
    <3>1. Tickets!EndEra(A)
      BY DEF ResetNonces, sendVars, Tickets!EndEra
    <3> QED BY <3>1 DEF Tickets!TicketNext
  <2>2. CASE \E a \in Accounts : ClearPendingTransactions(a)
    BY <2>2 DEF ClearPendingTransactions, sendVars
  <2> QED BY <1>3, <2>1, <2>2 DEF BookStep
<1>4. CASE \E w \in Watches : WatchStep(w)
  BY <1>4 DEF WatchStep, WatchRuns, StartWatch, Poll, TimesOut, TxAnswers, ReceiptAnswers,
              HeightAnswers, WatchFails, Wakes, nonceVars, sendVars
<1>5. CASE Blockchain
  BY <1>5 DEF Blockchain, nonceVars, sendVars
<1>6. CASE UNCHANGED vars
  BY <1>6 DEF vars, nonceVars, sendVars
<1> QED BY <1>1, <1>2, <1>3, <1>4, <1>5, <1>6 DEF Next

\* The adapter keeps the promise of NonceTickets, for any constants.
THEOREM AdapterIssuesTickets == Spec => TicketsIssued
<1>1. Init => Tickets!TicketInit
  BY ChainAssumption DEF Init, Tickets!TicketInit
<1>2. NonceInv /\ [Next]_vars => [Tickets!TicketNext]_(Tickets!ticketVars)
  BY StepIsTicketStep
<1> QED BY <1>1, <1>2, InitNonceInv, NextNonceInv, PTL DEF Spec, TicketsIssued, Tickets!TicketSpec

---------------------------------------------------------------------------
(* What any step leaves as it was.                                         *)

\* A send's nonce, once known, is its nonce for good.
LEMMA NonceKept ==
    ASSUME NonceInv, [Next]_vars, NEW c \in Sends, nonce[c] # None
    PROVE  nonce'[c] = nonce[c]
<1>1. ASSUME NEW d \in Sends, SendStep(d) PROVE nonce'[c] = nonce[c]
  <2>1. CASE Start(d) \/ TakeNonce(d)
    <3>1. c # d /\ nonce \in [Sends -> Nat \cup {None}]
      BY <2>1 DEF Start, TakeNonce, NonceInv, SendInv, TypeOK
    <3>2. \E n : nonce' = [nonce EXCEPT ![d] = n]
      BY <2>1 DEF Start, TakeNonce
    <3> QED BY <3>1, <3>2
  <2>2. CASE ~(Start(d) \/ TakeNonce(d))
    BY <1>1, <2>2 DEF SendStep, Prepare, AskNonce, NodeAnswers, Priced, SendFails, Broadcast,
                      NodeAccepts, Sent
  <2> QED BY <2>1, <2>2
<1>2. CASE LinkStep \/ BookStep \/ Blockchain \/ \E w \in Watches : WatchStep(w)
  BY <1>2 DEF LinkStep, Connect, ConnectEnds, Disconnect, SwitchNetwork, SwitchOpens, BookStep,
     ResetNonces, ClearPendingTransactions, Blockchain, WatchStep, WatchRuns, StartWatch, Poll,
     TimesOut, TxAnswers, ReceiptAnswers, HeightAnswers, WatchFails, Wakes, sendVars
<1> QED
  BY <1>1, <1>2 DEF Next, vars, sendVars

\* The chains only grow.
LEMMA ChainGrows ==
    ASSUME NonceInv, [Next]_vars
    PROVE  /\ \A n \in Networks, a \in Accounts :
                  count[n][a] \in Nat /\ count'[n][a] \in Nat /\ count[n][a] <= count'[n][a]
           /\ \A n \in Networks : height[n] \in Nat /\ height'[n] \in Nat /\ height[n] <= height'[n]
<1>1. NonceInv'
  BY NextNonceInv
<1>2. /\ count \in [Networks -> [Accounts -> Nat]] /\ count' \in [Networks -> [Accounts -> Nat]]
      /\ height \in [Networks -> 0..MaxBlocks] /\ height' \in [Networks -> 0..MaxBlocks]
  BY <1>1 DEF NonceInv, TypeOK, ChainTypeOK
<1>3. CASE \E c \in Txs : Mine(c)
  <2> PICK c \in Txs : Mine(c)
    BY <1>3
  <2>1. on[c] \in Networks /\ Sender[c] \in Accounts
    BY ChainAssumption DEF Mine, NonceInv, PoolInv, TypeOK, ChainTypeOK
  <2> QED BY <1>2, <2>1 DEF Mine
<1>4. CASE \E n \in Networks : EmptyBlock(n)
  BY <1>2, <1>4 DEF EmptyBlock
<1>5. CASE UNCHANGED <<count, height>>
  BY <1>2, <1>5
<1>6. CASE LinkStep \/ BookStep \/ \E w \in Watches : WatchStep(w)
  BY <1>5, <1>6 DEF LinkStep, Connect, ConnectEnds, Disconnect, SwitchNetwork, SwitchOpens,
     BookStep,
     ResetNonces, ClearPendingTransactions, WatchStep, WatchRuns, StartWatch, Poll,
     TimesOut, TxAnswers, ReceiptAnswers, HeightAnswers, WatchFails, Wakes, chainVars
<1>7. CASE \E c \in Sends : SendStep(c)
  BY <1>5, <1>7 DEF SendStep, Start, Prepare, AskNonce, NodeAnswers, TakeNonce, Priced, SendFails,
     Broadcast, NodeAccepts, Accept, Sent, chainVars
<1> QED
  BY <1>3, <1>4, <1>5, <1>6, <1>7 DEF Next, Blockchain, ChainStep, Drop, ForeignSent, Accept, vars, chainVars

\* Only switchNetwork changes the network, and it counts itself first.
LEMMA LinkNext ==
    ASSUME NonceInv, LinkInv, [Next]_vars
    PROVE  /\ LinkInv'
           /\ switches' \in {switches, switches + 1}
           /\ switches' = switches /\ link # "leaving" => network' = network /\ link' # "leaving"
<1>1. switches \in Nat /\ network \in Networks
  BY DEF NonceInv, TypeOK
<1>2. CASE LinkStep
  BY <1>1, <1>2 DEF LinkInv, LinkStep, Connect, ConnectEnds, Disconnect, SwitchNetwork, SwitchOpens
<1>3. CASE UNCHANGED linkVars
  BY <1>3 DEF LinkInv, linkVars
<1>4. CASE BookStep \/ \E w \in Watches : WatchStep(w)
  BY <1>3, <1>4 DEF BookStep,
     ResetNonces, ClearPendingTransactions, WatchStep, WatchRuns, StartWatch, Poll,
     TimesOut, TxAnswers, ReceiptAnswers, HeightAnswers, WatchFails, Wakes
<1>5. CASE \E c \in Sends : SendStep(c)
  BY <1>3, <1>5 DEF SendStep, Start, Prepare, AskNonce, NodeAnswers, TakeNonce, Priced, SendFails,
     Broadcast, NodeAccepts, Sent
<1> QED
  BY <1>2, <1>3, <1>4, <1>5 DEF Next, Blockchain, vars

\* Outside of Accept, Mine and Drop nothing happens to the transactions.
LEMMA TransactionsStay ==
    ASSUME [Next]_vars,
           \A c \in Sends : ~NodeAccepts(c),
           ~(Blockchain /\ \E c \in Txs : Mine(c) \/ Drop(c)),
           ~(Blockchain /\ \E f \in Foreign : ForeignSent(f))
    PROVE  UNCHANGED <<where, on, number, block>>
<1>1. CASE LinkStep \/ BookStep \/ \E w \in Watches : WatchStep(w)
  BY <1>1 DEF LinkStep, Connect, ConnectEnds, Disconnect, SwitchNetwork, SwitchOpens, BookStep,
     ResetNonces, ClearPendingTransactions, WatchStep, WatchRuns, StartWatch, Poll,
     TimesOut, TxAnswers, ReceiptAnswers, HeightAnswers, WatchFails, Wakes, chainVars
<1>2. CASE \E c \in Sends : SendStep(c)
  BY <1>2 DEF SendStep, Start, Prepare, AskNonce, NodeAnswers, TakeNonce, Priced, SendFails,
     Broadcast, Sent, chainVars
<1>3. CASE Blockchain
  BY <1>3 DEF Blockchain, ChainStep, EmptyBlock
<1> QED
  BY <1>1, <1>2, <1>3 DEF Next, vars, chainVars

\* Where a step takes the program counter of a send.
LEMMA PcNext ==
    ASSUME NonceInv, [Next]_vars, NEW c \in Sends
    PROVE  /\ pc[c] \in {"accepted", "sent", "failed"} => pc'[c] \in {"accepted", "sent", "failed"}
           /\ pc'[c] = "answered" => pc[c] = "answered" \/ NodeAnswers(c)
           /\ pc'[c] = "answered" /\ ~NodeAnswers(c) => answer'[c] = answer[c]
           /\ pc'[c] = "count" =>
                 (pc[c] = "count" /\ asked'[c] = asked[c]) \/ (provider # None /\ asked'[c] = provider)
<1>1. /\ pc \in [Sends -> Points] /\ answer \in [Sends -> Nat \cup {None}]
      /\ asked \in [Sends -> MaybeNetwork]
  BY DEF NonceInv, TypeOK
<1>2. ASSUME NEW d \in Sends, SendStep(d), d # c
      PROVE  UNCHANGED <<pc[c], answer[c], asked[c]>>
  BY <1>1, <1>2 DEF SendStep, Start, Prepare, AskNonce, NodeAnswers, TakeNonce, Priced, SendFails,
     Broadcast, NodeAccepts, Sent, Goto
<1>3. CASE SendStep(c)
  BY <1>1, <1>3 DEF SendStep, Start, Prepare, AskNonce, NodeAnswers, TakeNonce, Priced, SendFails,
     Broadcast, NodeAccepts, Sent, Goto, IsConnected
<1>4. CASE UNCHANGED <<pc, answer, asked>>
  BY <1>4
<1>5. CASE LinkStep \/ BookStep \/ Blockchain \/ \E w \in Watches : WatchStep(w)
  BY <1>4, <1>5 DEF LinkStep, Connect, ConnectEnds, Disconnect, SwitchNetwork, SwitchOpens,
     BookStep,
     ResetNonces, ClearPendingTransactions, Blockchain, WatchStep, WatchRuns, StartWatch, Poll,
     TimesOut, TxAnswers, ReceiptAnswers, HeightAnswers, WatchFails, Wakes, sendVars
<1> QED
  BY <1>2, <1>3, <1>4, <1>5 DEF Next, vars, sendVars

\* A transaction goes on carrying its send's nonce.
LEMMA CarriedNext == ASSUME NonceInv, CarriedInv, [Next]_vars PROVE CarriedInv'
<1>0. where \in [Txs -> {"none", "pool", "mined", "reverted", "dropped"}]
      /\ number \in [Txs -> Nat \cup {None}] /\ pc \in [Sends -> Points]
  BY DEF NonceInv, TypeOK, ChainTypeOK
<1>1. ASSUME NEW c \in Sends, where'[c] # "none"
      PROVE  /\ number'[c] # None /\ number'[c] = nonce'[c]
             /\ pc'[c] \in {"accepted", "sent", "failed"}
  <2>1. CASE NodeAccepts(c)
    BY <1>0, <2>1 DEF NodeAccepts, Accept, Goto, NonceInv, SendInv
  <2>2. CASE where[c] # "none" /\ number'[c] = number[c]
    BY <2>2, NonceKept, PcNext DEF CarriedInv
  <2>3. ~NodeAccepts(c) => where[c] # "none" /\ number'[c] = number[c]
    <3>1. ASSUME NEW d \in Sends, NodeAccepts(d), d # c
          PROVE  where[c] # "none" /\ number'[c] = number[c]
      BY <1>0, <1>1, <3>1 DEF NodeAccepts, Accept, Waiting
    <3>2. ASSUME NEW d \in Txs, Mine(d) \/ Drop(d)
          PROVE  where[c] # "none" /\ number'[c] = number[c]
      BY <1>0, <1>1, <3>2 DEF Mine, Drop
    <3>3. ASSUME NEW f \in Foreign, ForeignSent(f)
          PROVE  where[c] # "none" /\ number'[c] = number[c]
      <4>1. c # f
        BY ChainAssumption
      <4> QED BY <1>0, <1>1, <3>3, <4>1 DEF ForeignSent, Accept, Waiting
    <3> QED BY <1>1, <3>1, <3>2, <3>3, TransactionsStay
  <2> QED BY <2>1, <2>2, <2>3
<1>2. ASSUME NEW f \in Foreign, where'[f] = "none"
      PROVE  number'[f] = None
  <2>1. where[f] = "none" => number[f] = None
    BY DEF CarriedInv
  <2>2. f \in Txs /\ f \notin Sends
    BY ChainAssumption
  <2>3. ASSUME NEW d \in Sends, NodeAccepts(d) PROVE number'[f] = None
    BY <1>0, <1>2, <2>1, <2>2, <2>3 DEF NodeAccepts, Accept
  <2>4. ASSUME NEW d \in Txs, Mine(d) \/ Drop(d) PROVE number'[f] = None
    BY <1>0, <1>2, <2>1, <2>4 DEF Mine, Drop
  <2>5. ASSUME NEW g \in Foreign, ForeignSent(g) PROVE number'[f] = None
    BY <1>0, <1>2, <2>1, <2>5 DEF ForeignSent, Accept
  <2> QED BY <1>2, <2>1, <2>3, <2>4, <2>5, TransactionsStay
<1> QED BY <1>1, <1>2 DEF CarriedInv

\* A foreign transaction keeps its chain and its number.
LEMMA ForeignStays ==
    ASSUME NonceInv, [Next]_vars, NEW f \in Foreign, where[f] # "none"
    PROVE  where'[f] # "none" /\ on'[f] = on[f] /\ number'[f] = number[f]
<1>0. f \in Txs /\ f \notin Sends
  BY ChainAssumption
<1>1. /\ where \in [Txs -> {"none", "pool", "mined", "reverted", "dropped"}]
      /\ on \in [Txs -> Networks \cup {None}] /\ number \in [Txs -> Nat \cup {None}]
  BY DEF NonceInv, TypeOK, ChainTypeOK
<1>2. ASSUME NEW c \in Sends, NodeAccepts(c)
      PROVE  where'[f] # "none" /\ on'[f] = on[f] /\ number'[f] = number[f]
  BY <1>0, <1>1, <1>2 DEF NodeAccepts, Accept
<1>3. ASSUME NEW g \in Foreign, ForeignSent(g)
      PROVE  where'[f] # "none" /\ on'[f] = on[f] /\ number'[f] = number[f]
  BY <1>0, <1>1, <1>3 DEF ForeignSent, Accept
<1>4. ASSUME NEW c \in Txs, Mine(c) \/ Drop(c)
      PROVE  where'[f] # "none" /\ on'[f] = on[f] /\ number'[f] = number[f]
  BY <1>0, <1>1, <1>4 DEF Mine, Drop
<1> QED BY <1>0, <1>1, <1>2, <1>3, <1>4, TransactionsStay

LEMMA AccountedStays ==
    ASSUME NonceInv, CarriedInv, [Next]_vars, network' = network,
           NEW a \in Accounts, NEW k \in Nat, Accounted(a, k)
    PROVE  Accounted(a, k)'
<1>1. CASE Handed(a, k)
  <2>1. PICK c \in Sends : Sender[c] = a /\ nonce[c] = k
    BY <1>1 DEF Handed
  <2>2. nonce'[c] = k
    BY <2>1, NonceKept, ChainAssumption
  <2> QED BY <2>1, <2>2 DEF Handed, Accounted
<1>2. CASE Elsewhere(network, a, k)
  <2>1. PICK f \in Foreign : Sender[f] = a /\ on[f] = network /\ number[f] = k
    BY <1>2 DEF Elsewhere
  <2>2. where[f] # "none"
    BY <2>1, ChainAssumption DEF CarriedInv
  <2>3. on'[f] = network' /\ number'[f] = k
    BY <2>1, <2>2, ForeignStays
  <2> QED BY <2>1, <2>3 DEF Elsewhere, Accounted
<1> QED BY <1>1, <1>2 DEF Accounted

---------------------------------------------------------------------------
(* AccountInv: every nonce the cache has passed is accounted for.          *)

\* What the node answers is past a run of waiting transactions, and each of them
\* carries the nonce of a send or is a foreign one.
LEMMA AnswerAccounted ==
    ASSUME NonceInv, CarriedInv, NEW c \in Sends, asked[c] = network, NodeAnswers(c)
    PROVE  \A k \in count[network][Sender[c]]..(answer'[c] - 1) : Accounted(Sender[c], k)
<1>1. PICK n \in PendingCounts(network, Sender[c]) : answer'[c] = n
  BY DEF NodeAnswers, NonceInv, TypeOK
<1>2. \A k \in count[network][Sender[c]]..(n - 1) : Waiting(network, Sender[c], k) # {}
  BY DEF PendingCounts
<1> QED BY <1>1, <1>2 DEF Waiting, CarriedInv, Accounted, Handed, Elsewhere

LEMMA AnswerNext ==
    ASSUME NonceInv, AccountInv, [Next]_vars
    PROVE  AnswerInv'
<1> SUFFICES ASSUME switches' = 0, NEW c \in Sends
             PROVE  /\ pc'[c] = "count" => asked'[c] = network'
                    /\ pc'[c] = "answered" =>
                          \A k \in count'[network'][Sender[c]]..(answer'[c] - 1) : Accounted(Sender[c], k)'
  BY DEF AnswerInv
<1>1. switches = 0 /\ network' = network /\ provider \in {network, None} /\ network \in Networks
  BY LinkNext DEF AccountInv, LinkInv, NonceInv, TypeOK
<1>2. /\ pc[c] = "count" => asked[c] = network
      /\ pc[c] = "answered" =>
            \A k \in count[network][Sender[c]]..(answer[c] - 1) : Accounted(Sender[c], k)
  BY <1>1 DEF AccountInv, AnswerInv
<1>3. pc'[c] = "count" => asked'[c] = network'
  BY <1>1, <1>2, PcNext
<1>4. ASSUME pc'[c] = "answered"
      PROVE  /\ \A k \in count[network][Sender[c]]..(answer'[c] - 1) : Accounted(Sender[c], k)
             /\ answer'[c] \in Nat
  <2>1. CASE NodeAnswers(c)
    <3>1. asked[c] = network
      BY <1>2, <2>1 DEF NodeAnswers
    <3>2. answer'[c] \in Nat
      BY <1>4, NextNonceInv DEF NonceInv, SendInv, TypeOK
    <3> QED BY <2>1, <3>1, <3>2, AnswerAccounted DEF AccountInv
  <2>2. CASE ~NodeAnswers(c)
    BY <1>2, <1>4, <2>2, PcNext DEF NonceInv, SendInv, TypeOK
  <2> QED BY <2>1, <2>2
<1>5. ASSUME pc'[c] = "answered", NEW k \in count'[network][Sender[c]]..(answer'[c] - 1)
      PROVE  Accounted(Sender[c], k)'
  <2>1. Sender[c] \in Accounts
    BY ChainAssumption
  <2>2. /\ count[network][Sender[c]] \in Nat /\ count'[network][Sender[c]] \in Nat
        /\ count[network][Sender[c]] <= count'[network][Sender[c]]
    BY <1>1, <2>1, ChainGrows
  <2>3. k \in Nat /\ k \in count[network][Sender[c]]..(answer'[c] - 1)
    BY <1>4, <1>5, <2>2
  <2> QED BY <1>1, <1>4, <1>5, <2>1, <2>3, AccountedStays DEF AccountInv
<1> QED BY <1>1, <1>3, <1>5

\* What a step writes into the cache: nothing, a reset, or the nonce after the one
\* it hands out.
LEMMA CacheNext ==
    ASSUME NonceInv, [Next]_vars, NEW a \in Accounts,
           \A c \in Sends : Sender[c] = a => ~TakeNonce(c)
    PROVE  nonceCache'[a] \in {nonceCache[a], None}
<1>0. nonceCache \in [Accounts -> Nat \cup {None}]
  BY DEF NonceInv, TypeOK
<1>1. CASE LinkStep \/ Blockchain \/ \E w \in Watches : WatchStep(w)
  BY <1>1 DEF LinkStep, Connect, ConnectEnds, Disconnect, SwitchNetwork, SwitchOpens, Blockchain,
     WatchStep, WatchRuns, StartWatch, Poll,
     TimesOut, TxAnswers, ReceiptAnswers, HeightAnswers, WatchFails, Wakes, nonceVars
<1>2. CASE BookStep
  BY <1>0, <1>2 DEF BookStep, ResetNonces, ClearPendingTransactions
<1>3. CASE \E c \in Sends : SendStep(c)
  <2> PICK c \in Sends : SendStep(c)
    BY <1>3
  <2>1. CASE TakeNonce(c)
    BY <1>0, <2>1 DEF TakeNonce
  <2>2. CASE ~TakeNonce(c)
    BY <2>2 DEF SendStep, Start, Prepare, AskNonce, NodeAnswers, Priced, SendFails,
       Broadcast, NodeAccepts, Sent, nonceVars
  <2> QED BY <2>1, <2>2
<1> QED
  BY <1>1, <1>2, <1>3 DEF Next, vars, nonceVars

LEMMA AccountedNext ==
    ASSUME NonceInv, AccountInv, [Next]_vars
    PROVE  NoncesAccounted'
<1> SUFFICES ASSUME switches' = 0, NEW a \in Accounts, nonceCache'[a] # None,
                    NEW k \in count'[network'][a]..(nonceCache'[a] - 1)
             PROVE  Accounted(a, k)'
  BY DEF NoncesAccounted, Accounted
<1>1. switches = 0 /\ network' = network /\ network \in Networks
  BY LinkNext DEF AccountInv, LinkInv, NonceInv, TypeOK
<1>2. /\ count[network][a] \in Nat /\ count'[network][a] \in Nat
      /\ count[network][a] <= count'[network][a]
  BY <1>1, ChainGrows
<1>3. nonceCache[a] \in Nat \cup {None} /\ nonceCache'[a] \in Nat
  BY NextNonceInv DEF NonceInv, TypeOK
<1>4. k \in Nat /\ count[network][a] <= k /\ k < nonceCache'[a]
  BY <1>1, <1>2, <1>3
<1>5. ASSUME nonceCache[a] # None, k < nonceCache[a]
      PROVE  Accounted(a, k)
  BY <1>1, <1>2, <1>3, <1>4, <1>5 DEF AccountInv, NoncesAccounted, Accounted
<1>6. CASE \A c \in Sends : Sender[c] = a => ~TakeNonce(c)
  BY <1>1, <1>3, <1>4, <1>5, <1>6, CacheNext, AccountedStays DEF AccountInv
<1>7. ASSUME NEW c \in Sends, Sender[c] = a, TakeNonce(c)
      PROVE  Accounted(a, k)'
  <2>1. /\ answer[c] \in Nat /\ pc[c] = "answered"
        /\ nonce'[c] = NextNonce(c) /\ nonceCache'[a] = NextNonce(c) + 1
        /\ NextNonce(c) \in Nat
    BY <1>7, TakenAboveCache DEF TakeNonce, NonceInv, SendInv, TypeOK
  <2>2. CASE k = NextNonce(c)
    BY <1>7, <2>1, <2>2 DEF Accounted, Handed
  <2>3. CASE k < NextNonce(c)
    <3>1. CASE nonceCache[a] # None /\ k < nonceCache[a]
      BY <1>1, <1>4, <1>5, <3>1, AccountedStays DEF AccountInv
    <3>2. CASE ~(nonceCache[a] # None /\ k < nonceCache[a])
      <4>1. k < answer[c]
        BY <1>3, <1>7, <2>1, <2>3, <3>2 DEF NextNonce
      <4>2. k \in count[network][a]..(answer[c] - 1)
        BY <1>2, <1>4, <2>1, <4>1
      <4>3. Accounted(a, k)
        BY <1>1, <1>7, <2>1, <4>2 DEF AccountInv, AnswerInv
      <4> QED BY <1>1, <1>4, <4>3, AccountedStays DEF AccountInv
    <3> QED BY <3>1, <3>2
  <2> QED BY <1>4, <2>1, <2>2, <2>3
<1> QED BY <1>6, <1>7

\* Until the network is switched, no nonce is skipped: from the chain's own count
\* up to the cached nonce each one was handed to a send, or used by others who
\* send with the same account.
THEOREM CacheAccountsForNonces == Spec => []NoncesAccounted
<1>1. Init => AccountInv
  BY ChainAssumption DEF Init, ChainInit, AccountInv, LinkInv, CarriedInv, AnswerInv,
     NoncesAccounted
<1>2. NonceInv /\ AccountInv /\ [Next]_vars => AccountInv'
  BY LinkNext, CarriedNext, AnswerNext, AccountedNext DEF AccountInv
<1>3. AccountInv => NoncesAccounted
  BY DEF AccountInv
<1> QED BY <1>1, <1>2, <1>3, InitNonceInv, NextNonceInv, PTL DEF Spec

---------------------------------------------------------------------------
(* DepthInv: what a watch confirms is as deep as it was asked.             *)

\* An included transaction stays where it is.
LEMMA MinedStays ==
    ASSUME NonceInv, CarriedInv, [Next]_vars, NEW c \in Txs,
           where[c] \in {"mined", "reverted"}
    PROVE  where'[c] = where[c] /\ on'[c] = on[c] /\ block'[c] = block[c]
<1>0. /\ where \in [Txs -> {"none", "pool", "mined", "reverted", "dropped"}]
      /\ on \in [Txs -> Networks \cup {None}] /\ block \in [Txs -> 0..MaxBlocks]
  BY DEF NonceInv, TypeOK, ChainTypeOK
<1>1. ASSUME NEW d \in Sends, NodeAccepts(d)
      PROVE  where'[c] = where[c] /\ on'[c] = on[c] /\ block'[c] = block[c]
  <2>1. d # c
    BY <1>1 DEF NodeAccepts, CarriedInv
  <2> QED BY <1>0, <1>1, <2>1 DEF NodeAccepts, Accept, Waiting
<1>2. ASSUME NEW d \in Txs, Mine(d) \/ Drop(d)
      PROVE  where'[c] = where[c] /\ on'[c] = on[c] /\ block'[c] = block[c]
  BY <1>0, <1>2 DEF Mine, Drop
<1>3. ASSUME NEW f \in Foreign, ForeignSent(f)
      PROVE  where'[c] = where[c] /\ on'[c] = on[c] /\ block'[c] = block[c]
  BY <1>0, <1>3 DEF ForeignSent, Accept, Waiting
<1> QED BY <1>1, <1>2, <1>3, TransactionsStay

LEMMA MinedNext ==
    ASSUME NonceInv, CarriedInv, MinedInv, [Next]_vars
    PROVE  MinedInv'
<1> SUFFICES ASSUME NEW c \in Txs, where'[c] \in {"mined", "reverted"}
             PROVE  on'[c] \in Networks /\ block'[c] <= height'[on'[c]]
  BY DEF MinedInv
<1>0. /\ where \in [Txs -> {"none", "pool", "mined", "reverted", "dropped"}]
      /\ on \in [Txs -> Networks \cup {None}] /\ block \in [Txs -> 0..MaxBlocks]
      /\ height \in [Networks -> 0..MaxBlocks]
  BY DEF NonceInv, TypeOK, ChainTypeOK
<1>1. CASE where[c] \in {"mined", "reverted"}
  <2>1. on[c] \in Networks /\ block[c] <= height[on[c]] /\ block[c] \in Nat
    BY <1>0, <1>1 DEF MinedInv
  <2> QED BY <1>1, <2>1, MinedStays, ChainGrows
<1>2. CASE where[c] \notin {"mined", "reverted"}
  <2>1. /\ \A d \in Sends : ~NodeAccepts(d)
        /\ \A f \in Foreign : ~ForeignSent(f)
    BY <1>0, <1>2 DEF NodeAccepts, ForeignSent, Accept
  <2>2. Mine(c)
    BY <1>0, <1>2, <2>1, TransactionsStay DEF Mine, Drop
  <2>3. on[c] \in Networks
    BY <2>2 DEF Mine, NonceInv, PoolInv, TypeOK, ChainTypeOK
  <2> QED BY <1>0, <2>2, <2>3 DEF Mine
<1> QED BY <1>1, <1>2

\* Watches other than the one that takes the step, and all of them when none does.
LEMMA WatchNext ==
    ASSUME NonceInv, [Next]_vars, NEW w \in Watches, ~WatchStep(w)
    PROVE  UNCHANGED <<wpc[w], wtx[w], wnet[w], wblock[w], wsince[w]>>
<1>1. ASSUME NEW v \in Watches, WatchStep(v), v # w
      PROVE  UNCHANGED <<wpc[w], wtx[w], wnet[w], wblock[w], wsince[w]>>
  <2>1. /\ wpc \in [Watches -> WatchPoints] /\ wtx \in [Watches -> Sends \cup {None}]
        /\ wnet \in [Watches -> MaybeNetwork] /\ wblock \in [Watches -> (0..MaxBlocks) \cup {None}]
        /\ wsince \in [Watches -> 0..MaxSwitches]
    BY DEF NonceInv, TypeOK
  <2> QED
    BY <1>1, <2>1 DEF WatchStep, WatchRuns, StartWatch, Poll, TimesOut, TxAnswers, ReceiptAnswers,
       HeightAnswers, WatchFails, Wakes, WatchGoto, AskNode
<1>2. CASE UNCHANGED watchVars
  BY <1>2 DEF watchVars
<1>3. CASE LinkStep \/ BookStep
  BY <1>2, <1>3 DEF LinkStep, Connect, ConnectEnds, Disconnect, SwitchNetwork, SwitchOpens,
     BookStep,
     ResetNonces, ClearPendingTransactions
<1>4. CASE \E c \in Sends : SendStep(c)
  BY <1>2, <1>4 DEF SendStep, Start, Prepare, AskNonce, NodeAnswers, TakeNonce, Priced, SendFails,
     Broadcast, NodeAccepts, Sent
<1> QED
  BY <1>1, <1>2, <1>3, <1>4 DEF Next, Blockchain, vars

\* What DepthInv says of one watch.
WatchedAt(w) ==
    /\ wsince[w] <= switches
    /\ Watching(w) /\ wsince[w] = switches =>
          /\ link # "leaving"
          /\ wpc[w] \in {"tx", "receipt", "height"} => wnet[w] = network
          /\ wpc[w] = "height" /\ wblock[w] # None =>
                MinedOn(network, wtx[w]) /\ wblock[w] = block[wtx[w]]

\* A step of a watch, which reads the connection and the chain as they are.
LEMMA WatchedStep ==
    ASSUME NonceInv, DepthInv, NEW w \in Watches, WatchStep(w)
    PROVE  WatchedAt(w)'
<1>1. /\ wpc \in [Watches -> WatchPoints] /\ wtx \in [Watches -> Sends \cup {None}]
      /\ wnet \in [Watches -> MaybeNetwork] /\ wblock \in [Watches -> (0..MaxBlocks) \cup {None}]
      /\ wsince \in [Watches -> 0..MaxSwitches] /\ switches \in Nat
  BY DEF NonceInv, TypeOK
<1>2. UNCHANGED <<chainVars, linkVars>>
  BY DEF WatchStep, WatchRuns, StartWatch, Poll, TimesOut, TxAnswers, ReceiptAnswers,
         HeightAnswers, WatchFails, Wakes
<1>3. UNCHANGED <<network, link, switches, provider, where, on, block>>
  BY <1>2 DEF chainVars, linkVars
<1>4. LinkInv /\ WatchedAt(w)
  BY DEF DepthInv, WatchedInv, WatchedAt
<1>5. CASE \E c \in Sends : StartWatch(w, c)
  <2>1. wsince'[w] = switches /\ wpc'[w] \in {"poll", "failed"}
        /\ (wpc'[w] = "poll" => provider # None)
    BY <1>1, <1>5 DEF StartWatch, WatchGoto, IsConnected
  <2> QED BY <1>1, <1>3, <1>4, <2>1 DEF WatchedAt, Watching, LinkInv
<1>6. CASE Poll(w)
  <2>1. wsince'[w] = wsince[w] /\ wpc[w] = "poll"
        /\ (wpc'[w] = "failed" \/ (wpc'[w] = "tx" /\ wnet'[w] = provider /\ provider # None))
    BY <1>1, <1>6 DEF Poll, WatchGoto, AskNode, IsConnected
  <2> QED BY <1>3, <1>4, <2>1 DEF WatchedAt, Watching, LinkInv
<1>7. CASE TxAnswers(w)
  <2>1. wsince'[w] = wsince[w] /\ wpc[w] = "tx"
        /\ (wpc'[w] \in {"failed", "sleep"}
              \/ (wpc'[w] = "receipt" /\ wnet'[w] = provider /\ provider # None))
    BY <1>1, <1>7 DEF TxAnswers, WatchGoto, AskNode
  <2> QED BY <1>3, <1>4, <2>1 DEF WatchedAt, Watching, LinkInv
<1>8. CASE ReceiptAnswers(w)
  <2>1. wsince'[w] = wsince[w] /\ wpc[w] = "receipt" /\ wtx'[w] = wtx[w]
        /\ wblock'[w] = (IF MinedOn(wnet[w], wtx[w]) THEN block[wtx[w]] ELSE None)
        /\ (wpc'[w] = "failed" \/ (wpc'[w] = "height" /\ wnet'[w] = provider /\ provider # None))
    BY <1>1, <1>8 DEF ReceiptAnswers, WatchGoto, AskNode
  <2> QED BY <1>3, <1>4, <2>1 DEF WatchedAt, Watching, LinkInv, MinedOn
<1>9. CASE HeightAnswers(w) \/ WatchFails(w) \/ TimesOut(w) \/ Wakes(w)
  <2>1. /\ wsince'[w] = wsince[w] /\ Watching(w)
        /\ wpc'[w] \in {"confirmed", "failed", "sleep", "poll"}
    BY <1>1, <1>9 DEF HeightAnswers, WatchFails, TimesOut, Wakes, WatchGoto, Watching
  <2> QED BY <1>3, <1>4, <2>1 DEF WatchedAt, Watching
<1> QED BY <1>5, <1>6, <1>7, <1>8, <1>9 DEF WatchStep, WatchRuns

LEMMA DepthNext == NonceInv /\ DepthInv /\ [Next]_vars => DepthInv'
<1> SUFFICES ASSUME NonceInv, DepthInv, [Next]_vars PROVE DepthInv'
  OBVIOUS
<1>1. LinkInv' /\ CarriedInv' /\ MinedInv'
  BY LinkNext, CarriedNext, MinedNext DEF DepthInv
<1>2. ASSUME NEW w \in Watches, ~WatchStep(w) PROVE WatchedAt(w)'
  <2>1. UNCHANGED <<wpc[w], wtx[w], wnet[w], wblock[w], wsince[w]>>
    BY <1>2, WatchNext
  <2>2. WatchedAt(w) /\ switches \in Nat /\ wsince[w] \in Nat
    BY DEF DepthInv, WatchedInv, WatchedAt, NonceInv, TypeOK
  <2>3. switches' \in {switches, switches + 1}
        /\ (switches' = switches /\ link # "leaving" => network' = network /\ link' # "leaving")
    BY LinkNext DEF DepthInv
  <2>4. ASSUME wpc[w] = "height", MinedOn(network, wtx[w]), network' = network
        PROVE  MinedOn(network, wtx[w])' /\ block'[wtx[w]] = block[wtx[w]]
    <3>1. wtx[w] \in Sends
      BY <2>4 DEF NonceInv, WatchInv, TypeOK
    <3> QED BY <2>1, <2>4, <3>1, MinedStays DEF MinedOn, DepthInv
  <2>5. ASSUME Watching(w)', wsince'[w] = switches'
        PROVE  /\ Watching(w) /\ wsince[w] = switches /\ link # "leaving"
               /\ network' = network /\ link' # "leaving"
    BY <2>1, <2>2, <2>3, <2>5 DEF WatchedAt, Watching
  <2>6. wsince'[w] <= switches'
    BY <2>1, <2>2, <2>3 DEF WatchedAt
  <2> QED BY <2>1, <2>2, <2>4, <2>5, <2>6 DEF WatchedAt
<1>3. WatchedInv'
  BY <1>2, WatchedStep DEF WatchedInv, WatchedAt
<1> QED BY <1>1, <1>3 DEF DepthInv

\* Whatever the order of receipt and block number, of blocks and of callers: what
\* a watch reports as confirmed, with no switch since it started, is executed
\* successfully and under as many blocks as it was asked for.
THEOREM ConfirmedIsDeep == Spec => ConfirmedDepth
<1> DEFINE Deep == \A w \in Watches :
        (wpc'[w] = "confirmed" /\ wpc[w] # "confirmed" /\ switches = wsince[w]) =>
            /\ where[wtx[w]] = "mined"
            /\ height[on[wtx[w]]] >= block[wtx[w]] + Required - 1
<1>1. Init => DepthInv
  BY DEF Init, ChainInit, DepthInv, LinkInv, CarriedInv, MinedInv, WatchedInv, Watching
<1>2. NonceInv /\ DepthInv /\ [Next]_vars => Deep
  <2> SUFFICES ASSUME NonceInv, DepthInv, [Next]_vars, NEW w \in Watches,
                      wpc'[w] = "confirmed", wpc[w] # "confirmed", switches = wsince[w]
               PROVE  /\ where[wtx[w]] = "mined"
                      /\ height[on[wtx[w]]] >= block[wtx[w]] + Required - 1
    OBVIOUS
  <2>1. HeightAnswers(w)
    <3>1. WatchStep(w)
      BY WatchNext
    <3> QED
      BY <3>1 DEF WatchStep, WatchRuns, StartWatch, Poll, TimesOut, TxAnswers, ReceiptAnswers,
         WatchFails, Wakes, WatchGoto, NonceInv, TypeOK
  <2>2. /\ wpc[w] = "height" /\ wblock[w] # None /\ where[wtx[w]] # "reverted"
        /\ Confirmations(w) >= Required
    BY <2>1 DEF HeightAnswers, WatchGoto, NonceInv, TypeOK
  <2>3. MinedOn(network, wtx[w]) /\ wblock[w] = block[wtx[w]] /\ wnet[w] = network
    BY <2>2 DEF DepthInv, WatchedInv, Watching
  <2>4. wtx[w] \in Sends /\ network \in Networks
    BY <2>2 DEF NonceInv, WatchInv, TypeOK
  <2>5. block[wtx[w]] \in Int /\ height[network] \in Int /\ Required \in Int
    BY <2>4, AdapterAssumption DEF NonceInv, TypeOK, ChainTypeOK
  <2> QED BY <2>2, <2>3, <2>5 DEF MinedOn, Confirmations
<1>3. [][NonceInv /\ DepthInv /\ [Next]_vars]_vars => ConfirmedDepth
  BY <1>2, PTL DEF ConfirmedDepth
<1> QED BY <1>1, <1>3, InitNonceInv, NextNonceInv, DepthNext, PTL DEF Spec
=============================================================================
