------------------------ MODULE KiltConnectionProofs ------------------------
(***************************************************************************)
(* Proofs about KiltConnection: for any networks, numbers of tasks,        *)
(* endpoints and rounds, no websocket leaks and the adapter's state is     *)
(* true whenever no task runs.                                             *)
(***************************************************************************)
EXTENDS KiltConnection, TLAPS

USE DEF InProgress, MaybeSocket, Sockets, Socket, States

LEMMA InitConnectionInv == Init => ConnectionInv
<1> SUFFICES ASSUME Init PROVE ConnectionInv
  OBVIOUS
<1>1. 1 \in 1..MaxRetries /\ 1 \in 1..Endpoints
  BY ConnectionAssumption
<1>2. TypeOK
  BY <1>1 DEF Init, TypeOK
<1>3. BackoffInv /\ OverlapInv /\ StoppedInv /\ OnlyOverlapLeaks
  BY DEF Init, BackoffInv, OverlapInv, StoppedInv, OnlyOverlapLeaks
<1>4. Settled
  BY DEF Init, Settled
<1> QED BY <1>2, <1>3, <1>4 DEF ConnectionInv

\* What the tries of a task leave of the others and of the overlaps.
LEMMA TriesAdd ==
  ASSUME TypeOK, NEW t \in Tasks, NEW a \in 1..MaxRetries, NEW e \in 1..Endpoints,
         Tries(t, a, e)
  PROVE  /\ pc' = [pc EXCEPT ![t] = "opening"]
         /\ attempt' \in [Tasks -> 1..MaxRetries] /\ endpoint' \in [Tasks -> 1..Endpoints]
         /\ overlapped \subseteq overlapped' /\ overlapped' \subseteq Sockets
         /\ \A u, w \in Tasks : /\ u # w
                                /\ pc'[u] = "opening" /\ pc'[w] = "opening"
                                => Socket(u)' \in overlapped'
         /\ \A u \in Tasks \ {t} : attempt'[u] = attempt[u] /\ Socket(u)' = Socket(u)
<1> DEFINE opening == {u \in Tasks : pc'[u] = "opening"}
           racing == {<<w, attempt'[w], endpoint'[w]>> : w \in {u \in opening : opening # {u}}}
<1>1. attempt' \in [Tasks -> 1..MaxRetries] /\ endpoint' \in [Tasks -> 1..Endpoints]
  BY DEF Tries, TypeOK
<1>2. overlapped' = overlapped \cup racing
  BY DEF Tries, Overlaps
<1>3. racing \subseteq Sockets
  BY <1>1
<1>4. ASSUME NEW u \in Tasks, NEW w \in Tasks, u # w,
             pc'[u] = "opening", pc'[w] = "opening"
      PROVE  Socket(u)' \in overlapped'
  <2>1. u \in opening /\ opening # {u}
    BY <1>4
  <2> QED BY <2>1, <1>2
<1> QED BY <1>1, <1>2, <1>3, <1>4 DEF Tries, Goto, TypeOK

\* A task that cleans up and is about to open a websocket keeps the invariant:
\* the one before is closed, and a task runs.
LEMMA PreparesKeeps ==
  ASSUME ConnectionInv, NEW t \in Tasks, NEW a \in 1..MaxRetries, NEW e \in 1..Endpoints,
         Prepares(t, a, e),
         currentNetwork' \in Networks, connectionState' \in {"disconnected", "connecting", "connected"},
         connectionState' = "connected" => \A u \in Tasks \ {t} : pc[u] # "renewing",
         chainInfo' \in Networks \cup {Null}, service' \in MaybeSocket, check' \in MaybeSocket,
         closed' \in BOOLEAN
  PROVE  ConnectionInv'
<1> USE TriesAdd DEF ConnectionInv, Prepares, Closes
<1>1. TypeOK'
  BY DEF TypeOK
<1>2. BackoffInv'
  BY DEF TypeOK, BackoffInv
<1>3. OverlapInv'
  <2> SUFFICES ASSUME NEW u \in Tasks, NEW w \in Tasks \ {u},
                      pc'[u] = "opening", pc'[w] = "opening"
               PROVE  Socket(w)' \in overlapped'
    BY DEF OverlapInv
  <2> QED OBVIOUS
<1>4. StoppedInv'
  BY DEF TypeOK, StoppedInv
<1>5. OnlyOverlapLeaks'
  BY ConnectionAssumption DEF TypeOK, OnlyOverlapLeaks
<1>6. Settled'
  <2>1. InProgress(t)'
    BY DEF TypeOK
  <2> QED BY <2>1 DEF Settled
<1> QED BY <1>1, <1>2, <1>3, <1>4, <1>5, <1>6

\* A task that is not about to open a websocket adds no overlap.
LEMMA ElsewhereOverlaps ==
  ASSUME ConnectionInv, NEW t \in Tasks, NEW point, Goto(t, point), point # "opening",
         UNCHANGED <<attempt, endpoint, overlapped>>,
         ws' \in {ws, Null}
  PROVE  OverlapInv'
<1>1. \A u \in Tasks : Socket(u)' = Socket(u) /\ (pc'[u] = "opening" => pc[u] = "opening")
  BY DEF ConnectionInv, TypeOK, Goto
<1> QED BY <1>1 DEF ConnectionInv, TypeOK, OverlapInv

\* reconnect cleans up before it connects.
LEMMA RenewKeeps ==
  ASSUME ConnectionInv, NEW t \in Tasks, Renew(t),
         currentNetwork' \in Networks, check' \in MaybeSocket, closed' \in BOOLEAN
  PROVE  ConnectionInv'
<1> USE DEF ConnectionInv, TypeOK, Renew, New, Goto, Closes
<1>1. TypeOK'
  OBVIOUS
<1>2. BackoffInv'
  BY DEF BackoffInv
<1>3. OverlapInv'
  BY DEF OverlapInv
<1>4. StoppedInv'
  BY DEF StoppedInv
<1>5. OnlyOverlapLeaks'
  BY ConnectionAssumption DEF OnlyOverlapLeaks
<1>6. Settled'
  <2>1. InProgress(t)'
    OBVIOUS
  <2> QED BY <2>1 DEF Settled
<1> QED BY <1>1, <1>2, <1>3, <1>4, <1>5, <1>6

\* What a caller asks for.
LEMMA CallerKeeps ==
  ASSUME ConnectionInv, CallerStep PROVE ConnectionInv'
<1> USE DEF ConnectionInv, TypeOK
<1>1. ASSUME NEW n \in Networks,
             currentNetwork' = n, closed' \in BOOLEAN,
             UNCHANGED <<connectionState, chainInfo, ws, open, api, service, healthTimer, check, taskVars>>
      PROVE  ConnectionInv'
  <2>1. TypeOK' BY <1>1 DEF taskVars
  <2>2. BackoffInv' /\ OverlapInv' /\ StoppedInv' /\ OnlyOverlapLeaks' /\ Settled'
    BY <1>1 DEF taskVars, BackoffInv, OverlapInv, StoppedInv, OnlyOverlapLeaks, Settled
  <2> QED BY <2>1, <2>2
<1>2. CASE \E t \in Tasks, n \in Networks : Connect(t, n) \/ SetNetwork(t, n)
  <2> SUFFICES ASSUME NEW t \in Tasks, NEW n \in Networks, Connect(t, n) \/ SetNetwork(t, n)
               PROVE  ConnectionInv'
    BY <1>2
  <2>1. CASE Connect(t, n)
    <3>1. 1 \in 1..MaxRetries /\ 1 \in 1..Endpoints
      BY ConnectionAssumption
    <3>2. /\ Prepares(t, 1, 1)
          /\ currentNetwork' = n /\ connectionState' = "connecting" /\ closed' = FALSE
          /\ UNCHANGED <<chainInfo, service, check>>
      BY <2>1 DEF Connect
    <3> QED BY <3>1, <3>2, PreparesKeeps
  <2>2. CASE SetNetwork(t, n)
    <3>1. CASE Renew(t) /\ closed' = FALSE /\ UNCHANGED check
      BY <2>2, <3>1, RenewKeeps DEF SetNetwork
    <3>2. CASE UNCHANGED <<connectionState, chainInfo, ws, open, api, service, healthTimer, check, closed, taskVars>>
      BY <2>2, <3>2, <1>1 DEF SetNetwork
    <3> QED BY <2>2, <3>1, <3>2 DEF SetNetwork
  <2> QED BY <2>1, <2>2
<1>3. CASE \E n \in Networks : ConnectReturns(n)
  BY <1>3, <1>1 DEF ConnectReturns
<1>4. CASE \E t \in Tasks : Reconnect(t)
  BY <1>4, RenewKeeps DEF Reconnect
<1>5. CASE Disconnect
  <2>1. TypeOK' BY <1>5 DEF Disconnect, Closes, Forgets, taskVars
  <2>2. BackoffInv' BY <1>5 DEF Disconnect, taskVars, BackoffInv
  <2>3. OverlapInv' BY <1>5 DEF Disconnect, Closes, taskVars, OverlapInv
  <2>4. StoppedInv' BY <1>5 DEF Disconnect, taskVars, StoppedInv
  <2>5. OnlyOverlapLeaks' BY <1>5 DEF Disconnect, Closes, taskVars, OnlyOverlapLeaks
  <2>6. Settled' BY <1>5 DEF Disconnect, Closes, Forgets, Settled
  <2> QED BY <2>1, <2>2, <2>3, <2>4, <2>5, <2>6
<1> QED BY <1>2, <1>3, <1>4, <1>5 DEF CallerStep

\* What becomes of a task.
LEMMA TaskKeeps ==
  ASSUME ConnectionInv, NEW t \in Tasks, Continues(t) \/ Created(t) \/ Expires(t)
  PROVE  ConnectionInv'
<1> USE DEF ConnectionInv, TypeOK, Goto
<1>1. CASE Created(t)
  <2> USE <1>1 DEF Created
  <2>1. TypeOK' BY <1>1
  <2>2. BackoffInv' BY DEF BackoffInv
  <2>3. OverlapInv' BY ElsewhereOverlaps
  <2>4. StoppedInv' BY DEF StoppedInv, TurnOver
  <2>5. OnlyOverlapLeaks' BY DEF OnlyOverlapLeaks
  <2>6. Settled'
    <3>1. api' # Null /\ service' = api' /\ chainInfo' # Null /\ healthTimer'
      BY ConnectionAssumption
    <3> QED BY <3>1 DEF Settled
  <2> QED BY <2>1, <2>2, <2>3, <2>4, <2>5, <2>6
<1>2. CASE TriesNext(t)
  <2>1. endpoint[t] + 1 \in 1..Endpoints
    BY <1>2, ConnectionAssumption DEF TriesNext
  <2>2. chainInfo' \in Networks \cup {Null} /\ service' \in MaybeSocket
    BY <1>2 DEF TriesNext, Forgets
  <2>3. connectionState' \in {"disconnected", "connecting", "connected"}
    BY <1>2 DEF TriesNext, TurnOver, StoppedInv
  <2> QED BY <1>2, <2>1, <2>2, <2>3, PreparesKeeps DEF TriesNext, TurnOver
<1>3. CASE BacksOff(t)
  <2> USE <1>3 DEF BacksOff, Closes
  <2>1. TypeOK' BY DEF Forgets
  <2>2. BackoffInv' BY DEF BackoffInv
  <2>3. OverlapInv' BY ElsewhereOverlaps
  <2>4. StoppedInv' BY DEF StoppedInv
  <2>5. OnlyOverlapLeaks' BY DEF OnlyOverlapLeaks
  <2>6. Settled' BY DEF Settled
  <2> QED BY <2>1, <2>2, <2>3, <2>4, <2>5, <2>6
<1>4. CASE GivesUp(t)
  <2> USE <1>4 DEF GivesUp, Closes, Forgets
  <2>1. TypeOK' OBVIOUS
  <2>2. BackoffInv' BY DEF BackoffInv
  <2>3. OverlapInv' BY ElsewhereOverlaps
  <2>4. StoppedInv' BY DEF StoppedInv
  <2>5. OnlyOverlapLeaks' BY DEF OnlyOverlapLeaks
  <2>6. Settled' BY DEF Settled
  <2> QED BY <2>1, <2>2, <2>3, <2>4, <2>5, <2>6
<1>5. CASE BackoffEnds(t)
  <2>1. attempt[t] + 1 \in 1..MaxRetries /\ 1 \in 1..Endpoints
    BY <1>5, ConnectionAssumption DEF BackoffEnds, BackoffInv
  <2>2. chainInfo' \in Networks \cup {Null} /\ service' \in MaybeSocket
    BY <1>5 DEF BackoffEnds, Forgets
  <2>3. connectionState' \in {"disconnected", "connecting", "connected"}
    BY <1>5 DEF BackoffEnds, TurnOver, StoppedInv
  <2> QED BY <1>5, <2>1, <2>2, <2>3, PreparesKeeps DEF BackoffEnds, TurnOver
<1>6. CASE Renews(t)
  <2>1. 1 \in 1..MaxRetries /\ 1 \in 1..Endpoints
    BY ConnectionAssumption
  <2> QED BY <1>6, <2>1, PreparesKeeps DEF Renews
<1>7. CASE Opens(t)
  <2> USE <1>7 DEF Opens
  <2>1. TypeOK' OBVIOUS
  <2>2. BackoffInv' BY DEF BackoffInv
  <2>3. OverlapInv' BY DEF OverlapInv
  <2>4. StoppedInv' BY DEF StoppedInv
  <2>5. OnlyOverlapLeaks' BY ConnectionAssumption DEF OnlyOverlapLeaks, OverlapInv
  <2>6. Settled'
    <3>1. InProgress(t)' OBVIOUS
    <3> QED BY <3>1 DEF Settled
  <2> QED BY <2>1, <2>2, <2>3, <2>4, <2>5, <2>6
<1> QED BY <1>1, <1>2, <1>3, <1>4, <1>5, <1>6, <1>7 DEF Expires, Continues

\* The health check.
LEMMA HealthKeeps ==
  ASSUME ConnectionInv, HealthTick \/ Healthy \/ \E t \in Tasks : Unhealthy(t)
  PROVE  ConnectionInv'
<1> USE DEF ConnectionInv, TypeOK
<1>1. CASE HealthTick \/ Healthy
  <2>1. TypeOK' BY <1>1 DEF HealthTick, Healthy, adapterVars, taskVars
  <2>2. BackoffInv' /\ OverlapInv' /\ StoppedInv' /\ OnlyOverlapLeaks' /\ Settled'
    BY <1>1 DEF HealthTick, Healthy, adapterVars, taskVars, BackoffInv, OverlapInv, StoppedInv,
                OnlyOverlapLeaks, Settled
  <2> QED BY <2>1, <2>2
<1>2. CASE \E t \in Tasks : Unhealthy(t)
  BY <1>2, RenewKeeps DEF Unhealthy
<1> QED BY <1>1, <1>2

LEMMA NextConnectionInv == ConnectionInv /\ [Next]_vars => ConnectionInv'
<1> SUFFICES ASSUME ConnectionInv, [Next]_vars PROVE ConnectionInv'
  OBVIOUS
<1>1. CASE CallerStep BY <1>1, CallerKeeps
<1>2. CASE \E t \in Tasks : Continues(t) \/ Created(t) \/ Expires(t) BY <1>2, TaskKeeps
<1>3. CASE HealthTick \/ Healthy \/ \E t \in Tasks : Unhealthy(t) BY <1>3, HealthKeeps
<1>4. CASE UNCHANGED vars
  BY <1>4 DEF vars, adapterVars, taskVars, ConnectionInv, TypeOK, BackoffInv, OverlapInv,
              StoppedInv, OnlyOverlapLeaks, Settled
<1> QED BY <1>1, <1>2, <1>3, <1>4 DEF Next

\* KiltAdapter's connect, reconnect, setNetwork, disconnect and health check
\* leave no websocket open that nothing can close, unless two of them were
\* opened in one turn.
THEOREM OverlapAloneLeaks == Spec => []OnlyOverlapLeaks
<1>1. ConnectionInv => OnlyOverlapLeaks
  BY DEF ConnectionInv
<1> QED BY <1>1, InitConnectionInv, NextConnectionInv, PTL DEF Spec

\* And they leave the adapter either connected with everything in place or
\* disconnected with nothing left.
THEOREM ConnectionSettles == Spec => [](TypeOK /\ Settled)
<1>1. ConnectionInv => TypeOK /\ Settled
  BY DEF ConnectionInv
<1> QED BY <1>1, InitConnectionInv, NextConnectionInv, PTL DEF Spec
=============================================================================
