--------------------------- MODULE KiltConnection ---------------------------
(***************************************************************************)
(* The connection half of KiltAdapter: connect with its retries over the   *)
(* endpoints of a network, reconnect, setNetwork, disconnect and the       *)
(* periodic health check.                                                  *)
(*                                                                         *)
(* A task is a run of connectWithRetry that connect, reconnect, setNetwork *)
(* or the health check started.  A step is the code between two awaits.    *)
(* Those of a websocket or a timer end with an event of their own; those   *)
(* of cleanup (in reconnect, and before a websocket is opened) end in the  *)
(* same turn, before the next event but after whatever else the caller     *)
(* does in that turn.  The await of the cleanup after a failed endpoint is *)
(* left out: only continuations follow it, and they clean up again.        *)
(*                                                                         *)
(* The flag isConnecting does not outlive a step: the first cleanup of     *)
(* connectWithRetry resets it, so the guard on it never holds.             *)
(***************************************************************************)
EXTENDS Integers, FiniteSets

CONSTANTS Networks,   \* KILTNetwork
          Tasks,      \* runs of connectWithRetry
          Endpoints,  \* endpoints of each network (1 to 3 in the code)
          MaxRetries, \* rounds over the endpoints (5 in the code)
          Null

ASSUME ConnectionAssumption ==
    /\ Endpoints \in Nat \ {0} /\ MaxRetries \in Nat \ {0}
    /\ Null \notin Networks
    /\ Null \notin Tasks \X (1..MaxRetries) \X (1..Endpoints)

VARIABLES currentNetwork,
          connectionState,
          chainInfo,   \* chainInfo.network, Null without chain info
          ws,          \* this.wsProvider, Null when null
          open,        \* the websockets that are open
          api,         \* the websocket of this.api, Null when null
          service,     \* the websocket of the transaction service's api
          healthTimer, \* is the interval of the health check set?
          check,       \* the websocket a health check is waiting for
          closed,      \* was disconnect the last thing the caller asked for?
          pc,          \* where each task is suspended
          attempt,     \* its round over the endpoints
          endpoint,    \* the endpoint it tries
          overlapped   \* history: websockets opened in one turn with another

adapterVars == <<currentNetwork, connectionState, chainInfo, ws, open, api, service, healthTimer>>
taskVars == <<pc, attempt, endpoint, overlapped>>
vars == <<adapterVars, check, closed, taskVars>>

\* A websocket is known by the try that opened it.
Sockets == Tasks \X (1..MaxRetries) \X (1..Endpoints)
Socket(t) == <<t, attempt[t], endpoint[t]>>
MaybeSocket == Sockets \cup {Null}

States == {"disconnected", "connecting", "connected", "reconnecting"}

TypeOK ==
    /\ currentNetwork \in Networks
    /\ connectionState \in States
    /\ chainInfo \in Networks \cup {Null}
    /\ ws \in MaybeSocket /\ api \in MaybeSocket /\ service \in MaybeSocket
    /\ check \in MaybeSocket
    /\ open \subseteq Sockets /\ overlapped \subseteq Sockets
    /\ healthTimer \in BOOLEAN /\ closed \in BOOLEAN
    /\ pc \in [Tasks -> {"idle", "renewing", "opening", "creating", "backoff", "done", "failed"}]
    /\ attempt \in [Tasks -> 1..MaxRetries]
    /\ endpoint \in [Tasks -> 1..Endpoints]

Init ==
    /\ currentNetwork \in Networks
    /\ connectionState = "disconnected"
    /\ chainInfo = Null /\ ws = Null /\ open = {} /\ api = Null /\ service = Null
    /\ healthTimer = FALSE /\ check = Null /\ closed = FALSE
    /\ pc = [t \in Tasks |-> "idle"]
    /\ attempt = [t \in Tasks |-> 1] /\ endpoint = [t \in Tasks |-> 1]
    /\ overlapped = {}

Goto(t, point) == pc' = [pc EXCEPT ![t] = point]
InProgress(t) == pc[t] \in {"renewing", "opening", "creating", "backoff"}

\* No continuation is left for this turn: the next event may come.
TurnOver == \A t \in Tasks : pc[t] \notin {"renewing", "opening"}

---------------------------------------------------------------------------
(* cleanup, and what follows it.                                           *)

Closes ==
    /\ ws' = Null /\ open' = open \ {ws} /\ api' = Null
    /\ healthTimer' = FALSE

\* cleanup keeps the chain info and the service for a reconnection.
Forgets(state) ==
    IF state = "disconnected"
    THEN chainInfo' = Null /\ service' = Null
    ELSE UNCHANGED <<chainInfo, service>>

\* Who is between its cleanup and its websocket at the same time as another.
Overlaps ==
    LET opening == {t \in Tasks : pc'[t] = "opening"}
    IN  overlapped' = overlapped \cup
            {<<t, attempt'[t], endpoint'[t]>> : t \in {u \in opening : opening # {u}}}

\* The try of round a and endpoint e: the top of connectWithRetry's inner loop,
\* as far as the await of cleanup.
Tries(t, a, e) ==
    /\ attempt' = [attempt EXCEPT ![t] = a]
    /\ endpoint' = [endpoint EXCEPT ![t] = e]
    /\ Goto(t, "opening")
    /\ Overlaps

\* Mutant: the previous connection is not cleaned up before the next is opened.
PreparesUnclean(t, a, e) ==
    /\ UNCHANGED <<ws, open>> /\ api' = Null
    /\ healthTimer' = FALSE
    /\ Tries(t, a, e)

Prepares(t, a, e) == Closes /\ Tries(t, a, e)

---------------------------------------------------------------------------
(* What starts a task: the next one that has not been.                     *)

New(t) == pc[t] = "idle" /\ t = CHOOSE u \in Tasks : pc[u] = "idle"

\* connect to network n, past its early return.  Without a network n is the
\* current one.
Connect(t, n) ==
    /\ New(t)
    /\ ~(connectionState = "connected" /\ chainInfo # Null)
    /\ connectionState' = "connecting"
    /\ currentNetwork' = n
    /\ Prepares(t, 1, 1)
    /\ closed' = FALSE
    /\ UNCHANGED <<chainInfo, service, check>>

\* The early return: only the current network changes.
ConnectReturns(n) ==
    /\ connectionState = "connected" /\ chainInfo # Null
    /\ currentNetwork' = n
    /\ closed' = FALSE
    /\ UNCHANGED <<connectionState, chainInfo, ws, open, api, service, healthTimer, check, taskVars>>

\* reconnect as far as the await of its own cleanup.  A second one in the same
\* turn throws.
Renew(t) ==
    /\ New(t)
    /\ connectionState # "reconnecting"
    /\ connectionState' = "reconnecting"
    /\ Closes
    /\ Goto(t, "renewing")
    /\ UNCHANGED <<chainInfo, service, attempt, endpoint, overlapped>>

Reconnect(t) == Renew(t) /\ closed' = FALSE /\ UNCHANGED <<currentNetwork, check>>

SetNetwork(t, n) ==
    /\ n # currentNetwork
    /\ currentNetwork' = n
    /\ \/ /\ connectionState = "connected"
          /\ Renew(t)
          /\ closed' = FALSE
          /\ UNCHANGED check
       \/ /\ connectionState # "connected"
          /\ UNCHANGED <<connectionState, chainInfo, ws, open, api, service, healthTimer, check,
                         closed, taskVars>>

Disconnect ==
    /\ connectionState' = "disconnected"
    /\ Closes /\ Forgets("disconnected")
    /\ closed' = TRUE
    /\ UNCHANGED <<currentNetwork, check, taskVars>>

---------------------------------------------------------------------------
(* The tasks.                                                              *)

\* reconnect goes on with connect.  Nothing has connected in this turn, so
\* connect's early return does not apply.
Renews(t) ==
    /\ pc[t] = "renewing"
    /\ connectionState' = "connecting"
    /\ Prepares(t, 1, 1)
    /\ UNCHANGED <<currentNetwork, chainInfo, service, check, closed>>

\* A new websocket and ApiPromise.create.  A websocket opened since the cleanup
\* is forgotten, and stays open.
Opens(t) ==
    /\ pc[t] = "opening"
    /\ ws' = Socket(t) /\ open' = open \cup {Socket(t)}
    /\ Goto(t, "creating")
    /\ UNCHANGED <<currentNetwork, connectionState, chainInfo, api, service, healthTimer, check,
                   closed, attempt, endpoint, overlapped>>

\* The api is ready before the timeout.  The chain info names the network that
\* is the current one now, whichever was when the endpoints were chosen.
Created(t) ==
    /\ TurnOver /\ pc[t] = "creating"
    /\ Socket(t) \in open
    /\ api' = Socket(t) /\ service' = Socket(t)
    /\ chainInfo' = currentNetwork
    /\ connectionState' = "connected"
    /\ healthTimer' = TRUE
    /\ Goto(t, "done")
    /\ UNCHANGED <<currentNetwork, ws, open, check, closed, attempt, endpoint, overlapped>>

\* Another endpoint of the same round.
TriesNext(t) ==
    /\ TurnOver /\ pc[t] = "creating"
    /\ endpoint[t] < Endpoints
    /\ Prepares(t, attempt[t], endpoint[t] + 1) /\ Forgets(connectionState)
    /\ UNCHANGED <<currentNetwork, connectionState, check, closed>>

\* The round is over, and there is another.
BacksOff(t) ==
    /\ TurnOver /\ pc[t] = "creating"
    /\ endpoint[t] = Endpoints /\ attempt[t] < MaxRetries
    /\ Closes /\ Forgets(connectionState)
    /\ Goto(t, "backoff")
    /\ UNCHANGED <<currentNetwork, connectionState, check, closed, attempt, endpoint, overlapped>>

\* Mutant: the rounds are not counted.
BackoffEndsUncounted(t) ==
    /\ TurnOver /\ pc[t] = "backoff"
    /\ Prepares(t, attempt[t], 1) /\ Forgets(connectionState)
    /\ UNCHANGED <<currentNetwork, connectionState, check, closed>>

BackoffEnds(t) ==
    /\ TurnOver /\ pc[t] = "backoff"
    /\ Prepares(t, attempt[t] + 1, 1) /\ Forgets(connectionState)
    /\ UNCHANGED <<currentNetwork, connectionState, check, closed>>

\* Mutant: the state is left to the connection that is gone.
GivesUpQuietly(t) ==
    /\ TurnOver /\ pc[t] = "creating"
    /\ endpoint[t] = Endpoints /\ attempt[t] = MaxRetries
    /\ Closes /\ Forgets(connectionState)
    /\ Goto(t, "failed")
    /\ UNCHANGED <<currentNetwork, connectionState, check, closed, attempt, endpoint, overlapped>>

\* Every endpoint failed in every round.
GivesUp(t) ==
    /\ TurnOver /\ pc[t] = "creating"
    /\ endpoint[t] = Endpoints /\ attempt[t] = MaxRetries
    /\ connectionState' = "disconnected"
    /\ Closes /\ Forgets("disconnected")
    /\ Goto(t, "failed")
    /\ UNCHANGED <<currentNetwork, check, closed, attempt, endpoint, overlapped>>

\* What the timers of a task bring about: the timeout of a connection, which is
\* also what a refused one comes to, and the end of a backoff.
Expires(t) == TriesNext(t) \/ BacksOff(t) \/ GivesUp(t) \/ BackoffEnds(t)

\* What a cleanup that was awaited goes on with.
Continues(t) == Renews(t) \/ Opens(t)

---------------------------------------------------------------------------
(* The health check.                                                       *)

HealthTick ==
    /\ TurnOver
    /\ healthTimer /\ connectionState = "connected"
    /\ check = Null /\ api # Null
    /\ check' = api
    /\ UNCHANGED <<adapterVars, closed, taskVars>>

Healthy ==
    /\ TurnOver
    /\ check \in open
    /\ check' = Null
    /\ UNCHANGED <<adapterVars, closed, taskVars>>

\* The api it asked is closed or does not answer: reconnect, whatever has
\* happened since it was asked.
Unhealthy(t) ==
    /\ TurnOver
    /\ check # Null
    /\ check' = Null
    /\ Renew(t)
    /\ UNCHANGED <<currentNetwork, closed>>

---------------------------------------------------------------------------

CallerStep ==
    \/ \E t \in Tasks, n \in Networks : Connect(t, n) \/ SetNetwork(t, n)
    \/ \E n \in Networks : ConnectReturns(n)
    \/ \E t \in Tasks : Reconnect(t)
    \/ Disconnect

Next ==
    \/ CallerStep
    \/ \E t \in Tasks : Continues(t) \/ Created(t) \/ Expires(t)
    \/ HealthTick \/ Healthy \/ \E t \in Tasks : Unhealthy(t)

Spec == Init /\ [][Next]_vars

\* Fairness: continuations run and timers fire.  No answer of an endpoint is
\* assumed.
Fairness == \A t \in Tasks : WF_vars(Continues(t)) /\ WF_vars(Expires(t))
FairSpec == Spec /\ Fairness

---------------------------------------------------------------------------
(* Properties.                                                             *)

\* A websocket nothing can close any more is one that was opened in one turn
\* with another: no overlap of tasks beyond a turn, no disconnect and no
\* timeout leaks one.  And the adapter's api is never on a closed websocket.
OnlyOverlapLeaks ==
    /\ open \ {ws} \subseteq overlapped
    /\ api # Null => api \in open

\* A task that times out closes whatever connection the adapter has, a later
\* task's included, and leaves the state 'connected' behind.  Once no task runs
\* the state tells the truth again, and the service uses the live connection.
Settled ==
    (\A t \in Tasks : ~InProgress(t)) =>
        /\ connectionState \in {"connected", "disconnected"}
        /\ IF connectionState = "connected"
           THEN api # Null /\ service = api /\ chainInfo # Null /\ healthTimer
           ELSE api = Null /\ service = Null /\ chainInfo = Null /\ ~healthTimer

\* connect, reconnect and setNetwork return, however they overlap and whoever
\* closes their connections: the tries are counted per task, and in the end none
\* of the tasks, each of which is started once, is in progress.
TasksEnd == <>[](\A t \in Tasks : ~InProgress(t))

\* KiltAdapter.ts:1193: disconnect "disconnects from the KILT wallet and cleans
\* up resources".  A task or a health check that was under way goes on all the
\* same, and connects again.
StaysDisconnected == closed => api = Null

---------------------------------------------------------------------------
(* The inductive invariant behind OnlyOverlapLeaks and Settled.            *)

\* A backoff comes before another round.
BackoffInv == \A t \in Tasks : pc[t] = "backoff" => attempt[t] < MaxRetries

\* Two tasks that are about to open a websocket overlap, and so does the one
\* that holds a websocket while another is about to open its own.
OverlapInv ==
    \A t \in Tasks : pc[t] = "opening" =>
        /\ \A u \in Tasks \ {t} : pc[u] = "opening" => Socket(u) \in overlapped
        /\ ws # Null => ws \in overlapped

\* What cleanup stops stays stopped until a task is done.
StoppedInv ==
    /\ (\E t \in Tasks : pc[t] = "renewing") => connectionState # "connected"
    /\ connectionState = "reconnecting" => \E t \in Tasks : pc[t] = "renewing"

ConnectionInv ==
    TypeOK /\ BackoffInv /\ OverlapInv /\ StoppedInv /\ OnlyOverlapLeaks /\ Settled
=============================================================================
