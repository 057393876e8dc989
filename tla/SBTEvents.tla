------------------------------ MODULE SBTEvents ------------------------------
(***************************************************************************)
(* The subscriptions of SBTContract: onTransfer, onTokenRevoked and        *)
(* onApproval, which differ in their filters only, unsubscribe,            *)
(* removeAllListeners, and updateSigner, which replaces the contract       *)
(* object that listeners are attached to.  The contract object attaches    *)
(* and detaches a listener some time after the call, which waits for       *)
(* neither and does not notice a refusal.  A listener asks for the block   *)
(* of its event before it calls back.                                      *)
(***************************************************************************)
EXTENDS Integers, FiniteSets

CONSTANTS EvSubs,     \* subscriptions, each made once
          EvEvents,   \* events of the chain that match them
          EvMaxUpdates \* bound: how often the signer is updated

ASSUME EventsAssumption == EvMaxUpdates \in Nat

VARIABLES evObject,   \* this.contract: how many objects there were before it
          evAttached, \* which listener is attached to which object
          evPending,  \* contract.on called, the listener not yet attached
          evLeaving,  \* contract.off called, the listener not yet detached
          evRejected, \* subscriptions whose contract.on was rejected
          evRaced,    \* subscriptions that removeAllListeners overtook
          evMap,      \* eventSubscriptions
          evMade,     \* subscriptions made so far
          evEmitted,  \* events emitted so far
          evReading,  \* listeners that wait for the block of an event
          evHeard     \* calls of each callback with each event

evLate == <<evPending, evLeaving, evRejected, evRaced>>
evVars == <<evObject, evAttached, evLate, evMap, evMade, evEmitted, evReading, evHeard>>

EvObjects == 0..EvMaxUpdates

EvTypeOK ==
    /\ evObject \in EvObjects
    /\ evAttached \subseteq EvSubs \X EvObjects
    /\ evPending \subseteq EvSubs \X EvObjects /\ evLeaving \subseteq EvSubs \X EvObjects
    /\ evRejected \subseteq EvSubs /\ evRaced \subseteq EvSubs
    /\ evMap \subseteq evMade /\ evMade \subseteq EvSubs
    /\ evEmitted \subseteq EvEvents
    /\ evReading \in [EvSubs \X EvEvents -> Nat] /\ evHeard \in [EvSubs \X EvEvents -> Nat]

EvInit ==
    /\ evPending = {} /\ evLeaving = {} /\ evRejected = {} /\ evRaced = {}
    /\ evObject = 0 /\ evAttached = {} /\ evMap = {} /\ evMade = {} /\ evEmitted = {}
    /\ evReading = [p \in EvSubs \X EvEvents |-> 0]
    /\ evHeard = [p \in EvSubs \X EvEvents |-> 0]

(* The entry stands at once, whatever becomes of contract.on.              *)
Subscribe(s) ==
    /\ s \notin evMade /\ evMade' = evMade \cup {s}
    /\ evPending' = evPending \cup {<<s, evObject>>}
    /\ evMap' = evMap \cup {s}
    /\ UNCHANGED <<evObject, evAttached, evLeaving, evRejected, evRaced,
                   evEmitted, evReading, evHeard>>

(* contract.on has the topics of the filter.                               *)
Attached(p) ==
    /\ p \in evPending /\ evPending' = evPending \ {p}
    /\ evAttached' = evAttached \cup {p}
    /\ UNCHANGED <<evObject, evLeaving, evRejected, evRaced, evMap, evMade, evEmitted,
                   evReading, evHeard>>

(* The signer of the object has no provider, or an address of the filter   *)
(* is a name nobody resolves: a rejection that nobody handles.             *)
Rejected(p) ==
    /\ p \in evPending /\ evPending' = evPending \ {p}
    /\ evRejected' = evRejected \cup {p[1]}
    /\ UNCHANGED <<evObject, evAttached, evLeaving, evRaced, evMap, evMade, evEmitted,
                   evReading, evHeard>>

(* The object of the moment is asked to take the listener off.             *)
unsubscribe(s) ==
    /\ s \in evMap /\ evMap' = evMap \ {s}
    /\ evLeaving' = evLeaving \cup {<<s, evObject>>}
    /\ UNCHANGED <<evObject, evAttached, evPending, evRejected, evRaced, evMade, evEmitted,
                   evReading, evHeard>>

(* contract.off waits for the topics of the same filter as the contract.on *)
(* before it, and so comes after it.                                       *)
Detached(p) ==
    /\ p \in evLeaving \ evPending /\ evLeaving' = evLeaving \ {p}
    /\ evAttached' = evAttached \ {p}
    /\ UNCHANGED <<evObject, evPending, evRejected, evRaced, evMap, evMade, evEmitted,
                   evReading, evHeard>>

(* This one takes effect at once, on the listeners attached so far.        *)
removeAllListeners ==
    /\ evAttached' = evAttached \ (EvSubs \X {evObject})
    /\ evRaced' = evRaced \cup {s \in evMap : <<s, evObject>> \in evPending}
    /\ evMap' = {}
    /\ UNCHANGED <<evObject, evPending, evLeaving, evRejected, evMade, evEmitted,
                   evReading, evHeard>>

(* Mutant: the new object gets the listeners, the old one keeps them.      *)
updateSignerMoved ==
    /\ evObject < EvMaxUpdates /\ evObject' = evObject + 1
    /\ evAttached' = evAttached \cup (evMap \X {evObject + 1})
    /\ UNCHANGED <<evLate, evMap, evMade, evEmitted, evReading, evHeard>>

(* The listeners stay with the old object, which goes on delivering.       *)
updateSigner ==
    /\ evObject < EvMaxUpdates /\ evObject' = evObject + 1
    /\ UNCHANGED <<evAttached, evLate, evMap, evMade, evEmitted, evReading, evHeard>>

Listens(s) == Cardinality({o \in EvObjects : <<s, o>> \in evAttached})

(* Every attached listener is called with an event of the chain.           *)
Emitted(e) ==
    /\ e \notin evEmitted /\ evEmitted' = evEmitted \cup {e}
    /\ evReading' = [p \in EvSubs \X EvEvents |->
                        IF p[2] = e THEN Listens(p[1]) ELSE evReading[p]]
    /\ UNCHANGED <<evObject, evAttached, evLate, evMap, evMade, evHeard>>

(* The block is there, or cannot be read: the callback is called.          *)
CalledBack(p) ==
    /\ evReading[p] > 0
    /\ evReading' = [evReading EXCEPT ![p] = @ - 1]
    /\ evHeard' = [evHeard EXCEPT ![p] = @ + 1]
    /\ UNCHANGED <<evObject, evAttached, evLate, evMap, evMade, evEmitted>>

EvNext ==
    \/ \E s \in EvSubs : Subscribe(s) \/ unsubscribe(s)
    \/ \E p \in EvSubs \X EvObjects : Attached(p) \/ Rejected(p) \/ Detached(p)
    \/ removeAllListeners \/ updateSigner
    \/ \E e \in EvEvents : Emitted(e)
    \/ \E p \in EvSubs \X EvEvents : CalledBack(p)

EvSpec == EvInit /\ [][EvNext]_evVars
-----------------------------------------------------------------------------
(* However the signer is updated between subscribing and unsubscribing, no *)
(* callback is called twice with one event; a subscription that stands has *)
(* its listener, once contract.on is through, unless that was rejected,    *)
(* which the caller is not told; and a listener whose subscription is gone *)
(* is left behind by an update of the signer, or by a removeAllListeners   *)
(* that came before it was attached, and by nothing else.                  *)
HeardOnce ==
    /\ \A s \in EvSubs : Listens(s) <= 1
    /\ \A s \in evMap : \/ Listens(s) = 1 \/ s \in evRejected
                       \/ \E o \in EvObjects : <<s, o>> \in evPending
    /\ \A p \in EvSubs \X EvEvents : evReading[p] + evHeard[p] <= 1
    /\ \A p \in evAttached :
          p[1] \in evMap \cup evRaced \/ p \in evLeaving \/ p[2] < evObject
=============================================================================
