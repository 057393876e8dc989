---------------------------- MODULE WalletConnect ----------------------------
(* WalletConnectAdapter: enable with its timer, the reconnections a failure *)
(* schedules, the events that end the session, and disconnect.  A call of   *)
(* enable comes from the application or from a reconnection timer; an       *)
(* identifier is used again when its call has ended.                        *)
EXTENDS Naturals

CONSTANTS
    WcCalls,            \* identifiers of calls of enable
    MaxReconnects,      \* MAX_RECONNECT_ATTEMPTS
    MaxUserCalls,       \* bound: calls of enable by the application
    MaxLeaves,          \* bound: calls of disconnect
    MaxLosses,          \* bound: events that end the session
    NoCall              \* `null`

ASSUME ReconnectsAssumption == /\ MaxReconnects \in Nat
                               /\ MaxUserCalls \in Nat /\ MaxLeaves \in Nat /\ MaxLosses \in Nat

VARIABLES
    wcSession,      \* whether `session` is set
    wcTimer,        \* connectionTimeout: the call whose timer it holds
    wcArmed,        \* calls whose timer is scheduled
    wcAttempts,     \* reconnectAttempts
    wcScheduled,    \* reconnections scheduled by setTimeout
    wcEn,           \* what each call is doing or how it ended
    wcOut,          \* disconnect: "idle" or "leaving"
    wcUsed          \* user calls, disconnects and losses so far

wcTimers == <<wcTimer, wcArmed>>
wcVars == <<wcSession, wcTimers, wcAttempts, wcScheduled, wcEn, wcOut, wcUsed>>

Busy == {"connecting", "requesting"}
Free(c) == wcEn[c] \notin Busy
WcEndsWith(c, how) == wcEn' = [wcEn EXCEPT ![c] = how]
Count(what) == wcUsed' = [wcUsed EXCEPT ![what] = @ + 1]
WcClear == wcTimer' = NoCall /\ wcArmed' = wcArmed \ {wcTimer}

WcInit ==
    /\ wcSession = FALSE
    /\ wcTimer = NoCall /\ wcArmed = {}
    /\ wcAttempts = 0 /\ wcScheduled = 0
    /\ wcEn = [c \in WcCalls |-> "idle"]
    /\ wcOut = "idle"
    /\ wcUsed = [calls |-> 0, leaves |-> 0, losses |-> 0]

(* enable up to its first await.                                           *)
WcBegin(c) ==
    IF wcSession
    THEN WcEndsWith(c, "ok") /\ UNCHANGED wcTimers
    ELSE /\ wcTimer' = c
         /\ wcArmed' = (wcArmed \ {wcTimer}) \cup {c}
         /\ WcEndsWith(c, "connecting")

UserEnables(c) ==
    /\ wcUsed.calls < MaxUserCalls /\ Free(c)
    /\ WcBegin(c) /\ Count("calls")
    /\ UNCHANGED <<wcSession, wcAttempts, wcScheduled, wcOut>>

WcReconnect(c) ==
    /\ wcScheduled > 0 /\ Free(c)
    /\ wcScheduled' = wcScheduled - 1
    /\ WcBegin(c)
    /\ UNCHANGED <<wcSession, wcAttempts, wcOut, wcUsed>>

(* Mutant: the timer of the race runs on.                                  *)
ConnectedTimed(c) ==
    /\ wcEn[c] = "connecting"
    /\ WcEndsWith(c, "requesting")
    /\ UNCHANGED <<wcSession, wcTimers, wcAttempts, wcScheduled, wcOut, wcUsed>>

(* The race is won: the timer of the field is cleared, and the accounts    *)
(* are asked for.                                                          *)
Connected(c) ==
    /\ wcEn[c] = "connecting"
    /\ WcClear
    /\ WcEndsWith(c, "requesting")
    /\ UNCHANGED <<wcSession, wcAttempts, wcScheduled, wcOut, wcUsed>>

SessionStarts(c) ==
    /\ wcEn[c] = "requesting"
    /\ wcSession' = TRUE /\ wcAttempts' = 0
    /\ WcEndsWith(c, "ok")
    /\ UNCHANGED <<wcTimers, wcScheduled, wcOut, wcUsed>>

(* handleConnectionError: an error it knows is thrown; another one makes   *)
(* the call resolve and schedules a reconnection, while attempts remain.   *)
Rethrown(c, error) ==
    /\ error \in {"timeout", "rejected", "notFound"}
    /\ WcEndsWith(c, error)
    /\ UNCHANGED <<wcAttempts, wcScheduled>>

(* Mutant: attempts are not counted.                                       *)
RetriedUncounted(c, error) ==
    /\ error = "other" /\ wcAttempts < MaxReconnects
    /\ wcScheduled' = wcScheduled + 1
    /\ WcEndsWith(c, "deferred")
    /\ UNCHANGED wcAttempts

Retried(c, error) ==
    /\ error = "other" /\ wcAttempts < MaxReconnects
    /\ wcAttempts' = wcAttempts + 1
    /\ wcScheduled' = wcScheduled + 1
    /\ WcEndsWith(c, "deferred")

GivenUp(c, error) ==
    /\ error = "other" /\ wcAttempts >= MaxReconnects
    /\ WcEndsWith(c, "failed")
    /\ UNCHANGED <<wcAttempts, wcScheduled>>

HandleConnectionError(c, error) ==
    Rethrown(c, error) \/ Retried(c, error) \/ GivenUp(c, error)

(* The wallet refuses, or a request fails in another way.                  *)
EnableFails(c) ==
    /\ wcEn[c] \in Busy
    /\ WcClear
    /\ \E error \in {"rejected", "notFound", "other"} : HandleConnectionError(c, error)
    /\ UNCHANGED <<wcSession, wcOut, wcUsed>>

(* The timer rejects its own call; the handler then clears the timer of    *)
(* the field.                                                              *)
WcTimerFires(c) ==
    /\ c \in wcArmed
    /\ IF wcEn[c] = "connecting"
       THEN /\ wcTimer' = NoCall /\ wcArmed' = wcArmed \ {c, wcTimer}
            /\ HandleConnectionError(c, "timeout")
       ELSE /\ wcArmed' = wcArmed \ {c}
            /\ UNCHANGED <<wcTimer, wcEn, wcAttempts, wcScheduled>>
    /\ UNCHANGED <<wcSession, wcOut, wcUsed>>

(* session_delete, session_expire and disconnect events.                   *)
SessionLost ==
    /\ wcUsed.losses < MaxLosses /\ wcSession
    /\ wcSession' = FALSE /\ Count("losses")
    /\ UNCHANGED <<wcTimers, wcAttempts, wcScheduled, wcEn, wcOut>>

(* disconnect: the provider first, then cleanup; no reconnection is        *)
(* cancelled, and an error leaves everything as it was.                    *)
Leave ==
    /\ wcOut = "idle" /\ wcUsed.leaves < MaxLeaves
    /\ wcOut' = "leaving" /\ Count("leaves")
    /\ UNCHANGED <<wcSession, wcTimers, wcAttempts, wcScheduled, wcEn>>

Cleanup ==
    /\ wcOut = "leaving"
    /\ wcOut' = "idle"
    /\ WcClear
    /\ wcAttempts' = 0 /\ wcSession' = FALSE
    /\ UNCHANGED <<wcScheduled, wcEn, wcUsed>>

LeaveFails ==
    /\ wcOut = "leaving"
    /\ wcOut' = "idle"
    /\ UNCHANGED <<wcSession, wcTimers, wcAttempts, wcScheduled, wcEn, wcUsed>>

WcProgress(c) == WcReconnect(c) \/ Connected(c) \/ SessionStarts(c) \/ EnableFails(c)
                 \/ WcTimerFires(c)
WcNext ==
    \/ \E c \in WcCalls : UserEnables(c) \/ WcProgress(c)
    \/ SessionLost \/ Leave \/ Cleanup \/ LeaveFails

(* Scheduled callbacks run; the provider's promises settle or the timer    *)
(* rejects.                                                                *)
WcFairness == WF_wcVars(\E c \in WcCalls : WcReconnect(c))
              /\ \A c \in WcCalls : /\ WF_wcVars(WcTimerFires(c))
                                    /\ WF_wcVars(SessionStarts(c) \/ (wcEn[c] = "requesting" /\ EnableFails(c)))
WcSpec == WcInit /\ [][WcNext]_wcVars
WcFairSpec == WcSpec /\ WcFairness
-----------------------------------------------------------------------------
(* Each variable has its type.                                             *)
WcTypeOK ==
    /\ wcSession \in BOOLEAN
    /\ wcTimer \in WcCalls \cup {NoCall} /\ wcArmed \subseteq WcCalls
    /\ wcAttempts \in 0..MaxReconnects /\ wcScheduled \in Nat
    /\ wcEn \in [WcCalls -> Busy \cup {"idle", "ok", "timeout", "rejected", "notFound",
                                       "deferred", "failed"}]
    /\ wcOut \in {"idle", "leaving"}
    /\ wcUsed \in [calls : 0..MaxUserCalls, leaves : 0..MaxLeaves, losses : 0..MaxLosses]

(* At most one timer is scheduled, it is the field's, and its call still   *)
(* connects: a session is not disturbed by an old call's timeout.          *)
OneConnectTimer == \A c \in wcArmed : c = wcTimer /\ wcEn[c] = "connecting"

(* Reconnections stop: the chains that failures start end in a session, in *)
(* an error the caller would see, or after the last attempt, although a    *)
(* success and a disconnect both reset the count.                          *)
ReconnectingStops == <>[](wcScheduled = 0)
=============================================================================
