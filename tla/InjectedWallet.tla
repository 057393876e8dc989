--------------------------- MODULE InjectedWallet ---------------------------
(* PolkadotJsAdapter and TalismanAdapter: one adapter object over browser   *)
(* extensions.  Calls of enable overlap each other and disconnect; they     *)
(* share `enabled`, `provider` and the one field `connectionTimeout`, and   *)
(* every call clears whatever timer the field holds.  The user may never    *)
(* answer the extension's prompt, and reading accounts waits for the answer *)
(* to the latest one: the library keeps the promise of its last web3Enable, *)
(* whoever called it, and web3Accounts and web3FromAddress await it first.  *)
EXTENDS Naturals, Sequences

CONSTANTS
    Extensions,     \* names the adapter looks for, the preferred first
    Enables,        \* calls of enable
    Leaves,         \* calls of disconnect
    Signs,          \* calls of signMessage
    NoExt           \* `null`

Names == {Extensions[i] : i \in 1..Len(Extensions)}

ASSUME InjAssumption ==
    /\ Extensions \in Seq(Names)
    /\ NoExt \notin Enables \cup Leaves /\ Enables \cap Leaves = {}

VARIABLES
    injInstalled,   \* extensions found in window.injectedWeb3
    injEnabled, injProvider,
    injTimer,       \* connectionTimeout: the call whose timer it holds
    injArmed,       \* calls whose timer is scheduled
    injEn,          \* what each enable is doing or how it ended
    injWants,       \* the extension each enable asked
    injOut,         \* what each disconnect is doing
    injPrompts,     \* calls whose web3Enable nobody has answered
    injLatest,      \* the call of the last web3Enable
    injSign,        \* what each signMessage is doing or how it ended
    injReads        \* the call whose web3Enable it awaits

injState == <<injEnabled, injProvider, injTimer, injArmed>>
injAsked == <<injPrompts, injLatest>>
injSigns == <<injSign, injReads>>
injVars == <<injInstalled, injState, injEn, injWants, injOut, injAsked, injSigns>>

InjInit ==
    /\ injInstalled \in SUBSET Names
    /\ injEnabled = FALSE /\ injProvider = NoExt
    /\ injTimer = NoExt /\ injArmed = {}
    /\ injEn = [e \in Enables |-> "idle"]
    /\ injWants = [e \in Enables |-> NoExt]
    /\ injOut = [l \in Leaves |-> "idle"]
    /\ injPrompts = {} /\ injLatest = NoExt
    /\ injSign = [s \in Signs |-> "idle"]
    /\ injReads = [s \in Signs |-> NoExt]

(* clearTimeout of whatever the field holds, and null in the field.        *)
ClearTimer == injTimer' = NoExt /\ injArmed' = injArmed \ {injTimer}

(* Mutant: the flag is cleared with null.                                  *)
ResetToNull == injEnabled' = NoExt /\ injProvider' = NoExt

Reset == injEnabled' = FALSE /\ injProvider' = NoExt

(* The first name of the list that is installed.                           *)
Preferred(installed) ==
    LET i == CHOOSE i \in 1..Len(Extensions) :
                /\ Extensions[i] \in installed
                /\ \A j \in 1..(i - 1) : Extensions[j] \notin installed
    IN  Extensions[i]

EnableEndsWith(e, how) == injEn' = [injEn EXCEPT ![e] = how]

(* web3Enable asks the user, and is answered.                              *)
Asks(c) == injPrompts' = injPrompts \cup {c} /\ injLatest' = c
IsAnswered(c) == injPrompts' = injPrompts \ {c} /\ UNCHANGED injLatest

(* enable up to its await: at once if enabled, an error if no extension    *)
(* is there, else the prompt and a timer in place of the field's.          *)
EnableAtOnce(e) ==
    /\ injEn[e] = "idle" /\ injEnabled
    /\ EnableEndsWith(e, "ok")
    /\ UNCHANGED <<injState, injWants, injAsked>>

NotInstalled(e) ==
    /\ injEn[e] = "idle" /\ ~injEnabled /\ injInstalled = {}
    /\ Reset /\ ClearTimer
    /\ EnableEndsWith(e, "notFound")
    /\ UNCHANGED <<injWants, injAsked>>

Prompt(e) ==
    /\ injEn[e] = "idle" /\ ~injEnabled /\ injInstalled # {}
    /\ injTimer' = e
    /\ injArmed' = (injArmed \ {injTimer}) \cup {e}
    /\ injWants' = [injWants EXCEPT ![e] = Preferred(injInstalled)]
    /\ EnableEndsWith(e, "waiting") /\ Asks(e)
    /\ UNCHANGED <<injEnabled, injProvider>>

(* Mutant: the timer runs on.                                              *)
ApproveTimed(e) ==
    /\ injEn[e] = "waiting"
    /\ injEnabled' = TRUE /\ injProvider' = injWants[e]
    /\ EnableEndsWith(e, "ok") /\ IsAnswered(e)
    /\ UNCHANGED <<injTimer, injArmed, injWants>>

(* The extension answers, at any time after the prompt.                    *)
Approve(e) ==
    /\ injEn[e] = "waiting"
    /\ ClearTimer
    /\ injEnabled' = TRUE /\ injProvider' = injWants[e]
    /\ EnableEndsWith(e, "ok") /\ IsAnswered(e)
    /\ UNCHANGED injWants

Reject(e) ==
    /\ injEn[e] = "waiting"
    /\ ClearTimer /\ Reset
    /\ \E how \in {"rejected", "failed"} : EnableEndsWith(e, how)
    /\ IsAnswered(e)
    /\ UNCHANGED injWants

(* An answer after the timeout comes too late for the call.                *)
LateAnswer(e) ==
    /\ injEn[e] # "waiting" /\ e \in injPrompts
    /\ IsAnswered(e)
    /\ UNCHANGED <<injState, injEn, injWants>>

(* The timer resets the adapter, whoever enabled it, and rejects its call. *)
TimerFires(e) ==
    /\ e \in injArmed
    /\ injTimer' = NoExt /\ injArmed' = injArmed \ {e}
    /\ Reset
    /\ IF injEn[e] = "waiting" THEN EnableEndsWith(e, "timeout") ELSE UNCHANGED injEn
    /\ UNCHANGED <<injWants, injAsked>>

EnableStep ==
    /\ \E e \in Enables : EnableAtOnce(e) \/ NotInstalled(e) \/ Prompt(e)
                          \/ Approve(e) \/ Reject(e) \/ LateAnswer(e) \/ TimerFires(e)
    /\ UNCHANGED <<injInstalled, injOut, injSigns>>

(* disconnect clears the state, then asks the extension again under        *)
(* another name, and clears `enabled` alone when it is answered.           *)
InjDisconnect(l) ==
    /\ injOut[l] = "idle"
    /\ Reset /\ ClearTimer
    /\ injOut' = [injOut EXCEPT ![l] = "revoking"]
    /\ Asks(l)
    /\ UNCHANGED <<injInstalled, injEn, injWants, injSigns>>

Revoked(l) ==
    /\ injOut[l] = "revoking"
    /\ injOut' = [injOut EXCEPT ![l] = "done"]
    /\ injEnabled' = FALSE /\ IsAnswered(l)
    /\ UNCHANGED <<injInstalled, injProvider, injTimer, injArmed, injEn, injWants, injSigns>>

RevokeFails(l) ==
    /\ injOut[l] = "revoking"
    /\ injOut' = [injOut EXCEPT ![l] = "done"]
    /\ IsAnswered(l)
    /\ UNCHANGED <<injInstalled, injState, injEn, injWants, injSigns>>

DisconnectStep == \E l \in Leaves : InjDisconnect(l) \/ Revoked(l) \/ RevokeFails(l)

(* signMessage: `enabled` is read when it is called; web3Accounts, and then *)
(* web3FromAddress, which reads the accounts again, await the web3Enable    *)
(* that was the last when they were called, without a timeout, and only the *)
(* signature has a timeout of its own.                                      *)
SignStep(s, from, to) ==
    /\ injSign[s] \in from
    /\ \E how \in to :
          /\ injSign' = [injSign EXCEPT ![s] = how]
          /\ IF how \in {"accounts", "injector"}
             THEN injReads' = [injReads EXCEPT ![s] = injLatest]
             ELSE UNCHANGED injReads
    /\ UNCHANGED <<injInstalled, injState, injEn, injWants, injOut, injAsked>>

SignCalled(s) == SignStep(s, {"idle"}, IF injEnabled THEN {"accounts", "invalid"}
                                       ELSE {"notEnabled"})

AccountsRead(s) ==
    /\ injReads[s] \notin injPrompts
    /\ SignStep(s, {"accounts"}, {"injector", "rejected", "failed"})
InjectorFound(s) ==
    /\ injReads[s] \notin injPrompts
    /\ SignStep(s, {"injector"}, {"signing", "rejected", "failed"})
Answered(s) == SignStep(s, {"signing"}, {"signed", "rejected", "invalid", "failed"})
SignTimesOut(s) == SignStep(s, {"signing"}, {"timeout"})

ExtensionAppears ==
    /\ \E x \in Names \ injInstalled : injInstalled' = injInstalled \cup {x}
    /\ UNCHANGED <<injState, injEn, injWants, injOut, injAsked, injSigns>>

SignProgress == \E s \in Signs : AccountsRead(s) \/ InjectorFound(s) \/ SignTimesOut(s)

InjNext ==
    \/ EnableStep
    \/ DisconnectStep
    \/ \E s \in Signs : SignCalled(s) \/ Answered(s)
    \/ SignProgress
    \/ ExtensionAppears

(* Timers fire; the extension answers what needs no click of the user, but  *)
(* nobody need ever answer a prompt, of enable or of disconnect.           *)
InjFairness ==
    /\ \A e \in Enables : WF_injVars(TimerFires(e) /\ EnableStep)
    /\ \A s \in Signs : WF_injVars(AccountsRead(s) \/ InjectorFound(s) \/ SignTimesOut(s))
InjSpec == InjInit /\ [][InjNext]_injVars
InjFairSpec == InjSpec /\ InjFairness
-----------------------------------------------------------------------------
(* Each variable has its type.                                             *)
InjTypeOK ==
    /\ injInstalled \subseteq Names
    /\ injEnabled \in BOOLEAN /\ injProvider \in Names \cup {NoExt}
    /\ injTimer \in Enables \cup {NoExt} /\ injArmed \subseteq Enables
    /\ injEn \in [Enables -> {"idle", "waiting", "ok", "notFound", "rejected",
                              "failed", "timeout"}]
    /\ injWants \in [Enables -> Names \cup {NoExt}]
    /\ injOut \in [Leaves -> {"idle", "revoking", "done"}]
    /\ injPrompts \subseteq Enables \cup Leaves
    /\ injLatest \in Enables \cup Leaves \cup {NoExt}
    /\ injSign \in [Signs -> {"idle", "accounts", "injector", "signing", "signed", "rejected",
                              "invalid", "failed", "timeout", "notEnabled"}]
    /\ injReads \in [Signs -> Enables \cup Leaves \cup {NoExt}]

(* A connection is never cut by the timeout of another enable: the field   *)
(* holds the only timer there is, that timer belongs to a call that still   *)
(* waits (none is orphaned by an overlapping enable), and while the adapter *)
(* is enabled, with a provider, no timer is scheduled.                      *)
ConnectionUncut ==
    /\ injArmed = {injTimer} \ {NoExt}
    /\ \A e \in injArmed : injEn[e] = "waiting"
    /\ injEnabled => injProvider \in Names /\ injArmed = {}

(* A signMessage whose own prompt nobody answers ends all the same, however *)
(* enables and disconnects overlap it.  The one thing that may leave it     *)
(* waiting is a web3Enable nobody answers, which took the place of the one  *)
(* that enabled the adapter.                                                *)
SignEnds ==
    <>[](\A s \in Signs :
            /\ injSign[s] # "signing"
            /\ injSign[s] \in {"accounts", "injector"} => injReads[s] \in injPrompts)
=============================================================================
