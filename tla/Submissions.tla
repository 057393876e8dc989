---------------------------- MODULE Submissions ----------------------------
(***************************************************************************)
(* What submitting a transaction promises its caller, however it is done:  *)
(* a call signs a bounded number of transactions; at most one of them is   *)
(* ever in a block, unless the caller asked for new ones ("many");         *)
(* a success is the last of them, in a finalized block; and a call that    *)
(* has returned does not speak again, though its transaction may still be  *)
(* included.                                                               *)
(***************************************************************************)
EXTENDS Integers

CONSTANTS Calls,
          Limit    \* how many transactions a call of each kind may sign

VARIABLES state,    \* a call not made, open, or what it returned
          kind,     \* "once", "retried" or "many"
          signed,   \* how many transactions a call has signed
          included, \* the transactions in blocks that may still be retracted
          final     \* the transactions in finalized blocks

submissionVars == <<state, kind, signed, included, final>>

\* The transactions of a call, each named by the call and a number.
Of(c) == {<<c, i>> : i \in 1..signed[c]}
Executed == included \cup final

Begin(c) ==
    /\ state[c] = "idle"
    /\ \E s \in {"open", "error"} : state' = [state EXCEPT ![c] = s]
    /\ \E k \in {"once", "retried", "many"} : kind' = [kind EXCEPT ![c] = k]
    /\ UNCHANGED <<signed, included, final>>

SignOne(c) ==
    /\ state[c] = "open"
    /\ signed[c] < Limit[kind[c]]
    /\ signed' = [signed EXCEPT ![c] = @ + 1]
    /\ UNCHANGED <<state, kind, included, final>>

Included(c, t) ==
    /\ t \in Of(c) \ Executed
    /\ kind[c] = "many" \/ Of(c) \cap Executed = {}
    /\ included' = included \cup {t}
    /\ UNCHANGED <<state, kind, signed, final>>

Retracted(t) ==
    /\ t \in included
    /\ included' = included \ {t}
    /\ UNCHANGED <<state, kind, signed, final>>

Finalized(t) ==
    /\ t \in included
    /\ included' = included \ {t}
    /\ final' = final \cup {t}
    /\ UNCHANGED <<state, kind, signed>>

Return(c, r) ==
    /\ state[c] = "open"
    /\ state' = [state EXCEPT ![c] = r]
    /\ r = "success" => <<c, signed[c]>> \in final
    /\ r = "unconfirmed" => kind[c] # "many" /\ signed[c] > 0
    /\ UNCHANGED <<kind, signed, included, final>>

SubmissionInit ==
    /\ state = [c \in Calls |-> "idle"]
    /\ kind \in [Calls -> {"once", "retried", "many"}]
    /\ signed = [c \in Calls |-> 0]
    /\ included = {}
    /\ final = {}

SubmissionNext ==
    \E c \in Calls :
        \/ Begin(c) \/ SignOne(c)
        \/ \E t \in Of(c) : Included(c, t) \/ Retracted(t) \/ Finalized(t)
        \/ \E r \in {"success", "unconfirmed", "error"} : Return(c, r)

SubmissionSpec == SubmissionInit /\ [][SubmissionNext]_submissionVars
=============================================================================
