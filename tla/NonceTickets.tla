---------------------------- MODULE NonceTickets ----------------------------
(***************************************************************************)
(* What a nonce manager promises, independent of how it caches: within one *)
(* era of an account (an era ends when the caller resets the account) each *)
(* nonce given out is larger than every nonce given out before it, so no   *)
(* two of its callers sign with the same one.                              *)
(***************************************************************************)
EXTENDS Integers

CONSTANTS Sends, Accounts, Sender, None

VARIABLES ticket, \* the nonce each send was given
          stamp,  \* the era it was given in
          era     \* the current era of each account

ticketVars == <<ticket, stamp, era>>

TicketInit ==
    /\ ticket = [c \in Sends |-> None]
    /\ stamp \in [Sends -> Nat]
    /\ era \in [Accounts -> Nat]

Issue(c) ==
    /\ ticket[c] = None
    /\ ticket'[c] \in Nat
    /\ \A d \in Sends :
        (Sender[d] = Sender[c] /\ ticket[d] # None /\ stamp[d] = era[Sender[c]])
            => ticket[d] < ticket'[c]
    /\ ticket' = [ticket EXCEPT ![c] = ticket'[c]]
    /\ stamp' = [stamp EXCEPT ![c] = era[Sender[c]]]
    /\ UNCHANGED era

EndEra(A) ==
    /\ era' = [a \in Accounts |-> IF a \in A THEN era[a] + 1 ELSE era[a]]
    /\ UNCHANGED <<ticket, stamp>>

TicketNext == (\E c \in Sends : Issue(c)) \/ (\E A \in SUBSET Accounts : EndEra(A))

TicketSpec == TicketInit /\ [][TicketNext]_ticketVars
=============================================================================
