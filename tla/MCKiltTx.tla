------------------------------ MODULE MCKiltTx ------------------------------
(* Instances of KiltTx for TLC: which account each call signs with.        *)
EXTENDS KiltTx, TLC

CONSTANTS c1, c2, a1, a2

OneAccount == [c \in Calls |-> a1]
TwoAccounts == [c \in Calls |-> IF c = c1 THEN a1 ELSE a2]
CallSymmetry == Permutations({c1, c2})

(* Bounds: nothing else is called once autoRetryTransaction is; of two      *)
(* calls that do not overlap, which can be swapped, c1 comes first; and a   *)
(* nonce is passed to a submitTransaction that is alone, or follows a       *)
(* success.                                                                 *)
AutoAlone == \A c, d \in Calls : c # d /\ op[c] = "auto" => pc[d] = "idle"
GivenAfterSuccess ==
    \A c \in Calls : op[c] # "signed" /\ ~Managed(c) =>
        op[c] = "submit" /\ \A d \in Calls \ {c} : pc[d] = "idle" \/ result[d] = "success"
InTurn == AutoAlone /\ GivenAfterSuccess /\ (pc[c1] = "idle" => pc[c2] = "idle")
=============================================================================
