--------------------------- MODULE MCKiltProvider ---------------------------
(* Instances of KiltProviderTx for TLC: one account signs every update.    *)
EXTENDS KiltProviderTx

CONSTANTS g1, g2, acc

OneSigner == [c \in Calls |-> acc]
=============================================================================
