-------------------------- MODULE MCKiltConnection --------------------------
(* Instances of KiltConnection for TLC.                                    *)
EXTENDS KiltConnection

CONSTANTS t1, t2, t3, n1, n2
=============================================================================
