-------------------------------- MODULE MCSBT --------------------------------
(***************************************************************************)
(* Instances for TLC of what deals with the token contract on Moonbeam: the *)
(* contract, the minting over it, the factory that deploys it, the         *)
(* subscriptions to its events and the monitor of its transactions.  `part` *)
(* says which of them a behaviour is about.  In "tokens" every call of the *)
(* contract is made; in "minting" two mints, alone or in one batch, run    *)
(* among the few calls of others that they can notice; "factory" is about  *)
(* two deployments, "events" about two subscriptions and "monitor" about   *)
(* two calls that monitor one transaction.                                 *)
(***************************************************************************)
EXTENDS SBTMinting, SBTFactory, SBTEvents, BlockchainMonitor

CONSTANTS u1, u2, m1, m2, f1, f2, n1, n2, b1, b2

VARIABLE part

Apart == [m \in Mints |-> None]
Batch == [m \in Mints |-> IF m = m2 THEN m1 ELSE None]
BatchOrApart == {Batch, Apart}
AllToOne == [m \in Mints |-> u1]

PartsInit ==
    /\ part \in {"tokens", "minting", "factory", "events", "monitor"}
    /\ Init /\ FaInit /\ EvInit /\ BmInit /\ faNetwork = n1
    /\ part # "minting" => before = Apart /\ lowGas = {}

(* Bounds: three tokens minted; while mints run, a limit of one at most.   *)
TokensPart ==
    /\ part = "tokens" /\ SBTNext /\ tokenIdCounter' <= 3
    /\ UNCHANGED <<callVars, mintVars, faVars, evVars, bmVars, part>>
MintingPart ==
    /\ part = "minting" /\ Next /\ maxSupply' <= 1
    /\ UNCHANGED <<faVars, evVars, bmVars, part>>
FactoryPart == part = "factory" /\ FaNext /\ UNCHANGED <<vars, evVars, bmVars, part>>
EventsPart == part = "events" /\ EvNext /\ UNCHANGED <<vars, faVars, bmVars, part>>
MonitorPart == part = "monitor" /\ BmNext /\ UNCHANGED <<vars, faVars, evVars, part>>

PartsNext == TokensPart \/ MintingPart \/ FactoryPart \/ EventsPart \/ MonitorPart

PartsSpec ==
    /\ PartsInit /\ [][PartsNext]_<<vars, faVars, evVars, bmVars, part>>
    /\ \A m \in Mints : WF_vars(part = "minting" /\ Run(m))

(* The types of the variables of all parts.                                *)
TokenTypesOK == SBTTypeOK /\ TypeOK /\ FaTypeOK /\ EvTypeOK /\ BmTypeOK
=============================================================================
