------------------------------ MODULE MCClients ------------------------------
(***************************************************************************)
(* Instances for TLC of what a user's identity goes through: connections,  *)
(* wallets, the login, the verification server, and the DIDs of Ethereum   *)
(* addresses, of the KILT pallet and of the Moonbeam contract.  They share *)
(* no state, so one run checks them side by side: `part` says which of     *)
(* them a behaviour is about, and the others stay where they are.          *)
(* "update" is the KILT provider's own way to submit, "registry" the       *)
(* Moonbeam contract alone, called by everyone, and "provider" the service *)
(* over it.                                                                *)
(***************************************************************************)
EXTENDS KiltConnection, InjectedWallet, WalletConnect, Login, EthereumDid,
        MCKiltDid, MCKiltProvider, MoonbeamDIDService

CONSTANTS t1, t2, t3, n1, n2, x2, e1, e2, y1, y2, a1, a2, m1, m2, o1, o2, i1, i2

VARIABLE part

ExtensionOrder == <<x1, x2>>
WalletOrder == <<"injected", "walletConnect">>
Clocks == {-7, -6, 0, 6}
OctetSample == {0, 3, 4, 15, 16, 62, 63, 64, 128, 239, 240, 248, 251, 252, 254, 255}
-----------------------------------------------------------------------------
(* Requests of the verification server: the template, with up to two of    *)
(* its lines replaced or dropped and up to two put in, and one of each     *)
(* kind put in at each place.                                              *)
Edit(i, n, lines) == SubSeq(TemplateLines, 1, i) \o lines \o SubSeq(TemplateLines, i + 1 + n, 4)
UpToTwo == {<<>>} \cup {<<k>> : k \in LineKinds} \cup {<<k, l>> : k, l \in LineKinds}
Messages == {Edit(i, n, lines) : i \in 0..4, n \in 0..2, lines \in UpToTwo} \cup {<<>>}

Request(m, address, signature, signer) ==
    [body |-> "json", message |-> m, long |-> FALSE, age |-> 0, chain |-> "none",
     address |-> address, signature |-> signature, signer |-> signer]

SampleRequests ==
    {Request(m, "ss58", "hex128", "sr25519") : m \in Messages}
    \cup {Request(m, "evm", "hex130", "secp256k1") : m \in Messages}
    \cup {[Request(TemplateLines, "ss58", "hex128", "sr25519") EXCEPT !.body = b] :
              b \in {"notJson", "tooLarge", "missing"}}
    \cup [body : {"json"}, message : {TemplateLines}, long : BOOLEAN,
          age : {-Skew - 1, -Skew, 0, MaxAge, MaxAge + 1},
          chain : {"none", "polkadot", "ethereum", "other"},
          address : {"ss58", "ss58Bad", "evm", "blank", "other"},
          signature : {"hex128", "hex64", "hex130", "notHex", "noPrefix", "blank"},
          signer : {"sr25519", "ed25519", "ecdsa", "secp256k1", "nobody"}]
-----------------------------------------------------------------------------
(* i1 is o1's own identifier; everyone uses i2.                            *)
OwnAndShared == [i \in Ids |-> IF i = i1 THEN o1 ELSE NoOwner]
SomeDidOps == {<<"register">>, <<"update">>, <<"deactivate">>,
               <<"add", "method", i1>>, <<"remove", "method", i2>>}

(* Bound: the last task starts while the others are at their first try and *)
(* one of them has connected.                                              *)
LastTaskReconnects ==
    (\E t \in Tasks : pc[t] = "idle") /\ (\A t \in Tasks : pc'[t] # "idle") =>
        /\ \A t \in Tasks : attempt[t] = 1 /\ endpoint[t] = 1
        /\ \E t \in Tasks : pc[t] = "done"

(* Bound: calls of the KILT services begin in their order (they are        *)
(* interchangeable), and the third once a DID was created at the first try *)
(* and while nothing of the other call was submitted.                      *)
ThirdAfterCreation ==
    /\ kdPc'[q2] # "idle" => kdPc[q1] # "idle"
    /\ kdPc[q3] = "idle" /\ kdPc'[q3] # "idle" =>
           \E c, b \in {q1, q2} :
               /\ kdPc[c] = "success" /\ kdTx[c] = "ok" /\ kdAttempt[c] = 1
               /\ kdAsked[c].op = "create" /\ kdPc[b] # "idle" /\ kdAttempt[b] = 0

(* Bound: how often a document is updated.                                 *)
UpdatedUpTo(n) == \A a \in DidAccounts : mdUpdates'[a] <= n
-----------------------------------------------------------------------------
connVars == vars
walletVars == <<injVars, wcVars>>
loginVars == <<lgVars, vVars, edVars>>
onlyDidService == <<dsOp, dsPc, dsTx, dsQueue, dsOutside>>
didVars == <<kdVars, pvVars, dsVars>>
parts == <<connVars, walletVars, loginVars, didVars, part>>

ClientsInit ==
    /\ part \in {"connection", "injected", "walletConnect", "login", "server", "did",
                "kilt", "update", "registry", "provider"}
    /\ Init /\ WcInit /\ LgInit /\ KdInit /\ PvInit /\ DsInit
    /\ currentNetwork = n1
    /\ InjInit /\ (part = "injected" \/ injInstalled = {})
    /\ IF part = "server" THEN VInit
       ELSE vReq = Request(TemplateLines, "ss58", "hex128", "sr25519") /\ vRes = NoResponse
    /\ IF part = "did" THEN EdInit
       ELSE edAddress = [o \in 1..Octets |-> 0] /\ edDid = <<>> /\ edResolved = NotYet

ConnectionPart == /\ part = "connection" /\ Next /\ LastTaskReconnects
                  /\ UNCHANGED <<walletVars, loginVars, didVars, part>>
InjectedPart == /\ part = "injected" /\ InjNext
                /\ UNCHANGED <<connVars, wcVars, loginVars, didVars, part>>
WalletConnectPart == /\ part = "walletConnect" /\ WcNext
                     /\ UNCHANGED <<connVars, injVars, loginVars, didVars, part>>
LoginPart == /\ part = "login" /\ LgNext
             /\ UNCHANGED <<connVars, walletVars, vVars, edVars, didVars, part>>
ServerPart == /\ part = "server" /\ VNext
              /\ UNCHANGED <<connVars, walletVars, lgVars, edVars, didVars, part>>
DidPart == /\ part = "did" /\ EdNext
           /\ UNCHANGED <<connVars, walletVars, lgVars, vVars, didVars, part>>
KiltPart == /\ part = "kilt" /\ KdNext /\ ThirdAfterCreation
            /\ UNCHANGED <<connVars, walletVars, loginVars, pvVars, dsVars, part>>
UpdatePart == /\ part = "update" /\ PvNext
              /\ UNCHANGED <<connVars, walletVars, loginVars, kdVars, dsVars, part>>
RegistryPart == /\ part = "registry" /\ MdNext /\ UpdatedUpTo(1)
                /\ UNCHANGED <<connVars, walletVars, loginVars, kdVars, pvVars,
                                onlyDidService, part>>
ProviderPart == /\ part = "provider" /\ DsNext /\ UpdatedUpTo(2)
                /\ UNCHANGED <<connVars, walletVars, loginVars, kdVars, pvVars, part>>

ClientsNext == ConnectionPart \/ InjectedPart \/ WalletConnectPart \/ LoginPart
               \/ ServerPart \/ DidPart \/ KiltPart \/ UpdatePart \/ RegistryPart \/ ProviderPart

(* The fairness of each module: none of it asks for a step before a first  *)
(* call, so a part is not held up by those that stay where they are.       *)
ClientsSpec ==
    /\ ClientsInit /\ [][ClientsNext]_parts
    /\ Fairness /\ InjFairness /\ WcFairness /\ LgFairness /\ PvFairness /\ DsFairness

(* The types of the variables of every part.                               *)
ClientTypesOK == TypeOK /\ InjTypeOK /\ WcTypeOK /\ LgTypeOK /\ KdTypeOK
                 /\ PvTypeOK /\ MdTypeOK

(* Nobody has to answer a wallet's prompt, and no chain to take a          *)
(* transaction: signMessage, the login, which tries again, every call of   *)
(* the DID service and every update of the KILT provider end.              *)
CallsEnd == SignEnds /\ PolkadotLoginEnds /\ DidCallEnds /\ UpdatesEnd
=============================================================================
