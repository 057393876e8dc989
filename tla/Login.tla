------------------------------- MODULE Login -------------------------------
(* loginWithPolkadot and loginWithEthereum: the wallets tried in turn, the  *)
(* account, the message with its date, the signature of a user who may take *)
(* his time or change the account of his wallet meanwhile, the verification *)
(* on the client, and the same request sent to the verification server.     *)
(* Time is counted in units of ten seconds from the date in the message.    *)
EXTENDS Verification

CONSTANTS
    Wallets,        \* kinds of the configured adapters by priority:
                    \* "injected" (Polkadot.js, Talisman) or "walletConnect"
    LgAccounts,     \* accounts of the user's wallet
    RetryCount,     \* retries after a network error
    SignTimeout,    \* WALLET_TIMEOUT
    ServerClocks,   \* how far the server's clock may be ahead of the client's
    MaxTime,        \* bound: a time after the date that stands for all later ones
    NoAccount

ASSUME LoginAssumption ==
    /\ Wallets \in Seq({"injected", "walletConnect"}) \ {<<>>}
    /\ RetryCount \in Nat /\ SignTimeout \in Nat
    /\ ServerClocks \subseteq Int /\ MaxTime \in Nat

VARIABLES
    lgKind,         \* "polkadot" or "ethereum"
    lgPc, lgAttempt,
    lgWallet,       \* index of the wallet being tried or used
    lgFirst,        \* the first account of the wallet, which the user changes
    lgAddress,      \* the account of the message
    lgSigner,       \* the account that signs
    lgTime,         \* time since the message was dated
    lgWaited,       \* time since the signature was asked for
    lgClock,        \* by how much the server's clock is ahead
    lgServer        \* the answer of the server

lgEnv == <<lgKind, lgClock>>
lgData == <<lgAddress, lgSigner, lgTime, lgWaited>>
lgVars == <<lgEnv, lgPc, lgAttempt, lgWallet, lgFirst, lgData, lgServer>>

LgInit ==
    /\ lgKind = "polkadot" /\ lgClock = 0 /\ lgFirst = NoAccount
    /\ lgPc = "idle" /\ lgAttempt = 0 /\ lgWallet = 1
    /\ lgAddress = NoAccount /\ lgSigner = NoAccount
    /\ lgTime = 0 /\ lgWaited = 0
    /\ lgServer = NoResponse

(* The application calls one of the two logins.                            *)
LoginCalled ==
    /\ lgPc = "idle"
    /\ lgKind' \in {"polkadot", "ethereum"} /\ lgClock' \in ServerClocks
    /\ lgFirst' \in LgAccounts
    /\ lgPc' = "connect"
    /\ UNCHANGED <<lgAttempt, lgWallet, lgData, lgServer>>

LgWallet == IF lgKind = "ethereum" THEN "ethereum" ELSE Wallets[lgWallet]
LgGoes(pc) == lgPc' = pc /\ UNCHANGED <<lgAttempt, lgWallet>>

(* The catch of loginWithPolkadot: only a network error is tried again.    *)
LgFails(error) ==
    IF lgKind = "polkadot" /\ error = "network" /\ lgAttempt < RetryCount
    THEN LgGoes("backoff")
    ELSE LgGoes("failed")

BackoffOver ==
    /\ lgPc = "backoff"
    /\ lgPc' = "connect" /\ lgAttempt' = lgAttempt + 1 /\ lgWallet' = 1
    /\ UNCHANGED <<lgEnv, lgFirst, lgData, lgServer>>

(* connectWallet: a fresh adapter of each kind; the first whose enable     *)
(* resolves is used, and WalletConnect's may resolve without a session.    *)
WalletEnabled ==
    /\ lgPc = "connect"
    /\ LgGoes("accounts")
    /\ UNCHANGED <<lgEnv, lgFirst, lgData, lgServer>>

(* Rejected, not installed, or not answered when the timer fires.          *)
WalletRefused ==
    /\ lgPc = "connect"
    /\ IF lgKind = "polkadot" /\ lgWallet < Len(Wallets)
       THEN lgWallet' = lgWallet + 1 /\ UNCHANGED <<lgPc, lgAttempt>>
       ELSE LgFails("wallet")
    /\ UNCHANGED <<lgEnv, lgFirst, lgData, lgServer>>

(* The first account goes into the message, dated now.                     *)
AccountsGiven ==
    /\ lgPc = "accounts"
    /\ lgAddress' = lgFirst
    /\ lgTime' = 0 /\ lgWaited' = 0
    /\ LgGoes("sign")
    /\ UNCHANGED <<lgEnv, lgFirst, lgSigner, lgServer>>

AccountsFail ==
    /\ lgPc = "accounts"
    /\ LgFails(IF LgWallet = "walletConnect" THEN "network" ELSE "wallet")
    /\ UNCHANGED <<lgEnv, lgFirst, lgData, lgServer>>

(* signMessage reads the accounts again and asks their first to sign; the  *)
(* Ethereum adapter asks the account it was given.                         *)
AskToSign ==
    /\ lgPc = "sign"
    /\ lgSigner' = IF lgKind = "ethereum" THEN lgAddress ELSE lgFirst
    /\ lgWaited' = 0
    /\ LgGoes("signing")
    /\ UNCHANGED <<lgEnv, lgFirst, lgAddress, lgTime, lgServer>>

Signed ==
    /\ lgPc = "signing" /\ LgWallet # "walletConnect"
    /\ LgGoes(IF lgKind = "polkadot" THEN "verify" ELSE "ok")
    /\ UNCHANGED <<lgEnv, lgFirst, lgData, lgServer>>

(* Refused, or failed on the way; WalletConnect's placeholder signs with   *)
(* what validateSignature refuses.                                         *)
NotSigned ==
    /\ lgPc \in {"sign", "signing"}
    /\ \E error \in {"wallet", "network"} : LgFails(error)
    /\ UNCHANGED <<lgEnv, lgFirst, lgData, lgServer>>

SignatureTimesOut ==
    /\ lgPc = "signing" /\ LgWallet = "injected" /\ lgWaited = SignTimeout
    /\ LgFails("timeout")
    /\ UNCHANGED <<lgEnv, lgFirst, lgData, lgServer>>

(* The request both verifications see, at the given age of the message.    *)
TemplateLines == <<"title", "issued", "nonce", "addr">>
LoginRequest(age) ==
    [body |-> "json", message |-> TemplateLines, long |-> FALSE, age |-> age,
     chain |-> "none",
     address |-> IF lgKind = "polkadot" THEN "ss58" ELSE "evm",
     signature |-> IF lgKind = "polkadot" THEN "hex128" ELSE "hex130",
     signer |-> IF lgSigner # lgAddress THEN "nobody"
                ELSE IF lgKind = "polkadot" THEN "sr25519" ELSE "secp256k1"]

(* Mutant: the signature is not verified.                                  *)
VerifyNothing ==
    /\ lgPc = "verify" /\ LgGoes("ok")
    /\ UNCHANGED <<lgEnv, lgFirst, lgData, lgServer>>

VerifyLocally ==
    /\ lgPc = "verify"
    /\ IF Passes(PolkadotVerify(LoginRequest(lgTime))) THEN LgGoes("ok")
                                                       ELSE LgFails("verification")
    /\ UNCHANGED <<lgEnv, lgFirst, lgData, lgServer>>

(* The application posts the result; the server answers by its own clock.  *)
ServerVerifies ==
    /\ lgPc = "ok" /\ lgServer = NoResponse
    /\ lgServer' = Respond(LoginRequest(lgTime + lgClock))
    /\ UNCHANGED <<lgEnv, lgPc, lgAttempt, lgWallet, lgFirst, lgData>>

SwitchAccount ==
    /\ lgPc # "idle"
    /\ \E a \in LgAccounts \ {lgFirst} : lgFirst' = a
    /\ UNCHANGED <<lgEnv, lgPc, lgAttempt, lgWallet, lgData, lgServer>>

(* Time passes while something is awaited; the signature's timer fires no  *)
(* later than the next unit.                                               *)
LgTick ==
    /\ \/ lgPc = "sign" \/ (lgPc = "ok" /\ lgServer = NoResponse)
       \/ lgPc = "signing" /\ (LgWallet = "injected" => lgWaited < SignTimeout)
    /\ lgTime' = IF lgTime < MaxTime THEN lgTime + 1 ELSE lgTime
    /\ lgWaited' = IF lgPc = "signing" /\ LgWallet = "injected" THEN lgWaited + 1 ELSE lgWaited
    /\ UNCHANGED <<lgEnv, lgPc, lgAttempt, lgWallet, lgFirst, lgAddress, lgSigner, lgServer>>

LgNext ==
    \/ LoginCalled \/ BackoffOver \/ WalletEnabled \/ WalletRefused
    \/ AccountsGiven \/ AccountsFail
    \/ AskToSign \/ Signed \/ NotSigned \/ SignatureTimesOut
    \/ VerifyLocally \/ ServerVerifies \/ SwitchAccount \/ LgTick

(* The user may never answer a prompt; timers fire, and calls that need no *)
(* prompt are answered.                                                    *)
LgFairness ==
    /\ WF_lgVars(BackoffOver) /\ WF_lgVars(WalletRefused)
    /\ WF_lgVars(AccountsGiven \/ AccountsFail) /\ WF_lgVars(AskToSign)
    /\ WF_lgVars(LgTick) /\ WF_lgVars(SignatureTimesOut) /\ WF_lgVars(VerifyLocally)
LgSpec == LgInit /\ [][LgNext]_lgVars
LgFairSpec == LgSpec /\ LgFairness
-----------------------------------------------------------------------------
(* Each variable has its type.                                             *)
LgTypeOK ==
    /\ lgPc \in {"idle", "connect", "accounts", "sign", "signing", "verify", "backoff", "ok",
                 "failed"}
    /\ lgAttempt \in 0..RetryCount /\ lgWallet \in 1..Len(Wallets)
    /\ lgFirst \in LgAccounts \cup {NoAccount}
    /\ lgAddress \in LgAccounts \cup {NoAccount} /\ lgSigner \in LgAccounts \cup {NoAccount}
    /\ lgTime \in 0..MaxTime /\ lgWaited \in 0..SignTimeout

(* A login succeeds only with the signature of the account it names, even  *)
(* when the user changes accounts between the message and the prompt.      *)
SignedByItsAddress == lgPc = "ok" => lgSigner = lgAddress

(* What a login returns is accepted by the server, unless it comes too     *)
(* late by the server's clock or that clock is too far behind.  The logins *)
(* that return are Ethereum ones: the verification of a Polkadot login     *)
(* fails on the client already.                                            *)
ServerAcceptsLogin ==
    lgServer # NoResponse => (lgServer.status = 200 <=> Fresh(lgTime + lgClock))

(* A Polkadot login ends although the user answers no prompt: extensions   *)
(* have timers.  Only WalletConnect may leave it waiting for a signature,   *)
(* and the Ethereum adapter, which has no timer for it either.             *)
PolkadotLoginEnds ==
    <>[](lgKind = "polkadot" =>
            \/ lgPc \in {"idle", "ok", "failed"}
            \/ lgPc = "signing" /\ LgWallet = "walletConnect")
=============================================================================
