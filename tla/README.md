# KeyPass: TLA+ models, checks and proofs

KeyPass is a TypeScript SDK for logging in with Polkadot and Ethereum wallets,
managing decentralised identifiers on the KILT and Moonbeam parachains, and
minting soulbound tokens.  This directory holds TLA+ models of the parts in
which calls overlap, answers arrive late, attempts are repeated or long
sequences of legal calls change shared records; TLC configurations that check
them on small instances; and proofs, checked by TLAPS, of what matters most for
instances of every size.

Paths below are relative to `src/src/`.

## 1. The system

The SDK runs in one JavaScript thread.  Code between two `await`s runs to
completion; at an `await` any other call, timer or event may run.  All modules
take this as their grain of atomicity: an action is what runs from one
suspension to the next.  A call of a contract is one action.

| Component | State | Operations | What is hard | What makes it correct |
|---|---|---|---|---|
| `did/services/KILTTransactionService.ts` | `nonceCache`, `pendingTransactions` | submitTransaction, submitSignedTransaction, retryTransaction, autoRetryTransaction, waitForConfirmation, clearNonceCache | retries with unknown outcome, polls racing status events, stale answers to accountNextIndex, submissions of the provider beside it | success means finalized; a call executes its extrinsic at most once; every call returns |
| `adapters/KiltAdapter.ts` | websocket, api, `connectionState`, `chainInfo`, timers | connect, reconnect, setNetwork, disconnect, health check | overlapping connects that share one cleanup; timers that survive a disconnect | only two connects of one turn leak a socket; the state is true when nothing runs; every task ends |
| `did/services/KILTDIDPalletService.ts`, `did/KILTDIDProvider.ts` | none beyond the services' | create, update, delete, methods, services, batches; the provider's own submission and wait | check-then-act over an await; a failed query reads as "does not exist"; submissions that are retried; the wait looks in two places one after the other | a request changes the registry wholly, as asked, and no more often than it was submitted; every update of the provider ends |
| `contracts/MoonbeamDIDContract.sol`, `did/services/MoonbeamDIDService.ts`, `did/providers/MoonbeamDIDProvider.ts` | documents, lists, two mappings of identifiers, a counter | register, update, add and remove methods and services, deactivate | one mapping for the identifiers of all accounts; swap-and-pop; a 30-second receipt wait | lists and documents agree; deactivation is final; success means executed |
| `adapters/MoonbeamAdapter.ts` | provider, network, `nonceCache`, `pendingTransactions` | connect, switchNetwork, disconnect, sendTransaction, signTransaction, waitForTransaction, monitorTransaction | the nonce is read and advanced around awaits; the network changes under a send | nonces are distinct; confirmations are deep enough; watches return |
| `monitoring/BlockchainMonitor.ts` | transactions, health, errors | monitor with retries, health checks | calls share one record; recursive retries with a shrinking budget | the record left is a result; no more retries than asked |
| `contracts/SBTSimple.sol` | tokens, roles, owner, supply limit | mint, batchMint, burn, revoke, roles, setMaxSupply | long sequences of legal calls | soulbound; supply limit; nothing left of burned tokens |
| `services/SBTMintingService.ts` over `contracts/SBTContract.ts` | event subscriptions | mintSBT, batchMintSBT, SBTContract.mint, subscriptions | a mint whose receipt is late is retried while in flight, and so is one whose callback throws; listeners attached some time later, and a replaced contract object | the reported token is the caller's own; one token per mint unless an attempt was lost or onProgress threw; one listener per subscription |
| `contracts/SBTContractFactory.ts` | records by network, ABI versions | deployContract, records, versions, cleanup | a deployment repeated after it was sent; records changed during awaits | one contract per call unless an attempt was lost; a record names a contract of its network |
| `adapters/PolkadotJsAdapter.ts`, `adapters/TalismanAdapter.ts`, `adapters/WalletConnectAdapter.ts` | enabled, session, timers | enable, accounts, sign, disconnect | overlapping enables share a timer field; accounts wait for the latest prompt; scheduled reconnections | no connection in use is cut; reconnecting stops; signing ends unless its accounts wait for another prompt |
| `index.ts`, `walletConnector.ts`, `adapters/EthereumAdapter.ts` | account of the wallet | loginWithPolkadot, loginWithEthereum | the user changes account between message and signature; the sequence is retried | a login is signed by the account it names; it ends |
| `server/*.ts`, `message/messageBuilder.ts` | none | verifySignature | time window, routing by address, line checks | a message passes exactly when format and time are good; an Ethereum login is accepted exactly when signed, too |
| `did/EthereumDIDProvider.ts` | none | createDid, resolve | base64 digits that are deleted | no DID resolves to another address |
| `services/SBTService.ts`, `services/MetadataService.ts`, configuration, errors, types, mocks, examples, scripts | see section 7 | - | - | - |

How they interact: a login takes a wallet adapter through connectWallet, builds
a message, has it signed and sends it to the verification server.  A DID or mint
operation calls a service, which asks its adapter for the connection and the
account and submits a transaction; the chain answers later through a receipt, a
poll or a status subscription.  Callers, timers, users and chains interleave
freely.  Nonces of one KILT account are handed out by KILTTransactionService
from its cache, by its callers through `options.nonce`, and by KILTDIDProvider
from the node; those of an EVM account by MoonbeamAdapter from its cache, and by
the contracts of MoonbeamDIDService and SBTContract, whose signer asks the node.

PROJECT.json lists each part with its status, and the hazards of the code at
the line where they bite.

## 2. The modules

| Module | Models | Correspondence |
|---|---|---|
| `KiltNode` | the KILT node: pool, best chain, finality, status events | external; from the calls of the services |
| `KiltTx` | KILTTransactionService over `KiltNode` | one action per continuation; `pc[c]` names the await a call is at |
| `Submissions` | what submitting promises its caller (abstract): a call signs a bounded number of transactions, one of them at most is executed, a success is the last of them, finalized | refined by `KiltTx` |
| `KiltProviderTx` | KILTDIDProvider.submitTransaction over `KiltNode` | `pvPc[c]` names the await; a call has one transaction |
| `KiltDid` | the DID operations of service and provider over the DID pallet | a call has a latest transaction and those it has given up; implements `DidRegistry` |
| `DidRegistry` | what the DID operations promise (abstract): a request takes effect in one step, no more often than it is submitted, or is refused | refined by `KiltDid` |
| `KiltConnection` | the connection half of KiltAdapter | a task is one run of `connectWithRetry`, a websocket is known by the try that opened it |
| `MoonbeamChain` | the EVM chains: mempool, blocks, counts, receipts; what others send with the accounts | external |
| `MoonbeamAdapter` | MoonbeamAdapter over `MoonbeamChain` | sends and watches are calls; `provider` may change at each await |
| `NonceTickets` | what a nonce manager promises (abstract) | refined by `MoonbeamAdapter` |
| `BlockchainMonitor` | the monitor calls of Moonbeam transactions with their retries | one record per attempt and the map of ids over them |
| `MoonbeamDID` | the registry contract | one operator per function, a call is atomic |
| `MoonbeamDIDService` | service and provider over `MoonbeamDID` | `dsPc[c]` names the await; the chain takes transactions in the order of `dsQueue` |
| `SBTSimple` | the token contract | one operator per function |
| `SBTMinting` | mintSBT, batchMintSBT and SBTContract.mint over `SBTSimple` | one transaction per attempt |
| `SBTEvents` | the subscriptions of SBTContract | listeners hang on contract objects, which updateSigner replaces |
| `SBTFactory` | SBTContractFactory | one deployment transaction per attempt; records and versions as the code keeps them |
| `InjectedWallet` | PolkadotJsAdapter and TalismanAdapter | the timer field beside the timers really armed |
| `WalletConnect` | WalletConnectAdapter | the same, and the reconnections it has scheduled |
| `Login` | both logins through connectWallet, with the server's clock | one login; the wallet's account may change |
| `Verification` | the three verification services and the endpoint | operators over abstract lines and flags of a request |
| `EthereumDid` | EthereumDIDProvider | functions over bytes and base64 digits, four digits for three bytes |
| `Subsequences` | filtering a sequence, as the server's line filter and createDid's deletion do | `SelectSeq` in a form the proofs can take apart |
| `MC*` | model values, inputs, orders, symmetry and bounds for TLC | - |
| `*Proofs` | the theorems of section 5 | - |

**KiltTx.**  `nonceCache` and `pending` are the two maps; `retries` the counter
of an entry; `txNonce`, `chain`, `index`, `notice` belong to the node.  A call
walks through `renew`/`attempt` (resetting options or starting an attempt),
`fetch` (accountNextIndex), `sign`, `send`, `wait` (the poll and its timeout) and
`fee` to `done`, or through `backoff` into the next attempt.  The node includes,
retracts, finalizes and drops transactions when it likes; answers are fixed when
the node gives them and used when the continuation runs, so they may be stale.
`Elsewhere` is a transaction of the account that the service knows nothing of,
the provider's: it uses up a nonce.  `CallerNonces` are what callers pass as
`options.nonce`: such a call leaves the cache alone until it succeeds, and then
moves it by one wherever it stands.  `Managed` calls are the others.  The block search of the poll is one step.
The second of the two definitions of `isRetryableError` (line 801) is the one in
force.

**KiltProviderTx.**  Pool and finalized blocks are read at different awaits, and
the set of blocks searched is settled when the finalized head is read.
`pvDepth` counts the finalized blocks on top, so that a transaction can leave
the ten blocks that are searched.  `pvTimer` is the set of armed timeouts.

**KiltDid.**  A request of the pallet service names additions and removals,
which the code puts in an order of its own (`PalletExtrinsics`); a batch lists
operations, on any DIDs, which keep the order of the list (`BatchExtrinsics`); the
provider checks the DID the request names and creates the one of its account
(`did`, `account`).  `BatchAll`, the last value of the recursive function
`BatchRun`, executes all of them or nothing.  `queryDID` may fail, which reads as
"does not exist".  The pallet service submits through KILTTransactionService,
which tries again after an error: `kdAttempt` counts, `kdTx` is the fate of the
latest transaction, and `kdOlder` how many before it may still be executed.  That
calls of one account that wait for each other execute one transaction at most is
`AtMostOnce` of KiltTx; here calls overlap.  The refinement maps a call to its
request, the registry to itself, and `KdLeft`, the transactions that may still be
executed and the submissions still to come, to `left`.

**KiltConnection.**  `ws`, `api` and `service` name the websocket the adapter, its
api and its transaction service are on, `open` those really open.  Any number of
tasks may be suspended in `ApiPromise.create` or in a backoff.  An `await` of
`cleanup`, which itself awaits nothing, ends in the same turn (`TurnOver`), but
after the caller's other calls of that turn: two connects of one turn both close
what there is before either opens its websocket, and `overlapped` remembers whose
those were.  The flag `isConnecting` has no variable: the cleanup that follows in
the same step resets it, so the guard on line 171 never holds.  `check` is a health
check waiting for its answer.

**InjectedWallet.**  `injPrompts` are the calls whose `web3Enable` nobody has
answered, and `injLatest` the last of them: the extension library keeps one
promise, which `web3Accounts` and `web3FromAddress` await, and no timeout covers
them.

**MoonbeamAdapter and BlockchainMonitor.**  `network` is what the adapter was
set to and `provider` what it is connected to; a switch goes through a disconnect
and a connect.  `asked` is the network a `getNextNonce` in flight has asked, `era`
the reset of the nonce cache a nonce was given in.  `Foreign` transactions carry a
nonce of an account that no send was handed.  Two kinds of watch: `wait` has
a timeout, `monitor` has none.  To the monitor, a watch is one request that is
answered or throws, or neither.

**MoonbeamDID and its service.**  A document has its two lists, and the two
mappings of identifiers are shared by all accounts.  `PrivateTo` says which
identifiers callers keep to themselves: for those a document lists no identifier
twice; for shared ones the contract gives no such promise, and none is stated.  The
service asks its adapter for `getSigner` (MoonbeamDIDService.ts:128), which
MoonbeamAdapter does not have: the model is of the service as it is meant, with a
signer.

**SBTSimple, SBTMinting, SBTEvents, SBTFactory.**  `_beforeTokenTransfer`
refuses whatever is neither a mint nor a burn.  A transaction of an attempt stays
in the pool after the attempt is given up on (`lost`, `faLost`), and may be mined
while the next one runs.  `Reports` are the mints whose caller passes an
`onProgress`: it throws wherever the service calls it, and after the token was
minted (`threw`) the loop mints again.  The callback of a batch may end the batch
(`BatchAborts`).  `contract.on` and `contract.off` are not awaited: a listener is
attached (`Attached`) or refused (`Rejected`) some time after the subscription was
entered in the map, and taken off some time after it left it, while
`removeAllListeners` acts at once on what is attached.  `EvObjects` counts the
contract objects: an old one goes on delivering events to the listeners attached to
it.

**Login and Verification.**  A message is a sequence of line kinds; what the
checks can tell apart (a title that goes on, an indented one, a bad time, an empty
nonce, an address in another case) are separate kinds.  Cryptography is an oracle:
a request carries who signed it.  The Polkadot service gives the library the text of
the address for a public key (`AddressBytes`, `PublicKeyBytes`), so no signature
verifies.

Definitions called "Mutant:" in a comment are alternative readings of the next
definition with a plausible bug.  No specification uses them; each property was
seen to fail when one replaces what it mutates (PROJECT.json, "mutants").

## 3. The runs

Components that share no state are checked side by side in one run: `part`
says which of them a behaviour is about, and the others stay at their initial
state (`clients`, `sbt`).  This is a choice of a behaviour, not a
composition; where components do share state (KiltTx with the node and the
provider, SBTMinting with the contract, the DID services with their registries,
the login with the server) they are composed.

| Run | Instance | Shows | Distinct states |
|---|---|---|---|
| `kilt_serial` | 2 calls of one account that do not overlap, one maybe autoRetry, 1 retry, 1 nonce used elsewhere, a caller that may pass nonce 1, fair | what is confirmed is final; refinement of Submissions (bounded signing, one execution a call, what a result means); the cache is past every success of a managed nonce; every call returns | 1.5 million |
| `kilt_retry` | 2 overlapping calls, submissions without waiting and retries, 1 cache clear, 1 nonce used elsewhere | success is final; a retry executes at most once; a result leaves no entry | 7.2 million |
| `moon_nonces` | 2 signatures that are broadcast or not, 1 transaction of others, 2 networks, 1 switch, 1 reset | distinct nonces; no value unaccounted for; refinement of NonceTickets | 4.7 million |
| `moon_watch` | 1 send, 1 watch of either kind, 3 blocks, 2 confirmations, 1 switch; fair | confirmations deep enough; watches return | 355 thousand |
| `sbt` | tokens: 2 accounts, 3 tokens, batches of 2, limits 0 to 3; minting: 2 mints, in a batch or apart, 2 attempts, a low gas limit; factory: 2 deployments of 2 attempts, 2 networks, 1 change of the books; events: 2 subscriptions, 1 event, 2 updates of the signer; monitor: 2 calls with a budget of 3; fair | supply limit, soulbound, nothing left of burned tokens; own token, duplicates only after a lost attempt or a throwing callback, every mint ends; one contract unless lost, records agree; one listener per subscription; the record left is a result | 1.7 million |
| `clients` | connection: 3 tasks, 2 networks, 2 endpoints, 2 rounds; wallets: 2 overlapping enables each, 1 signature, 3 reconnections; login: 2 attempts, 38 time units, 4 clock offsets; server: every message within two edits of the template and the ends of every range; DIDs: all pairs of 16 octet values, 3 KILT calls of 10 requests over 2 DIDs with 2 tries, 2 provider updates, 2 Moonbeam accounts and 2 service calls; fair | leaks, timers, signatures, the server's answers, documents and lists, refinement of DidRegistry, and that calls end | 487 thousand |
| `kilt_auto_failed`, `kilt_disconnect`, `kilt_did_success`, `kilt_provider_wait`, `monitor_budget`, `ethereum_did` | small | violated: see findings | - |

**Why these bounds.**  The hazards are races of two: two transactions of one
account with one nonce, a late answer and a newer cache, a task and the one that
overlaps it, a mint and the attempt given up on.  Two calls and one retry meet all
of them; the third connection task lets a reconnection overlap two others, the
third KILT DID call lets a deletion fall between a check and two creations
(`ThirdAfterCreation`: the calls begin in the order of their names, as they are
interchangeable, and the third once a DID was created at the first try and while
the other call has submitted nothing), and
one switch, reset, clear or change of the books is what it takes to separate a
cached value from its source.  `TxBound` limits only how many transactions one
call may sign: 2 covers a first attempt and its retry (`MaxRetries` = 1), 4 covers
two attempts in each of two rounds of autoRetry.  `ElsewhereBelow` lets the
provider use the account's nonces below it.  `MaxCount` is 0 where earlier
transactions would only shift the numbers.  `moon_nonces` has signatures only
(`Kinds`): to nonces a transaction that is sent at once is one that is signed, with a
nonce taken in the same way, and broadcast later or never.  `MaxTokens` is enough for two attempts
of both mints and one mint of others; in the "tokens" part three tokens are
minted.  `UpdatedUpTo` bounds how often a Moonbeam document is updated, and
`MaxOutside` the calls of others between a service's steps.  `SearchDepth` is 2
for the provider's 10: what counts is that a transaction can be in the blocks
searched, not yet in them, and no longer in them.  `MaxAge` and `Skew` are kept in
proportion to a slow user (`MaxTime`).  The theorems of section 5 hold whatever
the values of these bounds.

**Constraints.**  `AutoAlone` and `InTurn` (MCKiltTx) bound what callers do: no
other call is made once autoRetryTransaction is, and of two calls that do not
overlap the first is c1, and a nonce is passed (`GivenAfterSuccess`) to a
submitTransaction that is alone or follows a success.  A state they cut off is always reached by the start of a
call, which no fairness asks for, so no behaviour in which the calls under way go
on is lost to the liveness property of `kilt_serial`.

**"Ends".**  Calls, tasks and mints of the models are made once each.  That each
of them ends is therefore the same as that in the end none is under way, `<>[]`,
and is written so: `Returns`, `TasksEnd`, `SignEnds`, `PolkadotLoginEnds`,
`DidCallEnds`, `UpdatesEnd`.

**Symmetry** is used on calls and sends in `kilt_retry` and `moon_nonces`, which
check safety only and in which they are interchangeable: all use one account and
every operation is open to each.

**Deadlock** is checked in the KiltTx runs, where `AllDone` stutters when every
call has returned, and in `kilt_disconnect`.  The other runs turn it off: a chain
at its last block, or a set of calls that all returned, really stops.

## 4. Fairness

Nowhere does a caller have to make a call, a user to answer a prompt, or an
extension, endpoint or pool to be helpful.  What is assumed is that timers fire,
that a request that needs no user is answered or fails, unless noted here, and that
the runtime resumes what it may.

* `KiltTx!FairSpec`: each call's own continuations.  Nothing is assumed of block
  production, so a wait ends by its timeout if need be.
* `KiltProviderTx!PvFairness`: continuations, and the armed timeout on its own,
  because the tracking may go round for ever.
* `KiltConnection!FairSpec`: only timers fire (the connection timeout and the
  backoff) and the continuations of a cleanup run.  No endpoint ever has to answer.
* `InjFairness`, `WcFairness`, `LgFairness`: timers, scheduled reconnections, and
  answers that need no click.  Reading accounts needs none, but waits for the latest
  `web3Enable`, and nobody has to answer that: `SignEnds` claims nothing of a
  signMessage which waits for it.  `WcFairness` asks a provider's promise to settle or
  the adapter's timer to reject it.
* `DsFairness`: requests of the DID service are answered or fail, and its
  30-second wait for a receipt runs out.  No block has to take a transaction.
* `MoonbeamAdapter!FairSpec`: continuations of a watch run; the chain keeps
  producing blocks (`monitorTransaction` has no timeout, so it needs them);
  strong fairness of the timeout, because the clock, unlike the model's loop, is
  past the deadline for good once it passed it.  Sends have no fairness.
* BlockchainMonitor: nothing.  Its `adapter.waitForTransaction` has no timeout
  (MoonbeamAdapter.ts:502) and is orphaned by `removeAllListeners` (264), so that a
  call may wait for ever; no property says that monitoring ends.
* `SBTMinting`: each mint's continuations and timers, its submission among them: a
  signer is assumed to answer or to fail, which one in a browser wallet, whose prompt
  may stay open, need not.  Nothing of the chain.

## 5. The theorems

All are proved for every value of the constants, from the named assumptions of
the modules.  Those say that bounds are naturals, that a stand-in for `undefined`
or `null` is not a value, and what shape requests and configured lists have; TLC
evaluates them in every run.  PROJECT.json lists the theorems with the property
each one states.

Most of what the runs check is not inductive, and the invariants below say what
has to be added.  Those that a component's module states (`KdInv`, `ShownInv` and
the invariants of KiltTx, KiltConnection and MoonbeamAdapter) can be given to TLC
as INVARIANTs of the run of that component.

**`KiltTxProofs`, KILTTransactionService.**
`SuccessMeansFinal` and `CoreInvariant`: that a success is final rests on the
entry 'confirmed' in the shared map, written by a poll of the same call or by an
event that may come late.  `ConfirmedInv` adds that 'confirmed' entries are final
transactions, what each program counter says of its call, and that a transaction
not yet signed has no entry.

**`KiltTxOnceProofs`, what repeats.**
* `RetryExecutesOnce`, `SubmitExecutesOnce`.  The node executes a nonce once
  (`NonceInv`, which nonces used elsewhere keep), so it suffices that all attempts
  of a call carry one nonce.  For retryTransaction they do because `options.nonce`
  is set before the first attempt (`FixedInv`), under any interleaving.  For
  submitTransaction they do because the cached nonce stands while the call runs
  (`CacheInv`); this needs `Serial`: nonce management on, callers that do not
  overlap on one account, no clears.  Without it the property is false.
* `ResultsAreCleared`.  A late status event could put an entry back after its call
  returned.  An event changes only an entry that is there, so it suffices
  that none is left: `ClearedInv` says that a result comes only at the end of a
  call, and that the entry is gone once it returned.
* `CacheStaysPast`, again for `Serial`, of the calls whose nonce is `Managed`.  A
  caller that passes its own (KILTTransactionService.ts:258) may find it handed out
  again after its success: with 0 cached and used elsewhere, a success with 1 moves
  the cache to 1.  `PastInv` follows the cached nonce through a managed call: it is what is signed with, it stands while the call waits, and it has moved
  on by the time a success is reported.
* `SigningIsBounded`.  Two nested counters, of attempts and of autoRetry's rounds,
  start over at different places.  `SignsInv` compares what a call has signed with
  the number they make up together (`SignedSoFar`); the product it takes is the
  lemma `Rounds`.
* `ServiceImplementsSubmissions`, for `Serial`: every behaviour of the service is one
  of `Submissions`.  The mapping shows of the node only which transactions are in
  blocks, and of a call what it returned.  A start maps to `Begin`, signing to
  `SignOne` (which needs `SignsInv`), an inclusion to `Included` (which needs
  `AtMostOnce` of the next state), the end of a call to `Return` (which needs
  `SuccessIsFinal`, `ClearedInv` and, for a fee worked out after the result,
  `FeeInv`); everything else shows nothing (`SubmissionStep`).

**`KiltConnectionProofs`, KiltAdapter's connection.**  `OverlapAloneLeaks`
and `ConnectionSettles`.  `ConnectionInv` adds to what is checked the bound on rounds
that a backoff implies, that of the tasks between cleanup and websocket all but a
lone one overlap (`OverlapInv`), and that nothing is connected in a turn that has
something to reconnect (`StoppedInv`).

**`KiltDidProofs`, the refinement.**  `KiltDidImplementsRegistry`: every behaviour
of the KILT DID operations is one of `DidRegistry`.  The initial states map, and
each step is a step of the registry or leaves it alone (`RegistryStep`); only the
execution of a transaction lowers `left` and changes the registry (`RunTakes`,
`Taken`); giving up, failing and retrying only lower it (`Lowered`).  What needs work
is that a batch, which the code builds as a list and the pallet executes one extrinsic after
the other, does to the documents what the request says as a whole (`RequestTakes`).  `BatchConcat`
takes a batch apart, `EachAdds` and `EachRemoves` say what its runs of additions
and removals come to, and `PalletUpdate` puts an update together, refusals
included; for a list of the caller's, over several DIDs, `BatchTakes` follows the
registry from operation to operation (`InTurnIs`).  `KdInv` carries types and what each step knows of its request.  The
induction over a batch is by a least counterexample among the naturals (`LeastOf`,
`UpTo`), since the library's induction theorems cannot be cited.

**`MoonbeamAdapterProofs`, nonces and confirmations.**
* `NoncesDistinct`, `AdapterIssuesTickets`.  `NonceInv` says a nonce of the current
  era is below the cache: the cache is read and advanced in one continuation, after
  the await.  The step simulation of `NonceTickets` is then a case split: only
  `TakeNonce` issues a ticket, only the two resets end an era.
* `CacheAccountsForNonces`.  That no nonce is skipped, but for those others use past
  the adapter, needs to follow the answer of
  the node across the await: `LinkInv` (network and provider), `CarriedInv` (what
  pool and chain hold was handed out, or is of others), `AnswerInv` (an answer in flight skips
  nothing) and `AccountInv` (neither does the cache).
* `ConfirmedIsDeep`.  `DepthInv`: a mined transaction stays in its block
  (`MinedInv`), and a watch that no switch has disturbed asks one network and holds
  the block its transaction really is in (`WatchedInv`).

**`MoonbeamDIDProofs`, the contract and the service.**
* `RegistryConsistent`, `DeactivationIsFinal`.  `ListsAgree` is inductive with the
  types.  Its heart is `SwapRemoveEffect`: moving the last entry to the place of
  the first match loses nothing else and keeps single what was single.
* `OneCreationSucceeds`, `ReportedIsExecuted`, `ServiceKeepsRegistry`,
  `LateMiningIsHarmless` (a transaction signed before its DID was deactivated and
  mined after changes nothing of it).  Any number
  of creations may pass the check together.  `DsInv` ties each
  transaction to the step its call is at (`TxFollowsCall`), and says that of the
  registrations the chain executed there is one, after which the signer is
  registered for good (`OneRegistration`).

**`SBTProofs`, tokens, minting, events, the factory and the monitor.**
* `SupplyKept`, `TokensAreSoulbound`; `MintingUsesContract` carries both over to
  the contract under the minting services.
* `MintReturnsOwnToken`, `MintOnceUnlessLost`.  `MintInv` says that each mined
  transaction has a token no other has (`OwnTokens`), and that unless an attempt was
  lost or onProgress threw only the present one may yet mint (`FateKnown`).
* `SubscriptionsHeardOnce` (`EvInv`): a subscription's listener is attached, or on its
  way, to one contract object only, also while it is being taken off
  (`EvAttachedOnce`); a callback gets an event once (`EvCalledOnce`).
* `DeploysOnceUnlessLost`, `RecordsNameTheirContracts` (`FaInv`): the same
  accounting for deployments, and a record names a mined deployment of a call that
  began on its network, though the books change during every await.
* `MonitorShowsTheEnd`.  Calls share a map of records, replaced by each attempt;
  `ShownInv` says that the call whose record the plain id shows has ended that
  record or still runs, and that a call sleeps only with retries left.
* `TokenTypesKept`, `PartsAreComponents`: the types in the specification of the run
  itself, and that each part of it behaves as its component's specification says.

**`ClientProofs`, wallets, login, server, Ethereum DIDs and the provider's
submission.**
* `ConnectionStaysUncut` (`InjInv`), `OneTimerAtMost` (`WcInv`): an overlapping
  enable clears the timer it replaces, and what settles a call clears the field's,
  so an armed timer is the field's and belongs to a call that still waits.  `ReconnectsAreCounted`: the attempts stay within
  the limit.
* `ServerAnswersAsSpecified`: the chains of checks of the three services, taken
  apart by `ChainPasses`.  For an SS58 address those before the signature let through
  exactly the fresh login messages; the filter of empty lines is why messages of any
  length must be considered.  For an Ethereum address the server accepts every fresh
  login message that was signed, and only fresh ones that name the signer.
* `LoginSignedByItsAddress`, `LoginAcceptedByServer` (of Ethereum logins: no other
  comes to an end that a server sees).  Both need `LgInv`: between
  the message and the signature the extension's account may change, and what keeps
  a login honest is the verification on the client, so the invariant
  (`SignedAtEachStep`, `AskedAtTheEnd`) relates signer and address at each step.  `LoginIsBounded`: a backoff
  implies that a retry is left.
* `NoOtherAddressResolves`: for addresses of any number of bytes.  If createDid
  deleted no digit, decoding gives the address back, group by group (`Decoded`); if
  it deleted one, the digits that remain are too few for an address
  (`CleanedOrShorter`).
* `UpdateSuccessIsFinal`, `WaitsAreTimed`: KILTDIDProvider looks in the pool and then
  in blocks, and no wait of its is without an armed timeout.  `PvInv` joins to both
  that a call past its submission has a signed transaction and that results come
  only at the end.
* `ClientsAreComponents`: every step of `ClientsSpec` is one of a part and leaves the
  variables of the others (`StepIsOfPart`), so the specifications of the components
  hold side by side, and with them all that is proved of each.  `ClientTypesKept`,
  `ClientsAreSafe` and `ClientsKeepDids` conclude the invariants and the two action
  properties that the run checks.  `ClientsInv` adds what the parts without a
  specification of their own need: a server or an Ethereum DID that a behaviour is
  not about keeps its initial state, and `DsInv` stands whether the contract is
  called through its service or by anyone.

**What the proofs found out about the models.**  Definitions by CASE with guards
that overlap (the receipt of the DID service, the signer of a login, the pallet's
calls) have the value TLC picks but none that can be derived; they are IFs now.
Constants had shapes the definitions relied on and nobody had said:
`KdAssumption`, `InjAssumption`, `LoginAssumption`, `VerificationAssumption` and
`ReconnectsAssumption` say them.  `LgTypeOK` and `OnlyOverlapLeaks` are not
inductive by themselves.  Filters and folds whose definition is recursive inside
the library were replaced by functions over positions, checked against the same
properties.

**Only model-checked.**  Every liveness property (`Returns`, `CallsEnd`,
`TasksEnd`, `ReconnectingStops`, `WatchesReturn`, `EveryMintEnds`): TLAPS does not reason about fairness with `ENABLED`.  Every
invariant and every action property of a passing run is stated by a theorem.  The
refinements of `Submissions`, `DidRegistry` and `NonceTickets` are of safety; which
calls end is for TLC.  The violated properties of section 6 are counterexamples,
which need no proof.

## 6. Findings

Shown by a run:

* `kilt_auto_failed`: `autoRetryTransaction` (KILTTransactionService.ts:735,
  "Automatically retries failed transactions") resubmits a transaction that is in
  a block, with a new nonce, and it is executed twice.
* `kilt_disconnect`: after `disconnect` (KiltAdapter.ts:1193, "cleans up
  resources") a connection task or a health check that was under way goes on and
  connects again.
* `kilt_did_success`: a transaction that was included and whose dispatch the
  pallet refused is reported with `success: true`
  (KILTTransactionService.ts:352).
* `kilt_provider_wait`: the provider's wait (KILTDIDProvider.ts:809) reports
  "not found in recent blocks. It may have been dropped" of a transaction that is in
  a block not finalized yet.
* `monitor_budget`: a retry budget of 0 means the configured one
  (BlockchainMonitor.ts:358), so retries never run out.
* `ethereum_did`: createDid deletes digits of the base64 form of an address
  (EthereumDIDProvider.ts:42), so most DIDs cannot be resolved.

Seen while modelling, in the models as the code has it, and shown by no run of
their own:

* No Polkadot login is ever accepted, by `loginWithPolkadot` or by the server:
  verificationService.ts:253-254 passes the text of the SS58 address as the public
  key, of which the library throws that it has not 32 bytes, and line 256 turns that
  into `false`.  Nor would the decoded key do: `signRaw` signs the message between
  `<Bytes>` and `</Bytes>`.  The tests replace the library's functions.
* Two `connect` calls of one turn both pass `await this.cleanup()`
  (KiltAdapter.ts:226) before either sets `wsProvider` (229): the first one's
  websocket is open for good (`overlapped`).
* A `signMessage` may wait for ever for its accounts: see InjectedWallet.
* `onProgress` is called inside the try of the mint (SBTMintingService.ts:774, 791):
  if it throws after the token was minted the mint is repeated.
* While calls of one account overlap, a retry of a DID operation
  (KILTTransactionService.ts:407) may be a second transaction that is executed, too;
  and `registerDidOnchain` checks `request.did` (KILTDIDProvider.ts:552) and creates
  the DID of the account (894).
* `waitForConfirmation` (KILTTransactionService.ts:577, "resolves when transaction
  is confirmed") also resolves for a transaction that is in a block and not final.
* `getNextNonce` (MoonbeamAdapter.ts:815, "next available nonce") may leave a gap
  after a switch of networks, because the cache is keyed by address alone.
* After `updateSigner` (SBTContract.ts:1330), `unsubscribe` and
  `removeAllListeners` act on the new contract object; listeners attached to the
  old one stay.  `removeAllListeners` in the turn of a subscription leaves its
  listener behind, as `contract.on` attaches it later (1187), and a refusal of
  `contract.on` reaches nobody.
* deployContract fails, though its contract is there, when the record of its
  network was removed during the verification (SBTContractFactory.ts:362, the
  outcome "unmarked"); otherwise it marks whatever record is there.
* `getErrors` sorts the monitor's own list in place (BlockchainMonitor.ts:863), so
  "Keep only last 1000 errors" (736) then drops the newest.

## 7. Not modelled

In the modelled parts: `monitorTransaction` and the read-only queries of
KILTTransactionService, and several polls of one transaction in flight; accounts,
signing and the nonce cache of KiltAdapter, which nothing in the repository
reads; the keys and documents the DID services build; concurrent connects, gas
prices and reorganisations in MoonbeamAdapter; health checks, metrics and error
history of BlockchainMonitor; approvals, views and recipients with code in
SBTSimple; callbacks of the monitor, which are assumed not to throw; the other calls
of SBTContract; artifacts, gas estimates and code
hashes of the factory; account lists and the account selector.  Wallet extensions,
IPFS, cryptography and user interfaces are external.

Whole files: SBTService, whose providers are stubs that return constants, so that
its cache can neither fail nor go stale; MetadataService, which nothing uses;
configuration and error classes, which are tables and constructors; mocks;
scripts; UUIDProvider and `did/verification.ts`, which build documents and keep
nothing.

A large part of the repository's lines are the copy of the library under
`examples/react-boilerplate/src/keypass` and the examples' user interfaces.  The
models are of the library itself; the copy differs from it in places and is not
mapped.  Most other unmapped lines are types, argument checks, logging, error
texts and read-only queries.

## 8. What could follow

1. `monitorTransaction` of KILTTransactionService beside the poll of a wait, and
   the health state of BlockchainMonitor.
2. A safety half of the liveness properties: a measure that each continuation
   lowers, where there is one (`SignedSoFar` is part of one for KiltTx), so that only
   fairness is left to TLC.
3. `Submissions` for KILTDIDProvider and the minting services, which submit by
   other means.
