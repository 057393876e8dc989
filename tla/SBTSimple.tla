------------------------------ MODULE SBTSimple -----------------------------
(***************************************************************************)
(* SBTSimple.sol: the soulbound token contract.  A transaction runs alone  *)
(* and either takes effect as a whole or reverts; a call that reverts      *)
(* leaves the state as it was and is not a step, except for a transfer,    *)
(* whose revert is the point of the contract.  Recipients are accounts     *)
(* without code, so minting calls nobody back.                             *)
(***************************************************************************)
EXTENDS Integers, FiniteSets

CONSTANTS Accounts,  \* addresses other than zero and the contract's own
          Deployer,  \* the account that deploys the contract
          MaxTokens, \* bound: tokens ever minted
          MaxBatch,  \* the largest batch of batchMint (100 in the contract)
          Limits,    \* the supply limits the owner sets
          None       \* the zero address

ASSUME SBTAssumption ==
    /\ Deployer \in Accounts
    /\ None \notin Accounts
    /\ MaxTokens \in Nat /\ MaxBatch \in Nat \ {0}
    /\ Limits \subseteq Nat

VARIABLES tokenIdCounter, \* _tokenIdCounter
          tokenOwner,     \* the owner of each token, None when it does not exist
          tokenURIs,      \* tokens with a URI of their own
          revokedTokens,  \* _revokedTokens
          minters,        \* _minters
          burners,        \* _burners
          owner,          \* owner() of Ownable
          maxSupply       \* maxSupply, 0 for no limit

sbtVars == <<tokenIdCounter, tokenOwner, tokenURIs, revokedTokens, minters, burners,
             owner, maxSupply>>

Tokens == 1..MaxTokens

SBTTypeOK ==
    /\ tokenIdCounter \in 0..MaxTokens
    /\ tokenOwner \in [Tokens -> Accounts \cup {None}]
    /\ tokenURIs \subseteq Tokens
    /\ revokedTokens \subseteq Tokens
    /\ minters \subseteq Accounts
    /\ burners \subseteq Accounts
    /\ owner \in Accounts \cup {None}
    /\ maxSupply \in Nat

SBTInit ==
    /\ tokenIdCounter = 0
    /\ tokenOwner = [t \in Tokens |-> None]
    /\ tokenURIs = {} /\ revokedTokens = {}
    /\ minters = {Deployer} /\ burners = {Deployer}
    /\ owner = Deployer
    /\ maxSupply = 0

Exists(t) == t \in Tokens /\ tokenOwner[t] # None
totalSupply == tokenIdCounter
IsMinter(s) == s \in minters \/ s = owner
IsBurner(s) == s \in burners \/ s = owner
IsOwner(s) == s = owner

\* n more tokens respect the limit.
WithinSupply(n) == maxSupply > 0 => totalSupply + n <= maxSupply

---------------------------------------------------------------------------
(* Minting and burning.  s is msg.sender.                                  *)

\* The tokens of one call get the next n numbers; the call's URIs, if it has
\* any, go with them.
MintTokens(to, n, withURI) ==
    LET new == (tokenIdCounter + 1)..(tokenIdCounter + n)
    IN  /\ tokenIdCounter + n <= MaxTokens
        /\ tokenIdCounter' = tokenIdCounter + n
        /\ tokenOwner' = [t \in Tokens |-> IF t \in new THEN to ELSE tokenOwner[t]]
        /\ tokenURIs' = IF withURI THEN tokenURIs \cup new ELSE tokenURIs
        /\ UNCHANGED <<revokedTokens, minters, burners, owner, maxSupply>>

mint(s, to) == IsMinter(s) /\ WithinSupply(1) /\ MintTokens(to, 1, TRUE)

safeMint(s, to) == IsMinter(s) /\ WithinSupply(1) /\ MintTokens(to, 1, FALSE)

batchMint(s, to, n) == IsMinter(s) /\ WithinSupply(n) /\ MintTokens(to, n, TRUE)

burn(s, t) ==
    /\ Exists(t)
    /\ s = tokenOwner[t] \/ IsBurner(s)
    /\ tokenOwner' = [tokenOwner EXCEPT ![t] = None]
    /\ tokenURIs' = tokenURIs \ {t}
    /\ revokedTokens' = revokedTokens \ {t}
    /\ UNCHANGED <<tokenIdCounter, minters, burners, owner, maxSupply>>

\* Mutant: the wrong comparison, which every transfer passes.
BeforeTokenTransferOpen(from, to) == from # None \/ to # None

\* The hook of the contract: only minting and burning move a token.
BeforeTokenTransfer(from, to) == from = None \/ to = None

\* transferFrom by the owner of a token (or an account it approved).
transferFrom(t, to) ==
    /\ Exists(t)
    /\ tokenOwner' = IF BeforeTokenTransfer(tokenOwner[t], to)
                     THEN [tokenOwner EXCEPT ![t] = to]
                     ELSE tokenOwner
    /\ UNCHANGED <<tokenIdCounter, tokenURIs, revokedTokens, minters, burners, owner, maxSupply>>

---------------------------------------------------------------------------
(* The owner's calls.                                                      *)

revoke(s, t) ==
    /\ IsOwner(s) /\ Exists(t) /\ t \notin revokedTokens
    /\ revokedTokens' = revokedTokens \cup {t}
    /\ UNCHANGED <<tokenIdCounter, tokenOwner, tokenURIs, minters, burners, owner, maxSupply>>

unrevoke(s, t) ==
    /\ IsOwner(s) /\ Exists(t) /\ t \in revokedTokens
    /\ revokedTokens' = revokedTokens \ {t}
    /\ UNCHANGED <<tokenIdCounter, tokenOwner, tokenURIs, minters, burners, owner, maxSupply>>

SetMinters(M) ==
    /\ minters' = M
    /\ UNCHANGED <<tokenIdCounter, tokenOwner, tokenURIs, revokedTokens, burners, owner, maxSupply>>

SetBurners(B) ==
    /\ burners' = B
    /\ UNCHANGED <<tokenIdCounter, tokenOwner, tokenURIs, revokedTokens, minters, owner, maxSupply>>

addMinter(s, a) == IsOwner(s) /\ a \notin minters /\ SetMinters(minters \cup {a})
removeMinter(s, a) == IsOwner(s) /\ a \in minters /\ a # owner /\ SetMinters(minters \ {a})
addBurner(s, a) == IsOwner(s) /\ a \notin burners /\ SetBurners(burners \cup {a})
removeBurner(s, a) == IsOwner(s) /\ a \in burners /\ a # owner /\ SetBurners(burners \ {a})

\* Mutant: the new limit is not compared with the supply.
setMaxSupplyUnchecked(s, n) ==
    /\ IsOwner(s)
    /\ maxSupply' = n
    /\ UNCHANGED <<tokenIdCounter, tokenOwner, tokenURIs, revokedTokens, minters, burners, owner>>

\* Mutant: what is stored is how many more may be minted.
setMaxSupplyLeft(s, n) ==
    /\ IsOwner(s)
    /\ n = 0 \/ n >= totalSupply
    /\ maxSupply' = n - totalSupply
    /\ UNCHANGED <<tokenIdCounter, tokenOwner, tokenURIs, revokedTokens, minters, burners, owner>>

setMaxSupply(s, n) ==
    /\ IsOwner(s)
    /\ n = 0 \/ n >= totalSupply
    /\ maxSupply' = n
    /\ UNCHANGED <<tokenIdCounter, tokenOwner, tokenURIs, revokedTokens, minters, burners, owner>>

\* transferOwnership and renounceOwnership of Ownable.
transferOwnership(s, a) ==
    /\ IsOwner(s)
    /\ owner' = a
    /\ UNCHANGED <<tokenIdCounter, tokenOwner, tokenURIs, revokedTokens, minters, burners, maxSupply>>

---------------------------------------------------------------------------

TokenCall(s) ==
    \/ \E to \in Accounts : mint(s, to) \/ safeMint(s, to)
    \/ \E to \in Accounts, n \in 1..MaxBatch : batchMint(s, to, n)
    \/ \E t \in Tokens : burn(s, t) \/ revoke(s, t) \/ unrevoke(s, t)

RoleCall(s) ==
    \/ \E a \in Accounts : addMinter(s, a) \/ removeMinter(s, a)
                               \/ addBurner(s, a) \/ removeBurner(s, a)
    \/ \E n \in Limits : setMaxSupply(s, n)
    \/ \E a \in Accounts \cup {None} : transferOwnership(s, a)

SBTNext ==
    \/ \E s \in Accounts : TokenCall(s) \/ RoleCall(s)
    \/ \E t \in Tokens, to \in Accounts : transferFrom(t, to)

SBTSpec == SBTInit /\ [][SBTNext]_sbtVars

---------------------------------------------------------------------------
(* Properties.                                                             *)

\* The limit on the supply holds however the owner changes it between mints,
\* batches and burns (a burned token still counts).
SupplyCap == maxSupply > 0 => tokenIdCounter <= maxSupply

\* Nothing is left of a token that does not exist, so a revoked mark or a URI
\* never speaks about a burned one; and only numbers given out exist.
NothingLeftOfBurned ==
    \A t \in Tokens :
        /\ tokenOwner[t] = None => t \notin revokedTokens /\ t \notin tokenURIs
        /\ tokenOwner[t] # None => t <= tokenIdCounter

\* What any sequence of mints, batches, burns, revocations and changes of the
\* limit keeps: the supply and the marks on the tokens.
TokensKept == SupplyCap /\ NothingLeftOfBurned

\* Soulbound: a token stays with its first owner until it is burned, and a
\* burned one never comes back.
Soulbound ==
    [][\A t \in Tokens :
        /\ tokenOwner[t] # None => tokenOwner'[t] \in {tokenOwner[t], None}
        /\ (t <= tokenIdCounter /\ tokenOwner[t] = None) => tokenOwner'[t] = None]_sbtVars
=============================================================================
