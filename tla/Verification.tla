---------------------------- MODULE Verification ----------------------------
(* POST /api/verify: the server, UnifiedVerificationService and the two     *)
(* services it routes to.  Each is a chain of checks whose first failure    *)
(* names the error.  A message is a sequence of lines, a line is its kind:  *)
(*   "title" (KeyPass Login), "titleMore" (text after it), "issued",        *)
(*   "issuedBad" (no date), "nonce", "nonceEmpty", "addr" (the address of   *)
(*   the request), "addrCase" (equal but for letter case), "addrOther",     *)
(*   "blank", "other".  "titleIndented" has blanks before it.               *)
EXTENDS Subsequences, SequencesExt

CONSTANTS
    Requests,       \* requests the server may receive
    MaxAge,         \* MAX_MESSAGE_AGE_MS, in seconds
    Skew            \* the minute a message may be in the future

LineKinds == {"title", "titleMore", "titleIndented", "issued", "issuedBad", "nonce",
              "nonceEmpty", "addr", "addrCase", "addrOther", "blank", "other"}

ASSUME VerificationAssumption ==
    /\ MaxAge \in Nat /\ Skew \in Nat
    /\ Requests \subseteq [body : {"json", "notJson", "tooLarge", "missing"},
                           message : Seq(LineKinds), long : BOOLEAN, age : Int,
                           chain : STRING, address : STRING, signature : STRING,
                           signer : STRING]

VARIABLES vReq, vRes
vVars == <<vReq, vRes>>

Codes == {"SUCCESS", "INVALID_JSON", "INVALID_REQUEST", "UNSUPPORTED_CHAIN_TYPE",
          "UNKNOWN_ADDRESS_FORMAT", "INVALID_ADDRESS", "MESSAGE_TOO_LONG",
          "INVALID_MESSAGE_FORMAT", "MESSAGE_EXPIRED", "MESSAGE_FUTURE",
          "INVALID_SIGNATURE_FORMAT", "INVALID_SIGNATURE_LENGTH", "VERIFICATION_FAILED"}

(* A chain of checks: the code of the first that fails.                    *)
Check(holds, code) == [holds |-> holds, code |-> code]
Checks == [holds : BOOLEAN, code : Codes]
FirstFailure[checks \in Seq(Checks)] ==
    LET failing == {i \in DOMAIN checks : ~checks[i].holds}
    IN  IF failing = {} THEN "SUCCESS" ELSE checks[Min(failing)].code

Issued == {"issued", "issuedBad"}
Nonces == {"nonce", "nonceEmpty"}
Addresses == {"addr", "addrCase", "addrOther"}
Titles == {"title", "titleMore"}

HasLine(lines, kinds) == \E i \in DOMAIN lines : lines[i] \in kinds
FirstOf(lines, kinds) ==
    LET found == {i \in DOMAIN lines : lines[i] \in kinds}
    IN  IF found = {} THEN "none" ELSE lines[Min(found)]

(* Lines are trimmed, and empty ones dropped.                              *)
Trimmed(lines) == [i \in DOMAIN lines |->
    IF lines[i] = "titleIndented" THEN "title" ELSE lines[i]]
Kept(message) == {i \in DOMAIN message : message[i] # "blank"}
Normalised(message) == Subsequence(Trimmed(message), Kept(message))

(* The first line the loop over the lines rejects, if any.                 *)
BadLine(lines) == FirstOf(lines, {"issuedBad", "nonceEmpty", "addrCase", "addrOther"})

(* Mutant: lines beyond the fourth are not looked at.                      *)
MessageFormatLonger(message) ==
    LET lines == Normalised(message)
    IN  FirstFailure[<<
            Check(message # <<>> /\ message[1] \in Titles /\ Len(lines) >= 4,
                  "INVALID_MESSAGE_FORMAT"),
            Check(BadLine(lines) = "none", "VERIFICATION_FAILED"),
            Check(/\ Len(lines) > 3 /\ lines[1] = "title" /\ lines[2] \in Issued
                  /\ lines[3] \in Nonces /\ lines[4] \in Addresses,
                  "INVALID_MESSAGE_FORMAT")>>]

MessageFormat(message) ==
    LET lines == Normalised(message)
        bad == BadLine(lines)
    IN  FirstFailure[<<
            Check(message # <<>> /\ message[1] \in Titles, "INVALID_MESSAGE_FORMAT"),
            Check(HasLine(lines, Issued) /\ HasLine(lines, Nonces)
                  /\ HasLine(lines, Addresses), "INVALID_MESSAGE_FORMAT"),
            Check(bad \notin Addresses, "VERIFICATION_FAILED"),
            Check(bad = "none", "INVALID_MESSAGE_FORMAT"),
            Check(Len(lines) = 4, "INVALID_MESSAGE_FORMAT"),
            Check(/\ lines # <<>> /\ lines[1] = "title"
                  /\ Len(lines) > 1 => lines[2] \in Issued
                  /\ Len(lines) > 2 => lines[3] \in Nonces
                  /\ Len(lines) > 3 => lines[4] \in Addresses, "INVALID_MESSAGE_FORMAT")>>]

(* Mutant: a message of exactly the maximal age is refused.                *)
MessageTimestampStrict(message, age) ==
    FirstFailure[<<
        Check(FirstOf(message, Issued) = "issued", "INVALID_MESSAGE_FORMAT"),
        Check(age < MaxAge, "MESSAGE_EXPIRED"),
        Check(-age <= Skew, "MESSAGE_FUTURE")>>]

(* The first "Issued At:" line is read; the age is in seconds, negative    *)
(* for a date in the future.                                               *)
MessageTimestamp(message, age) ==
    FirstFailure[<<
        Check(FirstOf(message, Issued) = "issued", "INVALID_MESSAGE_FORMAT"),
        Check(age <= MaxAge, "MESSAGE_EXPIRED"),
        Check(-age <= Skew, "MESSAGE_FUTURE")>>]

Passes(code) == code = "SUCCESS"

(* hexadecimal of 64 or 128 digits after 0x; only 128 can verify.          *)
SignatureFormat(sig) ==
    FirstFailure[<<
        Check(sig \notin {"noPrefix", "blank"}, "INVALID_SIGNATURE_FORMAT"),
        Check(sig \in {"hex128", "hex64", "notHex"}, "INVALID_SIGNATURE_LENGTH"),
        Check(sig # "notHex", "INVALID_SIGNATURE_FORMAT")>>]

(* verifySignatureWithBothAlgorithms hands the text of the address, byte by  *)
(* byte, to sr25519Verify and ed25519Verify as the public key.  They throw  *)
(* unless a key has 32 bytes and a signature 64, which is caught and counts *)
(* as false.  (What signRaw signs is the message between <Bytes> and        *)
(* </Bytes>, which would not verify under the decoded key either.)          *)
PublicKeyBytes == 32
AddressBytes(address) == CASE address = "ss58" -> 48   \* 47 for some prefixes
                           [] address = "evm" -> 42
                           [] OTHER -> 0
VerifiesWithBoth(r) ==
    /\ AddressBytes(r.address) = PublicKeyBytes
    /\ r.signature = "hex128" /\ r.signer \in {"sr25519", "ed25519"}

PolkadotVerify(r) ==
    LET format == MessageFormat(r.message)
        stamp == MessageTimestamp(r.message, r.age)
        signature == SignatureFormat(r.signature)
    IN  FirstFailure[<<
            Check(r.message # <<>>, "INVALID_REQUEST"),
            Check(Normalised(r.message) # <<>>, "INVALID_MESSAGE_FORMAT"),
            Check(~r.long, "MESSAGE_TOO_LONG"),
            Check(Passes(format), format),
            Check(Passes(stamp), stamp),
            Check(r.address = "ss58", "INVALID_ADDRESS"),
            Check(Passes(signature), signature),
            Check(VerifiesWithBoth(r), "VERIFICATION_FAILED")>>]

EthereumFormat(message) ==
    /\ HasLine(message, Issued) /\ HasLine(message, Nonces) /\ HasLine(message, Addresses)
    /\ FirstOf(message, Addresses) \in {"addr", "addrCase"}

EthereumVerify(r) ==
    LET stamp == MessageTimestamp(r.message, r.age)
    IN  FirstFailure[<<
            Check(Normalised(r.message) # <<>> /\ r.signature # "blank"
                  /\ r.address # "blank", "INVALID_REQUEST"),
            Check(~r.long, "MESSAGE_TOO_LONG"),
            Check(r.address = "evm", "INVALID_ADDRESS"),
            Check(r.signature = "hex130", "INVALID_SIGNATURE_FORMAT"),
            Check(EthereumFormat(r.message), "INVALID_MESSAGE_FORMAT"),
            Check(Passes(stamp), stamp),
            Check(r.signer = "secp256k1", "VERIFICATION_FAILED")>>]

(* 47 or 48 base58 characters pass for a Polkadot address, whatever their  *)
(* checksum.                                                               *)
DetectChainType(address) ==
    CASE address = "evm" -> "ethereum"
      [] address \in {"ss58", "ss58Bad"} -> "polkadot"
      [] OTHER -> "unknown"

Unified(r) ==
    LET chain == IF r.chain = "none" THEN DetectChainType(r.address) ELSE r.chain
        routed == IF chain = "polkadot" THEN PolkadotVerify(r) ELSE EthereumVerify(r)
    IN  FirstFailure[<<
            Check(Normalised(r.message) # <<>> /\ r.signature # "blank"
                  /\ r.address # "blank", "INVALID_REQUEST"),
            Check(r.chain \in {"none", "polkadot", "ethereum"}, "UNSUPPORTED_CHAIN_TYPE"),
            Check(chain # "unknown", "UNKNOWN_ADDRESS_FORMAT"),
            Check(Passes(routed), routed)>>]

(* The server: the body parser's errors, then the service's answer.        *)
Respond(r) ==
    LET code == FirstFailure[<<
            Check(r.body # "notJson", "INVALID_JSON"),
            Check(r.body # "tooLarge", "VERIFICATION_FAILED"),
            Check(r.body # "missing", "INVALID_REQUEST"),
            Check(Passes(Unified(r)), Unified(r))>>]
    IN  [status |-> IF Passes(code) THEN 200 ELSE 400, code |-> code]

NoResponse == [status |-> 0, code |-> "none"]

VInit == vReq \in Requests /\ vRes = NoResponse
Verify == vRes = NoResponse /\ vRes' = Respond(vReq) /\ UNCHANGED vReq
VNext == Verify
VSpec == VInit /\ [][VNext]_vVars
-----------------------------------------------------------------------------
Answered200 == vRes.status = 200
Fresh(age) == age \in (-Skew)..MaxAge

(* What a Polkadot login message is: the four lines of the template in     *)
(* their order, blank lines aside, the first not indented.                 *)
IsLoginMessage(m) ==
    m # <<>> /\ m[1] = "title" /\ Normalised(m) = <<"title", "issued", "nonce", "addr">>

(* The checks before the signature let through exactly the fresh login      *)
(* messages of an SS58 address: any other message is answered with the      *)
(* error of the check it fails, never with the result of the signature's    *)
(* verification (a message that names another address has the same code).   *)
PolkadotReachesSignature ==
    vReq.address = "ss58" /\ vReq.body = "json" /\ vReq.chain \in {"none", "polkadot"}
    /\ vReq.signature \in {"hex128", "hex64"} /\ vRes # NoResponse
    /\ BadLine(Normalised(vReq.message)) \notin Addresses =>
        (vRes.code \in {"SUCCESS", "VERIFICATION_FAILED"} <=>
            IsLoginMessage(vReq.message) /\ ~vReq.long /\ Fresh(vReq.age))

(* For an Ethereum address every fresh login message signed by it is        *)
(* accepted, and what is accepted is signed, is fresh and names the address *)
(* that signed it, though lines may be added, repeated or moved.            *)
EthereumAccepts ==
    vReq.address = "evm" /\ vRes # NoResponse =>
        LET signed == /\ vReq.body = "json" /\ vReq.chain \in {"none", "ethereum"}
                      /\ vReq.signature = "hex130" /\ vReq.signer = "secp256k1"
        IN  /\ signed /\ IsLoginMessage(vReq.message) /\ ~vReq.long /\ Fresh(vReq.age)
                => Answered200
            /\ Answered200 =>
                /\ signed /\ Fresh(vReq.age)
                /\ \E i \in DOMAIN vReq.message :
                      /\ vReq.message[i] \in {"addr", "addrCase"}
                      /\ \A j \in 1..(i - 1) : vReq.message[j] # "addrOther"

(* What the chains of checks let through, as far as the signature for       *)
(* Polkadot and to the end for Ethereum.                                    *)
AnswersAsSpecified == PolkadotReachesSignature /\ EthereumAccepts
=============================================================================
