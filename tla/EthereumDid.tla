---------------------------- MODULE EthereumDid ----------------------------
(* EthereumDIDProvider: the did:key of an address and its resolution.  The  *)
(* bytes of the address are written in base64, and the characters '+', '/'  *)
(* and '=' are then removed, two of which are digits.  An address has       *)
(* `Octets` bytes here instead of 20; 2 leaves the same remainder by 3, so  *)
(* the last digit is cut in the same place.                                 *)
EXTENDS Subsequences

CONSTANTS
    Octets,         \* bytes of an address
    OctetValues     \* values its bytes may take

ASSUME OctetsAssumption == Octets \in Nat \ {0} /\ OctetValues \subseteq 0..255

VARIABLES
    edAddress,      \* the address a DID is created for
    edDid,          \* its DID, as the digits after "did:key:z"
    edResolved      \* the address and the document it resolves to

edVars == <<edAddress, edDid, edResolved>>

EdAddresses == [1..Octets -> OctetValues]
NotYet == [address |-> <<>>, document |-> [status |-> "none"]]
ErrorFormat == [status |-> "Invalid DID format"]

(* Buffer.toString('base64') without padding, and Buffer.from: four digits  *)
(* of 6 bits hold three bytes, missing bits are 0, and bits of no whole     *)
(* byte are lost.                                                           *)
Base64Length(bytes) == (bytes * 8 + 5) \div 6
Octet(bytes, i) == IF i <= Len(bytes) THEN bytes[i] ELSE 0
Digit(bytes, first, place) ==
    CASE place = 0 -> Octet(bytes, first) \div 4
      [] place = 1 -> (Octet(bytes, first) % 4) * 16 + (Octet(bytes, first + 1) \div 16)
      [] place = 2 -> (Octet(bytes, first + 1) % 16) * 4 + (Octet(bytes, first + 2) \div 64)
      [] place = 3 -> Octet(bytes, first + 2) % 64
Base64(bytes) ==
    [j \in 1..Base64Length(Len(bytes)) |-> Digit(bytes, 3 * ((j - 1) \div 4) + 1, (j - 1) % 4)]

BytesIn(digits) == (digits * 6) \div 8
Byte(digits, first, place) ==
    CASE place = 0 -> digits[first] * 4 + (digits[first + 1] \div 16)
      [] place = 1 -> (digits[first + 1] % 16) * 16 + (digits[first + 2] \div 4)
      [] place = 2 -> (digits[first + 2] % 4) * 64 + digits[first + 3]
FromBase64(digits) ==
    [i \in 1..BytesIn(Len(digits)) |-> Byte(digits, 4 * ((i - 1) \div 3) + 1, (i - 1) % 3)]

(* '+' is 62 and '/' is 63.                                                *)
Letters(digits) == {i \in DOMAIN digits : digits[i] \notin {62, 63}}
Cleaned(digits) == Subsequence(digits, Letters(digits))

createDid(address) == Cleaned(Base64(address))

createDIDDocument(address) ==
    LET did == createDid(address)
    IN  [status |-> "document", id |-> did, controller |-> did,
         publicKeyMultibase |-> createDid(address)]

\* Mutant: the length of an address is not checked.
isNonEmptyAddress(bytes) == bytes # <<>>
isValidEthereumAddress(bytes) == Len(bytes) = Octets

extractAddress(did) ==
    LET address == FromBase64(did)
    IN  IF isValidEthereumAddress(address) THEN address ELSE <<>>

resolve(did) ==
    LET address == extractAddress(did)
    IN  IF address = <<>> THEN ErrorFormat ELSE createDIDDocument(address)

EdInit == edAddress \in EdAddresses /\ edDid = <<>> /\ edResolved = NotYet

CreateDid ==
    /\ edDid = <<>> /\ edResolved = NotYet
    /\ edDid' = createDid(edAddress)
    /\ UNCHANGED <<edAddress, edResolved>>

Resolve ==
    /\ edDid # <<>> /\ edResolved = NotYet
    /\ edResolved' = [address |-> extractAddress(edDid), document |-> resolve(edDid)]
    /\ UNCHANGED <<edAddress, edDid>>

EdNext == CreateDid \/ Resolve
EdSpec == EdInit /\ [][EdNext]_edVars
-----------------------------------------------------------------------------
(* The address a DID resolves to is the one it was made for, or none: what *)
(* was lost in it is noticed by the length.                                *)
NeverAnotherAddress == edResolved.address \in {edAddress, <<>>}

(* EthereumDIDProvider.test.ts:106: a DID that was created resolves to its *)
(* document.                                                               *)
CreatedDidResolves ==
    edResolved # NotYet => edResolved.document = createDIDDocument(edAddress)
=============================================================================
