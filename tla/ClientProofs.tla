----------------------------- MODULE ClientProofs -----------------------------
(***************************************************************************)
(* What keeps a user's login in his own hands, for any wallets, accounts,  *)
(* calls and requests: no timeout cuts a connection it did not belong to,  *)
(* a login is signed by the account it names, and the server accepts what  *)
(* it should and nothing else, whatever lines a message has.  Then the     *)
(* provider's own submission beside the node, and all parts side by side.  *)
(***************************************************************************)
EXTENDS MCClients, KiltConnectionProofs, KiltDidProofs, MoonbeamDIDProofs, SequenceTheorems,
        NaturalsInduction, TLAPS

\* Min names it.
LEMMA MinIsLeast ==
    ASSUME NEW S \in SUBSET Nat, S # {}
    PROVE  Min(S) \in S /\ \A j \in S : Min(S) <= j
BY LeastOf DEF Min

-----------------------------------------------------------------------------
(* Subsequences.                                                           *)

\* The places of the elements that are kept are those of the result, each of
\* them once, and in their order.
LEMMA PlacesOf ==
    ASSUME NEW n \in Nat, NEW kept \in SUBSET (1..n)
    PROVE  /\ \A i \in kept : Place(i, kept) \in 1..Cardinality(kept)
           /\ \A i, j \in kept : i < j => Place(i, kept) < Place(j, kept)
           /\ \A k \in 1..Cardinality(kept) : \E i \in kept : Place(i, kept) = k
<1> DEFINE upTo(i) == {j \in kept : j <= i}
<1>1. IsFiniteSet(kept) /\ Cardinality(kept) \in Nat
  <2>1. IsFiniteSet(1..n)
    BY FS_Interval
  <2>2. IsFiniteSet(kept)
    BY <2>1, FS_Subset
  <2> QED BY <2>2, FS_CardinalityType
<1>2. ASSUME NEW i \in kept
      PROVE  Place(i, kept) \in 1..Cardinality(kept) /\ IsFiniteSet(upTo(i))
  <2>1. upTo(i) \in SUBSET kept /\ upTo(i) # {}
    OBVIOUS
  <2>2. IsFiniteSet(upTo(i)) /\ Cardinality(upTo(i)) <= Cardinality(kept)
    BY <1>1, <2>1, FS_Subset
  <2>3. Cardinality(upTo(i)) \in Nat /\ Cardinality(upTo(i)) # 0
    BY <2>1, <2>2, FS_CardinalityType, FS_EmptySet
  <2> QED BY <1>1, <2>2, <2>3 DEF Place
<1>3. ASSUME NEW i \in kept, NEW j \in kept, i < j
      PROVE  Place(i, kept) < Place(j, kept)
  <2>1. upTo(i) \in SUBSET upTo(j) /\ upTo(i) # upTo(j)
    <3>1. i \in Int /\ j \in Int /\ kept \subseteq Int
      OBVIOUS
    <3>2. \A k \in kept : k <= i => k <= j
      BY <1>3, <3>1
    <3>3. j \in upTo(j) /\ j \notin upTo(i)
      BY <1>3, <3>1
    <3> QED BY <3>2, <3>3
  <2>2. IsFiniteSet(upTo(j)) /\ Cardinality(upTo(i)) \in Nat /\ Cardinality(upTo(j)) \in Nat
    BY <1>2, FS_CardinalityType
  <2>3. Cardinality(upTo(i)) <= Cardinality(upTo(j))
        /\ Cardinality(upTo(i)) # Cardinality(upTo(j))
    BY <2>1, <2>2, FS_Subset
  <2> QED BY <2>2, <2>3 DEF Place
<1>4. \A k \in 1..Cardinality(kept) : \E i \in kept : Place(i, kept) = k
  <2> DEFINE T == 1..Cardinality(kept)
             f == [i \in kept |-> Place(i, kept)]
  <2>1. f \in [kept -> T]
    BY <1>2
  <2>2. \A i, j \in kept : i # j => f[i] # f[j]
    <3>1. SUFFICES ASSUME NEW i \in kept, NEW j \in kept, i # j PROVE f[i] # f[j]
      OBVIOUS
    <3>2. f[i] \in Int /\ f[j] \in Int
      BY <1>1, <2>1
    <3>3. i < j \/ j < i
      BY <3>1
    <3> QED BY <1>3, <3>2, <3>3
  <2>3. f \in Injection(kept, T)
    BY <2>1, <2>2 DEF Injection, IsInjective
  <2>4. IsFiniteSet(T) /\ Cardinality(T) = Cardinality(kept)
    BY <1>1, FS_Interval
  <2>5. f \in Surjection(kept, T)
    BY <2>3, <2>4, FS_Injection
  <2> QED BY <2>5 DEF Surjection
<1> QED BY <1>2, <1>3, <1>4

\* A kept element goes to its place, and every place has its element.
LEMMA SubsequenceOf ==
    ASSUME NEW T, NEW s \in Seq(T), NEW kept \in SUBSET DOMAIN s
    PROVE  /\ Subsequence(s, kept) \in Seq(T) /\ Len(Subsequence(s, kept)) = Cardinality(kept)
           /\ \A i \in kept : Subsequence(s, kept)[Place(i, kept)] = s[i]
           /\ \A k \in 1..Cardinality(kept) :
                 \E i \in kept : Place(i, kept) = k /\ Subsequence(s, kept)[k] = s[i]
<1> DEFINE size == Cardinality(kept)
           lines == Subsequence(s, kept)
           source(k) == CHOOSE i \in kept : Place(i, kept) = k
<1>1. lines = [k \in 1..size |-> s[source(k)]]
  BY DEF Subsequence
<1>2. Len(s) \in Nat /\ kept \in SUBSET (1..Len(s)) /\ size \in Nat
  <2>1. Len(s) \in Nat /\ kept \in SUBSET (1..Len(s))
    BY LenProperties
  <2>2. IsFiniteSet(1..Len(s))
    BY <2>1, FS_Interval
  <2>3. IsFiniteSet(kept)
    BY <2>1, <2>2, FS_Subset
  <2> QED BY <2>1, <2>3, FS_CardinalityType
<1> HIDE DEF lines
<1>3. \A i \in kept : Place(i, kept) \in 1..size
  BY <1>2, PlacesOf
<1>4. \A i, j \in kept : Place(i, kept) = Place(j, kept) => i = j
  <2>1. SUFFICES ASSUME NEW i \in kept, NEW j \in kept, Place(i, kept) = Place(j, kept)
                 PROVE  i = j
    OBVIOUS
  <2>2. Place(i, kept) \in Int /\ Place(j, kept) \in Int
    BY <1>2, <1>3
  <2>3. i < j => Place(i, kept) < Place(j, kept)
    BY <1>2, PlacesOf
  <2>4. j < i => Place(j, kept) < Place(i, kept)
    BY <1>2, PlacesOf
  <2>5. i \in Int /\ j \in Int
    BY <1>2
  <2> QED BY <2>1, <2>2, <2>3, <2>4, <2>5
<1>5. \A k \in 1..size : source(k) \in kept /\ Place(source(k), kept) = k
  BY <1>2, PlacesOf
<1>6. \A k \in 1..size : lines[k] = s[source(k)]
  BY <1>1
<1>7. lines \in [1..size -> T]
  BY <1>1, <1>2, <1>5, ElementOfSeq
<1>8. lines \in Seq(T) /\ Len(lines) = size
  BY <1>2, <1>7
<1>9. \A i \in kept : lines[Place(i, kept)] = s[i]
  BY <1>3, <1>4, <1>5, <1>6
<1>10. \A k \in 1..size : \E i \in kept : Place(i, kept) = k /\ lines[k] = s[i]
  BY <1>5, <1>6
<1> QED BY <1>8, <1>9, <1>10 DEF lines

-----------------------------------------------------------------------------
(* The extension wallets.                                                  *)

\* A call that waits for the user has asked an extension that exists.
WaitingAsksOne == \A e \in Enables : injEn[e] = "waiting" => injWants[e] \in Names

InjInv == InjTypeOK /\ ConnectionUncut /\ WaitingAsksOne

\* An installed extension is found.
LEMMA PreferredIsInstalled ==
    ASSUME NEW installed \in SUBSET Names, installed # {}
    PROVE  Preferred(installed) \in installed
<1> DEFINE found == {i \in 1..Len(Extensions) : Extensions[i] \in installed}
<1>1. Len(Extensions) \in Nat
  BY InjAssumption, LenProperties
<1>2. found \in SUBSET Nat /\ found # {}
  BY <1>1 DEF Names
<1>3. PICK i \in found : \A j \in found : i <= j
  BY <1>2, LeastOf
<1>4. \A j \in 1..(i - 1) : Extensions[j] \notin installed
  BY <1>1, <1>3
<1>5. \E k \in 1..Len(Extensions) :
         Extensions[k] \in installed /\ \A j \in 1..(k - 1) : Extensions[j] \notin installed
  BY <1>3, <1>4
<1> QED BY <1>5 DEF Preferred

\* The adapter starts disconnected, with no call and no timer.
LEMMA InjInitInv == InjInit => InjInv
BY InjAssumption DEF InjInit, InjInv, InjTypeOK, ConnectionUncut, WaitingAsksOne

\* A step of enable leaves no timer behind.
LEMMA EnableInv ==
    ASSUME InjInv, EnableStep
    PROVE  InjInv'
<1> USE InjAssumption DEF InjInv, InjTypeOK, ConnectionUncut, WaitingAsksOne, EnableEndsWith,
        ClearTimer, Reset, Asks, IsAnswered, injAsked, injSigns
<1>1. PICK e \in Enables : EnableAtOnce(e) \/ NotInstalled(e) \/ Prompt(e)
                            \/ Approve(e) \/ Reject(e) \/ LateAnswer(e) \/ TimerFires(e)
  BY DEF EnableStep
<1>2. UNCHANGED <<injInstalled, injOut, injSigns>>
  BY DEF EnableStep
<1>3. CASE EnableAtOnce(e)
  BY <1>2, <1>3 DEF EnableAtOnce, injState
<1>4. CASE NotInstalled(e)
  BY <1>2, <1>4 DEF NotInstalled
<1>5. CASE Prompt(e)
  <2>1. Preferred(injInstalled) \in Names
    BY <1>5, PreferredIsInstalled DEF Prompt
  <2> QED BY <1>2, <1>5, <2>1 DEF Prompt
<1>6. CASE Approve(e)
  BY <1>2, <1>6 DEF Approve
<1>7. CASE Reject(e)
  <2>1. PICK how \in {"rejected", "failed"} : injEn' = [injEn EXCEPT ![e] = how]
    BY <1>7 DEF Reject
  <2>2. /\ injTimer' = NoExt /\ injArmed' = injArmed \ {injTimer}
        /\ injEnabled' = FALSE /\ injProvider' = NoExt /\ UNCHANGED <<injWants, injLatest>>
        /\ injPrompts' \subseteq injPrompts
    BY <1>7 DEF Reject
  <2> QED BY <1>2, <2>1, <2>2
<1>8. CASE TimerFires(e)
  BY <1>2, <1>8 DEF TimerFires
<1>9. CASE LateAnswer(e)
  BY <1>2, <1>9 DEF LateAnswer, injState
<1> QED BY <1>1, <1>3, <1>4, <1>5, <1>6, <1>7, <1>8, <1>9

\* Nor does any other step.
LEMMA InjNextInv == InjInv /\ [InjNext]_injVars => InjInv'
<1> SUFFICES ASSUME InjInv, [InjNext]_injVars PROVE InjInv'
  OBVIOUS
<1> USE DEF InjInv, InjTypeOK, ConnectionUncut, WaitingAsksOne, Asks, IsAnswered, injAsked,
        injSigns, Reset, ClearTimer
<1>1. CASE EnableStep
  BY <1>1, EnableInv
<1>2. ASSUME NEW l \in Leaves, InjDisconnect(l) PROVE InjInv'
  <2>1. injOut' \in [Leaves -> {"idle", "revoking", "done"}]
    BY <1>2 DEF InjDisconnect
  <2>2. /\ injTimer' = NoExt /\ injArmed' = injArmed \ {injTimer}
        /\ injEnabled' = FALSE /\ injProvider' = NoExt
        /\ injPrompts' = injPrompts \cup {l} /\ injLatest' = l
        /\ UNCHANGED <<injInstalled, injEn, injWants, injSigns>>
    BY <1>2 DEF InjDisconnect
  <2>3. InjTypeOK'
    BY <2>1, <2>2
  <2>4. ConnectionUncut' /\ WaitingAsksOne'
    BY <2>2
  <2> QED BY <2>3, <2>4
<1>3. ASSUME NEW l \in Leaves, Revoked(l) \/ RevokeFails(l) PROVE InjInv'
  <2>1. injOut' \in [Leaves -> {"idle", "revoking", "done"}]
    BY <1>3 DEF Revoked, RevokeFails
  <2>2. /\ injEnabled' = FALSE \/ injEnabled' = injEnabled
        /\ injPrompts' \subseteq injPrompts
        /\ UNCHANGED <<injInstalled, injProvider, injTimer, injArmed, injEn, injWants,
                       injLatest, injSigns>>
    BY <1>3 DEF Revoked, RevokeFails, injState
  <2>3. InjTypeOK'
    BY <2>1, <2>2
  <2>4. ConnectionUncut' /\ WaitingAsksOne'
    BY <2>2
  <2> QED BY <2>3, <2>4
<1>4. ASSUME NEW s \in Signs, NEW from,
             NEW to \in SUBSET {"accounts", "injector", "signing", "signed", "rejected",
                                "invalid", "failed", "timeout", "notEnabled"},
             SignStep(s, from, to)
      PROVE  InjInv'
  BY <1>4 DEF SignStep, injState
<1>5. ASSUME NEW s \in Signs,
             \/ SignCalled(s) \/ Answered(s) \/ AccountsRead(s) \/ InjectorFound(s)
             \/ SignTimesOut(s)
      PROVE  InjInv'
  BY <1>4, <1>5 DEF SignCalled, Answered, AccountsRead, InjectorFound, SignTimesOut
<1>6. CASE ExtensionAppears
  BY <1>6 DEF ExtensionAppears, injState
<1>7. CASE UNCHANGED injVars
  BY <1>7 DEF injVars, injState
<1> QED BY <1>1, <1>2, <1>3, <1>5, <1>6, <1>7 DEF InjNext, DisconnectStep, SignProgress

\* However calls of enable overlap each other and disconnect, no timer of an old
\* call is left to cut a connection.
THEOREM ConnectionStaysUncut == InjSpec => []ConnectionUncut
<1>1. InjInv => ConnectionUncut
  BY DEF InjInv
<1> QED BY <1>1, InjInitInv, InjNextInv, PTL DEF InjSpec

-----------------------------------------------------------------------------
(* WalletConnect.                                                          *)

WcInv ==
    /\ wcArmed \subseteq WcCalls /\ DOMAIN wcEn = WcCalls
    /\ OneConnectTimer

\* Every step of WalletConnect keeps at most one timer, that of a call that connects.
LEMMA WcNextInv == WcInv /\ [WcNext]_wcVars => WcInv'
<1> SUFFICES ASSUME WcInv, [WcNext]_wcVars PROVE WcInv'
  OBVIOUS
<1> USE DEF WcInv, OneConnectTimer, WcEndsWith, WcClear, wcTimers, Free, Busy
<1>1. ASSUME NEW c \in WcCalls, UserEnables(c) \/ WcReconnect(c) PROVE WcInv'
  BY <1>1 DEF UserEnables, WcReconnect, WcBegin
<1>2. ASSUME NEW c \in WcCalls, Connected(c) \/ SessionStarts(c) PROVE WcInv'
  BY <1>2 DEF Connected, SessionStarts
<1>3. ASSUME NEW c \in WcCalls, NEW error, HandleConnectionError(c, error)
      PROVE  \E how : how # "connecting" /\ wcEn' = [wcEn EXCEPT ![c] = how]
  BY <1>3 DEF HandleConnectionError, Rethrown, Retried, GivenUp
<1>4. ASSUME NEW c \in WcCalls, EnableFails(c) PROVE WcInv'
  BY <1>3, <1>4 DEF EnableFails
<1>5. ASSUME NEW c \in WcCalls, WcTimerFires(c) PROVE WcInv'
  BY <1>3, <1>5 DEF WcTimerFires
<1>6. CASE SessionLost \/ Leave \/ Cleanup \/ LeaveFails \/ UNCHANGED wcVars
  BY <1>6 DEF SessionLost, Leave, Cleanup, LeaveFails, wcVars
<1> QED BY <1>1, <1>2, <1>4, <1>5, <1>6 DEF WcNext, WcProgress

\* At most one timer is scheduled, the field's, and its call still connects.
THEOREM OneTimerAtMost == WcSpec => []OneConnectTimer
<1>1. WcInit => WcInv
  BY DEF WcInit, WcInv, OneConnectTimer
<1>2. WcInv => OneConnectTimer
  BY DEF WcInv
<1> QED BY <1>1, <1>2, WcNextInv, PTL DEF WcSpec

\* Every variable of WalletConnect has its type: attempts stay within the limit.
THEOREM ReconnectsAreCounted == WcSpec => []WcTypeOK
<1> DEFINE Used == [calls : 0..MaxUserCalls, leaves : 0..MaxLeaves, losses : 0..MaxLosses]
<1>1. WcInit => WcTypeOK
  <2> SUFFICES ASSUME WcInit PROVE WcTypeOK
    OBVIOUS
  <2>1. wcUsed \in Used
    BY ReconnectsAssumption DEF WcInit
  <2>2. wcEn = [c \in WcCalls |-> "idle"]
    BY DEF WcInit
  <2>3. wcAttempts \in 0..MaxReconnects /\ wcScheduled \in Nat
    BY ReconnectsAssumption DEF WcInit
  <2>4. wcSession \in BOOLEAN
    BY DEF WcInit
  <2> QED BY <2>1, <2>2, <2>3, <2>4 DEF WcInit, WcTypeOK, Busy
<1>2. WcTypeOK /\ [WcNext]_wcVars => WcTypeOK'
  <2> SUFFICES ASSUME WcTypeOK, [WcNext]_wcVars PROVE WcTypeOK'
    OBVIOUS
  <2> USE ReconnectsAssumption
      DEF WcEndsWith, WcClear, wcTimers, Free, Busy
  <2>0. wcUsed \in Used
    BY DEF WcTypeOK
  <2>1. ASSUME NEW c \in WcCalls, UserEnables(c) \/ WcReconnect(c) PROVE WcTypeOK'
    <3>1. wcUsed' \in Used
      BY <2>0, <2>1 DEF UserEnables, WcReconnect, Count
    <3>2. /\ wcTimer' \in WcCalls \cup {NoCall} /\ wcArmed' \subseteq WcCalls
          /\ wcEn' \in [WcCalls -> Busy \cup {"idle", "ok", "timeout", "rejected", "notFound",
                                              "deferred", "failed"}]
      BY <2>1 DEF WcTypeOK, UserEnables, WcReconnect, WcBegin
    <3> QED BY <2>1, <3>1, <3>2 DEF WcTypeOK, UserEnables, WcReconnect
  <2>2. ASSUME NEW c \in WcCalls, Connected(c) \/ SessionStarts(c) PROVE WcTypeOK'
    <3>1. CASE Connected(c)
      BY <3>1 DEF WcTypeOK, Connected
    <3>2. CASE SessionStarts(c)
      <4>1. wcSession' \in BOOLEAN
        BY <3>2 DEF SessionStarts
      <4>2. wcAttempts' \in 0..MaxReconnects
        BY <3>2 DEF SessionStarts
      <4> QED BY <3>2, <4>1, <4>2 DEF WcTypeOK, SessionStarts
    <3> QED BY <2>2, <3>1, <3>2
  <2>3. ASSUME NEW c \in WcCalls, NEW error, HandleConnectionError(c, error)
        PROVE  /\ wcAttempts' \in 0..MaxReconnects /\ wcScheduled' \in Nat
               /\ wcEn' \in [WcCalls -> Busy \cup {"idle", "ok", "timeout", "rejected", "notFound",
                                                   "deferred", "failed"}]
    BY <2>3 DEF WcTypeOK, HandleConnectionError, Rethrown, Retried, GivenUp
  <2>4. ASSUME NEW c \in WcCalls, EnableFails(c) PROVE WcTypeOK'
    BY <2>3, <2>4 DEF WcTypeOK, EnableFails
  <2>5. ASSUME NEW c \in WcCalls, WcTimerFires(c) PROVE WcTypeOK'
    BY <2>3, <2>5 DEF WcTypeOK, WcTimerFires
  <2>6. CASE SessionLost
    <3>1. wcUsed' \in Used
      BY <2>0, <2>6 DEF SessionLost, Count
    <3> QED BY <2>6, <3>1 DEF WcTypeOK, SessionLost
  <2>7. CASE Leave
    <3>1. wcUsed' \in Used
      BY <2>0, <2>7 DEF Leave, Count
    <3> QED BY <2>7, <3>1 DEF WcTypeOK, Leave
  <2>8. CASE Cleanup \/ LeaveFails
    <3>1. CASE Cleanup
      <4>1. wcSession' \in BOOLEAN
        BY <3>1 DEF Cleanup
      <4>2. wcAttempts' \in 0..MaxReconnects
        BY <3>1 DEF Cleanup
      <4> QED BY <3>1, <4>1, <4>2 DEF WcTypeOK, Cleanup
    <3>2. CASE LeaveFails
      BY <3>2 DEF WcTypeOK, LeaveFails
    <3> QED BY <2>8, <3>1, <3>2
  <2>9. CASE UNCHANGED wcVars
    BY <2>9 DEF WcTypeOK, wcVars
  <2> QED BY <2>1, <2>2, <2>4, <2>5, <2>6, <2>7, <2>8, <2>9 DEF WcNext, WcProgress
<1> QED BY <1>1, <1>2, PTL DEF WcSpec

-----------------------------------------------------------------------------
(* Chains of checks: one passes if every check of it holds, and the answer  *)
(* is a code.  A chain of each length is taken apart once.                 *)

\* A chain of checks passes when all of them hold, whatever their number.
LEMMA ChainPasses ==
    ASSUME NEW checks \in Seq(Checks),
           \A i \in DOMAIN checks : ~checks[i].holds => ~Passes(checks[i].code)
    PROVE  /\ Passes(FirstFailure[checks]) <=> \A i \in DOMAIN checks : checks[i].holds
           /\ FirstFailure[checks] \in Codes
<1> DEFINE failing == {i \in DOMAIN checks : ~checks[i].holds}
<1>1. FirstFailure[checks] = IF failing = {} THEN "SUCCESS" ELSE checks[Min(failing)].code
  BY DEF FirstFailure, Checks
<1>2. Len(checks) \in Nat /\ DOMAIN checks = 1..Len(checks)
  BY LenProperties
<1>3. failing \in SUBSET Nat
  BY <1>2
<1>4. CASE failing = {}
  <2>1. \A i \in DOMAIN checks : checks[i].holds
    BY <1>4
  <2>2. FirstFailure[checks] = "SUCCESS"
    BY <1>1, <1>4
  <2>3. Passes(FirstFailure[checks]) /\ FirstFailure[checks] \in Codes
    BY <2>2 DEF Passes, Codes
  <2> HIDE DEF failing
  <2> QED BY <2>1, <2>3
<1>5. CASE failing # {}
  <2>1. Min(failing) \in failing
    BY <1>3, <1>5, MinIsLeast
  <2>2. checks[Min(failing)] \in Checks
    BY <1>2, <2>1, ElementOfSeq
  <2> HIDE DEF failing
  <2>3. FirstFailure[checks] = checks[Min(failing)].code
    BY <1>1, <1>5
  <2>4. FirstFailure[checks] \in Codes
    BY <2>2, <2>3 DEF Checks
  <2>5. ~checks[Min(failing)].holds /\ Min(failing) \in DOMAIN checks
    BY <2>1 DEF failing
  <2>6. ~Passes(checks[Min(failing)].code)
    BY <2>5
  <2> QED BY <2>3, <2>4, <2>5, <2>6
<1> QED BY <1>4, <1>5

\* It answers with the code of the first that fails.
LEMMA ChainCode ==
    ASSUME NEW checks \in Seq(Checks)
    PROVE  \/ FirstFailure[checks] = "SUCCESS"
           \/ \E i \in DOMAIN checks : /\ ~checks[i].holds /\ FirstFailure[checks] = checks[i].code
                                      /\ \A j \in 1..(i - 1) : checks[j].holds
<1> DEFINE failing == {i \in DOMAIN checks : ~checks[i].holds}
<1>1. FirstFailure[checks] = IF failing = {} THEN "SUCCESS" ELSE checks[Min(failing)].code
  BY DEF FirstFailure, Checks
<1>2. Len(checks) \in Nat /\ DOMAIN checks = 1..Len(checks)
  BY LenProperties
<1>3. failing \in SUBSET Nat
  BY <1>2
<1>4. ASSUME failing # {}
      PROVE  \E i \in DOMAIN checks : /\ ~checks[i].holds /\ FirstFailure[checks] = checks[i].code
                                     /\ \A j \in 1..(i - 1) : checks[j].holds
  <2>1. Min(failing) \in failing /\ \A i \in failing : Min(failing) <= i
    BY <1>3, <1>4, MinIsLeast
  <2>2. PICK least \in failing : least = Min(failing)
    BY <2>1
  <2>5. /\ least \in 1..Len(checks) /\ \A i \in failing : least <= i
    BY <1>2, <2>1, <2>2
  <2>6. \A j \in 1..(least - 1) : j \in DOMAIN checks /\ ~(least <= j)
    BY <1>2, <2>5
  <2>3. \A j \in 1..(least - 1) : j \in DOMAIN checks /\ j \notin failing
    BY <2>5, <2>6
  <2>4. FirstFailure[checks] = checks[least].code
    BY <1>1, <1>4, <2>2
  <2> QED BY <2>3, <2>4
<1> QED BY <1>1, <1>4

\* A chain of three checks.
LEMMA ThreeChecks ==
    ASSUME NEW a \in Checks, NEW b \in Checks, NEW c \in Checks,
           ~a.holds => ~Passes(a.code), ~b.holds => ~Passes(b.code), ~c.holds => ~Passes(c.code)
    PROVE  /\ FirstFailure[<<a, b, c>>] \in Codes
           /\ Passes(FirstFailure[<<a, b, c>>])
                <=> a.holds /\ b.holds /\ c.holds
           /\ LET code == FirstFailure[<<a, b, c>>]
              IN  \/ code = "SUCCESS"
                  \/ ~a.holds /\ code = a.code
                  \/ ~b.holds /\ code = b.code
                  \/ ~c.holds /\ code = c.code
<1> DEFINE checks == <<a, b, c>>
<1>1. checks \in Seq(Checks) /\ DOMAIN checks = 1..3
  OBVIOUS
<1>2. checks[1] = a /\ checks[2] = b /\ checks[3] = c
  OBVIOUS
<1> HIDE DEF checks
<1>3. \A i \in DOMAIN checks : ~checks[i].holds => ~Passes(checks[i].code)
  BY <1>1, <1>2
<1>4. (\A i \in DOMAIN checks : checks[i].holds)
        <=> a.holds /\ b.holds /\ c.holds
  BY <1>1, <1>2
<1>5. FirstFailure[checks] \in Codes
  BY <1>1, <1>3, ChainPasses
<1>6. Passes(FirstFailure[checks]) <=> \A i \in DOMAIN checks : checks[i].holds
  BY <1>1, <1>3, ChainPasses
<1>7. \/ FirstFailure[checks] = "SUCCESS"
      \/ ~a.holds /\ FirstFailure[checks] = a.code
      \/ ~b.holds /\ FirstFailure[checks] = b.code
      \/ ~c.holds /\ FirstFailure[checks] = c.code
  BY <1>1, <1>2, ChainCode
<1> QED BY <1>4, <1>5, <1>6, <1>7 DEF checks

\* Of four.
LEMMA FourChecks ==
    ASSUME NEW a \in Checks, NEW b \in Checks, NEW c \in Checks, NEW d \in Checks,
           ~a.holds => ~Passes(a.code), ~b.holds => ~Passes(b.code), ~c.holds => ~Passes(c.code),
           ~d.holds => ~Passes(d.code)
    PROVE  /\ FirstFailure[<<a, b, c, d>>] \in Codes
           /\ Passes(FirstFailure[<<a, b, c, d>>])
                <=> a.holds /\ b.holds /\ c.holds /\ d.holds
           /\ LET code == FirstFailure[<<a, b, c, d>>]
              IN  \/ code = "SUCCESS"
                  \/ ~a.holds /\ code = a.code
                  \/ ~b.holds /\ code = b.code
                  \/ ~c.holds /\ code = c.code
                  \/ ~d.holds /\ code = d.code
<1> DEFINE checks == <<a, b, c, d>>
<1>1. checks \in Seq(Checks) /\ DOMAIN checks = 1..4
  OBVIOUS
<1>2. checks[1] = a /\ checks[2] = b /\ checks[3] = c /\ checks[4] = d
  OBVIOUS
<1> HIDE DEF checks
<1>3. \A i \in DOMAIN checks : ~checks[i].holds => ~Passes(checks[i].code)
  BY <1>1, <1>2
<1>4. (\A i \in DOMAIN checks : checks[i].holds)
        <=> a.holds /\ b.holds /\ c.holds /\ d.holds
  BY <1>1, <1>2
<1>5. FirstFailure[checks] \in Codes
  BY <1>1, <1>3, ChainPasses
<1>6. Passes(FirstFailure[checks]) <=> \A i \in DOMAIN checks : checks[i].holds
  BY <1>1, <1>3, ChainPasses
<1>7. \/ FirstFailure[checks] = "SUCCESS"
      \/ ~a.holds /\ FirstFailure[checks] = a.code
      \/ ~b.holds /\ FirstFailure[checks] = b.code
      \/ ~c.holds /\ FirstFailure[checks] = c.code
      \/ ~d.holds /\ FirstFailure[checks] = d.code
  BY <1>1, <1>2, ChainCode
<1> QED BY <1>4, <1>5, <1>6, <1>7 DEF checks

\* Of six.
LEMMA SixChecks ==
    ASSUME NEW a \in Checks, NEW b \in Checks, NEW c \in Checks, NEW d \in Checks,
           NEW e \in Checks, NEW f \in Checks,
           ~a.holds => ~Passes(a.code), ~b.holds => ~Passes(b.code), ~c.holds => ~Passes(c.code),
           ~d.holds => ~Passes(d.code), ~e.holds => ~Passes(e.code), ~f.holds => ~Passes(f.code)
    PROVE  /\ FirstFailure[<<a, b, c, d, e, f>>] \in Codes
           /\ Passes(FirstFailure[<<a, b, c, d, e, f>>])
                <=> a.holds /\ b.holds /\ c.holds /\ d.holds /\ e.holds /\ f.holds
           /\ LET code == FirstFailure[<<a, b, c, d, e, f>>]
              IN  \/ code = "SUCCESS"
                  \/ ~a.holds /\ code = a.code
                  \/ ~b.holds /\ code = b.code
                  \/ ~c.holds /\ code = c.code
                  \/ ~d.holds /\ code = d.code
                  \/ ~e.holds /\ code = e.code
                  \/ ~f.holds /\ code = f.code
<1> DEFINE checks == <<a, b, c, d, e, f>>
<1>1. checks \in Seq(Checks) /\ DOMAIN checks = 1..6
  OBVIOUS
<1>2. /\ checks[1] = a /\ checks[2] = b /\ checks[3] = c /\ checks[4] = d
     /\ checks[5] = e /\ checks[6] = f
  OBVIOUS
<1> HIDE DEF checks
<1>3. \A i \in DOMAIN checks : ~checks[i].holds => ~Passes(checks[i].code)
  BY <1>1, <1>2
<1>4. (\A i \in DOMAIN checks : checks[i].holds)
        <=> a.holds /\ b.holds /\ c.holds /\ d.holds /\ e.holds /\ f.holds
  BY <1>1, <1>2
<1>5. FirstFailure[checks] \in Codes
  BY <1>1, <1>3, ChainPasses
<1>6. Passes(FirstFailure[checks]) <=> \A i \in DOMAIN checks : checks[i].holds
  BY <1>1, <1>3, ChainPasses
<1>7. \/ FirstFailure[checks] = "SUCCESS"
      \/ ~a.holds /\ FirstFailure[checks] = a.code
      \/ ~b.holds /\ FirstFailure[checks] = b.code
      \/ ~c.holds /\ FirstFailure[checks] = c.code
      \/ ~d.holds /\ FirstFailure[checks] = d.code
      \/ ~e.holds /\ FirstFailure[checks] = e.code
      \/ ~f.holds /\ FirstFailure[checks] = f.code
  BY <1>1, <1>2, ChainCode
<1> QED BY <1>4, <1>5, <1>6, <1>7 DEF checks

\* Of seven.
LEMMA SevenChecks ==
    ASSUME NEW a \in Checks, NEW b \in Checks, NEW c \in Checks, NEW d \in Checks,
           NEW e \in Checks, NEW f \in Checks, NEW g \in Checks,
           ~a.holds => ~Passes(a.code), ~b.holds => ~Passes(b.code), ~c.holds => ~Passes(c.code),
           ~d.holds => ~Passes(d.code), ~e.holds => ~Passes(e.code), ~f.holds => ~Passes(f.code),
           ~g.holds => ~Passes(g.code)
    PROVE  /\ FirstFailure[<<a, b, c, d, e, f, g>>] \in Codes
           /\ Passes(FirstFailure[<<a, b, c, d, e, f, g>>])
                <=> a.holds /\ b.holds /\ c.holds /\ d.holds /\ e.holds /\ f.holds /\ g.holds
<1> DEFINE checks == <<a, b, c, d, e, f, g>>
<1>1. checks \in Seq(Checks) /\ DOMAIN checks = 1..7
  OBVIOUS
<1>2. /\ checks[1] = a /\ checks[2] = b /\ checks[3] = c /\ checks[4] = d
     /\ checks[5] = e /\ checks[6] = f /\ checks[7] = g
  OBVIOUS
<1> HIDE DEF checks
<1>3. \A i \in DOMAIN checks : ~checks[i].holds => ~Passes(checks[i].code)
  BY <1>1, <1>2
<1>4. (\A i \in DOMAIN checks : checks[i].holds)
        <=> a.holds /\ b.holds /\ c.holds /\ d.holds /\ e.holds /\ f.holds /\ g.holds
  BY <1>1, <1>2
<1>5. FirstFailure[checks] \in Codes
  BY <1>1, <1>3, ChainPasses
<1>6. Passes(FirstFailure[checks]) <=> \A i \in DOMAIN checks : checks[i].holds
  BY <1>1, <1>3, ChainPasses
<1> QED BY <1>4, <1>5, <1>6 DEF checks

\* The code is that of a check that fails, the last one only after the others.
FailsAt(code, a, b, c, d, e, f, g, h) ==
    \/ code = "SUCCESS"
    \/ ~a.holds /\ code = a.code
    \/ ~b.holds /\ code = b.code
    \/ ~c.holds /\ code = c.code
    \/ ~d.holds /\ code = d.code
    \/ ~e.holds /\ code = e.code
    \/ ~f.holds /\ code = f.code
    \/ ~g.holds /\ code = g.code
    \/ /\ a.holds /\ b.holds /\ c.holds /\ d.holds /\ e.holds /\ f.holds /\ g.holds
       /\ code = h.code

\* Of eight.
LEMMA EightChecks ==
    ASSUME NEW a \in Checks, NEW b \in Checks, NEW c \in Checks, NEW d \in Checks,
           NEW e \in Checks, NEW f \in Checks, NEW g \in Checks, NEW h \in Checks,
           ~a.holds => ~Passes(a.code), ~b.holds => ~Passes(b.code), ~c.holds => ~Passes(c.code),
           ~d.holds => ~Passes(d.code), ~e.holds => ~Passes(e.code), ~f.holds => ~Passes(f.code),
           ~g.holds => ~Passes(g.code), ~h.holds => ~Passes(h.code)
    PROVE  /\ FirstFailure[<<a, b, c, d, e, f, g, h>>] \in Codes
           /\ Passes(FirstFailure[<<a, b, c, d, e, f, g, h>>])
                <=> a.holds /\ b.holds /\ c.holds /\ d.holds
                    /\ e.holds /\ f.holds /\ g.holds /\ h.holds
           /\ FailsAt(FirstFailure[<<a, b, c, d, e, f, g, h>>], a, b, c, d, e, f, g, h)
<1> DEFINE checks == <<a, b, c, d, e, f, g, h>>
<1>1. checks \in Seq(Checks) /\ DOMAIN checks = 1..8
  OBVIOUS
<1>2. /\ checks[1] = a /\ checks[2] = b /\ checks[3] = c /\ checks[4] = d
     /\ checks[5] = e /\ checks[6] = f /\ checks[7] = g /\ checks[8] = h
  OBVIOUS
<1> HIDE DEF checks
<1>3. \A i \in DOMAIN checks : ~checks[i].holds => ~Passes(checks[i].code)
  BY <1>1, <1>2
<1>4. (\A i \in DOMAIN checks : checks[i].holds)
        <=> a.holds /\ b.holds /\ c.holds /\ d.holds /\ e.holds /\ f.holds /\ g.holds /\ h.holds
  BY <1>1, <1>2
<1>5. FirstFailure[checks] \in Codes
  BY <1>1, <1>3, ChainPasses
<1>6. Passes(FirstFailure[checks]) <=> \A i \in DOMAIN checks : checks[i].holds
  BY <1>1, <1>3, ChainPasses
<1>7. FailsAt(FirstFailure[checks], a, b, c, d, e, f, g, h)
  BY <1>1, <1>2, ChainCode DEF FailsAt
<1> QED BY <1>4, <1>5, <1>6, <1>7 DEF checks

\* What the chain of the signature's format accepts.
LEMMA SignaturePasses ==
    ASSUME NEW sig
    PROVE  /\ SignatureFormat(sig) \in Codes
           /\ Passes(SignatureFormat(sig))
                <=> sig \in {"hex128", "hex64"}
           /\ SignatureFormat(sig) # "VERIFICATION_FAILED"
<1> DEFINE a == Check(sig \notin {"noPrefix", "blank"}, "INVALID_SIGNATURE_FORMAT")
           b == Check(sig \in {"hex128", "hex64", "notHex"}, "INVALID_SIGNATURE_LENGTH")
           c == Check(sig # "notHex", "INVALID_SIGNATURE_FORMAT")
<1>1. a \in Checks /\ (a.holds <=> (sig \notin {"noPrefix", "blank"}))
       /\ (~a.holds => ~Passes(a.code))
  <2>1. a \in Checks
    BY DEF Check, Checks, Codes
  <2>2. a.holds <=> (sig \notin {"noPrefix", "blank"})
    BY DEF Check
  <2>3. ~a.holds => ~Passes(a.code)
    BY DEF Check, Passes
  <2> QED BY <2>1, <2>2, <2>3
<1>2. b \in Checks /\ (b.holds <=> (sig \in {"hex128", "hex64", "notHex"}))
       /\ (~b.holds => ~Passes(b.code))
  <2>1. b \in Checks
    BY DEF Check, Checks, Codes
  <2>2. b.holds <=> (sig \in {"hex128", "hex64", "notHex"})
    BY DEF Check
  <2>3. ~b.holds => ~Passes(b.code)
    BY DEF Check, Passes
  <2> QED BY <2>1, <2>2, <2>3
<1>3. c \in Checks /\ (c.holds <=> (sig # "notHex")) /\ (~c.holds => ~Passes(c.code))
  <2>1. c \in Checks
    BY DEF Check, Checks, Codes
  <2>2. c.holds <=> (sig # "notHex")
    BY DEF Check
  <2>3. ~c.holds => ~Passes(c.code)
    BY DEF Check, Passes
  <2> QED BY <2>1, <2>2, <2>3
<1>4. SignatureFormat(sig) = FirstFailure[<<a, b, c>>]
  BY DEF SignatureFormat
<1>7. "VERIFICATION_FAILED" \notin {"SUCCESS", a.code, b.code, c.code}
  BY DEF Check
<1> HIDE DEF a, b, c
<1>5. FirstFailure[<<a, b, c>>] \in Codes
  BY <1>1, <1>2, <1>3, ThreeChecks
<1>6. Passes(FirstFailure[<<a, b, c>>]) <=> a.holds /\ b.holds /\ c.holds
  BY <1>1, <1>2, <1>3, ThreeChecks
<1>8. FirstFailure[<<a, b, c>>] \in {"SUCCESS", a.code, b.code, c.code}
  BY <1>1, <1>2, <1>3, ThreeChecks
<1> QED BY <1>1, <1>2, <1>3, <1>4, <1>5, <1>6, <1>7, <1>8

\* What the chain of the date accepts.
LEMMA TimestampPasses ==
    ASSUME NEW m, NEW age \in Int
    PROVE  /\ MessageTimestamp(m, age) \in Codes
           /\ Passes(MessageTimestamp(m, age))
                <=> FirstOf(m, Issued) = "issued" /\ Fresh(age)
           /\ MessageTimestamp(m, age) # "VERIFICATION_FAILED"
<1> DEFINE a == Check(FirstOf(m, Issued) = "issued", "INVALID_MESSAGE_FORMAT")
           b == Check(age <= MaxAge, "MESSAGE_EXPIRED")
           c == Check(-age <= Skew, "MESSAGE_FUTURE")
<1>1. a \in Checks /\ (a.holds <=> (FirstOf(m, Issued) = "issued"))
       /\ (~a.holds => ~Passes(a.code))
  <2>1. a \in Checks
    BY DEF Check, Checks, Codes
  <2>2. a.holds <=> (FirstOf(m, Issued) = "issued")
    BY DEF Check
  <2>3. ~a.holds => ~Passes(a.code)
    BY DEF Check, Passes
  <2> QED BY <2>1, <2>2, <2>3
<1>2. b \in Checks /\ (b.holds <=> (age <= MaxAge)) /\ (~b.holds => ~Passes(b.code))
  <2>1. b \in Checks
    BY DEF Check, Checks, Codes
  <2>2. b.holds <=> (age <= MaxAge)
    BY DEF Check
  <2>3. ~b.holds => ~Passes(b.code)
    BY DEF Check, Passes
  <2> QED BY <2>1, <2>2, <2>3
<1>3. c \in Checks /\ (c.holds <=> (-age <= Skew)) /\ (~c.holds => ~Passes(c.code))
  <2>1. c \in Checks
    BY DEF Check, Checks, Codes
  <2>2. c.holds <=> (-age <= Skew)
    BY DEF Check
  <2>3. ~c.holds => ~Passes(c.code)
    BY DEF Check, Passes
  <2> QED BY <2>1, <2>2, <2>3
<1>4. MessageTimestamp(m, age) = FirstFailure[<<a, b, c>>]
  BY DEF MessageTimestamp
<1>7. "VERIFICATION_FAILED" \notin {"SUCCESS", a.code, b.code, c.code}
  BY DEF Check
<1> HIDE DEF a, b, c
<1>5. FirstFailure[<<a, b, c>>] \in Codes
  BY <1>1, <1>2, <1>3, ThreeChecks
<1>6. Passes(FirstFailure[<<a, b, c>>]) <=> a.holds /\ b.holds /\ c.holds
  BY <1>1, <1>2, <1>3, ThreeChecks
<1>8. FirstFailure[<<a, b, c>>] \in {"SUCCESS", a.code, b.code, c.code}
  BY <1>1, <1>2, <1>3, ThreeChecks
<1>9. a.holds /\ b.holds /\ c.holds <=> FirstOf(m, Issued) = "issued" /\ Fresh(age)
  BY <1>1, <1>2, <1>3, VerificationAssumption DEF Fresh
<1> QED BY <1>4, <1>5, <1>6, <1>7, <1>8, <1>9

\* A line of each kind is there.
Complete(lines) ==
    HasLine(lines, Issued) /\ HasLine(lines, Nonces) /\ HasLine(lines, Addresses)

\* No field of a request is empty.
Filled(r) == Normalised(r.message) # <<>> /\ r.signature # "blank" /\ r.address # "blank"

\* The lines that are there come in the order of the template.
InOrder(lines) ==
    /\ lines # <<>> /\ lines[1] = "title"
    /\ Len(lines) > 1 => lines[2] \in Issued
    /\ Len(lines) > 2 => lines[3] \in Nonces
    /\ Len(lines) > 3 => lines[4] \in Addresses

\* What the chain of the message's format accepts, in terms of its lines.
LEMMA FormatPasses ==
    ASSUME NEW m
    PROVE  /\ MessageFormat(m) \in Codes
           /\ Passes(MessageFormat(m))
                <=> /\ m # <<>> /\ m[1] \in Titles
                    /\ Complete(Normalised(m))
                    /\ BadLine(Normalised(m)) \notin Addresses
                    /\ BadLine(Normalised(m)) = "none"
                    /\ Len(Normalised(m)) = 4
                    /\ InOrder(Normalised(m))
           /\ MessageFormat(m) = "VERIFICATION_FAILED" => BadLine(Normalised(m)) \in Addresses
<1> DEFINE a == Check(m # <<>> /\ m[1] \in Titles, "INVALID_MESSAGE_FORMAT")
           b == Check(Complete(Normalised(m)), "INVALID_MESSAGE_FORMAT")
           c == Check(BadLine(Normalised(m)) \notin Addresses, "VERIFICATION_FAILED")
           d == Check(BadLine(Normalised(m)) = "none", "INVALID_MESSAGE_FORMAT")
           e == Check(Len(Normalised(m)) = 4, "INVALID_MESSAGE_FORMAT")
           f == Check(InOrder(Normalised(m)), "INVALID_MESSAGE_FORMAT")
<1>1. a \in Checks /\ (a.holds <=> (m # <<>> /\ m[1] \in Titles))
       /\ (~a.holds => ~Passes(a.code))
  <2>1. a \in Checks
    BY DEF Check, Checks, Codes
  <2>2. a.holds <=> (m # <<>> /\ m[1] \in Titles)
    BY DEF Check
  <2>3. ~a.holds => ~Passes(a.code)
    BY DEF Check, Passes
  <2> QED BY <2>1, <2>2, <2>3
<1>2. b \in Checks /\ (b.holds <=> (Complete(Normalised(m))))
       /\ (~b.holds => ~Passes(b.code))
  <2>1. b \in Checks
    BY DEF Check, Checks, Codes, Complete, HasLine
  <2>2. b.holds <=> (Complete(Normalised(m)))
    BY DEF Check
  <2>3. ~b.holds => ~Passes(b.code)
    BY DEF Check, Passes
  <2> QED BY <2>1, <2>2, <2>3
<1>3. c \in Checks /\ (c.holds <=> (BadLine(Normalised(m)) \notin Addresses))
       /\ (~c.holds => ~Passes(c.code))
  <2>1. c \in Checks
    BY DEF Check, Checks, Codes
  <2>2. c.holds <=> (BadLine(Normalised(m)) \notin Addresses)
    BY DEF Check
  <2>3. ~c.holds => ~Passes(c.code)
    BY DEF Check, Passes
  <2> QED BY <2>1, <2>2, <2>3
<1>4. d \in Checks /\ (d.holds <=> (BadLine(Normalised(m)) = "none"))
       /\ (~d.holds => ~Passes(d.code))
  <2>1. d \in Checks
    BY DEF Check, Checks, Codes
  <2>2. d.holds <=> (BadLine(Normalised(m)) = "none")
    BY DEF Check
  <2>3. ~d.holds => ~Passes(d.code)
    BY DEF Check, Passes
  <2> QED BY <2>1, <2>2, <2>3
<1>5. e \in Checks /\ (e.holds <=> (Len(Normalised(m)) = 4))
       /\ (~e.holds => ~Passes(e.code))
  <2>1. e \in Checks
    BY DEF Check, Checks, Codes
  <2>2. e.holds <=> (Len(Normalised(m)) = 4)
    BY DEF Check
  <2>3. ~e.holds => ~Passes(e.code)
    BY DEF Check, Passes
  <2> QED BY <2>1, <2>2, <2>3
<1>6. f \in Checks /\ (f.holds <=> (InOrder(Normalised(m))))
       /\ (~f.holds => ~Passes(f.code))
  <2>1. f \in Checks
    BY DEF Check, Checks, Codes, InOrder
  <2>2. f.holds <=> (InOrder(Normalised(m)))
    BY DEF Check
  <2>3. ~f.holds => ~Passes(f.code)
    BY DEF Check, Passes
  <2> QED BY <2>1, <2>2, <2>3
<1>7. MessageFormat(m) = FirstFailure[<<a, b, c, d, e, f>>]
  BY DEF MessageFormat, InOrder, Complete
<1>10. "VERIFICATION_FAILED" \notin {"SUCCESS", a.code, b.code, d.code, e.code, f.code}
  BY DEF Check
<1> HIDE DEF a, b, c, d, e, f
<1>8. FirstFailure[<<a, b, c, d, e, f>>] \in Codes
  BY <1>1, <1>2, <1>3, <1>4, <1>5, <1>6, SixChecks
<1>9. Passes(FirstFailure[<<a, b, c, d, e, f>>])
        <=> a.holds /\ b.holds /\ c.holds /\ d.holds /\ e.holds /\ f.holds
  BY <1>1, <1>2, <1>3, <1>4, <1>5, <1>6, SixChecks
<1>11. \/ FirstFailure[<<a, b, c, d, e, f>>] \in {"SUCCESS", a.code, b.code, d.code, e.code, f.code}
       \/ ~c.holds
  BY <1>1, <1>2, <1>3, <1>4, <1>5, <1>6, SixChecks
<1> QED BY <1>1, <1>2, <1>3, <1>4, <1>5, <1>6, <1>7, <1>8, <1>9, <1>10, <1>11

\* A request passes the checks of the Polkadot service that come before the
\* verification of its signature.
BeforeSignature(r) ==
    /\ r.message # <<>> /\ Normalised(r.message) # <<>> /\ ~r.long
    /\ Passes(MessageFormat(r.message)) /\ Passes(MessageTimestamp(r.message, r.age))
    /\ r.address = "ss58" /\ Passes(SignatureFormat(r.signature))

\* What the Polkadot service accepts, in terms of the chains it calls, and what
\* it answers with the result of the signature's verification.
LEMMA PolkadotPasses ==
    ASSUME NEW r, r.age \in Int, r.long \in BOOLEAN
    PROVE  /\ PolkadotVerify(r) \in Codes
           /\ Passes(PolkadotVerify(r))
                <=> /\ r.message # <<>>
                    /\ Normalised(r.message) # <<>>
                    /\ ~r.long
                    /\ Passes(MessageFormat(r.message))
                    /\ Passes(MessageTimestamp(r.message, r.age))
                    /\ r.address = "ss58"
                    /\ Passes(SignatureFormat(r.signature))
                    /\ VerifiesWithBoth(r)
           /\ BadLine(Normalised(r.message)) \notin Addresses =>
                (PolkadotVerify(r) \in {"SUCCESS", "VERIFICATION_FAILED"} <=> BeforeSignature(r))
<1> DEFINE a == Check(r.message # <<>>, "INVALID_REQUEST")
           b == Check(Normalised(r.message) # <<>>, "INVALID_MESSAGE_FORMAT")
           c == Check(~r.long, "MESSAGE_TOO_LONG")
           d == Check(Passes(MessageFormat(r.message)), MessageFormat(r.message))
           e == Check(Passes(MessageTimestamp(r.message, r.age)),
                      MessageTimestamp(r.message, r.age))
           f == Check(r.address = "ss58", "INVALID_ADDRESS")
           g == Check(Passes(SignatureFormat(r.signature)), SignatureFormat(r.signature))
           h == Check(VerifiesWithBoth(r), "VERIFICATION_FAILED")
<1>1. a \in Checks /\ (a.holds <=> (r.message # <<>>)) /\ (~a.holds => ~Passes(a.code))
  <2>1. a \in Checks
    BY DEF Check, Checks, Codes
  <2>2. a.holds <=> (r.message # <<>>)
    BY DEF Check
  <2>3. ~a.holds => ~Passes(a.code)
    BY DEF Check, Passes
  <2> QED BY <2>1, <2>2, <2>3
<1>2. b \in Checks /\ (b.holds <=> (Normalised(r.message) # <<>>))
       /\ (~b.holds => ~Passes(b.code))
  <2>1. b \in Checks
    BY DEF Check, Checks, Codes
  <2>2. b.holds <=> (Normalised(r.message) # <<>>)
    BY DEF Check
  <2>3. ~b.holds => ~Passes(b.code)
    BY DEF Check, Passes
  <2> QED BY <2>1, <2>2, <2>3
<1>3. c \in Checks /\ (c.holds <=> (~r.long)) /\ (~c.holds => ~Passes(c.code))
  <2>1. c \in Checks
    BY DEF Check, Checks, Codes
  <2>2. c.holds <=> (~r.long)
    BY DEF Check
  <2>3. ~c.holds => ~Passes(c.code)
    BY DEF Check, Passes
  <2> QED BY <2>1, <2>2, <2>3
<1>4. d \in Checks /\ (d.holds <=> (Passes(MessageFormat(r.message))))
       /\ (~d.holds => ~Passes(d.code))
  <2>1. d \in Checks
    BY FormatPasses DEF Check, Checks, Passes
  <2>2. d.holds <=> (Passes(MessageFormat(r.message)))
    BY DEF Check
  <2>3. ~d.holds => ~Passes(d.code)
    BY FormatPasses DEF Check, Passes
  <2> QED BY <2>1, <2>2, <2>3
<1>5. e \in Checks /\ (e.holds <=> (Passes(MessageTimestamp(r.message, r.age))))
       /\ (~e.holds => ~Passes(e.code))
  <2>1. e \in Checks
    BY TimestampPasses DEF Check, Checks, Passes
  <2>2. e.holds <=> (Passes(MessageTimestamp(r.message, r.age)))
    BY DEF Check
  <2>3. ~e.holds => ~Passes(e.code)
    BY TimestampPasses DEF Check, Passes
  <2> QED BY <2>1, <2>2, <2>3
<1>6. f \in Checks /\ (f.holds <=> (r.address = "ss58")) /\ (~f.holds => ~Passes(f.code))
  <2>1. f \in Checks
    BY DEF Check, Checks, Codes
  <2>2. f.holds <=> (r.address = "ss58")
    BY DEF Check
  <2>3. ~f.holds => ~Passes(f.code)
    BY DEF Check, Passes
  <2> QED BY <2>1, <2>2, <2>3
<1>7. g \in Checks /\ (g.holds <=> (Passes(SignatureFormat(r.signature))))
       /\ (~g.holds => ~Passes(g.code))
  <2>1. g \in Checks
    BY SignaturePasses DEF Check, Checks, Passes
  <2>2. g.holds <=> (Passes(SignatureFormat(r.signature)))
    BY DEF Check
  <2>3. ~g.holds => ~Passes(g.code)
    BY SignaturePasses DEF Check, Passes
  <2> QED BY <2>1, <2>2, <2>3
<1>8. h \in Checks
       /\ (h.holds <=> VerifiesWithBoth(r))
       /\ (~h.holds => ~Passes(h.code))
  <2>1. h \in Checks
    BY DEF Check, Checks, Codes, VerifiesWithBoth
  <2>2. h.holds <=> VerifiesWithBoth(r)
    BY DEF Check
  <2>3. ~h.holds => ~Passes(h.code)
    BY DEF Check, Passes
  <2> QED BY <2>1, <2>2, <2>3
<1>9. PolkadotVerify(r) = FirstFailure[<<a, b, c, d, e, f, g, h>>]
  BY DEF PolkadotVerify
<1>12. /\ {"SUCCESS", "VERIFICATION_FAILED"} \cap {a.code, b.code, c.code, f.code} = {}
       /\ h.code = "VERIFICATION_FAILED"
  BY DEF Check
<1>13. /\ ~d.holds /\ d.code \in {"SUCCESS", "VERIFICATION_FAILED"} =>
             BadLine(Normalised(r.message)) \in Addresses
       /\ ~e.holds => e.code \notin {"SUCCESS", "VERIFICATION_FAILED"}
       /\ ~g.holds => g.code \notin {"SUCCESS", "VERIFICATION_FAILED"}
  BY FormatPasses, TimestampPasses, SignaturePasses DEF Check, Passes
<1> HIDE DEF a, b, c, d, e, f, g, h
<1>10. FirstFailure[<<a, b, c, d, e, f, g, h>>] \in Codes
  BY <1>1, <1>2, <1>3, <1>4, <1>5, <1>6, <1>7, <1>8, EightChecks
<1>11. Passes(FirstFailure[<<a, b, c, d, e, f, g, h>>])
        <=> a.holds /\ b.holds /\ c.holds /\ d.holds /\ e.holds /\ f.holds /\ g.holds /\ h.holds
  BY <1>1, <1>2, <1>3, <1>4, <1>5, <1>6, <1>7, <1>8, EightChecks
<1> DEFINE before == a.holds /\ b.holds /\ c.holds /\ d.holds /\ e.holds /\ f.holds /\ g.holds
           code == FirstFailure[<<a, b, c, d, e, f, g, h>>]
<1>19. /\ a \in Checks /\ b \in Checks /\ c \in Checks /\ d \in Checks
       /\ e \in Checks /\ f \in Checks /\ g \in Checks /\ h \in Checks
       /\ ~a.holds => ~Passes(a.code)
       /\ ~b.holds => ~Passes(b.code)
       /\ ~c.holds => ~Passes(c.code)
       /\ ~d.holds => ~Passes(d.code)
       /\ ~e.holds => ~Passes(e.code)
       /\ ~f.holds => ~Passes(f.code)
       /\ ~g.holds => ~Passes(g.code)
       /\ ~h.holds => ~Passes(h.code)
  BY <1>1, <1>2, <1>3, <1>4, <1>5, <1>6, <1>7, <1>8
<1>17. FailsAt(code, a, b, c, d, e, f, g, h)
  BY <1>19, EightChecks
<1>18. code = "SUCCESS" => before
  BY <1>11 DEF Passes
<1> HIDE DEF code
<1>14. \/ before /\ code \in {"SUCCESS", h.code}
       \/ ~before /\ code \in {a.code, b.code, c.code, f.code}
       \/ ~before /\ ~d.holds /\ code = d.code
       \/ ~before /\ ~e.holds /\ code = e.code
       \/ ~before /\ ~g.holds /\ code = g.code
  BY <1>17, <1>18 DEF FailsAt
<1>15. before <=> BeforeSignature(r)
  BY <1>1, <1>2, <1>3, <1>4, <1>5, <1>6, <1>7 DEF BeforeSignature
<1>16. BadLine(Normalised(r.message)) \notin Addresses =>
         (code \in {"SUCCESS", "VERIFICATION_FAILED"} <=> before)
  BY <1>12, <1>13, <1>14
<1> QED BY <1>1, <1>2, <1>3, <1>4, <1>5, <1>6, <1>7, <1>8, <1>9, <1>10, <1>11, <1>15, <1>16
        DEF code

\* What the Ethereum service accepts, in terms of the chains it calls.
LEMMA EthereumPasses ==
    ASSUME NEW r, r.age \in Int, r.long \in BOOLEAN
    PROVE  /\ EthereumVerify(r) \in Codes
           /\ Passes(EthereumVerify(r))
                <=> /\ Filled(r)
                    /\ ~r.long
                    /\ r.address = "evm"
                    /\ r.signature = "hex130"
                    /\ EthereumFormat(r.message)
                    /\ Passes(MessageTimestamp(r.message, r.age))
                    /\ r.signer = "secp256k1"
<1> DEFINE a == Check(Filled(r), "INVALID_REQUEST")
           b == Check(~r.long, "MESSAGE_TOO_LONG")
           c == Check(r.address = "evm", "INVALID_ADDRESS")
           d == Check(r.signature = "hex130", "INVALID_SIGNATURE_FORMAT")
           e == Check(EthereumFormat(r.message), "INVALID_MESSAGE_FORMAT")
           f == Check(Passes(MessageTimestamp(r.message, r.age)),
                      MessageTimestamp(r.message, r.age))
           g == Check(r.signer = "secp256k1", "VERIFICATION_FAILED")
<1>1. a \in Checks /\ (a.holds <=> Filled(r)) /\ (~a.holds => ~Passes(a.code))
  <2>1. a \in Checks
    BY DEF Check, Checks, Codes, Filled
  <2>2. a.holds <=> Filled(r)
    BY DEF Check
  <2>3. ~a.holds => ~Passes(a.code)
    BY DEF Check, Passes
  <2> QED BY <2>1, <2>2, <2>3
<1>2. b \in Checks /\ (b.holds <=> (~r.long)) /\ (~b.holds => ~Passes(b.code))
  <2>1. b \in Checks
    BY DEF Check, Checks, Codes
  <2>2. b.holds <=> (~r.long)
    BY DEF Check
  <2>3. ~b.holds => ~Passes(b.code)
    BY DEF Check, Passes
  <2> QED BY <2>1, <2>2, <2>3
<1>3. c \in Checks /\ (c.holds <=> (r.address = "evm")) /\ (~c.holds => ~Passes(c.code))
  <2>1. c \in Checks
    BY DEF Check, Checks, Codes
  <2>2. c.holds <=> (r.address = "evm")
    BY DEF Check
  <2>3. ~c.holds => ~Passes(c.code)
    BY DEF Check, Passes
  <2> QED BY <2>1, <2>2, <2>3
<1>4. d \in Checks /\ (d.holds <=> (r.signature = "hex130"))
       /\ (~d.holds => ~Passes(d.code))
  <2>1. d \in Checks
    BY DEF Check, Checks, Codes
  <2>2. d.holds <=> (r.signature = "hex130")
    BY DEF Check
  <2>3. ~d.holds => ~Passes(d.code)
    BY DEF Check, Passes
  <2> QED BY <2>1, <2>2, <2>3
<1>5. e \in Checks /\ (e.holds <=> (EthereumFormat(r.message)))
       /\ (~e.holds => ~Passes(e.code))
  <2>1. e \in Checks
    BY DEF Check, Checks, Codes, EthereumFormat
  <2>2. e.holds <=> (EthereumFormat(r.message))
    BY DEF Check
  <2>3. ~e.holds => ~Passes(e.code)
    BY DEF Check, Passes
  <2> QED BY <2>1, <2>2, <2>3
<1>6. f \in Checks /\ (f.holds <=> (Passes(MessageTimestamp(r.message, r.age))))
       /\ (~f.holds => ~Passes(f.code))
  <2>1. f \in Checks
    BY TimestampPasses DEF Check, Checks, Passes
  <2>2. f.holds <=> (Passes(MessageTimestamp(r.message, r.age)))
    BY DEF Check
  <2>3. ~f.holds => ~Passes(f.code)
    BY TimestampPasses DEF Check, Passes
  <2> QED BY <2>1, <2>2, <2>3
<1>7. g \in Checks /\ (g.holds <=> (r.signer = "secp256k1"))
       /\ (~g.holds => ~Passes(g.code))
  <2>1. g \in Checks
    BY DEF Check, Checks, Codes
  <2>2. g.holds <=> (r.signer = "secp256k1")
    BY DEF Check
  <2>3. ~g.holds => ~Passes(g.code)
    BY DEF Check, Passes
  <2> QED BY <2>1, <2>2, <2>3
<1>8. EthereumVerify(r) = FirstFailure[<<a, b, c, d, e, f, g>>]
  BY DEF EthereumVerify, Filled
<1> HIDE DEF a, b, c, d, e, f, g
<1>9. FirstFailure[<<a, b, c, d, e, f, g>>] \in Codes
  BY <1>1, <1>2, <1>3, <1>4, <1>5, <1>6, <1>7, SevenChecks
<1>10. Passes(FirstFailure[<<a, b, c, d, e, f, g>>])
        <=> a.holds /\ b.holds /\ c.holds /\ d.holds /\ e.holds /\ f.holds /\ g.holds
  BY <1>1, <1>2, <1>3, <1>4, <1>5, <1>6, <1>7, SevenChecks
<1> QED BY <1>1, <1>2, <1>3, <1>4, <1>5, <1>6, <1>7, <1>8, <1>9, <1>10

\* The service a request is routed to, and its answer.
ChainOf(r) == IF r.chain = "none" THEN DetectChainType(r.address) ELSE r.chain
Routed(r) == IF ChainOf(r) = "polkadot" THEN PolkadotVerify(r) ELSE EthereumVerify(r)

\* What the unified service accepts: what the service it routes to does.
LEMMA UnifiedPasses ==
    ASSUME NEW r, r.age \in Int, r.long \in BOOLEAN
    PROVE  /\ Unified(r) \in Codes
           /\ Passes(Unified(r))
                <=> /\ Filled(r)
                    /\ r.chain \in {"none", "polkadot", "ethereum"}
                    /\ ChainOf(r) # "unknown"
                    /\ Passes(Routed(r))
           /\ Filled(r) /\ r.chain \in {"none", "polkadot", "ethereum"}
              /\ ChainOf(r) # "unknown" => Unified(r) = Routed(r)
<1> DEFINE a == Check(Filled(r), "INVALID_REQUEST")
           b == Check(r.chain \in {"none", "polkadot", "ethereum"}, "UNSUPPORTED_CHAIN_TYPE")
           c == Check(ChainOf(r) # "unknown", "UNKNOWN_ADDRESS_FORMAT")
           d == Check(Passes(Routed(r)), Routed(r))
<1>1. a \in Checks /\ (a.holds <=> Filled(r)) /\ (~a.holds => ~Passes(a.code))
  <2>1. a \in Checks
    BY DEF Check, Checks, Codes, Filled
  <2>2. a.holds <=> Filled(r)
    BY DEF Check
  <2>3. ~a.holds => ~Passes(a.code)
    BY DEF Check, Passes
  <2> QED BY <2>1, <2>2, <2>3
<1>2. b \in Checks /\ (b.holds <=> (r.chain \in {"none", "polkadot", "ethereum"}))
       /\ (~b.holds => ~Passes(b.code))
  <2>1. b \in Checks
    BY DEF Check, Checks, Codes
  <2>2. b.holds <=> (r.chain \in {"none", "polkadot", "ethereum"})
    BY DEF Check
  <2>3. ~b.holds => ~Passes(b.code)
    BY DEF Check, Passes
  <2> QED BY <2>1, <2>2, <2>3
<1>3. c \in Checks /\ (c.holds <=> (ChainOf(r) # "unknown"))
       /\ (~c.holds => ~Passes(c.code))
  <2>1. c \in Checks
    BY DEF Check, Checks, Codes
  <2>2. c.holds <=> (ChainOf(r) # "unknown")
    BY DEF Check
  <2>3. ~c.holds => ~Passes(c.code)
    BY DEF Check, Passes
  <2> QED BY <2>1, <2>2, <2>3
<1>4. d \in Checks /\ (d.holds <=> (Passes(Routed(r)))) /\ (~d.holds => ~Passes(d.code))
  <2>1. d \in Checks
    BY PolkadotPasses, EthereumPasses DEF Routed, Check, Checks, Passes
  <2>2. d.holds <=> (Passes(Routed(r)))
    BY DEF Check
  <2>3. ~d.holds => ~Passes(d.code)
    BY PolkadotPasses, EthereumPasses DEF Routed, Check, Passes
  <2> QED BY <2>1, <2>2, <2>3
<1>5. Unified(r) = FirstFailure[<<a, b, c, d>>]
  BY DEF Unified, ChainOf, Routed, Filled
<1>8. d.code = Routed(r)
  BY DEF Check
<1> HIDE DEF a, b, c, d
<1>6. FirstFailure[<<a, b, c, d>>] \in Codes
  BY <1>1, <1>2, <1>3, <1>4, FourChecks
<1>7. Passes(FirstFailure[<<a, b, c, d>>]) <=> a.holds /\ b.holds /\ c.holds /\ d.holds
  BY <1>1, <1>2, <1>3, <1>4, FourChecks
<1>9. a.holds /\ b.holds /\ c.holds => FirstFailure[<<a, b, c, d>>] = d.code
  BY <1>1, <1>2, <1>3, <1>4, <1>7, <1>8, FourChecks DEF Passes
<1> QED BY <1>1, <1>2, <1>3, <1>4, <1>5, <1>6, <1>7, <1>8, <1>9

\* It answers a request with an empty field so.
LEMMA UnifiedEmpty ==
    ASSUME NEW r, r.age \in Int, r.long \in BOOLEAN, ~Filled(r)
    PROVE  Unified(r) = "INVALID_REQUEST"
<1> DEFINE a == Check(Filled(r), "INVALID_REQUEST")
           checks == <<a, Check(r.chain \in {"none", "polkadot", "ethereum"},
                                "UNSUPPORTED_CHAIN_TYPE"),
                       Check(ChainOf(r) # "unknown", "UNKNOWN_ADDRESS_FORMAT"),
                       Check(Passes(Routed(r)), Routed(r))>>
<1>1. checks[1] = a /\ ~a.holds /\ a.code = "INVALID_REQUEST" /\ DOMAIN checks = 1..4
  BY DEF Check
<1>2. checks \in Seq(Checks)
  <2>1. Routed(r) \in Codes
    BY PolkadotPasses, EthereumPasses DEF Routed
  <2>2. a \in Checks
    BY DEF Check, Checks, Codes, Filled
  <2>3. /\ checks[2] \in Checks /\ checks[3] \in Checks
    BY DEF Check, Checks, Codes
  <2>4. checks[4] \in Checks
    BY <2>1 DEF Check, Checks, Passes
  <2> QED BY <2>2, <2>3, <2>4
<1>3. Unified(r) = FirstFailure[checks]
  BY DEF Unified, ChainOf, Routed, Filled
<1> HIDE DEF checks, a
<1>4. Passes(Unified(r)) => Filled(r)
  BY UnifiedPasses
<1>5. PICK i \in DOMAIN checks : /\ ~checks[i].holds /\ FirstFailure[checks] = checks[i].code
                                 /\ \A j \in 1..(i - 1) : checks[j].holds
  BY <1>2, <1>3, <1>4, ChainCode DEF Passes
<1>6. i = 1
  BY <1>1, <1>5
<1> QED BY <1>1, <1>3, <1>5, <1>6

\* What the server accepts: a body it can read and the unified service accepts.
LEMMA RespondPasses ==
    ASSUME NEW r, r.age \in Int, r.long \in BOOLEAN
    PROVE  /\ Respond(r).code \in Codes
           /\ Passes(Respond(r).code)
                <=> /\ r.body # "notJson"
                    /\ r.body # "tooLarge"
                    /\ r.body # "missing"
                    /\ Passes(Unified(r))
           /\ r.body \notin {"notJson", "tooLarge", "missing"} =>
                Respond(r).code = Unified(r)
<1> DEFINE a == Check(r.body # "notJson", "INVALID_JSON")
           b == Check(r.body # "tooLarge", "VERIFICATION_FAILED")
           c == Check(r.body # "missing", "INVALID_REQUEST")
           d == Check(Passes(Unified(r)), Unified(r))
<1>1. a \in Checks /\ (a.holds <=> (r.body # "notJson")) /\ (~a.holds => ~Passes(a.code))
  <2>1. a \in Checks
    BY DEF Check, Checks, Codes
  <2>2. a.holds <=> (r.body # "notJson")
    BY DEF Check
  <2>3. ~a.holds => ~Passes(a.code)
    BY DEF Check, Passes
  <2> QED BY <2>1, <2>2, <2>3
<1>2. b \in Checks /\ (b.holds <=> (r.body # "tooLarge")) /\ (~b.holds => ~Passes(b.code))
  <2>1. b \in Checks
    BY DEF Check, Checks, Codes
  <2>2. b.holds <=> (r.body # "tooLarge")
    BY DEF Check
  <2>3. ~b.holds => ~Passes(b.code)
    BY DEF Check, Passes
  <2> QED BY <2>1, <2>2, <2>3
<1>3. c \in Checks /\ (c.holds <=> (r.body # "missing")) /\ (~c.holds => ~Passes(c.code))
  <2>1. c \in Checks
    BY DEF Check, Checks, Codes
  <2>2. c.holds <=> (r.body # "missing")
    BY DEF Check
  <2>3. ~c.holds => ~Passes(c.code)
    BY DEF Check, Passes
  <2> QED BY <2>1, <2>2, <2>3
<1>4. d \in Checks /\ (d.holds <=> (Passes(Unified(r)))) /\ (~d.holds => ~Passes(d.code))
  <2>1. d \in Checks
    BY UnifiedPasses DEF Check, Checks, Passes
  <2>2. d.holds <=> (Passes(Unified(r)))
    BY DEF Check
  <2>3. ~d.holds => ~Passes(d.code)
    BY UnifiedPasses DEF Check, Passes
  <2> QED BY <2>1, <2>2, <2>3
<1>5. Respond(r).code = FirstFailure[<<a, b, c, d>>]
  BY DEF Respond
<1>8. d.code = Unified(r)
  BY DEF Check
<1> HIDE DEF a, b, c, d
<1>6. FirstFailure[<<a, b, c, d>>] \in Codes
  BY <1>1, <1>2, <1>3, <1>4, FourChecks
<1>7. Passes(FirstFailure[<<a, b, c, d>>]) <=> a.holds /\ b.holds /\ c.holds /\ d.holds
  BY <1>1, <1>2, <1>3, <1>4, FourChecks
<1>9. a.holds /\ b.holds /\ c.holds => FirstFailure[<<a, b, c, d>>] = d.code
  BY <1>1, <1>2, <1>3, <1>4, <1>7, <1>8, FourChecks DEF Passes
<1> QED BY <1>1, <1>2, <1>3, <1>4, <1>5, <1>6, <1>7, <1>8, <1>9

-----------------------------------------------------------------------------
(* The lines of a message, trimmed and without the empty ones.             *)

\* What is asked of every line of a message.
LEMMA LinesOf ==
    ASSUME NEW m \in Seq(LineKinds)
    PROVE  /\ Len(m) \in Nat /\ DOMAIN m = 1..Len(m)
           /\ \A i \in DOMAIN m : m[i] \in LineKinds /\ Trimmed(m)[i] \in LineKinds
           /\ Kept(m) \in SUBSET (1..Len(m))
           /\ IsFiniteSet(Kept(m)) /\ Cardinality(Kept(m)) \in Nat
<1>1. Len(m) \in Nat /\ DOMAIN m = 1..Len(m)
  BY LenProperties
<1>2. \A i \in DOMAIN m : m[i] \in LineKinds
  BY <1>1, ElementOfSeq
<1>3. \A i \in DOMAIN m : Trimmed(m)[i] \in LineKinds
  BY <1>2 DEF Trimmed, LineKinds
<1>4. Kept(m) \in SUBSET (1..Len(m))
  BY <1>1 DEF Kept
<1>5. IsFiniteSet(Kept(m))
  <2>1. IsFiniteSet(1..Len(m))
    BY <1>1, FS_Interval
  <2> QED BY <1>4, <2>1, FS_Subset
<1>6. Cardinality(Kept(m)) \in Nat
  BY <1>5, FS_CardinalityType
<1> QED BY <1>1, <1>2, <1>3, <1>4, <1>5, <1>6

\* What becomes of the lines of a message.
LEMMA NormalisedLines ==
    ASSUME NEW m \in Seq(LineKinds)
    PROVE  /\ Normalised(m) \in Seq(LineKinds) /\ Len(Normalised(m)) = Cardinality(Kept(m))
           /\ \A i \in Kept(m) : Normalised(m)[Place(i, Kept(m))] = Trimmed(m)[i]
           /\ \A k \in 1..Len(Normalised(m)) :
                 \E i \in Kept(m) : Place(i, Kept(m)) = k /\ Normalised(m)[k] = Trimmed(m)[i]
<1>1. Trimmed(m) \in Seq(LineKinds) /\ Kept(m) \in SUBSET DOMAIN Trimmed(m)
  <2>1. Trimmed(m) = [i \in 1..Len(m) |-> Trimmed(m)[i]] /\ Len(m) \in Nat
    BY LinesOf DEF Trimmed
  <2> QED BY <2>1, LinesOf
<1>2. Normalised(m) = Subsequence(Trimmed(m), Kept(m))
  BY DEF Normalised
<1> QED BY <1>1, <1>2, SubsequenceOf

\* FirstOf names the kind of the first line of the given kinds.
LEMMA FirstOfLines ==
    ASSUME NEW lines \in Seq(LineKinds), NEW kinds \in SUBSET LineKinds
    PROVE  /\ FirstOf(lines, kinds) = "none"
                <=> \A i \in DOMAIN lines : lines[i] \notin kinds
           /\ FirstOf(lines, kinds) # "none" =>
                \E i \in DOMAIN lines :
                   /\ FirstOf(lines, kinds) = lines[i] /\ lines[i] \in kinds
                   /\ \A j \in 1..(i - 1) : lines[j] \notin kinds
<1> DEFINE found == {i \in DOMAIN lines : lines[i] \in kinds}
           i == Min(found)
<1>1. FirstOf(lines, kinds) = IF found = {} THEN "none" ELSE lines[i]
  BY DEF FirstOf
<1>2. Len(lines) \in Nat /\ DOMAIN lines = 1..Len(lines)
  BY LenProperties
<1>3. CASE found = {}
  BY <1>1, <1>3
<1>4. CASE found # {}
  <2>0. found \in SUBSET Nat
    BY <1>2
  <2>1. i \in found /\ \A j \in found : i <= j
    BY <1>4, <2>0, MinIsLeast
  <2>2. i \in DOMAIN lines /\ lines[i] \in kinds /\ i \in 1..Len(lines)
    BY <1>2, <2>1
  <2>3. lines[i] # "none"
    BY <2>2 DEF LineKinds
  <2>4. \A j \in DOMAIN lines : lines[j] \in kinds => i <= j
    BY <2>1
  <2> HIDE DEF i
  <2>5. \A j \in 1..(i - 1) : j \in DOMAIN lines /\ ~(i <= j)
    BY <1>2, <2>2
  <2>6. \A j \in 1..(i - 1) : lines[j] \notin kinds
    BY <2>4, <2>5
  <2>7. FirstOf(lines, kinds) = lines[i]
    BY <1>1, <1>4
  <2> QED BY <2>2, <2>3, <2>6, <2>7
<1> QED BY <1>3, <1>4

\* What the checks make of a login message's lines: an indented or longer title
\* is not the template's, and every other line is looked at as it stands.
LEMMA TemplateKinds ==
    ASSUME NEW m \in Seq(LineKinds), Normalised(m) = TemplateLines
    PROVE  /\ \A i \in DOMAIN m :
                 m[i] \in {"blank", "title", "titleIndented", "issued", "nonce", "addr"}
           /\ HasLine(m, Issued) /\ HasLine(m, Nonces) /\ HasLine(m, Addresses)
           /\ FirstOf(m, Issued) = "issued" /\ FirstOf(m, Addresses) = "addr"
<1> DEFINE kept == Kept(m)
<1>1. /\ Len(m) \in Nat /\ DOMAIN m = 1..Len(m) /\ kept \in SUBSET (1..Len(m))
      /\ \A i \in DOMAIN m : m[i] \in LineKinds
  BY LinesOf
<1>2. Len(TemplateLines) = 4 /\ DOMAIN TemplateLines = 1..4
      /\ TemplateLines[1] = "title" /\ TemplateLines[2] = "issued"
      /\ TemplateLines[3] = "nonce" /\ TemplateLines[4] = "addr"
  BY DEF TemplateLines
<1>3. \A i \in kept : Trimmed(m)[i] \in {"title", "issued", "nonce", "addr"}
  <2>1. \A i \in kept : Place(i, kept) \in 1..4
    BY <1>1, <1>2, PlacesOf, NormalisedLines
  <2>2. \A i \in kept : Trimmed(m)[i] = TemplateLines[Place(i, kept)]
    BY NormalisedLines
  <2>3. \A k \in 1..4 : TemplateLines[k] \in {"title", "issued", "nonce", "addr"}
    BY <1>2
  <2> QED BY <2>1, <2>2, <2>3
<1>4. \A i \in DOMAIN m :
         m[i] \in {"blank", "title", "titleIndented", "issued", "nonce", "addr"}
  BY <1>3 DEF Kept, Trimmed
<1>5. ASSUME NEW k \in 2..4 PROVE \E i \in DOMAIN m : m[i] = TemplateLines[k]
  <2>0. k \in 1..Len(Normalised(m))
    BY <1>2
  <2>1. PICK i \in kept : Normalised(m)[k] = Trimmed(m)[i]
    BY <2>0, NormalisedLines
  <2>2. TemplateLines[k] # "title"
    BY <1>2
  <2> QED BY <1>1, <2>1, <2>2 DEF Trimmed
<1>6. HasLine(m, Issued) /\ HasLine(m, Nonces) /\ HasLine(m, Addresses)
  BY <1>2, <1>5 DEF HasLine, Issued, Nonces, Addresses
<1>7. Issued \in SUBSET LineKinds /\ Addresses \in SUBSET LineKinds
  BY DEF Issued, Addresses, LineKinds
<1>8. FirstOf(m, Issued) = "issued"
  <2>1. FirstOf(m, Issued) # "none"
    BY <1>6, <1>7, FirstOfLines DEF HasLine
  <2>2. PICK i \in DOMAIN m : FirstOf(m, Issued) = m[i] /\ m[i] \in Issued
    BY <1>7, <2>1, FirstOfLines
  <2> QED BY <1>4, <2>2 DEF Issued
<1>9. FirstOf(m, Addresses) = "addr"
  <2>1. FirstOf(m, Addresses) # "none"
    BY <1>6, <1>7, FirstOfLines DEF HasLine
  <2>2. PICK i \in DOMAIN m : FirstOf(m, Addresses) = m[i] /\ m[i] \in Addresses
    BY <1>7, <2>1, FirstOfLines
  <2> QED BY <1>4, <2>2 DEF Addresses
<1> QED BY <1>4, <1>6, <1>8, <1>9

\* The checks of the format accept the template's four lines and no other.
LEMMA FormatIsTemplate ==
    ASSUME NEW m \in Seq(LineKinds)
    PROVE  Passes(MessageFormat(m)) <=> IsLoginMessage(m)
<1> DEFINE lines == Normalised(m)
           bad == {"issuedBad", "nonceEmpty", "addrCase", "addrOther"}
<1>1. lines \in Seq(LineKinds)
  BY NormalisedLines
<1>2. Len(lines) \in Nat /\ DOMAIN lines = 1..Len(lines)
  BY <1>1, LenProperties
<1>3. BadLine(lines) = "none" <=> \A i \in DOMAIN lines : lines[i] \notin bad
  BY <1>1, FirstOfLines DEF BadLine, LineKinds
<1>4. m # <<>> => 1 \in DOMAIN m
  BY LinesOf, EmptySeq
<1>5. m # <<>> /\ m[1] # "blank" => lines[1] = Trimmed(m)[1]
  <2>1. SUFFICES ASSUME m # <<>>, m[1] # "blank" PROVE lines[1] = Trimmed(m)[1]
    OBVIOUS
  <2>2. 1 \in Kept(m)
    BY <1>4, <2>1 DEF Kept
  <2>3. {j \in Kept(m) : j <= 1} = {1}
    BY <2>2, LinesOf
  <2>4. Place(1, Kept(m)) = 1
    BY <2>3, FS_Singleton DEF Place
  <2> QED BY <2>2, <2>4, NormalisedLines
<1> HIDE DEF lines
<1>6. ASSUME IsLoginMessage(m) PROVE Passes(MessageFormat(m))
  <2>1. lines = TemplateLines /\ m # <<>> /\ m[1] = "title"
    BY <1>6 DEF IsLoginMessage, TemplateLines, lines
  <2>2. /\ Len(lines) = 4 /\ DOMAIN lines = 1..4 /\ lines # <<>>
        /\ lines[1] = "title" /\ lines[2] = "issued" /\ lines[3] = "nonce" /\ lines[4] = "addr"
    BY <2>1 DEF TemplateLines
  <2>3. BadLine(lines) = "none"
    BY <1>3, <2>2
  <2>4. HasLine(lines, Issued) /\ HasLine(lines, Nonces) /\ HasLine(lines, Addresses)
    BY <2>2 DEF HasLine, Issued, Nonces, Addresses
  <2>5. InOrder(lines)
    BY <2>2 DEF InOrder, Issued, Nonces, Addresses
  <2>6. m[1] \in Titles /\ BadLine(lines) \notin Addresses
    BY <2>1, <2>3 DEF Titles, Addresses
  <2> QED BY <2>1, <2>2, <2>3, <2>4, <2>5, <2>6, FormatPasses DEF lines, Complete
<1>7. ASSUME Passes(MessageFormat(m)) PROVE IsLoginMessage(m)
  <2>1. /\ m # <<>> /\ m[1] \in Titles /\ BadLine(lines) = "none"
        /\ Len(lines) = 4 /\ InOrder(lines)
    BY <1>7, FormatPasses DEF lines
  <2>2. lines[1] = "title" /\ lines[2] \in Issued /\ lines[3] \in Nonces /\ lines[4] \in Addresses
    BY <2>1 DEF InOrder
  <2>3. \A i \in 1..4 : lines[i] \notin bad
    BY <1>2, <1>3, <2>1
  <2>4. lines[2] = "issued" /\ lines[3] = "nonce" /\ lines[4] = "addr"
    BY <2>2, <2>3 DEF Issued, Nonces, Addresses
  <2>5. lines = <<"title", "issued", "nonce", "addr">>
    BY <1>1, <2>1, <2>2, <2>4
  <2>6. m[1] = "title"
    <3>1. lines[1] = Trimmed(m)[1] /\ 1 \in DOMAIN m
      BY <1>4, <1>5, <2>1 DEF Titles
    <3> QED BY <2>1, <2>2, <3>1 DEF Titles, Trimmed
  <2> QED BY <2>1, <2>5, <2>6 DEF IsLoginMessage, lines
<1> QED BY <1>6, <1>7

\* The Polkadot service verifies the signature of the fresh login messages of an
\* SS58 address and no others, and accepts none: an SS58 address has not the
\* length of the public key it is taken for.
LEMMA PolkadotReaches ==
    ASSUME NEW r, r.message \in Seq(LineKinds), r.age \in Int, r.long \in BOOLEAN
    PROVE  /\ BeforeSignature(r) <=>
                 /\ r.address = "ss58" /\ IsLoginMessage(r.message) /\ ~r.long /\ Fresh(r.age)
                 /\ r.signature \in {"hex128", "hex64"}
           /\ ~Passes(PolkadotVerify(r))
<1>1. Passes(MessageFormat(r.message)) <=> IsLoginMessage(r.message)
  BY FormatIsTemplate
<1>2. Passes(MessageTimestamp(r.message, r.age))
        <=> FirstOf(r.message, Issued) = "issued" /\ Fresh(r.age)
  BY TimestampPasses
<1>3. IsLoginMessage(r.message) =>
        FirstOf(r.message, Issued) = "issued" /\ r.message # <<>> /\ Normalised(r.message) # <<>>
  <2>1. SUFFICES ASSUME IsLoginMessage(r.message)
                 PROVE  /\ FirstOf(r.message, Issued) = "issued" /\ r.message # <<>>
                        /\ Normalised(r.message) # <<>>
    OBVIOUS
  <2>2. Normalised(r.message) = TemplateLines /\ TemplateLines # <<>> /\ r.message # <<>>
    BY <2>1 DEF IsLoginMessage, TemplateLines
  <2> QED BY <2>2, TemplateKinds
<1>4. Passes(SignatureFormat(r.signature)) <=> r.signature \in {"hex128", "hex64"}
  BY SignaturePasses
<1>5. BeforeSignature(r) <=>
        /\ r.address = "ss58" /\ IsLoginMessage(r.message) /\ ~r.long /\ Fresh(r.age)
        /\ r.signature \in {"hex128", "hex64"}
  BY <1>1, <1>2, <1>3, <1>4 DEF BeforeSignature
<1>6. r.address = "ss58" => ~VerifiesWithBoth(r)
  BY DEF VerifiesWithBoth, AddressBytes, PublicKeyBytes
<1> QED BY <1>5, <1>6, PolkadotPasses

\* What the Ethereum service accepts.
LEMMA EthereumRequires ==
    ASSUME NEW r, r.message \in Seq(LineKinds), r.age \in Int, r.long \in BOOLEAN
    PROVE  /\ r.address = "evm" /\ r.signature = "hex130" /\ r.signer = "secp256k1"
              /\ IsLoginMessage(r.message) /\ ~r.long /\ Fresh(r.age)
                => Passes(EthereumVerify(r))
           /\ Passes(EthereumVerify(r)) =>
                /\ r.signature = "hex130" /\ r.signer = "secp256k1" /\ Fresh(r.age)
                /\ \E i \in DOMAIN r.message :
                      /\ r.message[i] \in {"addr", "addrCase"}
                      /\ \A j \in 1..(i - 1) : r.message[j] # "addrOther"
<1> DEFINE m == r.message
<1>1. Passes(MessageTimestamp(m, r.age)) <=> FirstOf(m, Issued) = "issued" /\ Fresh(r.age)
  BY TimestampPasses
<1>2. ASSUME r.address = "evm", r.signature = "hex130", r.signer = "secp256k1",
             IsLoginMessage(m), ~r.long, Fresh(r.age)
      PROVE  Passes(EthereumVerify(r))
  <2>1. Normalised(m) = TemplateLines /\ TemplateLines # <<>>
    BY <1>2 DEF IsLoginMessage, TemplateLines
  <2>2. /\ HasLine(m, Issued) /\ HasLine(m, Nonces) /\ HasLine(m, Addresses)
        /\ FirstOf(m, Issued) = "issued" /\ FirstOf(m, Addresses) = "addr"
    BY <2>1, TemplateKinds
  <2>3. EthereumFormat(m)
    BY <2>2 DEF EthereumFormat
  <2> QED BY <1>1, <1>2, <2>1, <2>2, <2>3, EthereumPasses DEF Filled
<1>3. ASSUME Passes(EthereumVerify(r))
      PROVE  /\ r.signature = "hex130" /\ r.signer = "secp256k1" /\ Fresh(r.age)
             /\ \E i \in DOMAIN m : /\ m[i] \in {"addr", "addrCase"}
                                    /\ \A j \in 1..(i - 1) : m[j] # "addrOther"
  <2>1. /\ EthereumFormat(m) /\ Passes(MessageTimestamp(m, r.age))
        /\ r.signature = "hex130" /\ r.signer = "secp256k1"
    BY <1>3, EthereumPasses
  <2>2. FirstOf(m, Addresses) \in {"addr", "addrCase"}
    BY <2>1 DEF EthereumFormat
  <2>3. Addresses \in SUBSET LineKinds
    BY DEF Addresses, LineKinds
  <2>4. PICK i \in DOMAIN m : /\ FirstOf(m, Addresses) = m[i]
                              /\ \A j \in 1..(i - 1) : m[j] \notin Addresses
    BY <2>2, <2>3, FirstOfLines
  <2>5. \A j \in 1..(i - 1) : m[j] # "addrOther"
    BY <2>4 DEF Addresses
  <2> QED BY <1>1, <2>1, <2>2, <2>4, <2>5
<1> QED BY <1>2, <1>3

\* The answer to a request whose body is read.
LEMMA AnswerOf ==
    ASSUME NEW r, r.message \in Seq(LineKinds), r.age \in Int, r.long \in BOOLEAN,
           r.body \in {"json", "notJson", "tooLarge", "missing"}
    PROVE  /\ Respond(r).status = 200 <=> Passes(Respond(r).code)
           /\ Passes(Respond(r).code) <=>
                 /\ r.body = "json" /\ r.chain \in {"none", "polkadot", "ethereum"}
                 /\ ChainOf(r) # "unknown" /\ Passes(Routed(r))
<1>1. Respond(r).status = 200 <=> Passes(Respond(r).code)
  BY DEF Respond
<1>2. Passes(Routed(r)) /\ ChainOf(r) # "unknown" /\ r.chain \in {"none", "polkadot", "ethereum"}
        => Filled(r)
  BY PolkadotReaches, EthereumPasses DEF Routed, Filled
<1> QED BY <1>1, <1>2, RespondPasses, UnifiedPasses

-----------------------------------------------------------------------------
(* The server.                                                             *)

VInv == vReq \in Requests /\ (vRes = NoResponse \/ vRes = Respond(vReq))

\* Whatever request the server is sent, whatever lines its message has, in
\* whatever order and number.
LEMMA AnswersRequest ==
    ASSUME VInv
    PROVE  AnswersAsSpecified
<1> DEFINE r == vReq
<1>1. /\ r.message \in Seq(LineKinds) /\ r.age \in Int /\ r.long \in BOOLEAN
      /\ r.body \in {"json", "notJson", "tooLarge", "missing"}
  BY VerificationAssumption DEF VInv
<1>2. SUFFICES ASSUME vRes # NoResponse PROVE AnswersAsSpecified
  BY DEF AnswersAsSpecified, PolkadotReachesSignature, EthereumAccepts
<1>3. vRes = Respond(r)
  BY <1>2 DEF VInv
<1>4. Answered200 <=>
         /\ r.body = "json" /\ r.chain \in {"none", "polkadot", "ethereum"}
         /\ ChainOf(r) # "unknown" /\ Passes(Routed(r))
  BY <1>1, <1>3, AnswerOf DEF Answered200
<1>5. PolkadotReachesSignature
  <2>1. SUFFICES ASSUME r.address = "ss58", r.body = "json", r.chain \in {"none", "polkadot"},
                        r.signature \in {"hex128", "hex64"},
                        BadLine(Normalised(r.message)) \notin Addresses
                 PROVE  vRes.code \in {"SUCCESS", "VERIFICATION_FAILED"} <=>
                          IsLoginMessage(r.message) /\ ~r.long /\ Fresh(r.age)
    BY DEF PolkadotReachesSignature
  <2>2. ChainOf(r) = "polkadot" /\ Routed(r) = PolkadotVerify(r)
    BY <2>1 DEF ChainOf, DetectChainType, Routed
  <2>3. BeforeSignature(r) <=> IsLoginMessage(r.message) /\ ~r.long /\ Fresh(r.age)
    BY <1>1, <2>1, PolkadotReaches
  <2>4. PolkadotVerify(r) \in {"SUCCESS", "VERIFICATION_FAILED"} <=> BeforeSignature(r)
    BY <1>1, <2>1, PolkadotPasses
  <2>5. Respond(r).code = Unified(r)
    BY <1>1, <2>1, RespondPasses
  <2>6. CASE Filled(r)
    <3>1. Unified(r) = PolkadotVerify(r)
      BY <1>1, <2>1, <2>2, <2>6, UnifiedPasses
    <3> QED BY <1>3, <2>3, <2>4, <2>5, <3>1
  <2>7. CASE ~Filled(r)
    <3>1. ~BeforeSignature(r)
      BY <2>1, <2>7 DEF BeforeSignature, Filled
    <3>2. Unified(r) = "INVALID_REQUEST"
      BY <1>1, <2>7, UnifiedEmpty
    <3> QED BY <1>3, <2>3, <2>5, <3>1, <3>2
  <2> QED BY <2>6, <2>7
<1>6. EthereumAccepts
  <2>1. SUFFICES ASSUME r.address = "evm" PROVE EthereumAccepts
    BY DEF EthereumAccepts
  <2>2. ~Passes(PolkadotVerify(r))
    BY <1>1, PolkadotReaches
  <2>3. r.chain \in {"none", "ethereum"} => ChainOf(r) = "ethereum"
    BY <2>1 DEF ChainOf, DetectChainType
  <2>4. r.chain = "polkadot" => Routed(r) = PolkadotVerify(r)
    BY DEF ChainOf, Routed
  <2>5. Answered200 <=> /\ r.body = "json" /\ r.chain \in {"none", "ethereum"}
                         /\ Passes(EthereumVerify(r))
    BY <1>4, <2>2, <2>3, <2>4 DEF Routed
  <2> QED BY <1>1, <2>1, <2>5, EthereumRequires DEF EthereumAccepts
<1> QED BY <1>5, <1>6 DEF AnswersAsSpecified

\* A request is answered once.
LEMMA VNextInv == VInv /\ [VNext]_vVars => VInv'
BY DEF VInv, VNext, Verify, vVars

\* The verification server looks at the signatures of Polkadot's login messages
\* and of no others, and accepts Ethereum's, signed and fresh.
THEOREM ServerAnswersAsSpecified == VSpec => []AnswersAsSpecified
<1>1. VInit => VInv
  BY DEF VInit, VInv
<1> QED BY <1>1, VNextInv, AnswersRequest, PTL DEF VSpec

-----------------------------------------------------------------------------
(* The login.                                                              *)

\* How many numbers there are up to n.
LEMMA CountUpTo ==
    ASSUME NEW n \in Nat
    PROVE  Cardinality(1..n) = n
<1>1. Cardinality(1..n) = IF 1 > n THEN 0 ELSE n - 1 + 1
  BY FS_Interval
<1> QED BY <1>1

\* The message a login builds is the one the checks are there to accept.
LEMMA TemplateIsLogin == TemplateLines \in Seq(LineKinds) /\ IsLoginMessage(TemplateLines)
<1> DEFINE m == TemplateLines
<1>1. /\ m \in Seq(LineKinds) /\ Len(m) = 4 /\ DOMAIN m = 1..4 /\ m # <<>>
      /\ m[1] = "title" /\ m[2] = "issued" /\ m[3] = "nonce" /\ m[4] = "addr"
  BY DEF TemplateLines, LineKinds
<1> HIDE DEF m
<1>2. \A i \in 1..4 : m[i] \notin {"blank", "titleIndented"}
  BY <1>1
<1>3. Kept(m) = 1..4
  BY <1>1, <1>2 DEF Kept
<1>4. \A i \in 1..4 : Trimmed(m)[i] = m[i]
  BY <1>1, <1>2 DEF Trimmed
<1>5. \A i \in 1..4 : Place(i, Kept(m)) = i
  <2>1. SUFFICES ASSUME NEW i \in 1..4 PROVE Place(i, Kept(m)) = i
    OBVIOUS
  <2>2. {j \in 1..4 : j <= i} = 1..i
    OBVIOUS
  <2>3. Cardinality(1..i) = i
    BY CountUpTo
  <2> QED BY <1>3, <2>2, <2>3 DEF Place
<1>6. Normalised(m) \in Seq(LineKinds) /\ Len(Normalised(m)) = 4
  <2>1. Cardinality(1..4) = 4
    BY CountUpTo
  <2> QED BY <1>1, <1>3, <2>1, NormalisedLines
<1>7. \A i \in 1..4 : Normalised(m)[i] = m[i]
  <2>1. \A i \in Kept(m) : Normalised(m)[Place(i, Kept(m))] = Trimmed(m)[i]
    BY <1>1, NormalisedLines
  <2> QED BY <1>3, <1>4, <1>5, <2>1
<1>8. Normalised(m) = <<"title", "issued", "nonce", "addr">>
  BY <1>1, <1>6, <1>7
<1> QED BY <1>1, <1>8 DEF IsLoginMessage, m

\* A Polkadot login is not verified; the request of an Ethereum login that its
\* account signed is, by when it arrives.
LEMMA LoginAnswered ==
    ASSUME NEW age \in Int, lgKind \in {"polkadot", "ethereum"}
    PROVE  /\ ~Passes(PolkadotVerify(LoginRequest(age)))
           /\ lgKind = "ethereum" /\ lgSigner = lgAddress =>
                (Respond(LoginRequest(age)).status = 200 <=> Fresh(age))
           /\ Respond(LoginRequest(age)) # NoResponse
<1> DEFINE r == LoginRequest(age)
<1>1. /\ r.body = "json" /\ r.message = TemplateLines /\ r.long = FALSE /\ r.age = age
      /\ r.chain = "none"
      /\ lgKind = "ethereum" => r.address = "evm" /\ r.signature = "hex130"
      /\ lgSigner = lgAddress /\ lgKind = "ethereum" => r.signer = "secp256k1"
  BY DEF LoginRequest
<1> HIDE DEF r
<1>2. /\ r.message \in Seq(LineKinds) /\ IsLoginMessage(r.message) /\ ~r.long
      /\ r.age \in Int /\ r.long \in BOOLEAN
      /\ r.body \in {"json", "notJson", "tooLarge", "missing"}
  BY <1>1, TemplateIsLogin
<1>3. ~Passes(PolkadotVerify(r))
  BY <1>2, PolkadotReaches
<1>4. lgKind = "ethereum" /\ lgSigner = lgAddress => (Passes(EthereumVerify(r)) <=> Fresh(age))
  BY <1>1, <1>2, EthereumRequires
<1>5. lgKind = "ethereum" => ChainOf(r) = "ethereum"
  BY <1>1 DEF ChainOf, DetectChainType
<1>6. lgKind = "ethereum" => (Respond(r).status = 200 <=> Passes(EthereumVerify(r)))
  BY <1>1, <1>2, <1>5, AnswerOf DEF Routed
<1>7. Respond(r) # NoResponse
  <2>1. Respond(r).status # NoResponse.status
    BY DEF Respond, NoResponse
  <2> QED BY <2>1
<1> QED BY <1>3, <1>4, <1>6, <1>7 DEF r

\* A signature that counts is the account's own: the Ethereum adapter asks for no
\* other, and a Polkadot login verifies what it was given, which fails.
SignedAtEachStep ==
    /\ lgPc = "signing" /\ lgKind = "ethereum" => lgSigner = lgAddress
    /\ lgPc = "verify" => lgKind = "polkadot"
    /\ lgPc = "ok" => lgKind = "ethereum"

\* The server is asked at the end, when the time no longer changes.
AskedAtTheEnd == lgServer # NoResponse => lgPc = "ok"

LgInv ==
    /\ lgKind \in {"polkadot", "ethereum"} /\ lgTime \in Nat /\ lgClock \in Int
    /\ SignedByItsAddress /\ SignedAtEachStep
    /\ ServerAcceptsLogin /\ AskedAtTheEnd

\* A login starts with nothing signed and nothing asked.
LEMMA LgInitInv == LgInit => LgInv
BY DEF LgInit, LgInv, SignedByItsAddress, SignedAtEachStep, ServerAcceptsLogin, AskedAtTheEnd

\* Every step keeps who signed, and what the server was asked.
LEMMA LgNextInv == LgInv /\ [LgNext]_lgVars => LgInv'
<1> SUFFICES ASSUME LgInv, [LgNext]_lgVars PROVE LgInv'
  OBVIOUS
<1> USE LoginAssumption
    DEF LgInv, SignedByItsAddress, SignedAtEachStep, ServerAcceptsLogin, AskedAtTheEnd,
        lgEnv, lgData, LgGoes, LgFails
<1>1. CASE LoginCalled
  BY <1>1 DEF LoginCalled
<1>2. CASE BackoffOver
  BY <1>2 DEF BackoffOver
<1>3. CASE WalletEnabled
  BY <1>3 DEF WalletEnabled
<1>4. CASE WalletRefused
  BY <1>4 DEF WalletRefused
<1>5. CASE AccountsGiven
  BY <1>5 DEF AccountsGiven
<1>6. CASE AccountsFail
  BY <1>6 DEF AccountsFail
<1>7. CASE AskToSign
  BY <1>7 DEF AskToSign
<1>8. CASE Signed
  BY <1>8 DEF Signed
<1>9. CASE NotSigned
  BY <1>9 DEF NotSigned
<1>10. CASE SignatureTimesOut
  BY <1>10 DEF SignatureTimesOut
<1>11. CASE VerifyLocally
  <2>1. lgKind = "polkadot" /\ lgServer = NoResponse
    BY <1>11 DEF VerifyLocally
  <2>2. ~Passes(PolkadotVerify(LoginRequest(lgTime)))
    BY <2>1, LoginAnswered
  <2> QED BY <1>11, <2>1, <2>2 DEF VerifyLocally
<1>12. CASE ServerVerifies
  <2>1. lgKind = "ethereum" /\ lgSigner = lgAddress /\ lgTime + lgClock \in Int
    BY <1>12 DEF ServerVerifies
  <2>2. Respond(LoginRequest(lgTime + lgClock)).status = 200 <=> Fresh(lgTime + lgClock)
    BY <2>1, LoginAnswered
  <2>3. lgServer'.status = 200 <=> Fresh(lgTime' + lgClock')
    BY <1>12, <2>2 DEF ServerVerifies, Fresh
  <2> QED BY <1>12, <2>3 DEF ServerVerifies
<1>13. CASE SwitchAccount
  BY <1>13 DEF SwitchAccount, Fresh
<1>14. CASE LgTick
  BY <1>14 DEF LgTick
<1>15. CASE UNCHANGED lgVars
  BY <1>15 DEF lgVars, Fresh
<1> QED BY <1>1, <1>2, <1>3, <1>4, <1>5, <1>6, <1>7, <1>8, <1>9, <1>10, <1>11, <1>12, <1>13,
           <1>14, <1>15 DEF LgNext

\* Whatever the user does with his wallet while a login runs, it succeeds only
\* with the signature of the account its message names.
THEOREM LoginSignedByItsAddress == LgSpec => []SignedByItsAddress
<1>1. LgInv => SignedByItsAddress
  BY DEF LgInv
<1> QED BY <1>1, LgInitInv, LgNextInv, PTL DEF LgSpec

\* The server accepts what a login returns, unless it comes too late or its
\* clock is too far behind.  What returns is an Ethereum login: the service that
\* both sides share accepts no Polkadot one.
THEOREM LoginAcceptedByServer == LgSpec => []ServerAcceptsLogin
<1>1. LgInv => ServerAcceptsLogin
  BY DEF LgInv
<1> QED BY <1>1, LgInitInv, LgNextInv, PTL DEF LgSpec

\* Every variable of a login has its type: retries stay within the limit, and
\* the wait for a signature within its timeout.
THEOREM LoginIsBounded == LgSpec => []LgTypeOK
<1>1. Len(Wallets) \in Nat \ {0}
  BY LoginAssumption, EmptySeq, LenProperties
<1> DEFINE Bounded == LgTypeOK /\ (lgPc = "backoff" => lgAttempt < RetryCount)
<1>2. LgInit => Bounded
  BY <1>1, LoginAssumption DEF LgInit, LgTypeOK
<1>3. Bounded /\ [LgNext]_lgVars => Bounded'
  <2> SUFFICES ASSUME Bounded, [LgNext]_lgVars PROVE Bounded'
    OBVIOUS
  <2> USE <1>1, LoginAssumption DEF LgTypeOK, lgEnv, lgData, LgGoes, LgFails
  <2>1. CASE LoginCalled
    BY <2>1 DEF LoginCalled
  <2>2. CASE BackoffOver
    BY <2>2 DEF BackoffOver
  <2>3. CASE WalletEnabled \/ WalletRefused
    BY <2>3 DEF WalletEnabled, WalletRefused
  <2>4. CASE AccountsGiven \/ AccountsFail
    BY <2>4 DEF AccountsGiven, AccountsFail
  <2>5. CASE AskToSign \/ Signed
    BY <2>5 DEF AskToSign, Signed
  <2>6. CASE NotSigned \/ SignatureTimesOut
    BY <2>6 DEF NotSigned, SignatureTimesOut
  <2>7. CASE VerifyLocally
    BY <2>7 DEF VerifyLocally
  <2>8. CASE ServerVerifies \/ SwitchAccount
    BY <2>8 DEF ServerVerifies, SwitchAccount
  <2>9. CASE LgTick
    BY <2>9 DEF LgTick
  <2>10. CASE UNCHANGED lgVars
    BY <2>10 DEF lgVars
  <2> QED BY <2>1, <2>2, <2>3, <2>4, <2>5, <2>6, <2>7, <2>8, <2>9, <2>10 DEF LgNext
<1>4. Bounded => LgTypeOK
  OBVIOUS
<1> HIDE DEF Bounded
<1> QED BY <1>2, <1>3, <1>4, PTL DEF LgSpec

-----------------------------------------------------------------------------
(* Ethereum DIDs.                                                          *)

\* Lengths: as many digits as hold the bytes; with one digit fewer, a byte is
\* missing.
LEMMA LengthsOf ==
    ASSUME NEW n \in Nat
    PROVE  /\ Base64Length(n) \in Nat /\ BytesIn(Base64Length(n)) = n
           /\ \A k \in Nat : k < Base64Length(n) => BytesIn(k) \in Nat /\ BytesIn(k) < n
BY DEF Base64Length, BytesIn

\* The digits of the group that byte 3 q + 1 begins.
LEMMA DigitsOfGroup ==
    ASSUME NEW b \in Seq(0..255), NEW q \in Nat,
           NEW p \in 0..3, 4 * q + 1 + p <= Base64Length(Len(b))
    PROVE  Base64(b)[4 * q + 1 + p] = Digit(b, 3 * q + 1, p)
<1> DEFINE k == Base64Length(Len(b))
           j == 4 * q + 1 + p
<1>1. k \in Nat
  BY LenProperties, LengthsOf
<1>2. j \in 1..k /\ (j - 1) \div 4 = q /\ (j - 1) % 4 = p
  BY <1>1
<1>3. Base64(b) = [i \in 1..k |-> Digit(b, 3 * ((i - 1) \div 4) + 1, (i - 1) % 4)]
  BY DEF Base64
<1> HIDE DEF k, j
<1>4. Base64(b)[j] = Digit(b, 3 * q + 1, p)
  BY <1>2, <1>3
<1> QED BY <1>4 DEF j

\* What base64 makes of bytes is decoded to the same bytes.
LEMMA Decoded ==
    ASSUME NEW b \in Seq(0..255)
    PROVE  /\ Base64(b) \in [1..Base64Length(Len(b)) -> 0..63]
           /\ FromBase64(Base64(b)) = b
<1> DEFINE n == Len(b)
           k == Base64Length(n)
           d == Base64(b)
<1>1. n \in Nat /\ k \in Nat /\ BytesIn(k) = n /\ DOMAIN b = 1..n
  BY LenProperties, LengthsOf
<1>2. \A i \in Nat \ {0} : Octet(b, i) \in 0..255
  BY <1>1, ElementOfSeq DEF Octet
<1>3. d \in [1..k -> 0..63]
  <2>1. SUFFICES ASSUME NEW j \in 1..k
                 PROVE  Digit(b, 3 * ((j - 1) \div 4) + 1, (j - 1) % 4) \in 0..63
    BY DEF Base64
  <2> DEFINE first == 3 * ((j - 1) \div 4) + 1
             place == (j - 1) % 4
  <2>2. first \in Nat \ {0} /\ place \in 0..3
    BY <1>1
  <2>3. first + 1 \in Nat \ {0} /\ first + 2 \in Nat \ {0}
    BY <2>2
  <2> HIDE DEF first, place
  <2>4. PICK x \in 0..255, y \in 0..255, z \in 0..255 :
           x = Octet(b, first) /\ y = Octet(b, first + 1) /\ z = Octet(b, first + 2)
    BY <1>2, <2>2, <2>3
  <2>5. /\ x \div 4 \in 0..63 /\ (x % 4) * 16 + (y \div 16) \in 0..63
        /\ (y % 16) * 4 + (z \div 64) \in 0..63 /\ z % 64 \in 0..63
    OBVIOUS
  <2>6. Digit(b, first, place) \in 0..63
    <3>1. CASE place = 0
      BY <2>4, <2>5, <3>1 DEF Digit
    <3>2. CASE place = 1
      BY <2>4, <2>5, <3>2 DEF Digit
    <3>3. CASE place = 2
      BY <2>4, <2>5, <3>3 DEF Digit
    <3>4. CASE place = 3
      BY <2>4, <2>5, <3>4 DEF Digit
    <3> QED BY <2>2, <3>1, <3>2, <3>3, <3>4
  <2> QED BY <2>6 DEF first, place
<1>4. Len(d) = k
  BY <1>1, <1>3
<1>5. FromBase64(d) = [i \in 1..n |-> Byte(d, 4 * ((i - 1) \div 3) + 1, (i - 1) % 3)]
  BY <1>1, <1>4 DEF FromBase64
<1>6. ASSUME NEW i \in 1..n
      PROVE  Byte(d, 4 * ((i - 1) \div 3) + 1, (i - 1) % 3) = b[i]
  <2> DEFINE q == (i - 1) \div 3
             r == (i - 1) % 3
  <2>1. q \in Nat /\ r \in 0..2 /\ i = 3 * q + 1 + r /\ i <= n
    BY <1>1
  <2>2. 4 * q + 2 + r <= k
    BY <1>1, <2>1 DEF Base64Length
  <2> HIDE DEF q, r
  <2>3. PICK x \in 0..255, y \in 0..255, z \in 0..255 :
           x = Octet(b, 3 * q + 1) /\ y = Octet(b, 3 * q + 1 + 1) /\ z = Octet(b, 3 * q + 1 + 2)
    <3>1. /\ 3 * q + 1 \in Nat \ {0} /\ 3 * q + 1 + 1 \in Nat \ {0}
          /\ 3 * q + 1 + 2 \in Nat \ {0}
      BY <2>1
    <3> QED BY <1>2, <3>1, Zenon
  <2>4. d[4 * q + 1] = x \div 4 /\ d[4 * q + 1 + 1] = (x % 4) * 16 + (y \div 16)
    <3>1. 4 * q + 1 + 0 <= k /\ 4 * q + 1 + 1 <= k
      BY <1>1, <2>1, <2>2
    <3>2. d[4 * q + 1 + 0] = Digit(b, 3 * q + 1, 0) /\ d[4 * q + 1 + 1] = Digit(b, 3 * q + 1, 1)
      BY <2>1, <3>1, DigitsOfGroup
    <3>3. Digit(b, 3 * q + 1, 0) = x \div 4
      BY <2>3 DEF Digit
    <3>4. Digit(b, 3 * q + 1, 1) = (x % 4) * 16 + (y \div 16)
      BY <2>3 DEF Digit
    <3> QED BY <2>1, <3>2, <3>3, <3>4
  <2>5. r # 0 => d[4 * q + 1 + 2] = (y % 16) * 4 + (z \div 64)
    <3>1. SUFFICES ASSUME r # 0 PROVE d[4 * q + 1 + 2] = (y % 16) * 4 + (z \div 64)
      OBVIOUS
    <3>2. 4 * q + 1 + 2 <= k
      BY <1>1, <2>1, <2>2, <3>1
    <3>3. d[4 * q + 1 + 2] = Digit(b, 3 * q + 1, 2)
      BY <2>1, <3>2, DigitsOfGroup
    <3> QED BY <2>3, <3>3 DEF Digit
  <2>6. r = 2 => d[4 * q + 1 + 3] = z % 64
    <3>1. SUFFICES ASSUME r = 2 PROVE d[4 * q + 1 + 3] = z % 64
      OBVIOUS
    <3>2. 4 * q + 1 + 3 <= k
      BY <1>1, <2>1, <2>2, <3>1
    <3>3. d[4 * q + 1 + 3] = Digit(b, 3 * q + 1, 3)
      BY <2>1, <3>2, DigitsOfGroup
    <3> QED BY <2>3, <3>3 DEF Digit
  <2>7. b[i] = Octet(b, i)
    BY <2>1 DEF Octet
  <2> HIDE DEF d
  <2>8. ASSUME r = 0 PROVE Byte(d, 4 * q + 1, r) = b[i]
    <3>1. Byte(d, 4 * q + 1, r) = (x \div 4) * 4 + ((x % 4) * 16 + (y \div 16)) \div 16
      BY <2>4, <2>8 DEF Byte
    <3>2. i = 3 * q + 1
      BY <2>1, <2>8
    <3>3. (x \div 4) * 4 + ((x % 4) * 16 + (y \div 16)) \div 16 = x
      OBVIOUS
    <3> QED BY <2>3, <2>7, <3>1, <3>2, <3>3, Zenon
  <2>9. ASSUME r = 1 PROVE Byte(d, 4 * q + 1, r) = b[i]
    <3>1. Byte(d, 4 * q + 1, r)
            = (((x % 4) * 16 + (y \div 16)) % 16) * 16 + ((y % 16) * 4 + (z \div 64)) \div 4
      BY <2>4, <2>5, <2>9 DEF Byte
    <3>2. i = 3 * q + 1 + 1
      BY <2>1, <2>9
    <3>3. (((x % 4) * 16 + (y \div 16)) % 16) * 16 + ((y % 16) * 4 + (z \div 64)) \div 4 = y
      OBVIOUS
    <3> QED BY <2>3, <2>7, <3>1, <3>2, <3>3, Zenon
  <2>10. ASSUME r = 2 PROVE Byte(d, 4 * q + 1, r) = b[i]
    <3>1. Byte(d, 4 * q + 1, r) = (((y % 16) * 4 + (z \div 64)) % 4) * 64 + (z % 64)
      BY <2>5, <2>6, <2>10 DEF Byte
    <3>2. i = 3 * q + 1 + 2
      BY <2>1, <2>10
    <3>3. (((y % 16) * 4 + (z \div 64)) % 4) * 64 + (z % 64) = z
      BY SMTT(60)
    <3> QED BY <2>3, <2>7, <3>1, <3>2, <3>3, Zenon
  <2>11. Byte(d, 4 * q + 1, r) = b[i]
    BY <2>1, <2>8, <2>9, <2>10
  <2> QED BY <2>11 DEF q, r
<1>7. FromBase64(d) = b
  <2>1. b = [i \in 1..n |-> b[i]]
    BY <1>1
  <2> HIDE DEF d, n
  <2> QED BY <1>5, <1>6, <2>1
<1> QED BY <1>3, <1>7

\* Removing digits leaves them all or makes the rest shorter.
LEMMA CleanedOrShorter ==
    ASSUME NEW T, NEW d \in Seq(T)
    PROVE  \/ Cleaned(d) = d
           \/ Len(Cleaned(d)) \in Nat /\ Len(Cleaned(d)) < Len(d)
<1> DEFINE n == Len(d)
           kept == Letters(d)
<1>1. n \in Nat /\ DOMAIN d = 1..n /\ kept \in SUBSET (1..n)
  BY LenProperties DEF Letters
<1>2. IsFiniteSet(1..n) /\ Cardinality(1..n) = n
  BY <1>1, FS_Interval, CountUpTo
<1>3. /\ Cleaned(d) \in Seq(T) /\ Len(Cleaned(d)) = Cardinality(kept)
      /\ \A i \in kept : Cleaned(d)[Place(i, kept)] = d[i]
  BY <1>1, SubsequenceOf DEF Cleaned
<1>4. CASE kept = 1..n
  <2>1. ASSUME NEW i \in 1..n PROVE Place(i, kept) = i
    <3>1. {j \in kept : j <= i} = 1..i
      BY <1>1, <1>4
    <3>2. Cardinality(1..i) = i
      BY <1>1, CountUpTo
    <3> QED BY <3>1, <3>2 DEF Place
  <2>2. Len(Cleaned(d)) = n /\ \A i \in 1..n : Cleaned(d)[i] = d[i]
    BY <1>2, <1>3, <1>4, <2>1
  <2>3. Cleaned(d) = d
    BY <1>1, <1>3, <2>2
  <2> QED BY <2>3
<1>5. CASE kept # 1..n
  <2>1. Cardinality(kept) \in Nat /\ Cardinality(kept) <= n /\ Cardinality(kept) # n
    <3>1. IsFiniteSet(kept)
      BY <1>1, <1>2, FS_Subset
    <3> QED BY <1>1, <1>2, <1>5, <3>1, FS_Subset, FS_CardinalityType
  <2> QED BY <1>1, <1>3, <2>1
<1> QED BY <1>4, <1>5

\* What is read from the DID of an address is that address, or nothing: with
\* a digit less, the bytes are too few.
LEMMA OwnAddressOrNone ==
    ASSUME NEW a \in EdAddresses
    PROVE  extractAddress(createDid(a)) \in {a, <<>>}
<1> DEFINE d == Base64(a)
           k == Base64Length(Octets)
<1>1. a \in Seq(0..255) /\ Len(a) = Octets /\ Octets \in Nat
  <2>1. Octets \in Nat /\ a \in [1..Octets -> 0..255]
    BY OctetsAssumption DEF EdAddresses
  <2> QED BY <2>1
<1>2. d \in [1..k -> 0..63] /\ FromBase64(d) = a
  <2>1. d \in [1..Base64Length(Len(a)) -> 0..63] /\ FromBase64(d) = a
    BY <1>1, Decoded
  <2> QED BY <1>1, <2>1
<1>3. k \in Nat /\ \A m \in Nat : m < k => BytesIn(m) \in Nat /\ BytesIn(m) < Octets
  BY <1>1, LengthsOf
<1> HIDE DEF d, k
<1>4. d \in Seq(0..63) /\ Len(d) = k
  BY <1>2, <1>3
<1>5. createDid(a) = Cleaned(d)
  BY DEF createDid, d
<1>6. CASE Cleaned(d) = d
  BY <1>1, <1>2, <1>5, <1>6 DEF extractAddress, isValidEthereumAddress
<1>7. CASE Len(Cleaned(d)) \in Nat /\ Len(Cleaned(d)) < Len(d)
  <2> DEFINE m == Len(Cleaned(d))
             bytes == FromBase64(Cleaned(d))
  <2>1. BytesIn(m) \in Nat /\ BytesIn(m) < Octets
    BY <1>3, <1>4, <1>7
  <2>2. Len(bytes) = BytesIn(m)
    BY <2>1 DEF FromBase64
  <2>3. ~isValidEthereumAddress(bytes)
    BY <1>1, <2>1, <2>2 DEF isValidEthereumAddress
  <2> QED BY <1>5, <2>3 DEF extractAddress
<1> QED BY <1>4, <1>6, <1>7, CleanedOrShorter

\* The DID is that of the address, and what it resolves to is not another.
EdInv ==
    /\ edAddress \in EdAddresses /\ edDid \in {<<>>, createDid(edAddress)}
    /\ NeverAnotherAddress

\* A DID is created once, and what it resolves to is read off it.
LEMMA EdNextInv == EdInv /\ [EdNext]_edVars => EdInv'
<1> SUFFICES ASSUME EdInv, [EdNext]_edVars PROVE EdInv'
  OBVIOUS
<1>1. CASE CreateDid
  BY <1>1 DEF CreateDid, EdInv, NeverAnotherAddress
<1>2. CASE Resolve
  <2>1. edResolved'.address = extractAddress(edDid) /\ edDid = createDid(edAddress)
    BY <1>2 DEF Resolve, EdInv
  <2>2. edResolved'.address \in {edAddress, <<>>}
    BY <2>1, OwnAddressOrNone DEF EdInv
  <2> QED BY <1>2, <2>2 DEF Resolve, EdInv, NeverAnotherAddress
<1>3. CASE UNCHANGED edVars
  BY <1>3 DEF edVars, EdInv, NeverAnotherAddress
<1> QED BY <1>1, <1>2, <1>3 DEF EdNext

\* Although createDid deletes digits of an address, no DID resolves to another
\* address than the one it was made for, whatever the number of its bytes.
THEOREM NoOtherAddressResolves == EdSpec => []NeverAnotherAddress
<1>1. EdInit => EdInv
  BY DEF EdInit, EdInv, NeverAnotherAddress, NotYet
<1>2. EdInv => NeverAnotherAddress
  BY DEF EdInv
<1> QED BY <1>1, <1>2, EdNextInv, PTL DEF EdSpec
---------------------------------------------------------------------------
(* The provider's own submission.                                          *)

\* What was sent was signed with a nonce.
SentIsSigned ==
    /\ \A t \in Tx : chain[t] # "none" => txNonce[t] \in Nat
    /\ \A c \in Calls : pvPc[c] = "send" => pvNonce[c] \in Nat

\* An update that waits for its transaction has its timeout armed.
WaitIsTimed == \A c \in Calls : Tracking(c) => c \in pvTimer

\* An update that succeeded is in a finalized block.
UpdateIsFinal == \A c \in Calls : pvResult[c] = "success" => chain[Sent(c)] = "final"

\* So is one that was found in the blocks that were searched.
FoundIsFinal == \A c \in Calls : pvPc[c] \in {"found", "fee"} => chain[Sent(c)] = "final"

\* An update has a result once it has ended.
ResultEnds == \A c \in Calls : pvResult[c] # "none" => pvPc[c] = "done"

PvInv ==
    /\ PvTypeOK /\ SentIsSigned /\ WaitIsTimed
    /\ UpdateIsFinal /\ FoundIsFinal /\ ResultEnds

LEMMA TxParts ==
    ASSUME NEW t \in Tx
    PROVE  /\ t[1] \in Calls /\ t[2] \in 1..TxBound
           /\ t = <<t[1], t[2]>>
           /\ Owner(t) \in Accounts
  BY NodeAssumption DEF Tx, Owner

LEMMA SentIsTx ==
    ASSUME NEW c \in Calls
    PROVE  Sent(c) \in Tx /\ \A d \in Calls : Sent(c) = Sent(d) => c = d
BY NodeAssumption DEF Sent, Tx

LEMMA PvInitInv == PvInit => PvInv
BY NodeAssumption, ProviderAssumption
   DEF PvInit, NodeInit, PvInv, PvTypeOK, NodeTypeOK, PvPoints, SentIsSigned, WaitIsTimed,
       UpdateIsFinal, FoundIsFinal, ResultEnds, Tracking

\* A step of the node keeps nonces, and leaves what is final where it is.
LEMMA NodeMovesInv ==
    ASSUME PvInv, NEW t \in Tx, NodeStep(t)
    PROVE  /\ NodeTypeOK' /\ UNCHANGED txNonce
           /\ \A u \in Tx : /\ chain'[u] # "none" => chain[u] # "none"
                            /\ chain[u] = "final" => chain'[u] = "final"
<1>1. /\ UNCHANGED txNonce /\ chain[t] \in {"pool", "best"}
      /\ \E s \in {"pool", "best", "final", "dropped"} : chain' = [chain EXCEPT ![t] = s]
  BY DEF NodeStep, Include, Retract, Finalize, Drop
<1>2. Owner(t) \in Accounts /\ txNonce[t] \in Nat
  BY <1>1, TxParts DEF PvInv, SentIsSigned
<1>3. /\ index' \in [Accounts -> Nat]
      /\ notice' \in [Tx -> {"none", "due", "inBlock", "finalized", "lost"}]
  BY <1>2 DEF NodeStep, Include, Retract, Finalize, Drop, PvInv, PvTypeOK, NodeTypeOK
<1>4. NodeTypeOK'
  BY <1>1, <1>3 DEF PvInv, PvTypeOK, NodeTypeOK
<1> QED BY <1>1, <1>4 DEF PvInv, PvTypeOK, NodeTypeOK

\* A step of a call that does not send.
LEMMA QuietInv ==
    ASSUME PvInv, NEW c \in Calls,
           \/ Update(c) \/ NotSent(c) \/ PoolRead(c) \/ HeadRead(c) \/ Confirmed(c)
           \/ TrackFails(c) \/ FeeRead(c) \/ WaitTimesOut(c)
    PROVE  PvInv'
<1> USE DEF PvInv, PvTypeOK, SentIsSigned, WaitIsTimed, UpdateIsFinal, FoundIsFinal, ResultEnds,
        Tracking,
            PvGoto, Ends, PvPoints, nodeVars
<1>1. UNCHANGED nodeVars /\ NodeTypeOK'
  BY DEF Update, NotSent, PoolRead, HeadRead, Confirmed, TrackFails, FeeRead, WaitTimesOut,
         NodeTypeOK
<1>2. CASE Update(c) \/ NotSent(c)
  BY <1>1, <1>2 DEF Update, NotSent
<1>3. CASE PoolRead(c) \/ TrackFails(c)
  BY <1>1, <1>3 DEF PoolRead, TrackFails
<1>4. CASE HeadRead(c)
  BY <1>1, <1>4 DEF HeadRead, InRecentBlocks
<1>5. CASE Confirmed(c) \/ FeeRead(c) \/ WaitTimesOut(c)
  BY <1>1, <1>5 DEF Confirmed, FeeRead, WaitTimesOut
<1> QED BY <1>2, <1>3, <1>4, <1>5

\* Every step keeps it.
LEMMA PvNextInv == PvInv /\ [PvNext]_pvVars => PvInv'
<1> SUFFICES ASSUME PvInv, [PvNext]_pvVars PROVE PvInv'
  OBVIOUS
<1>1. ASSUME NEW c \in Calls, NonceAnswered(c) PROVE PvInv'
  <2>1. NextIndex(Signer[c]) \subseteq Nat
    BY NodeAssumption DEF PvInv, PvTypeOK, NodeTypeOK, SentIsSigned, NextIndex
  <2> QED BY <1>1, <2>1
       DEF NonceAnswered, PvGoto, PvPoints, PvInv, PvTypeOK, NodeTypeOK, SentIsSigned,
           WaitIsTimed, UpdateIsFinal, FoundIsFinal, ResultEnds, Tracking, nodeVars
<1>2. ASSUME NEW c \in Calls, PvSent(c) PROVE PvInv'
  <2>1. pvNonce[c] \in Nat /\ Sent(c) \in Tx
    BY <1>2, SentIsTx DEF PvSent, PvInv, SentIsSigned
  <2>2. NodeTypeOK'
    BY <1>2, <2>1 DEF PvSent, PvInv, PvTypeOK, NodeTypeOK
  <2>3. PvTypeOK'
    BY <1>2, <2>2 DEF PvSent, PvGoto, Ends, PvPoints, PvInv, PvTypeOK
  <2>4. SentIsSigned' /\ WaitIsTimed'
    BY <1>2, <2>1
       DEF PvSent, PvGoto, Ends, PvInv, PvTypeOK, NodeTypeOK, SentIsSigned, WaitIsTimed, Tracking
  <2>5. ASSUME NEW d \in Calls \ {c} PROVE chain'[Sent(d)] = chain[Sent(d)]
    BY <1>2, <2>1, SentIsTx DEF PvSent, PvInv, PvTypeOK, NodeTypeOK
  <2>6. pvPc'[c] \notin {"found", "fee"} /\ pvResult'[c] # "success"
    BY <1>2 DEF PvSent, PvGoto, Ends, PvInv, PvTypeOK, ResultEnds
  <2> QED BY <1>2, <2>3, <2>4, <2>5, <2>6
       DEF PvSent, PvGoto, Ends, PvInv, PvTypeOK, UpdateIsFinal, FoundIsFinal, ResultEnds
<1>3. ASSUME NEW c \in Calls, NodeMoves(c) PROVE PvInv'
  BY <1>3, SentIsTx, NodeMovesInv
     DEF NodeMoves, pvCall, PvInv, PvTypeOK, SentIsSigned, WaitIsTimed, UpdateIsFinal,
         FoundIsFinal, ResultEnds, Tracking
<1>4. ASSUME NEW c \in Calls, Buried(c) PROVE PvInv'
  BY <1>4, ProviderAssumption
     DEF Buried, nodeVars, pvCall, PvInv, PvTypeOK, NodeTypeOK, SentIsSigned, WaitIsTimed,
         UpdateIsFinal, FoundIsFinal, ResultEnds, Tracking
<1>5. CASE UNCHANGED pvVars
  BY <1>5 DEF pvVars, nodeVars, pvCall, PvInv, PvTypeOK, NodeTypeOK, SentIsSigned, WaitIsTimed,
              UpdateIsFinal, FoundIsFinal, ResultEnds, Tracking
<1> QED BY <1>1, <1>2, <1>3, <1>4, <1>5, QuietInv DEF PvNext, PvProgress

\* The provider reports success only of an update whose transaction is in a
\* finalized block, though it looks for it in two places one after the other.
THEOREM UpdateSuccessIsFinal == PvSpec => []UpdateIsFinal
<1>1. PvInv => UpdateIsFinal
  BY DEF PvInv
<1> QED BY <1>1, PvInitInv, PvNextInv, PTL DEF PvSpec

\* No update of the provider waits without a timeout that will end it, and
\* every variable has its type.
THEOREM WaitsAreTimed == PvSpec => [](PvTypeOK /\ WaitIsTimed)
<1>1. PvInv => PvTypeOK /\ WaitIsTimed
  BY DEF PvInv
<1> QED BY <1>1, PvInitInv, PvNextInv, PTL DEF PvSpec
-----------------------------------------------------------------------------
(* The parts side by side.                                                 *)

\* What holds of the parts that have no specification of their own in every
\* behaviour: the server and the Ethereum DIDs stay where they are unless a
\* behaviour is about them, and the contract is called by its service or alone.
ServerInv == IF part = "server" THEN VInv ELSE vRes = NoResponse
DidInv == IF part = "did" THEN EdInv ELSE edResolved = NotYet
ClientsInv == ServerInv /\ DidInv /\ DsInv

LEMMA ClientsInitInv == ClientsInit => ClientsInv
<1>1. ClientsInit => ServerInv
  BY DEF ClientsInit, ServerInv, VInit, VInv
<1>2. ClientsInit => DidInv
  BY DEF ClientsInit, DidInv, EdInit, EdInv, NeverAnotherAddress, NotYet
<1>3. ClientsInit => DsInv
  BY DsInitInv DEF ClientsInit
<1> QED BY <1>1, <1>2, <1>3 DEF ClientsInv

\* A call of the contract by anyone keeps what is known of the service's.
LEMMA RegistryKeeps ==
    ASSUME DsInv, MdNext, UNCHANGED onlyDidService
    PROVE  DsInv'
<1>1. PICK a \in DidAccounts : ContractCall(a)
  BY DEF MdNext
<1>2. MdInv' /\ (mdStatus[DidSigner] # "none" => mdStatus'[DidSigner] # "none")
  BY <1>1, CallKeeps, StatusStays, DidServiceAssumption DEF DsInv
<1>3. UNCHANGED <<dsOp, dsPc, dsTx, dsQueue>>
  BY DEF onlyDidService
<1> QED BY <1>2, <1>3 DEF DsInv, DsTypeOK, TxFollowsCall, OneRegistration, Registers

\* A step is one of a part, and leaves the variables of the others.
LEMMA StepIsOfPart ==
    ASSUME [ClientsNext]_parts
    PROVE  /\ [Next]_vars /\ [InjNext]_injVars /\ [WcNext]_wcVars /\ [LgNext]_lgVars
           /\ [KdNext]_kdVars /\ [PvNext]_pvVars
           /\ UNCHANGED part
           /\ IF part = "server" THEN [VNext]_vVars ELSE UNCHANGED vVars
           /\ IF part = "did" THEN [EdNext]_edVars ELSE UNCHANGED edVars
           /\ [DsNext]_dsVars \/ (MdNext /\ UNCHANGED onlyDidService)
<1> USE DEF connVars, walletVars, loginVars, didVars
<1>1. CASE ConnectionPart \/ InjectedPart \/ WalletConnectPart
  BY <1>1 DEF ConnectionPart, InjectedPart, WalletConnectPart
<1>2. CASE LoginPart \/ ServerPart \/ DidPart
  BY <1>2 DEF LoginPart, ServerPart, DidPart
<1>3. CASE KiltPart \/ UpdatePart
  BY <1>3 DEF KiltPart, UpdatePart
<1>4. CASE RegistryPart \/ ProviderPart
  BY <1>4 DEF RegistryPart, ProviderPart
<1>5. CASE UNCHANGED parts
  BY <1>5 DEF parts
<1> QED BY <1>1, <1>2, <1>3, <1>4, <1>5 DEF ClientsNext

LEMMA ClientsNextInv == ClientsInv /\ [ClientsNext]_parts => ClientsInv'
<1> SUFFICES ASSUME ClientsInv, [ClientsNext]_parts PROVE ClientsInv'
  OBVIOUS
<1>1. ServerInv'
  BY StepIsOfPart, VNextInv DEF ClientsInv, ServerInv, vVars
<1>2. DidInv'
  BY StepIsOfPart, EdNextInv DEF ClientsInv, DidInv, edVars
<1>3. DsInv'
  BY StepIsOfPart, DsNextInv, RegistryKeeps DEF ClientsInv
<1> QED BY <1>1, <1>2, <1>3 DEF ClientsInv

\* Side by side the connection, the wallets, the login, the KILT DIDs and the
\* provider's submission do what their own specifications say: what is proved
\* of each of them holds where all of them are checked.
THEOREM ClientsAreComponents ==
    ClientsSpec => Spec /\ InjSpec /\ WcSpec /\ LgSpec /\ KdSpec /\ PvSpec
<1>1. ClientsInit => Init /\ InjInit /\ WcInit /\ LgInit /\ KdInit /\ PvInit
  BY DEF ClientsInit
<1> QED BY <1>1, StepIsOfPart, PTL DEF ClientsSpec, Spec, InjSpec, WcSpec, LgSpec, KdSpec, PvSpec

\* The types of the connection, the wallets, the login, the DIDs and the
\* provider's submission, in every behaviour of the instances.
THEOREM ClientTypesKept == ClientsSpec => []ClientTypesOK
<1>1. InjSpec => []InjTypeOK
  <2>1. InjInv => InjTypeOK
    BY DEF InjInv
  <2> QED BY <2>1, InjInitInv, InjNextInv, PTL DEF InjSpec
<1>2. KdSpec => []KdTypeOK
  <2>1. KdInv => KdTypeOK
    BY DEF KdInv
  <2> QED BY <2>1, KdInitInv, KdNextInv, PTL DEF KdSpec
<1>3. ClientsSpec => []MdTypeOK
  <2>1. ClientsInv => MdTypeOK
    BY DEF ClientsInv, DsInv, MdInv
  <2> QED BY <2>1, ClientsInitInv, ClientsNextInv, PTL DEF ClientsSpec
<1>4. TypeOK /\ InjTypeOK /\ WcTypeOK /\ LgTypeOK /\ KdTypeOK /\ PvTypeOK /\ MdTypeOK
        => ClientTypesOK
  BY DEF ClientTypesOK
<1> QED BY <1>1, <1>2, <1>3, <1>4, ClientsAreComponents, ConnectionSettles, ReconnectsAreCounted,
           LoginIsBounded, WaitsAreTimed, PTL

\* Each part keeps its promises whichever of them a behaviour is about: the
\* server, Ethereum's DIDs and the contract too, which anyone may call.
THEOREM ClientsAreSafe ==
    ClientsSpec => [](/\ OnlyOverlapLeaks /\ Settled /\ ConnectionUncut /\ OneConnectTimer
                      /\ SignedByItsAddress /\ ServerAcceptsLogin /\ AnswersAsSpecified
                      /\ NeverAnotherAddress /\ ListsAgree /\ OneCreateSucceeds
                      /\ OkMeansExecuted)
<1> DEFINE Served == AnswersAsSpecified /\ NeverAnotherAddress /\ ListsAgree
                     /\ OneCreateSucceeds /\ OkMeansExecuted
<1>1. ClientsInv => Served
  <2>1. ServerInv => AnswersAsSpecified
    BY AnswersRequest DEF ServerInv, AnswersAsSpecified, PolkadotReachesSignature, EthereumAccepts
  <2>2. DidInv => NeverAnotherAddress
    BY DEF DidInv, EdInv, NeverAnotherAddress, NotYet
  <2>3. DsInv => ListsAgree
    BY DEF DsInv, MdInv, ListsAgree
  <2>4. DsInv => OneCreateSucceeds /\ OkMeansExecuted
    BY DEF DsInv, OneCreateSucceeds, OkMeansExecuted, TxFollowsCall, OneRegistration, Registers
  <2> QED BY <2>1, <2>2, <2>3, <2>4 DEF ClientsInv
<1>2. ClientsSpec => []Served
  BY <1>1, ClientsInitInv, ClientsNextInv, PTL DEF ClientsSpec
<1> QED BY <1>2, ClientsAreComponents, OverlapAloneLeaks, ConnectionSettles, ConnectionStaysUncut,
           OneTimerAtMost, LoginSignedByItsAddress, LoginAcceptedByServer, PTL

\* So do their actions: KILT's DIDs are those of the registry, and no step of
\* anyone changes the document of a DID that was deactivated at the contract.
THEOREM ClientsKeepDids == ClientsSpec => ImplementsRegistry /\ InactiveIsFinal
<1>1. ClientsInv /\ [ClientsNext]_parts =>
        [\A a \in DidAccounts :
            mdStatus[a] = "inactive" =>
                /\ mdStatus'[a] = "inactive" /\ mdUpdates'[a] = mdUpdates[a]
                /\ \A k \in EntryKinds : mdList'[k][a] = mdList[k][a]]_mdVars
  <2> SUFFICES ASSUME ClientsInv, [ClientsNext]_parts, ~UNCHANGED mdVars,
                      NEW a \in DidAccounts, mdStatus[a] = "inactive"
               PROVE  /\ mdStatus'[a] = "inactive" /\ mdUpdates'[a] = mdUpdates[a]
                      /\ \A k \in EntryKinds : mdList'[k][a] = mdList[k][a]
    OBVIOUS
  <2>1. \E b \in DidAccounts : ContractCall(b)
    BY StepIsOfPart, DsStepCalls DEF ClientsInv, MdNext
  <2> QED BY <2>1, CallLeavesInactive DEF ClientsInv, DsInv
<1>2. ClientsSpec => InactiveIsFinal
  BY <1>1, ClientsInitInv, ClientsNextInv, PTL DEF ClientsSpec, InactiveIsFinal
<1> QED BY <1>2, ClientsAreComponents, KiltDidImplementsRegistry, PTL
=============================================================================
