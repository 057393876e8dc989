---------------------------- MODULE KiltDidProofs ----------------------------
(***************************************************************************)
(* KiltDid implements DidRegistry, for any calls, DIDs and requests: the   *)
(* batch an update is turned into does to the document what the abstract   *)
(* operation says, in any order the sets are listed in, or nothing.        *)
(***************************************************************************)
EXTENDS KiltDid, FiniteSetTheorems, NaturalsInduction, WellFoundedInduction, TLAPS

\* A set of naturals that is not empty has a least element.
LEMMA LeastOf ==
    ASSUME NEW S \in SUBSET Nat, S # {}
    PROVE  \E i \in S : \A j \in S : i <= j
<1>1. PICK i \in S : \A j \in S : <<j, i>> \notin OpToRel(<, Nat)
  BY NatLessThanWellFounded, WFMin
<1>2. \A j \in S : ~(j < i)
  BY <1>1 DEF OpToRel
<1> QED BY <1>2

\* What holds at zero and is kept by every step below n holds up to n.
LEMMA UpTo ==
    ASSUME NEW n \in Nat, NEW S \in SUBSET (0..n), 0 \in S,
           \A i \in 0..(n - 1) : i \in S => (i + 1) \in S
    PROVE  S = 0..n
<1> DEFINE missing == (0..n) \ S
<1>1. SUFFICES ASSUME missing # {} PROVE FALSE
  OBVIOUS
<1>2. missing \in SUBSET Nat
  OBVIOUS
<1>3. PICK m \in missing : \A j \in missing : m <= j
  <2> HIDE DEF missing
  <2> QED BY <1>1, <1>2, LeastOf
<1>4. m # 0 /\ (m - 1) \in 0..(n - 1)
  OBVIOUS
<1>5. (m - 1) \in S
  BY <1>3, <1>4
<1> QED BY <1>3, <1>4, <1>5
-----------------------------------------------------------------------------
(* Batches.                                                                *)

Prefix(reg, xs, n, f) ==
    f = [i \in 0..n |-> IF i = 0 THEN reg ELSE BatchStep(f[i - 1], xs[i])]

\* The registries after each extrinsic exist.
LEMMA PrefixExists ==
    ASSUME NEW reg, NEW xs, NEW n \in Nat
    PROVE  \E f : Prefix(reg, xs, n, f)
<1> DEFINE S == {m \in 0..n : \E f : Prefix(reg, xs, m, f)}
<1>1. 0 \in S
  <2>1. Prefix(reg, xs, 0, [i \in 0..0 |-> reg])
    BY DEF Prefix
  <2> QED BY <2>1
<1>2. ASSUME NEW m \in 0..(n - 1), m \in S
      PROVE  (m + 1) \in S
  <2>1. PICK f : Prefix(reg, xs, m, f)
    BY <1>2
  <2> DEFINE g == [i \in 0..(m + 1) |->
                     IF i = m + 1 THEN BatchStep(f[m], xs[m + 1]) ELSE f[i]]
  <2>2. \A i \in 0..(m + 1) :
           g[i] = IF i = 0 THEN reg ELSE BatchStep(g[i - 1], xs[i])
    <3> SUFFICES ASSUME NEW i \in 0..(m + 1)
                 PROVE  g[i] = IF i = 0 THEN reg ELSE BatchStep(g[i - 1], xs[i])
      OBVIOUS
    <3>1. CASE i = m + 1
      <4>1. g[i] = BatchStep(f[m], xs[m + 1]) /\ i # 0 /\ i - 1 = m /\ g[i - 1] = f[m]
        BY <3>1
      <4> QED BY <4>1, <3>1
    <3>2. CASE i # m + 1
      <4>1. i \in 0..m /\ g[i] = f[i]
        BY <3>2
      <4>2. f[i] = IF i = 0 THEN reg ELSE BatchStep(f[i - 1], xs[i])
        BY <4>1, <2>1 DEF Prefix
      <4>3. i # 0 => g[i - 1] = f[i - 1]
        BY <3>2
      <4> QED BY <4>1, <4>2, <4>3
    <3> QED BY <3>1, <3>2
  <2>3. g = [i \in 0..(m + 1) |-> IF i = 0 THEN reg ELSE BatchStep(g[i - 1], xs[i])]
    <3> DEFINE h == [i \in 0..(m + 1) |-> IF i = 0 THEN reg ELSE BatchStep(g[i - 1], xs[i])]
    <3>1. \A i \in 0..(m + 1) : g[i] = h[i]
      BY <2>2
    <3> QED BY <3>1
  <2>4. Prefix(reg, xs, m + 1, g)
    BY <2>3 DEF Prefix
  <2>5. (m + 1) \in 0..n
    OBVIOUS
  <2> QED BY <2>4, <2>5
<1>3. S = 0..n
  <2>1. S \in SUBSET (0..n) /\ \A m \in 0..(n - 1) : m \in S => (m + 1) \in S
    BY <1>2
  <2> HIDE DEF S
  <2> QED BY <2>1, <1>1, UpTo
<1> QED BY <1>3

\* A batch runs its extrinsics one after the other.
LEMMA BatchRunSteps ==
    ASSUME NEW reg, NEW xs, Len(xs) \in Nat
    PROVE  /\ BatchRun(reg, xs)[0] = reg
           /\ \A i \in 1..Len(xs) :
                 BatchRun(reg, xs)[i] = BatchStep(BatchRun(reg, xs)[i - 1], xs[i])
<1> DEFINE run == BatchRun(reg, xs)
<1>1. \E f : Prefix(reg, xs, Len(xs), f)
  BY PrefixExists
<1>2. run = CHOOSE f : Prefix(reg, xs, Len(xs), f)
  BY DEF BatchRun, Prefix
<1>3. Prefix(reg, xs, Len(xs), run)
  BY <1>1, <1>2
<1>4. run = [i \in 0..Len(xs) |-> IF i = 0 THEN reg ELSE BatchStep(run[i - 1], xs[i])]
  BY <1>3 DEF Prefix
<1> HIDE DEF run
<1>5. run[0] = reg /\ \A i \in 1..Len(xs) : run[i] = BatchStep(run[i - 1], xs[i])
  BY <1>4
<1> QED BY <1>5 DEF run

\* Two batches in a row are one.
LEMMA BatchConcat ==
    ASSUME NEW reg, NEW T, NEW xs \in Seq(T), NEW ys \in Seq(T)
    PROVE  BatchAll(reg, xs \o ys) = BatchAll(BatchAll(reg, xs), ys)
<1> DEFINE m == Len(xs)
           n == Len(ys)
           all == BatchRun(reg, xs \o ys)
           first == BatchRun(reg, xs)
           second == BatchRun(first[m], ys)
<1>1. /\ m \in Nat /\ n \in Nat /\ Len(xs \o ys) = m + n
      /\ \A i \in 1..m : (xs \o ys)[i] = xs[i]
      /\ \A i \in 1..n : (xs \o ys)[m + i] = ys[i]
  OBVIOUS
<1>2. /\ all[0] = reg
      /\ \A i \in 1..(m + n) : all[i] = BatchStep(all[i - 1], (xs \o ys)[i])
  <2> DEFINE cat == xs \o ys
  <2>1. Len(cat) = m + n /\ m + n \in Nat
    BY <1>1
  <2>2. BatchRun(reg, cat)[0] = reg
        /\ \A i \in 1..Len(cat) : BatchRun(reg, cat)[i] = BatchStep(BatchRun(reg, cat)[i - 1], cat[i])
    <3> HIDE DEF cat
    <3> QED BY <2>1, BatchRunSteps
  <2> QED BY <2>1, <2>2
<1>3. first[0] = reg /\ \A i \in 1..m : first[i] = BatchStep(first[i - 1], xs[i])
  BY <1>1, BatchRunSteps
<1>4. second[0] = first[m] /\ \A i \in 1..n : second[i] = BatchStep(second[i - 1], ys[i])
  BY <1>1, BatchRunSteps
<1>5. BatchAll(reg, xs \o ys) = all[m + n]
  BY <1>1 DEF BatchAll
<1>6. BatchAll(BatchAll(reg, xs), ys) = second[n]
  BY DEF BatchAll
<1> DEFINE cat == xs \o ys
<1> HIDE DEF m, n, all, first, second, cat
<1>7. \A i \in 0..m : all[i] = first[i]
  <2> DEFINE S == {i \in 0..m : all[i] = first[i]}
  <2>1. \A i \in 0..(m - 1) : i \in S => (i + 1) \in S
    <3> SUFFICES ASSUME NEW i \in 0..(m - 1), all[i] = first[i]
                 PROVE  all[i + 1] = first[i + 1]
      BY <1>1
    <3>1. (i + 1) \in 1..m /\ (i + 1) \in 1..(m + n) /\ (i + 1) - 1 = i
      BY <1>1
    <3>2. all[i + 1] = BatchStep(all[i], cat[i + 1])
      BY <3>1, <1>2 DEF cat
    <3>3. first[i + 1] = BatchStep(first[i], xs[i + 1])
      BY <3>1, <1>3
    <3>4. cat[i + 1] = xs[i + 1]
      BY <3>1, <1>1 DEF cat
    <3> QED BY <3>2, <3>3, <3>4
  <2>2. 0 \in S
    BY <1>1, <1>2, <1>3
  <2>3. S = 0..m
    <3>1. S \in SUBSET (0..m)
      OBVIOUS
    <3> HIDE DEF S
    <3> QED BY <2>1, <2>2, <3>1, <1>1, UpTo
  <2> QED BY <2>3
<1>8. \A i \in 0..n : all[m + i] = second[i]
  <2> DEFINE S == {i \in 0..n : all[m + i] = second[i]}
  <2>1. \A i \in 0..(n - 1) : i \in S => (i + 1) \in S
    <3> SUFFICES ASSUME NEW i \in 0..(n - 1), all[m + i] = second[i]
                 PROVE  all[m + (i + 1)] = second[i + 1]
      BY <1>1
    <3>1. /\ (i + 1) \in 1..n /\ (m + (i + 1)) \in 1..(m + n)
          /\ (i + 1) - 1 = i /\ (m + (i + 1)) - 1 = m + i
      BY <1>1
    <3>2. all[m + (i + 1)] = BatchStep(all[m + i], cat[m + (i + 1)])
      BY <3>1, <1>2 DEF cat
    <3>3. second[i + 1] = BatchStep(second[i], ys[i + 1])
      BY <3>1, <1>4
    <3>4. cat[m + (i + 1)] = ys[i + 1]
      BY <3>1, <1>1 DEF cat
    <3> QED BY <3>2, <3>3, <3>4
  <2>2. 0 \in S
    BY <1>1, <1>4, <1>7
  <2>3. S = 0..n
    <3>1. S \in SUBSET (0..n)
      OBVIOUS
    <3> HIDE DEF S
    <3> QED BY <2>1, <2>2, <3>1, <1>1, UpTo
  <2> QED BY <2>3
<1> QED BY <1>1, <1>5, <1>6, <1>8

\* Once refused, a batch stays refused: every extrinsic of one that is not
\* refused was executed.
LEMMA NothingRefused ==
    ASSUME NEW reg, NEW xs, Len(xs) \in Nat, BatchAll(reg, xs) # KdRefused
    PROVE  \A i \in 0..Len(xs) : BatchRun(reg, xs)[i] # KdRefused
<1> DEFINE n == Len(xs)
           run == BatchRun(reg, xs)
           S == {i \in 0..n : run[n - i] # KdRefused}
<1>1. run[n] # KdRefused
  BY DEF BatchAll
<1>2. \A i \in 1..n : run[i] = BatchStep(run[i - 1], xs[i])
  BY BatchRunSteps
<1>3. \A i \in 0..(n - 1) : i \in S => (i + 1) \in S
  <2> SUFFICES ASSUME NEW i \in 0..(n - 1), run[n - i] # KdRefused
               PROVE  run[n - (i + 1)] # KdRefused
    OBVIOUS
  <2> HIDE DEF run, n
  <2>1. (n - i) \in 1..n /\ (n - i) - 1 = n - (i + 1)
    BY DEF n
  <2>2. run[n - i] = BatchStep(run[n - (i + 1)], xs[n - i])
    BY <2>1, <1>2
  <2> QED BY <2>2 DEF BatchStep
<1>4. S = 0..n
  <2>1. S \in SUBSET (0..n) /\ 0 \in S
    BY <1>1
  <2> HIDE DEF S, n
  <2>2. n \in Nat
    BY DEF n
  <2> QED BY <2>1, <2>2, <1>3, UpTo
<1>5. \A i \in 0..n : (n - i) \in S => run[i] # KdRefused
  <2> HIDE DEF run
  <2> QED OBVIOUS
<1>6. \A i \in 0..n : (n - i) \in 0..n
  OBVIOUS
<1> HIDE DEF S
<1> QED BY <1>4, <1>5, <1>6

\* A step that is not refused replaces one document.
LEMMA StepReplaces ==
    ASSUME NEW reg, NEW x, BatchStep(reg, x) # KdRefused
    PROVE  /\ PalletCall(reg[x.did], x) # KdRefused
           /\ BatchStep(reg, x) = [reg EXCEPT ![x.did] = PalletCall(reg[x.did], x)]
BY DEF BatchStep

\* A batch of one.
LEMMA BatchOfOne ==
    ASSUME NEW reg, NEW x
    PROVE  BatchAll(reg, <<x>>) = BatchStep(reg, x)
<1>1. Len(<<x>>) = 1 /\ <<x>>[1] = x
  OBVIOUS
<1> QED BY <1>1, BatchRunSteps DEF BatchAll

\* A batch of none.
LEMMA BatchOfNone ==
    ASSUME NEW reg, NEW xs, Len(xs) = 0
    PROVE  BatchAll(reg, xs) = reg
BY BatchRunSteps DEF BatchAll
-----------------------------------------------------------------------------
(* The sets of a request as lists.                                         *)

\* A set's list names every element and nothing else.
LEMMA ListOfSet ==
    ASSUME NEW S, IsFiniteSet(S)
    PROVE  LET a == SetToSeq(S)
           IN  /\ Len(a) \in Nat /\ a \in [1..Len(a) -> S] /\ a \in Seq(S)
               /\ S = {a[i] : i \in 1..Len(a)}
<1> DEFINE n == Cardinality(S)
           a == SetToSeq(S)
<1>1. n \in Nat /\ ExistsBijection(1..n, S)
  BY FS_CardinalityType
<1>2. \E f \in [1..n -> S] : IsInjective(f)
  BY <1>1 DEF ExistsBijection, Bijection, Injection, Surjection
<1>3. a \in [1..n -> S] /\ IsInjective(a)
  BY <1>2 DEF SetToSeq
<1> HIDE DEF a
<1>4. IsFiniteSet(1..n) /\ Cardinality(1..n) = n
  BY <1>1, FS_Interval
<1>5. a \in Injection(1..n, S)
  BY <1>3 DEF Injection
<1>6. a \in Surjection(1..n, S)
  BY <1>4, <1>5, FS_Injection
<1>7. Len(a) = n /\ a \in Seq(S)
  BY <1>1, <1>3
<1>8. S = {a[i] : i \in 1..n}
  BY <1>3, <1>6 DEF Surjection
<1> QED BY <1>1, <1>3, <1>7, <1>8 DEF a
-----------------------------------------------------------------------------
(* What each part of an update does to the document.                       *)

KdRegs == [KdDids -> KdDocs \cup {NoDid}]

\* The list Each builds.
LEMMA EachIsList ==
    ASSUME NEW call, NEW did, NEW S, IsFiniteSet(S),
           NEW a, a = SetToSeq(S), NEW xs, xs = Each(call, did, S)
    PROVE  /\ Len(xs) \in Nat /\ Len(xs) = Len(a)
           /\ \A i \in 1..Len(xs) : xs[i] = X(call, did, a[i]) /\ a[i] \in S
           /\ S = {a[i] : i \in 1..Len(xs)}
<1>1. /\ Len(a) \in Nat /\ a \in [1..Len(a) -> S]
      /\ S = {a[i] : i \in 1..Len(a)}
  BY ListOfSet
<1>2. xs = [i \in 1..Len(a) |-> X(call, did, a[i])]
  BY DEF Each
<1>3. Len(xs) = Len(a)
  BY <1>1, <1>2
<1>4. \A i \in 1..Len(xs) : xs[i] = X(call, did, a[i]) /\ a[i] \in S
  BY <1>1, <1>2, <1>3
<1> QED BY <1>1, <1>3, <1>4

LEMMA EachIsSeq ==
    ASSUME NEW call, NEW did, NEW S, IsFiniteSet(S),
           NEW T, \A v \in S : X(call, did, v) \in T
    PROVE  Each(call, did, S) \in Seq(T)
<1>a. PICK a : a = SetToSeq(S)
  OBVIOUS
<1>1. Len(a) \in Nat /\ a \in [1..Len(a) -> S]
  BY <1>a, ListOfSet
<1>2. Each(call, did, S) = [i \in 1..Len(a) |-> X(call, did, a[i])]
  BY <1>a DEF Each
<1>3. Each(call, did, S) \in [1..Len(a) -> T]
  BY <1>1, <1>2
<1> QED BY <1>1, <1>3

\* A call adds its argument to a field, or takes it from it.
CallAdds(call, did, field, S) ==
    \A doc \in KdDocs, v \in S :
        /\ PalletCall(doc, X(call, did, v)) = AddTo(doc, field, v)
        /\ [doc EXCEPT ![field] = @ \cup {v}] \in KdDocs
CallRemoves(call, did, field, S) ==
    \A doc \in KdDocs, v \in S :
        /\ PalletCall(doc, X(call, did, v)) = RemoveFrom(doc, field, v)
        /\ [doc EXCEPT ![field] = @ \ {v}] \in KdDocs

\* Additions: what is added was not there, and is afterwards.
LEMMA EachAdds ==
    ASSUME NEW reg \in KdRegs, NEW did \in KdDids, reg[did] \in KdDocs,
           NEW S, IsFiniteSet(S),
           NEW field \in {"methods", "services"}, NEW call, CallAdds(call, did, field, S),
           BatchAll(reg, Each(call, did, S)) # KdRefused
    PROVE  /\ reg[did][field] \cap S = {}
           /\ BatchAll(reg, Each(call, did, S))
                = [reg EXCEPT ![did] = [reg[did] EXCEPT ![field] = @ \cup S]]
<1>a. PICK a : a = SetToSeq(S)
  OBVIOUS
<1>b. PICK xs : xs = Each(call, did, S)
  OBVIOUS
<1> DEFINE n == Len(xs)
           run == BatchRun(reg, xs)
           doc0 == reg[did]
           Added(i) == {a[j] : j \in 1..i}
           docAt(i) == [doc0 EXCEPT ![field] = @ \cup Added(i)]
           Ok(i) == /\ doc0[field] \cap Added(i) = {}
                    /\ docAt(i) \in KdDocs
                    /\ run[i] = [reg EXCEPT ![did] = docAt(i)]
           good == {i \in 0..n : Ok(i)}
<1>1. /\ n \in Nat
      /\ \A i \in 1..n : xs[i] = X(call, did, a[i]) /\ a[i] \in S
      /\ S = {a[i] : i \in 1..n}
  BY <1>a, <1>b, EachIsList
<1>2. run[0] = reg /\ \A i \in 1..n : run[i] = BatchStep(run[i - 1], xs[i])
  BY <1>1, BatchRunSteps
<1>3. \A i \in 0..n : run[i] # KdRefused
  BY <1>1, <1>b, NothingRefused
<1>4. run[n] = BatchAll(reg, xs)
  BY DEF BatchAll
<1> HIDE DEF n, run
<1>5. doc0 = [doc0 EXCEPT ![field] = @ \cup {}] /\ reg = [reg EXCEPT ![did] = doc0]
  BY DEF KdDocs, KdRegs
<1>6. 0 \in good
  <2>1. Added(0) = {}
    OBVIOUS
  <2>2. docAt(0) = doc0
    BY <1>5, <2>1
  <2>3. Ok(0)
    <3> HIDE DEF docAt, Added, doc0
    <3> QED BY <1>2, <1>5, <2>1, <2>2 DEF doc0
  <2>4. 0 \in 0..n
    BY <1>1
  <2> HIDE DEF Ok
  <2> QED BY <2>3, <2>4
<1>7. ASSUME NEW i \in 0..(n - 1), Ok(i)
      PROVE  Ok(i + 1)
  <2> DEFINE d == docAt(i)
             v == a[i + 1]
  <2>1. /\ (i + 1) \in 1..n /\ (i + 1) - 1 = i /\ i \in 0..n /\ (i + 1) \in 0..n
    BY <1>1
  <2>2. run[i + 1] = BatchStep(run[i], X(call, did, v)) /\ v \in S
    BY <1>1, <1>2, <2>1
  <2>3. run[i][did] = d
    BY <1>7 DEF KdRegs
  <2>4. d[field] = doc0[field] \cup Added(i)
    BY DEF KdDocs
  <2>5. /\ PalletCall(d, X(call, did, v)) # KdRefused
        /\ run[i + 1] = [run[i] EXCEPT ![did] = PalletCall(d, X(call, did, v))]
    <3> HIDE DEF d, v
    <3>1. X(call, did, v).did = did
      BY DEF X
    <3>2. BatchStep(run[i], X(call, did, v)) # KdRefused
      BY <1>3, <2>1, <2>2
    <3> QED BY <2>2, <2>3, <3>1, <3>2, StepReplaces
  <2>6. /\ PalletCall(d, X(call, did, v)) = AddTo(d, field, v)
        /\ [d EXCEPT ![field] = @ \cup {v}] \in KdDocs
    <3>1. d \in KdDocs
      BY <1>7
    <3> HIDE DEF d, v
    <3> QED BY <2>2, <3>1 DEF CallAdds
  <2>7. v \notin d[field] /\ run[i + 1] = [run[i] EXCEPT ![did] = [d EXCEPT ![field] = @ \cup {v}]]
    <3> HIDE DEF d, v
    <3> QED BY <2>5, <2>6 DEF AddTo
  <2>8. Added(i + 1) = Added(i) \cup {v}
    BY <2>1
  <2>9. [d EXCEPT ![field] = @ \cup {v}] = docAt(i + 1)
    <3> HIDE DEF v
    <3> QED BY <2>8 DEF KdDocs
  <2>10. docAt(i + 1) \in KdDocs
    BY <2>6, <2>9
  <2>11. run[i + 1] = [reg EXCEPT ![did] = docAt(i + 1)]
    <3>1. run[i] = [reg EXCEPT ![did] = d]
      BY <1>7
    <3> HIDE DEF d, v
    <3> QED BY <2>7, <2>9, <3>1 DEF KdRegs
  <2>12. doc0[field] \cap Added(i + 1) = {}
    BY <1>7, <2>4, <2>7, <2>8
  <2> QED BY <2>10, <2>11, <2>12
<1>8. good = 0..n
  <2>1. good \in SUBSET (0..n) /\ \A i \in 0..(n - 1) : i \in good => (i + 1) \in good
    <3> HIDE DEF Ok
    <3> QED BY <1>1, <1>7
  <2> HIDE DEF good
  <2> QED BY <1>1, <1>6, <2>1, UpTo
<1>9. Ok(n)
  <2> HIDE DEF Ok
  <2> QED BY <1>1, <1>8
<1>10. Added(n) = S
  BY <1>1
<1> QED BY <1>b, <1>4, <1>9, <1>10

\* Removals: what is removed was there, and is not afterwards.
LEMMA EachRemoves ==
    ASSUME NEW reg \in KdRegs, NEW did \in KdDids, reg[did] \in KdDocs,
           NEW S, IsFiniteSet(S),
           NEW field \in {"methods", "services"}, NEW call, CallRemoves(call, did, field, S),
           BatchAll(reg, Each(call, did, S)) # KdRefused
    PROVE  /\ S \subseteq reg[did][field]
           /\ BatchAll(reg, Each(call, did, S))
                = [reg EXCEPT ![did] = [reg[did] EXCEPT ![field] = @ \ S]]
<1>a. PICK a : a = SetToSeq(S)
  OBVIOUS
<1>b. PICK xs : xs = Each(call, did, S)
  OBVIOUS
<1> DEFINE n == Len(xs)
           run == BatchRun(reg, xs)
           doc0 == reg[did]
           Gone(i) == {a[j] : j \in 1..i}
           docAt(i) == [doc0 EXCEPT ![field] = @ \ Gone(i)]
           Ok(i) == /\ Gone(i) \subseteq doc0[field]
                    /\ docAt(i) \in KdDocs
                    /\ run[i] = [reg EXCEPT ![did] = docAt(i)]
           good == {i \in 0..n : Ok(i)}
<1>1. /\ n \in Nat
      /\ \A i \in 1..n : xs[i] = X(call, did, a[i]) /\ a[i] \in S
      /\ S = {a[i] : i \in 1..n}
  BY <1>a, <1>b, EachIsList
<1>2. run[0] = reg /\ \A i \in 1..n : run[i] = BatchStep(run[i - 1], xs[i])
  BY <1>1, BatchRunSteps
<1>3. \A i \in 0..n : run[i] # KdRefused
  BY <1>1, <1>b, NothingRefused
<1>4. run[n] = BatchAll(reg, xs)
  BY DEF BatchAll
<1> HIDE DEF n, run
<1>5. doc0 = [doc0 EXCEPT ![field] = @ \ {}] /\ reg = [reg EXCEPT ![did] = doc0]
  BY DEF KdDocs, KdRegs
<1>6. 0 \in good
  <2>1. Gone(0) = {}
    OBVIOUS
  <2>2. docAt(0) = doc0
    BY <1>5, <2>1
  <2>3. Ok(0)
    <3> HIDE DEF docAt, Gone, doc0
    <3> QED BY <1>2, <1>5, <2>1, <2>2 DEF doc0
  <2>4. 0 \in 0..n
    BY <1>1
  <2> HIDE DEF Ok
  <2> QED BY <2>3, <2>4
<1>7. ASSUME NEW i \in 0..(n - 1), Ok(i)
      PROVE  Ok(i + 1)
  <2> DEFINE d == docAt(i)
             v == a[i + 1]
  <2>1. /\ (i + 1) \in 1..n /\ (i + 1) - 1 = i /\ i \in 0..n /\ (i + 1) \in 0..n
    BY <1>1
  <2>2. run[i + 1] = BatchStep(run[i], X(call, did, v)) /\ v \in S
    BY <1>1, <1>2, <2>1
  <2>3. run[i][did] = d
    BY <1>7 DEF KdRegs
  <2>4. d[field] = doc0[field] \ Gone(i)
    BY DEF KdDocs
  <2>5. /\ PalletCall(d, X(call, did, v)) # KdRefused
        /\ run[i + 1] = [run[i] EXCEPT ![did] = PalletCall(d, X(call, did, v))]
    <3> HIDE DEF d, v
    <3>1. X(call, did, v).did = did
      BY DEF X
    <3>2. BatchStep(run[i], X(call, did, v)) # KdRefused
      BY <1>3, <2>1, <2>2
    <3> QED BY <2>2, <2>3, <3>1, <3>2, StepReplaces
  <2>6. /\ PalletCall(d, X(call, did, v)) = RemoveFrom(d, field, v)
        /\ [d EXCEPT ![field] = @ \ {v}] \in KdDocs
    <3>1. d \in KdDocs
      BY <1>7
    <3> HIDE DEF d, v
    <3> QED BY <2>2, <3>1 DEF CallRemoves
  <2>7. v \in d[field] /\ run[i + 1] = [run[i] EXCEPT ![did] = [d EXCEPT ![field] = @ \ {v}]]
    <3> HIDE DEF d, v
    <3> QED BY <2>5, <2>6 DEF RemoveFrom
  <2>8. Gone(i + 1) = Gone(i) \cup {v}
    BY <2>1
  <2>9. [d EXCEPT ![field] = @ \ {v}] = docAt(i + 1)
    <3> HIDE DEF v
    <3> QED BY <2>8 DEF KdDocs
  <2>10. docAt(i + 1) \in KdDocs
    BY <2>6, <2>9
  <2>11. run[i + 1] = [reg EXCEPT ![did] = docAt(i + 1)]
    <3>1. run[i] = [reg EXCEPT ![did] = d]
      BY <1>7
    <3> HIDE DEF d, v
    <3> QED BY <2>7, <2>9, <3>1 DEF KdRegs
  <2>12. Gone(i + 1) \subseteq doc0[field]
    BY <1>7, <2>4, <2>7, <2>8
  <2> QED BY <2>10, <2>11, <2>12
<1>8. good = 0..n
  <2>1. good \in SUBSET (0..n) /\ \A i \in 0..(n - 1) : i \in good => (i + 1) \in good
    <3> HIDE DEF Ok
    <3> QED BY <1>1, <1>7
  <2> HIDE DEF good
  <2> QED BY <1>1, <1>6, <2>1, UpTo
<1>9. Ok(n)
  <2> HIDE DEF Ok
  <2> QED BY <1>1, <1>8
<1>10. Gone(n) = S
  BY <1>1
<1> QED BY <1>b, <1>4, <1>9, <1>10

\* Nothing follows a refused batch.
LEMMA RefusedStays ==
    ASSUME NEW reg, NEW xs, Len(xs) \in Nat, BatchAll(reg, xs) # KdRefused
    PROVE  reg # KdRefused
BY NothingRefused, BatchRunSteps

\* A DID that does not exist can only be created.
LEMMA NothingOnNoDid ==
    ASSUME NEW reg, NEW did, reg[did] = NoDid,
           NEW xs, Len(xs) \in Nat, Len(xs) # 0,
           xs[1].did = did, xs[1].call # "create"
    PROVE  BatchAll(reg, xs) = KdRefused
<1> SUFFICES ASSUME BatchAll(reg, xs) # KdRefused PROVE FALSE
  OBVIOUS
<1>1. 1 \in 1..Len(xs) /\ 1 \in 0..Len(xs) /\ 1 - 1 = 0
  OBVIOUS
<1>2. BatchRun(reg, xs)[1] = BatchStep(reg, xs[1])
  BY <1>1, BatchRunSteps
<1>3. PalletCall(reg[did], xs[1]) = KdRefused
  BY DEF PalletCall
<1>4. BatchStep(reg, xs[1]) = KdRefused
  BY <1>3 DEF BatchStep
<1> QED BY <1>1, <1>2, <1>4, NothingRefused

\* The four calls that change a set.
LEMMA SetCalls ==
    ASSUME NEW did, NEW S \in SUBSET KdIds
    PROVE  /\ CallAdds("addVerificationMethod", did, "methods", S)
           /\ CallRemoves("removeVerificationMethod", did, "methods", S)
           /\ CallAdds("addService", did, "services", S)
           /\ CallRemoves("removeService", did, "services", S)
<1>1. NoDid \notin KdDocs
  BY KdAssumption
<1>2. ASSUME NEW doc \in KdDocs, NEW v \in S
      PROVE  /\ PalletCall(doc, X("addVerificationMethod", did, v)) = AddTo(doc, "methods", v)
             /\ PalletCall(doc, X("removeVerificationMethod", did, v)) = RemoveFrom(doc, "methods", v)
             /\ PalletCall(doc, X("addService", did, v)) = AddTo(doc, "services", v)
             /\ PalletCall(doc, X("removeService", did, v)) = RemoveFrom(doc, "services", v)
  BY <1>1 DEF PalletCall, X
<1>3. ASSUME NEW doc \in KdDocs, NEW v \in S
      PROVE  /\ [doc EXCEPT !["methods"] = @ \cup {v}] \in KdDocs
             /\ [doc EXCEPT !["methods"] = @ \ {v}] \in KdDocs
             /\ [doc EXCEPT !["services"] = @ \cup {v}] \in KdDocs
             /\ [doc EXCEPT !["services"] = @ \ {v}] \in KdDocs
  <2>1. v \in KdIds
    OBVIOUS
  <2> QED BY <2>1 DEF KdDocs
<1> QED BY <1>2, <1>3 DEF CallAdds, CallRemoves

\* What each of the four lists does.
LEMMA MethodsAdded ==
    ASSUME NEW reg \in KdRegs, NEW did \in KdDids,
           NEW doc \in KdDocs, reg[did] = doc,
           NEW S \in SUBSET KdIds, IsFiniteSet(S),
           NEW out, out = BatchAll(reg, Each("addVerificationMethod", did, S)),
           out # KdRefused,
           NEW new, new = [doc EXCEPT !.methods = @ \cup S]
    PROVE  /\ doc.methods \cap S = {}
           /\ out = [reg EXCEPT ![did] = new]
<1>1. PICK f \in {"methods", "services"} : f = "methods"
  OBVIOUS
<1>2. PICK call : call = "addVerificationMethod"
  OBVIOUS
<1>3. CallAdds(call, did, f, S)
  BY <1>1, <1>2, SetCalls
<1>4. BatchAll(reg, Each(call, did, S)) # KdRefused
  BY <1>2
<1>5. /\ reg[did][f] \cap S = {}
      /\ BatchAll(reg, Each(call, did, S)) = [reg EXCEPT ![did] = [reg[did] EXCEPT ![f] = @ \cup S]]
  BY <1>3, <1>4, EachAdds
<1> QED BY <1>1, <1>2, <1>5

LEMMA MethodsRemoved ==
    ASSUME NEW reg \in KdRegs, NEW did \in KdDids,
           NEW doc \in KdDocs, reg[did] = doc,
           NEW S \in SUBSET KdIds, IsFiniteSet(S),
           NEW out, out = BatchAll(reg, Each("removeVerificationMethod", did, S)),
           out # KdRefused,
           NEW new, new = [doc EXCEPT !.methods = @ \ S]
    PROVE  /\ S \subseteq doc.methods
           /\ out = [reg EXCEPT ![did] = new]
<1>1. PICK f \in {"methods", "services"} : f = "methods"
  OBVIOUS
<1>2. PICK call : call = "removeVerificationMethod"
  OBVIOUS
<1>3. CallRemoves(call, did, f, S)
  BY <1>1, <1>2, SetCalls
<1>4. BatchAll(reg, Each(call, did, S)) # KdRefused
  BY <1>2
<1>5. /\ S \subseteq reg[did][f]
      /\ BatchAll(reg, Each(call, did, S)) = [reg EXCEPT ![did] = [reg[did] EXCEPT ![f] = @ \ S]]
  BY <1>3, <1>4, EachRemoves
<1> QED BY <1>1, <1>2, <1>5

LEMMA ServicesAdded ==
    ASSUME NEW reg \in KdRegs, NEW did \in KdDids,
           NEW doc \in KdDocs, reg[did] = doc,
           NEW S \in SUBSET KdIds, IsFiniteSet(S),
           NEW out, out = BatchAll(reg, Each("addService", did, S)),
           out # KdRefused,
           NEW new, new = [doc EXCEPT !.services = @ \cup S]
    PROVE  /\ doc.services \cap S = {}
           /\ out = [reg EXCEPT ![did] = new]
<1>1. PICK f \in {"methods", "services"} : f = "services"
  OBVIOUS
<1>2. PICK call : call = "addService"
  OBVIOUS
<1>3. CallAdds(call, did, f, S)
  BY <1>1, <1>2, SetCalls
<1>4. BatchAll(reg, Each(call, did, S)) # KdRefused
  BY <1>2
<1>5. /\ reg[did][f] \cap S = {}
      /\ BatchAll(reg, Each(call, did, S)) = [reg EXCEPT ![did] = [reg[did] EXCEPT ![f] = @ \cup S]]
  BY <1>3, <1>4, EachAdds
<1> QED BY <1>1, <1>2, <1>5

LEMMA ServicesRemoved ==
    ASSUME NEW reg \in KdRegs, NEW did \in KdDids,
           NEW doc \in KdDocs, reg[did] = doc,
           NEW S \in SUBSET KdIds, IsFiniteSet(S),
           NEW out, out = BatchAll(reg, Each("removeService", did, S)),
           out # KdRefused,
           NEW new, new = [doc EXCEPT !.services = @ \ S]
    PROVE  /\ S \subseteq doc.services
           /\ out = [reg EXCEPT ![did] = new]
<1>1. PICK f \in {"methods", "services"} : f = "services"
  OBVIOUS
<1>2. PICK call : call = "removeService"
  OBVIOUS
<1>3. CallRemoves(call, did, f, S)
  BY <1>1, <1>2, SetCalls
<1>4. BatchAll(reg, Each(call, did, S)) # KdRefused
  BY <1>2
<1>5. /\ S \subseteq reg[did][f]
      /\ BatchAll(reg, Each(call, did, S)) = [reg EXCEPT ![did] = [reg[did] EXCEPT ![f] = @ \ S]]
  BY <1>3, <1>4, EachRemoves
<1> QED BY <1>1, <1>2, <1>5

\* One field set, or left alone.
LEMMA GivenSets ==
    ASSUME NEW reg \in KdRegs, NEW did \in KdDids, NEW doc \in KdDocs, reg[did] = doc,
           NEW arg, NEW call,
           NEW new, new = IF arg = NoRequest THEN doc ELSE PalletCall(doc, X(call, did, arg)),
           NEW out, out = BatchAll(reg, Given(call, did, arg)), out # KdRefused
    PROVE  out = [reg EXCEPT ![did] = new]
<1>1. CASE arg = NoRequest
  <2>1. Given(call, did, arg) = <<>> /\ Len(<<>>) = 0
    BY <1>1 DEF Given
  <2>2. BatchAll(reg, Given(call, did, arg)) = reg
    BY <2>1, BatchOfNone
  <2> QED BY <1>1, <2>2 DEF KdRegs
<1>2. CASE arg # NoRequest
  <2>1. Given(call, did, arg) = <<X(call, did, arg)>>
    BY <1>2 DEF Given
  <2>2. BatchAll(reg, Given(call, did, arg)) = BatchStep(reg, X(call, did, arg))
    BY <2>1, BatchOfOne
  <2>3. X(call, did, arg).did = did
    BY DEF X
  <2> QED BY <1>2, <2>2, <2>3, StepReplaces
<1> QED BY <1>1, <1>2

\* The parts of an update are lists of extrinsics.
LEMMA PartsAreSeqs ==
    ASSUME NEW r, IsFiniteSet(r.add), IsFiniteSet(r.remove),
           IsFiniteSet(r.addServices), IsFiniteSet(r.removeServices)
    PROVE  \E T :
              /\ Each("addVerificationMethod", r.did, r.add) \in Seq(T)
              /\ Each("removeVerificationMethod", r.did, r.remove) \in Seq(T)
              /\ Each("addService", r.did, r.addServices) \in Seq(T)
              /\ Each("removeService", r.did, r.removeServices) \in Seq(T)
              /\ Given("setController", r.did, r.controller) \in Seq(T)
              /\ Given("updateMetadata", r.did, r.metadata) \in Seq(T)
              /\ \A x \in T : x.did = r.did /\ x.call # "create"
<1> DEFINE calls == {"addVerificationMethod", "removeVerificationMethod", "addService",
                     "removeService", "setController", "updateMetadata"}
           args == r.add \cup r.remove \cup r.addServices \cup r.removeServices
                   \cup {r.controller, r.metadata}
           T == [call : calls, did : {r.did}, arg : args]
<1>1. \A call \in calls, v \in args : X(call, r.did, v) \in T
  BY DEF X
<1>2. \A x \in T : x.did = r.did /\ x.call # "create"
  OBVIOUS
<1>3. /\ r.add \subseteq args /\ r.remove \subseteq args
      /\ r.addServices \subseteq args /\ r.removeServices \subseteq args
      /\ r.controller \in args /\ r.metadata \in args
  OBVIOUS
<1> HIDE DEF T, args
<1>4. \A call \in calls, v \in args : <<X(call, r.did, v)>> \in Seq(T) /\ <<>> \in Seq(T)
  BY <1>1
<1>5. /\ Given("setController", r.did, r.controller) \in Seq(T)
      /\ Given("updateMetadata", r.did, r.metadata) \in Seq(T)
  BY <1>3, <1>4 DEF Given
<1>6. /\ Each("addVerificationMethod", r.did, r.add) \in Seq(T)
      /\ Each("removeVerificationMethod", r.did, r.remove) \in Seq(T)
      /\ Each("addService", r.did, r.addServices) \in Seq(T)
      /\ Each("removeService", r.did, r.removeServices) \in Seq(T)
  BY <1>1, <1>3, EachIsSeq
<1> QED BY <1>2, <1>5, <1>6

\* What an update asks of a document, and makes of it.
UpdateFits(doc, r) ==
    /\ doc.methods \cap r.add = {} /\ r.remove \subseteq doc.methods \cup r.add
    /\ doc.services \cap r.addServices = {}
    /\ r.removeServices \subseteq doc.services \cup r.addServices

AfterUpdate(doc, r) ==
    [methods |-> (doc.methods \cup r.add) \ r.remove,
     services |-> (doc.services \cup r.addServices) \ r.removeServices,
     controller |-> IF r.controller = NoRequest THEN doc.controller ELSE r.controller,
     metadata |-> IF r.metadata = NoRequest THEN doc.metadata ELSE r.metadata]

\* An update of the pallet service that is executed fits, and does to the
\* document what it says.
LEMMA PalletUpdate ==
    ASSUME NEW reg \in KdRegs, NEW r, r.op \notin {"create", "delete"},
           r.did \in KdDids, reg[r.did] \in KdDocs,
           r.add \subseteq KdIds, r.remove \subseteq KdIds,
           r.addServices \subseteq KdIds, r.removeServices \subseteq KdIds,
           r.controller \in KdControllers, r.metadata \in KdMetadata,
           IsFiniteSet(r.add), IsFiniteSet(r.remove),
           IsFiniteSet(r.addServices), IsFiniteSet(r.removeServices),
           BatchAll(reg, PalletExtrinsics(r)) # KdRefused
    PROVE  /\ UpdateFits(reg[r.did], r)
           /\ BatchAll(reg, PalletExtrinsics(r))
                = [reg EXCEPT ![r.did] = AfterUpdate(reg[r.did], r)]
<1>d. PICK did \in KdDids : did = r.did
  OBVIOUS
<1>e. PICK doc0 \in KdDocs : doc0 = reg[did]
  BY <1>d
<1>a. PICK xs1, xs2, xs3, xs4, xs5, xs6 :
         /\ xs1 = Each("addVerificationMethod", did, r.add)
         /\ xs2 = Each("removeVerificationMethod", did, r.remove)
         /\ xs3 = Each("addService", did, r.addServices)
         /\ xs4 = Each("removeService", did, r.removeServices)
         /\ xs5 = Given("setController", did, r.controller)
         /\ xs6 = Given("updateMetadata", did, r.metadata)
  OBVIOUS
<1>b. PICK reg1, reg2, reg3, reg4, reg5, reg6 :
         /\ reg1 = BatchAll(reg, xs1) /\ reg2 = BatchAll(reg1, xs2)
         /\ reg3 = BatchAll(reg2, xs3) /\ reg4 = BatchAll(reg3, xs4)
         /\ reg5 = BatchAll(reg4, xs5) /\ reg6 = BatchAll(reg5, xs6)
  OBVIOUS
<1>c. PICK doc1, doc2, doc3, doc4, doc5, doc6 :
         /\ doc1 = [doc0 EXCEPT !.methods = @ \cup r.add]
         /\ doc2 = [doc1 EXCEPT !.methods = @ \ r.remove]
         /\ doc3 = [doc2 EXCEPT !.services = @ \cup r.addServices]
         /\ doc4 = [doc3 EXCEPT !.services = @ \ r.removeServices]
         /\ doc5 = IF r.controller = NoRequest THEN doc4
                   ELSE [doc4 EXCEPT !.controller = r.controller]
         /\ doc6 = IF r.metadata = NoRequest THEN doc5
                   ELSE [doc5 EXCEPT !.metadata = r.metadata]
  OBVIOUS
<1>1. PICK T : /\ xs1 \in Seq(T) /\ xs2 \in Seq(T) /\ xs3 \in Seq(T)
               /\ xs4 \in Seq(T) /\ xs5 \in Seq(T) /\ xs6 \in Seq(T)
  BY <1>a, <1>d, PartsAreSeqs
<1>2. PalletExtrinsics(r) = xs1 \o xs2 \o xs3 \o xs4 \o xs5 \o xs6
  BY <1>a, <1>d DEF PalletExtrinsics
<1>3. BatchAll(reg, PalletExtrinsics(r)) = reg6
  <2>1. PICK ys2 : ys2 = xs1 \o xs2
    OBVIOUS
  <2>2. PICK ys3 : ys3 = ys2 \o xs3
    OBVIOUS
  <2>3. PICK ys4 : ys4 = ys3 \o xs4
    OBVIOUS
  <2>4. PICK ys5 : ys5 = ys4 \o xs5
    OBVIOUS
  <2>5. ys2 \in Seq(T) /\ BatchAll(reg, ys2) = reg2
    BY <1>1, <1>b, <2>1, BatchConcat
  <2>6. ys3 \in Seq(T) /\ BatchAll(reg, ys3) = reg3
    BY <1>1, <1>b, <2>2, <2>5, BatchConcat
  <2>7. ys4 \in Seq(T) /\ BatchAll(reg, ys4) = reg4
    BY <1>1, <1>b, <2>3, <2>6, BatchConcat
  <2>8. ys5 \in Seq(T) /\ BatchAll(reg, ys5) = reg5
    BY <1>1, <1>b, <2>4, <2>7, BatchConcat
  <2>9. BatchAll(reg, ys5 \o xs6) = reg6
    BY <1>1, <1>b, <2>8, BatchConcat
  <2> QED BY <1>2, <2>1, <2>2, <2>3, <2>4, <2>9
<1>4. /\ Len(xs1) \in Nat /\ Len(xs2) \in Nat /\ Len(xs3) \in Nat
      /\ Len(xs4) \in Nat /\ Len(xs5) \in Nat /\ Len(xs6) \in Nat
  <2> QED BY <1>1
<1>5. /\ reg6 # KdRefused /\ reg5 # KdRefused /\ reg4 # KdRefused
      /\ reg3 # KdRefused /\ reg2 # KdRefused /\ reg1 # KdRefused
  <2>1. reg6 # KdRefused
    BY <1>3
  <2>2. reg5 # KdRefused
    BY <1>b, <1>4, <2>1, RefusedStays
  <2>3. reg4 # KdRefused
    BY <1>b, <1>4, <2>2, RefusedStays
  <2>4. reg3 # KdRefused
    BY <1>b, <1>4, <2>3, RefusedStays
  <2>5. reg2 # KdRefused
    BY <1>b, <1>4, <2>4, RefusedStays
  <2>6. reg1 # KdRefused
    BY <1>b, <1>4, <2>5, RefusedStays
  <2> QED BY <2>1, <2>2, <2>3, <2>4, <2>5, <2>6
<1>6. doc1 \in KdDocs /\ doc2 \in KdDocs /\ doc3 \in KdDocs /\ doc4 \in KdDocs
  BY <1>c DEF KdDocs
<1>7. doc5 \in KdDocs
  BY <1>c, <1>6 DEF KdDocs
<1>8. \A doc \in KdDocs : [reg EXCEPT ![did] = doc] \in KdRegs
                          /\ [reg EXCEPT ![did] = doc][did] = doc
  BY DEF KdRegs
<1>9. \A doc, new : [[reg EXCEPT ![did] = doc] EXCEPT ![did] = new] = [reg EXCEPT ![did] = new]
  BY DEF KdRegs
<1>10. doc0.methods \cap r.add = {} /\ reg1 = [reg EXCEPT ![did] = doc1]
  <2>1. reg \in KdRegs /\ reg[did] = doc0 /\ doc0 \in KdDocs
    BY <1>e
  <2>2. reg1 = BatchAll(reg, Each("addVerificationMethod", did, r.add)) /\ reg1 # KdRefused
    BY <1>a, <1>b, <1>5
  <2>3. doc1 = [doc0 EXCEPT !.methods = @ \cup r.add]
    BY <1>c
  <2>4. doc0.methods \cap r.add = {} /\ reg1 = [reg EXCEPT ![did] = doc1]
    BY <2>1, <2>2, <2>3, MethodsAdded
  <2> QED BY <2>4
<1>11. r.remove \subseteq doc1.methods /\ reg2 = [reg EXCEPT ![did] = doc2]
  <2>1. reg1 \in KdRegs /\ reg1[did] = doc1 /\ doc1 \in KdDocs
    BY <1>6, <1>8, <1>10
  <2>2. reg2 = BatchAll(reg1, Each("removeVerificationMethod", did, r.remove)) /\ reg2 # KdRefused
    BY <1>a, <1>b, <1>5
  <2>3. doc2 = [doc1 EXCEPT !.methods = @ \ r.remove]
    BY <1>c
  <2>4. r.remove \subseteq doc1.methods /\ reg2 = [reg1 EXCEPT ![did] = doc2]
    BY <2>1, <2>2, <2>3, MethodsRemoved
  <2> QED BY <1>9, <1>10, <2>4
<1>12. doc2.services \cap r.addServices = {} /\ reg3 = [reg EXCEPT ![did] = doc3]
  <2>1. reg2 \in KdRegs /\ reg2[did] = doc2 /\ doc2 \in KdDocs
    BY <1>6, <1>8, <1>11
  <2>2. reg3 = BatchAll(reg2, Each("addService", did, r.addServices)) /\ reg3 # KdRefused
    BY <1>a, <1>b, <1>5
  <2>3. doc3 = [doc2 EXCEPT !.services = @ \cup r.addServices]
    BY <1>c
  <2>4. doc2.services \cap r.addServices = {} /\ reg3 = [reg2 EXCEPT ![did] = doc3]
    BY <2>1, <2>2, <2>3, ServicesAdded
  <2> QED BY <1>9, <1>11, <2>4
<1>13. r.removeServices \subseteq doc3.services /\ reg4 = [reg EXCEPT ![did] = doc4]
  <2>1. reg3 \in KdRegs /\ reg3[did] = doc3 /\ doc3 \in KdDocs
    BY <1>6, <1>8, <1>12
  <2>2. reg4 = BatchAll(reg3, Each("removeService", did, r.removeServices)) /\ reg4 # KdRefused
    BY <1>a, <1>b, <1>5
  <2>3. doc4 = [doc3 EXCEPT !.services = @ \ r.removeServices]
    BY <1>c
  <2>4. r.removeServices \subseteq doc3.services /\ reg4 = [reg3 EXCEPT ![did] = doc4]
    BY <2>1, <2>2, <2>3, ServicesRemoved
  <2> QED BY <1>9, <1>12, <2>4
<1>14. reg5 = [reg EXCEPT ![did] = doc5]
  <2>1. reg4 \in KdRegs /\ reg4[did] = doc4 /\ doc4 \in KdDocs
    BY <1>6, <1>8, <1>13
  <2>2. reg5 = BatchAll(reg4, Given("setController", did, r.controller)) /\ reg5 # KdRefused
    BY <1>a, <1>b, <1>5
  <2>3. PalletCall(doc4, X("setController", did, r.controller)) = [doc4 EXCEPT !.controller = r.controller]
    BY <2>1, KdAssumption DEF PalletCall, X
  <2>4. doc5 = IF r.controller = NoRequest THEN doc4
                ELSE PalletCall(doc4, X("setController", did, r.controller))
    BY <1>c, <2>3
  <2>5. reg5 = [reg4 EXCEPT ![did] = doc5]
    BY <2>1, <2>2, <2>4, GivenSets
  <2> QED BY <1>9, <1>13, <2>5
<1>15. reg6 = [reg EXCEPT ![did] = doc6]
  <2>1. reg5 \in KdRegs /\ reg5[did] = doc5 /\ doc5 \in KdDocs
    BY <1>7, <1>8, <1>14
  <2>2. reg6 = BatchAll(reg5, Given("updateMetadata", did, r.metadata)) /\ reg6 # KdRefused
    BY <1>a, <1>b, <1>5
  <2>3. PalletCall(doc5, X("updateMetadata", did, r.metadata)) = [doc5 EXCEPT !.metadata = r.metadata]
    BY <2>1, KdAssumption DEF PalletCall, X
  <2>4. doc6 = IF r.metadata = NoRequest THEN doc5
                ELSE PalletCall(doc5, X("updateMetadata", did, r.metadata))
    BY <1>c, <2>3
  <2>5. reg6 = [reg5 EXCEPT ![did] = doc6]
    BY <2>1, <2>2, <2>4, GivenSets
  <2> QED BY <1>9, <1>14, <2>5
<1>16. doc6 = AfterUpdate(doc0, r)
  BY <1>c DEF AfterUpdate, KdDocs
<1>17. UpdateFits(doc0, r)
  <2>1. doc1.methods = doc0.methods \cup r.add /\ doc2.services = doc0.services
        /\ doc3.services = doc0.services \cup r.addServices
    BY <1>c DEF KdDocs
  <2> QED BY <1>10, <1>11, <1>12, <1>13, <2>1 DEF UpdateFits
<1> QED BY <1>d, <1>e, <1>3, <1>15, <1>16, <1>17
-----------------------------------------------------------------------------
(* What the transaction of a request does.                                 *)

\* What the provider leaves out of an update.
Effective(r) ==
    IF r.by = "provider" THEN [r EXCEPT !.add = @ \ KdIncomplete, !.addServices = @ \ KdIncomplete]
    ELSE r

LEMMA RequestTypes ==
    ASSUME NEW r \in KdRequests
    PROVE  /\ r.by \in {"pallet", "batch", "provider"}
           /\ r.op \in {"create", "delete", "update", "batch"}
           /\ r.op = "batch" <=> r.by = "batch"
           /\ r.by = "pallet" => r.account = r.did
           /\ r.by = "provider" => r.op \in {"create", "update"}
           /\ r.did \in KdDids /\ r.account \in KdDids
           /\ r.add \subseteq KdIds /\ r.remove \subseteq KdIds
           /\ r.addServices \subseteq KdIds /\ r.removeServices \subseteq KdIds
           /\ r.controller \in KdControllers /\ r.metadata \in KdMetadata
           /\ r.operations \in Seq(KdOperations)
           /\ IsFiniteSet(r.add) /\ IsFiniteSet(r.remove)
           /\ IsFiniteSet(r.addServices) /\ IsFiniteSet(r.removeServices)
<1>1. r \in KdRequest /\ (r.op = "batch" <=> r.by = "batch")
      /\ (r.by = "pallet" => r.account = r.did)
      /\ (r.by = "provider" => r.op \in {"create", "update"})
  BY KdAssumption
<1>2. /\ r.add \subseteq KdIds /\ r.remove \subseteq KdIds
      /\ r.addServices \subseteq KdIds /\ r.removeServices \subseteq KdIds
  BY <1>1 DEF KdRequest
<1>3. /\ IsFiniteSet(r.add) /\ IsFiniteSet(r.remove)
      /\ IsFiniteSet(r.addServices) /\ IsFiniteSet(r.removeServices)
  BY <1>2, KdAssumption, FS_Subset
<1> QED BY <1>1, <1>2, <1>3 DEF KdRequest

LEMMA EffectiveIs ==
    ASSUME NEW r \in KdRequests
    PROVE  LET e == Effective(r)
           IN  /\ e.op = r.op /\ e.did = r.did /\ e.controller = r.controller
               /\ e.metadata = r.metadata /\ e.remove = r.remove
               /\ e.removeServices = r.removeServices
               /\ e.add = Registry!Adds(r, r.add)
               /\ e.addServices = Registry!Adds(r, r.addServices)
               /\ e.add \subseteq KdIds /\ e.addServices \subseteq KdIds
               /\ e.remove \subseteq KdIds /\ e.removeServices \subseteq KdIds
               /\ IsFiniteSet(e.add) /\ IsFiniteSet(e.remove)
               /\ IsFiniteSet(e.addServices) /\ IsFiniteSet(e.removeServices)
<1>1. /\ r \in KdRequest
      /\ r.add \subseteq KdIds /\ r.remove \subseteq KdIds
      /\ r.addServices \subseteq KdIds /\ r.removeServices \subseteq KdIds
      /\ IsFiniteSet(r.add) /\ IsFiniteSet(r.remove)
      /\ IsFiniteSet(r.addServices) /\ IsFiniteSet(r.removeServices)
  BY KdAssumption, RequestTypes
<1>2. IsFiniteSet(r.add \ KdIncomplete) /\ IsFiniteSet(r.addServices \ KdIncomplete)
  BY <1>1, FS_Subset
<1>3. CASE r.by = "provider"
  BY <1>1, <1>2, <1>3 DEF Effective, Registry!Adds, KdRequest
<1>4. CASE r.by # "provider"
  BY <1>1, <1>4 DEF Effective, Registry!Adds
<1> QED BY <1>3, <1>4

\* An update that is executed is of a DID that exists, and fits.
LEMMA UpdateTakes ==
    ASSUME NEW reg \in KdRegs, NEW r \in KdRequests, r.op = "update",
           Extrinsics(r) # <<>>,
           NEW new, new = BatchAll(reg, Extrinsics(r)), new # KdRefused
    PROVE  /\ reg[r.did] # NoDid /\ Registry!Fits(reg[r.did], r)
           /\ new = [reg EXCEPT ![r.did] = Registry!Updated(reg[r.did], r)]
           /\ new \in KdRegs
<1>1. PICK e : e = Effective(r)
  OBVIOUS
<1>2. /\ e.op = "update" /\ e.did = r.did /\ e.controller = r.controller
      /\ e.metadata = r.metadata /\ e.remove = r.remove /\ e.removeServices = r.removeServices
      /\ e.add = Registry!Adds(r, r.add)
      /\ e.addServices = Registry!Adds(r, r.addServices)
      /\ e.add \subseteq KdIds /\ e.addServices \subseteq KdIds
      /\ e.remove \subseteq KdIds /\ e.removeServices \subseteq KdIds
      /\ IsFiniteSet(e.add) /\ IsFiniteSet(e.remove)
      /\ IsFiniteSet(e.addServices) /\ IsFiniteSet(e.removeServices)
  BY <1>1, EffectiveIs
<1>3. /\ r.did \in KdDids /\ r.controller \in KdControllers /\ r.metadata \in KdMetadata
      /\ r.by \in {"pallet", "provider"}
  BY RequestTypes
<1>4. Extrinsics(r) = PalletExtrinsics(e)
  BY <1>1, <1>3 DEF Extrinsics, ProviderExtrinsics, Effective
<1>5. PICK xs : xs = PalletExtrinsics(e)
  OBVIOUS
<1>6. PICK T : xs \in Seq(T) /\ \A x \in T : x.did = e.did /\ x.call # "create"
  <2>1. PICK T :
              /\ Each("addVerificationMethod", e.did, e.add) \in Seq(T)
              /\ Each("removeVerificationMethod", e.did, e.remove) \in Seq(T)
              /\ Each("addService", e.did, e.addServices) \in Seq(T)
              /\ Each("removeService", e.did, e.removeServices) \in Seq(T)
              /\ Given("setController", e.did, e.controller) \in Seq(T)
              /\ Given("updateMetadata", e.did, e.metadata) \in Seq(T)
              /\ \A x \in T : x.did = e.did /\ x.call # "create"
    BY <1>2, PartsAreSeqs
  <2>2. PalletExtrinsics(e)
          = Each("addVerificationMethod", e.did, e.add)
            \o Each("removeVerificationMethod", e.did, e.remove)
            \o Each("addService", e.did, e.addServices)
            \o Each("removeService", e.did, e.removeServices)
            \o Given("setController", e.did, e.controller)
            \o Given("updateMetadata", e.did, e.metadata)
    BY <1>2 DEF PalletExtrinsics
  <2> QED BY <1>5, <2>1, <2>2
<1>7. reg[r.did] # NoDid
  <2> SUFFICES ASSUME reg[r.did] = NoDid PROVE FALSE
    OBVIOUS
  <2>1. Len(xs) \in Nat /\ Len(xs) # 0
    BY <1>4, <1>5, <1>6
  <2>2. xs[1] \in T
    BY <1>6, <2>1
  <2>3. BatchAll(reg, xs) = KdRefused
    BY <1>2, <1>6, <2>1, <2>2, NothingOnNoDid
  <2> QED BY <1>4, <1>5, <2>3
<1>8. reg[r.did] \in KdDocs
  BY <1>3, <1>7 DEF KdRegs
<1>9. BatchAll(reg, PalletExtrinsics(e)) # KdRefused
  BY <1>4
<1>10. PICK doc \in KdDocs : doc = reg[e.did]
  BY <1>2, <1>8
<1>11. UpdateFits(doc, e) /\ BatchAll(reg, PalletExtrinsics(e)) = [reg EXCEPT ![e.did] = AfterUpdate(doc, e)]
  BY <1>2, <1>3, <1>9, <1>10, PalletUpdate
<1>12. Registry!Fits(doc, r)
  BY <1>2, <1>11 DEF UpdateFits, Registry!Fits
<1>13. AfterUpdate(doc, e) = Registry!Updated(doc, r)
  BY <1>2 DEF AfterUpdate, Registry!Updated, Registry!Or
<1>14. AfterUpdate(doc, e) \in KdDocs
  BY <1>2, <1>3 DEF AfterUpdate, KdDocs
<1>15. [reg EXCEPT ![e.did] = AfterUpdate(doc, e)] \in KdRegs
  BY <1>14 DEF KdRegs
<1> QED BY <1>2, <1>4, <1>7, <1>10, <1>11, <1>12, <1>13, <1>15

\* A creation that is executed is of a DID that does not exist.
LEMMA CreateTakes ==
    ASSUME NEW reg \in KdRegs, NEW r \in KdRequests, r.op = "create",
           NEW new, new = BatchAll(reg, Extrinsics(r)), new # KdRefused
    PROVE  /\ reg[r.account] = NoDid
           /\ new = [reg EXCEPT ![r.account] = Registry!NewDocument(r)]
           /\ new \in KdRegs
<1>1. /\ r.account \in KdDids /\ r.controller \in KdControllers /\ r.metadata \in KdMetadata
      /\ r.add \subseteq KdIds /\ r.addServices \subseteq KdIds
      /\ r.by \in {"pallet", "provider"} /\ (r.by = "pallet" => r.account = r.did)
  BY RequestTypes
<1>2. PICK doc : doc = Registry!NewDocument(r)
  OBVIOUS
<1>3. Extrinsics(r) = <<X("create", r.account, doc)>>
  <2>1. CASE r.by = "provider"
    <3>1. Head(Registration(r)) = CreateExtrinsic(r.account, r, KdAccount)
      BY DEF Registration, Given
    <3> QED BY <1>2, <2>1, <3>1
               DEF Extrinsics, ProviderExtrinsics, CreateExtrinsic, Registry!NewDocument
  <2>2. CASE r.by = "pallet"
    BY <1>1, <1>2, <2>2 DEF Extrinsics, PalletExtrinsics, CreateExtrinsic,
       Registry!NewDocument, Registry!Or
  <2> QED BY <1>1, <2>1, <2>2
<1>4. new = BatchStep(reg, X("create", r.account, doc))
  BY <1>3, BatchOfOne
<1>5. X("create", r.account, doc).did = r.account
  BY DEF X
<1>6. /\ PalletCall(reg[r.account], X("create", r.account, doc)) # KdRefused
      /\ new = [reg EXCEPT ![r.account] = PalletCall(reg[r.account], X("create", r.account, doc))]
  BY <1>4, <1>5, StepReplaces
<1>7. reg[r.account] = NoDid /\ PalletCall(reg[r.account], X("create", r.account, doc)) = doc
  BY <1>6 DEF PalletCall, X
<1>8. doc \in KdDocs
  <2>1. KdAccount \in KdControllers
    BY KdAssumption
  <2> QED BY <1>1, <1>2, <2>1 DEF KdDocs, Registry!NewDocument, Registry!Or
<1>9. [reg EXCEPT ![r.account] = doc] \in KdRegs
  BY <1>8 DEF KdRegs
<1> QED BY <1>2, <1>6, <1>7, <1>9

\* A deletion that is executed is of a DID that exists.
LEMMA DeleteTakes ==
    ASSUME NEW reg \in KdRegs, NEW r \in KdRequests, r.op = "delete",
           NEW new, new = BatchAll(reg, Extrinsics(r)), new # KdRefused
    PROVE  /\ reg[r.did] # NoDid /\ new = [reg EXCEPT ![r.did] = NoDid]
           /\ new \in KdRegs
<1>1. r.by = "pallet"
  BY RequestTypes
<1>2. Extrinsics(r) = <<X("delete", r.did, r.did)>>
  BY <1>1 DEF Extrinsics, PalletExtrinsics
<1>3. new = BatchStep(reg, X("delete", r.did, r.did))
  BY <1>2, BatchOfOne
<1>4. X("delete", r.did, r.did).did = r.did
  BY DEF X
<1>5. /\ PalletCall(reg[r.did], X("delete", r.did, r.did)) # KdRefused
      /\ new = [reg EXCEPT ![r.did] = PalletCall(reg[r.did], X("delete", r.did, r.did))]
  BY <1>3, <1>4, StepReplaces
<1>6. reg[r.did] # NoDid /\ PalletCall(reg[r.did], X("delete", r.did, r.did)) = NoDid
  BY <1>5 DEF PalletCall, X
<1>7. [reg EXCEPT ![r.did] = NoDid] \in KdRegs
  BY DEF KdRegs
<1> QED BY <1>5, <1>6, <1>7

\* An operation of a batch that the pallet does not refuse is allowed, and
\* does what it says.
LEMMA OperationTakes ==
    ASSUME NEW doc \in KdDocs \cup {NoDid}, NEW o \in KdOperations, o.call # "update",
           PalletCall(doc, o) # KdRefused
    PROVE  /\ Registry!Allowed(doc, o) /\ PalletCall(doc, o) = Registry!Done(doc, o)
           /\ Registry!Done(doc, o) \in KdDocs
<1> USE DEF KdOperations, KdDocs
<1>0. NoDid \notin KdDocs
  BY KdAssumption
<1>1. CASE o.call = "create"
  <2>1. doc = NoDid /\ PalletCall(doc, o) = o.arg
    BY <1>1 DEF PalletCall
  <2> QED BY <1>1, <2>1 DEF Registry!Allowed, Registry!Done
<1>2. CASE o.call # "create"
  <2>1. doc # NoDid /\ doc \in KdDocs /\ o.call # "delete"
    BY <1>2 DEF PalletCall
  <2>2. CASE o.call = "addVerificationMethod"
    <3>1. PalletCall(doc, o) = AddTo(doc, "methods", o.arg) /\ o.arg \in KdIds
      BY <2>1, <2>2 DEF PalletCall
    <3>2. o.arg \notin doc.methods /\ PalletCall(doc, o) = [doc EXCEPT !.methods = @ \cup {o.arg}]
      BY <3>1 DEF AddTo
    <3> QED BY <2>1, <2>2, <3>1, <3>2 DEF Registry!Allowed, Registry!Done
  <2>3. CASE o.call = "removeVerificationMethod"
    <3>1. PalletCall(doc, o) = RemoveFrom(doc, "methods", o.arg) /\ o.arg \in KdIds
      BY <2>1, <2>3 DEF PalletCall
    <3>2. o.arg \in doc.methods /\ PalletCall(doc, o) = [doc EXCEPT !.methods = @ \ {o.arg}]
      BY <3>1 DEF RemoveFrom
    <3> QED BY <2>1, <2>3, <3>1, <3>2 DEF Registry!Allowed, Registry!Done
  <2>4. CASE o.call = "addService"
    <3>1. PalletCall(doc, o) = AddTo(doc, "services", o.arg) /\ o.arg \in KdIds
      BY <2>1, <2>4 DEF PalletCall
    <3>2. o.arg \notin doc.services /\ PalletCall(doc, o) = [doc EXCEPT !.services = @ \cup {o.arg}]
      BY <3>1 DEF AddTo
    <3> QED BY <2>1, <2>4, <3>1, <3>2 DEF Registry!Allowed, Registry!Done
  <2>5. CASE o.call = "removeService"
    <3>1. PalletCall(doc, o) = RemoveFrom(doc, "services", o.arg) /\ o.arg \in KdIds
      BY <2>1, <2>5 DEF PalletCall
    <3>2. o.arg \in doc.services /\ PalletCall(doc, o) = [doc EXCEPT !.services = @ \ {o.arg}]
      BY <3>1 DEF RemoveFrom
    <3> QED BY <2>1, <2>5, <3>1, <3>2 DEF Registry!Allowed, Registry!Done
  <2>6. CASE o.call = "setController"
    <3>1. PalletCall(doc, o) = [doc EXCEPT !.controller = o.arg] /\ o.arg \in KdControllers
      BY <2>1, <2>6 DEF PalletCall
    <3> QED BY <2>1, <2>6, <3>1 DEF Registry!Allowed, Registry!Done
  <2>7. CASE o.call = "updateMetadata"
    <3>1. PalletCall(doc, o) = [doc EXCEPT !.metadata = o.arg] /\ o.arg \in KdMetadata
      BY <2>1, <2>7 DEF PalletCall
    <3> QED BY <2>1, <2>7, <3>1 DEF Registry!Allowed, Registry!Done
  <2> QED BY <1>2, <2>2, <2>3, <2>4, <2>5, <2>6, <2>7
<1> QED BY <1>1, <1>2

Chain(reg, os, f) ==
    f = [n \in 0..Len(os) |->
           IF n = 0 THEN reg
           ELSE [f[n - 1] EXCEPT ![os[n].did] = Registry!Done(f[n - 1][os[n].did], os[n])]]

\* The registries after each operation of a list, where there is such a
\* list of registries, are those InTurn names.
LEMMA InTurnIs ==
    ASSUME NEW reg, NEW os, Len(os) \in Nat, NEW f, Chain(reg, os, f)
    PROVE  \A n \in 0..Len(os) : Registry!InTurn(reg, os)[n] = f[n]
<1> DEFINE it == Registry!InTurn(reg, os)
<1>1. it = CHOOSE g : Chain(reg, os, g)
  BY DEF Registry!InTurn, Chain
<1>3. Chain(reg, os, it)
  <2> HIDE DEF it
  <2> QED BY <1>1
<1>4. it[0] = reg /\ f[0] = reg
  <2>1. 0 \in 0..Len(os)
    OBVIOUS
  <2> HIDE DEF it
  <2> QED BY <1>3, <2>1 DEF Chain
<1>5. \A n \in 0..(Len(os) - 1) : it[n] = f[n] => it[n + 1] = f[n + 1]
  <2> SUFFICES ASSUME NEW n \in 0..(Len(os) - 1), it[n] = f[n] PROVE it[n + 1] = f[n + 1]
    OBVIOUS
  <2>1. (n + 1) \in 0..Len(os) /\ n + 1 # 0 /\ (n + 1) - 1 = n
    OBVIOUS
  <2> DEFINE Step(r) == [r EXCEPT ![os[n + 1].did] = Registry!Done(r[os[n + 1].did], os[n + 1])]
  <2>2. f[n + 1] = Step(f[n])
    BY <2>1 DEF Chain
  <2>3. it[n + 1] = Step(it[n])
    <3> HIDE DEF it
    <3> QED BY <1>3, <2>1 DEF Chain
  <2> HIDE DEF it, Step
  <2> QED BY <2>2, <2>3
<1> DEFINE S == {n \in 0..Len(os) : it[n] = f[n]}
<1>6. S = 0..Len(os)
  <2>1. S \in SUBSET (0..Len(os)) /\ 0 \in S /\ \A n \in 0..(Len(os) - 1) : n \in S => (n + 1) \in S
    <3>1. S \in SUBSET (0..Len(os)) /\ 0 \in S
      <4> HIDE DEF it
      <4> QED BY <1>4
    <3>2. ASSUME NEW n \in 0..(Len(os) - 1), n \in S PROVE (n + 1) \in S
      <4>1. (n + 1) \in 0..Len(os)
        OBVIOUS
      <4> HIDE DEF it
      <4> QED BY <1>5, <3>2, <4>1
    <3> HIDE DEF S
    <3> QED BY <3>1, <3>2
  <2> HIDE DEF S
  <2> QED BY <2>1, UpTo
<1> HIDE DEF it
<1> QED BY <1>6 DEF it

\* A batch that is executed did every operation of its list, in turn.
LEMMA BatchTakes ==
    ASSUME NEW reg \in KdRegs, NEW r \in KdRequests, r.op = "batch", Valid(r),
           NEW new, new = BatchAll(reg, Extrinsics(r)), new # KdRefused
    PROVE  Registry!Takes(reg, r, new) /\ new \in KdRegs
<1>1. r.by = "batch" /\ r.operations \in Seq(KdOperations)
  BY RequestTypes
<1>2. PICK os \in Seq(KdOperations) : os = r.operations
  BY <1>1
<1> DEFINE n == Len(os)
           run == BatchRun(reg, os)
<1>3. Extrinsics(r) = os /\ \A i \in 1..n : os[i].call # "update"
  BY <1>1, <1>2 DEF Extrinsics, BatchExtrinsics, Valid
<1>4. n \in Nat /\ \A i \in 1..n : os[i] \in KdOperations
  OBVIOUS
<1>5. run[0] = reg /\ \A i \in 1..n : run[i] = BatchStep(run[i - 1], os[i])
  BY <1>4, BatchRunSteps
<1>6. \A i \in 0..n : run[i] # KdRefused
  BY <1>3, <1>4, NothingRefused
<1>7. new = run[n]
  BY <1>3 DEF BatchAll
<1>8. run = [i \in 0..n |-> IF i = 0 THEN reg ELSE BatchStep(run[i - 1], os[i])]
  <2>1. \E f : Prefix(reg, os, n, f)
    BY <1>4, PrefixExists
  <2>2. run = CHOOSE f : Prefix(reg, os, n, f)
    BY DEF BatchRun, Prefix
  <2>3. Prefix(reg, os, n, run)
    BY <2>1, <2>2
  <2> QED BY <2>3 DEF Prefix
<1> HIDE DEF n, run
<1> DEFINE Ok(i) == run[i] \in KdRegs
           Does(i) == LET did == os[i].did
                      IN  /\ Registry!Allowed(run[i - 1][did], os[i])
                          /\ run[i] = [run[i - 1] EXCEPT ![did] = Registry!Done(run[i - 1][did], os[i])]
<1>9. ASSUME NEW i \in 1..n, Ok(i - 1) PROVE Ok(i) /\ Does(i)
  <2>1. PICK o \in KdOperations : o = os[i] /\ o.call # "update" /\ o.did \in KdDids
    BY <1>3, <1>4 DEF KdOperations
  <2>2. PICK before \in KdRegs : before = run[i - 1]
    BY <1>9
  <2>3. BatchStep(before, o) # KdRefused /\ run[i] = BatchStep(before, o)
    BY <1>4, <1>5, <1>6, <2>1, <2>2
  <2>4. /\ PalletCall(before[o.did], o) # KdRefused
        /\ run[i] = [before EXCEPT ![o.did] = PalletCall(before[o.did], o)]
    BY <2>3, StepReplaces
  <2>5. PICK doc \in KdDocs \cup {NoDid} : doc = before[o.did]
    BY <2>1 DEF KdRegs
  <2>6. /\ Registry!Allowed(doc, o) /\ PalletCall(doc, o) = Registry!Done(doc, o)
        /\ Registry!Done(doc, o) \in KdDocs
    BY <2>1, <2>4, <2>5, OperationTakes
  <2>7. run[i] = [before EXCEPT ![o.did] = Registry!Done(doc, o)]
    BY <2>4, <2>5, <2>6
  <2>8. run[i] \in KdRegs
    BY <2>6, <2>7 DEF KdRegs
  <2> QED BY <2>1, <2>2, <2>5, <2>6, <2>7, <2>8
<1>10. \A i \in 0..n : Ok(i)
  <2> DEFINE S == {i \in 0..n : Ok(i)}
  <2>1. 0 \in S
    BY <1>4, <1>5
  <2>2. \A i \in 0..(n - 1) : i \in S => (i + 1) \in S
    <3> SUFFICES ASSUME NEW i \in 0..(n - 1), Ok(i) PROVE Ok(i + 1)
      BY <1>4
    <3>1. (i + 1) \in 1..n /\ (i + 1) - 1 = i
      BY <1>4
    <3> HIDE DEF Ok, Does
    <3> QED BY <1>9, <3>1
  <2>3. S = 0..n
    <3>1. S \in SUBSET (0..n)
      OBVIOUS
    <3> HIDE DEF S
    <3> QED BY <2>1, <2>2, <3>1, <1>4, UpTo
  <2> QED BY <2>3
<1>11. \A i \in 1..n : Does(i)
  <2>1. \A i \in 1..n : (i - 1) \in 0..n
    BY <1>4
  <2> HIDE DEF Ok, Does
  <2> QED BY <1>9, <1>10, <2>1
<1>12. run = [i \in 0..n |-> IF i = 0 THEN reg
                             ELSE [run[i - 1] EXCEPT ![os[i].did]
                                     = Registry!Done(run[i - 1][os[i].did], os[i])]]
  <2> DEFINE h == [i \in 0..n |-> IF i = 0 THEN reg
                             ELSE [run[i - 1] EXCEPT ![os[i].did]
                                     = Registry!Done(run[i - 1][os[i].did], os[i])]]
  <2>1. \A i \in 0..n : run[i] = h[i]
    <3> SUFFICES ASSUME NEW i \in 0..n PROVE run[i] = h[i]
      OBVIOUS
    <3>1. CASE i = 0
      BY <1>5, <3>1
    <3>2. CASE i # 0
      <4>1. i \in 1..n
        BY <1>4, <3>2
      <4>2. Does(i)
        BY <1>11, <4>1
      <4> QED BY <3>2, <4>2
    <3> QED BY <3>1, <3>2
  <2>2. run = [i \in 0..n |-> run[i]]
    BY <1>8
  <2> QED BY <2>1, <2>2
<1>13. \A i \in 0..n : Registry!InTurn(reg, os)[i] = run[i]
  <2>1. Len(os) \in Nat /\ n = Len(os)
    BY DEF n
  <2>2. Chain(reg, os, run)
    BY <1>12, <2>1 DEF Chain
  <2>3. \A i \in 0..Len(os) : Registry!InTurn(reg, os)[i] = run[i]
    BY <2>1, <2>2, InTurnIs
  <2> QED BY <2>1, <2>3
<1>14. \A i \in 1..n : Registry!Allowed(Registry!InTurn(reg, os)[i - 1][os[i].did], os[i])
  <2>1. \A i \in 1..n : (i - 1) \in 0..n
    BY <1>4
  <2> QED BY <1>11, <1>13, <2>1
<1>15. new = Registry!InTurn(reg, os)[n]
  BY <1>4, <1>7, <1>13
<1>16. Registry!Takes(reg, r, new)
  BY <1>2, <1>14, <1>15 DEF Registry!Takes, n
<1> QED BY <1>4, <1>7, <1>10, <1>16

\* What is executed is what the request asked for.
LEMMA RequestTakes ==
    ASSUME NEW reg \in KdRegs, NEW r \in KdRequests, Valid(r), Extrinsics(r) # <<>>,
           NEW new, new = BatchAll(reg, Extrinsics(r)), new # KdRefused
    PROVE  Registry!Takes(reg, r, new) /\ new \in KdRegs
<1>1. r.op \in {"create", "delete", "update", "batch"}
  BY RequestTypes
<1>2. CASE r.op = "create"
  <2>1. reg[r.account] = NoDid /\ new = [reg EXCEPT ![r.account] = Registry!NewDocument(r)]
        /\ new \in KdRegs
    BY <1>2, CreateTakes
  <2> QED BY <1>2, <2>1 DEF Registry!Takes
<1>3. CASE r.op = "delete"
  <2>1. reg[r.did] # NoDid /\ new = [reg EXCEPT ![r.did] = NoDid] /\ new \in KdRegs
    BY <1>3, DeleteTakes
  <2> QED BY <1>3, <2>1 DEF Registry!Takes
<1>4. CASE r.op = "update"
  <2>1. /\ reg[r.did] # NoDid /\ Registry!Fits(reg[r.did], r)
        /\ new = [reg EXCEPT ![r.did] = Registry!Updated(reg[r.did], r)]
        /\ new \in KdRegs
    BY <1>4, UpdateTakes
  <2> QED BY <1>4, <2>1 DEF Registry!Takes
<1>5. CASE r.op = "batch"
  BY <1>5, BatchTakes
<1> QED BY <1>1, <1>2, <1>3, <1>4, <1>5
-----------------------------------------------------------------------------
(* The invariant, and the steps of the abstract registry.                  *)

USE DEF KdGoto

\* The least and the most a service tries.
LEMMA MayTry == \A r : KdMayTry(r) \in 1..KdTries /\ KdMayTry(r) = Registry!Times(r)
BY KdAssumption DEF KdMayTry, Registry!Times

\* No call has begun, and no DID exists.
LEMMA KdInitInv == KdInit => KdInv
BY KdAssumption DEF KdInit, KdInv, KdTypeOK

\* What a block executes for a call is its request, and leaves a registry
\* of documents.
LEMMA RunTakes ==
    ASSUME KdInv, NEW c \in KdCalls, kdTx[c] # "none", KdRuns(c)
    PROVE  /\ kdAsked[c] \in KdRequests /\ kdRegistry' \in KdRegs
           /\ Registry!Takes(kdRegistry, kdAsked[c], kdRegistry')
<1>1. /\ kdRegistry \in KdRegs /\ kdAsked[c] \in KdRequests \cup {NoRequest}
      /\ kdPc[c] # "idle" /\ kdAsked[c] # NoRequest
      /\ Valid(kdAsked[c]) /\ Extrinsics(kdAsked[c]) # <<>>
  BY DEF KdInv, KdTypeOK, KdRegs
<1>2. PICK r \in KdRequests : r = kdAsked[c]
  BY <1>1
<1>3. kdRegistry' = BatchAll(kdRegistry, Extrinsics(r)) /\ kdRegistry' # KdRefused
  BY <1>2 DEF KdRuns
<1>4. PICK new : new = kdRegistry'
  OBVIOUS
<1>5. Registry!Takes(kdRegistry, r, new) /\ new \in KdRegs
  BY <1>1, <1>2, <1>3, <1>4, RequestTakes
<1> QED BY <1>2, <1>4, <1>5

\* What the invariant says of one call.
CallOK(asked, where, attempts, tx, older) ==
    /\ where = "idle" <=> asked = NoRequest
    /\ where \in {"idle", "query"} => attempts = 0
    /\ where # "idle" => attempts <= KdMayTry(asked)
    /\ where \in {"query", "submit", "wait"} => Valid(asked)
    /\ where = "submit" => attempts < KdMayTry(asked)
    /\ attempts = 0 => tx = "none"
    /\ tx # "none" => Valid(asked) /\ Extrinsics(asked) # <<>>
    /\ older + (IF tx = "none" THEN 0 ELSE 1) <= attempts
    /\ tx = "none" => older = 0

LEMMA InvIs ==
    /\ KdInv <=> /\ KdTypeOK
                 /\ \A c \in KdCalls :
                       CallOK(kdAsked[c], kdPc[c], kdAttempt[c], kdTx[c], kdOlder[c])
    /\ KdInv' <=> /\ KdTypeOK'
                  /\ \A c \in KdCalls :
                        CallOK(kdAsked'[c], kdPc'[c], kdAttempt'[c], kdTx'[c], kdOlder'[c])
BY DEF KdInv, CallOK

\* A step of one call leaves the others' alone.
OthersStay(c) ==
    \A b \in KdCalls \ {c} :
        /\ kdOlder'[b] = kdOlder[b] /\ kdTx'[b] = kdTx[b] /\ kdPc'[b] = kdPc[b]
        /\ kdAsked'[b] = kdAsked[b] /\ kdAttempt'[b] = kdAttempt[b]

LEMMA StepKeeps ==
    ASSUME KdInv, NEW c \in KdCalls, OthersStay(c), KdTypeOK',
           CallOK(kdAsked'[c], kdPc'[c], kdAttempt'[c], kdTx'[c], kdOlder'[c])
    PROVE  KdInv'
<1>1. ASSUME NEW b \in KdCalls, b # c
      PROVE  CallOK(kdAsked'[b], kdPc'[b], kdAttempt'[b], kdTx'[b], kdOlder'[b])
  BY <1>1, InvIs DEF OthersStay
<1> QED BY <1>1, InvIs

\* What each step does to its own call.
Wheres == {"idle", "query", "submit", "wait", "existing", "success", "error"}

LEMMA StepFacts ==
    ASSUME KdTypeOK, NEW c \in KdCalls
    PROVE  /\ \A r \in KdRequests : KdCall(c, r) =>
                 /\ kdPc[c] = "idle" /\ kdAsked' = [kdAsked EXCEPT ![c] = r]
                 /\ kdPc' \in [KdCalls -> Wheres]
                 /\ kdPc'[c] = "error" \/ (kdPc'[c] \in {"query", "submit"} /\ Valid(r))
                 /\ kdRegistry' = kdRegistry /\ kdTx' = kdTx /\ kdOlder' = kdOlder
                 /\ kdAttempt' = kdAttempt /\ OthersStay(c)
           /\ KdSubmit(c) =>
                 /\ kdPc[c] = "submit" /\ kdPc'[c] = "wait" /\ kdTx'[c] = "pool"
                 /\ kdPc' \in [KdCalls -> Wheres]
                 /\ kdTx' \in [KdCalls -> {"none", "pool", "ok", "failed"}]
                 /\ Extrinsics(kdAsked[c]) # <<>>
                 /\ kdRegistry' = kdRegistry /\ kdAsked' = kdAsked
                 /\ kdAttempt' = [kdAttempt EXCEPT ![c] = @ + 1]
                 /\ kdOlder' = [kdOlder EXCEPT ![c] = @ + (IF kdTx[c] = "pool" THEN 1 ELSE 0)]
                 /\ OthersStay(c)
           /\ SubmitFails(c) =>
                 /\ kdPc[c] = "submit" /\ kdPc' \in [KdCalls -> Wheres]
                 /\ \/ kdPc'[c] = "error"
                    \/ kdPc'[c] = "submit" /\ kdAttempt[c] + 1 < KdMayTry(kdAsked[c])
                 /\ kdRegistry' = kdRegistry /\ kdAsked' = kdAsked
                 /\ kdTx' = kdTx /\ kdOlder' = kdOlder
                 /\ kdAttempt' = [kdAttempt EXCEPT ![c] = @ + 1] /\ OthersStay(c)
           /\ Returned(c) =>
                 /\ kdPc[c] = "wait" /\ kdPc' \in [KdCalls -> Wheres]
                 /\ \/ kdPc'[c] = "success" \/ kdPc'[c] = "error"
                    \/ kdPc'[c] = "submit" /\ kdAttempt[c] < KdMayTry(kdAsked[c])
                 /\ kdRegistry' = kdRegistry /\ kdAsked' = kdAsked
                 /\ kdTx' = kdTx /\ kdOlder' = kdOlder /\ kdAttempt' = kdAttempt
                 /\ OthersStay(c)
           /\ Executed(c) =>
                 /\ kdTx[c] = "pool" /\ kdTx'[c] = "ok" /\ KdRuns(c) /\ kdAsked' = kdAsked
                 /\ kdTx' \in [KdCalls -> {"none", "pool", "ok", "failed"}]
                 /\ kdPc' = kdPc /\ kdAttempt' = kdAttempt /\ kdOlder' = kdOlder
                 /\ OthersStay(c)
           /\ OlderExecuted(c) =>
                 /\ kdOlder[c] > 0 /\ kdOlder' = [kdOlder EXCEPT ![c] = @ - 1]
                 /\ KdRuns(c) /\ kdAsked' = kdAsked
                 /\ kdPc' = kdPc /\ kdAttempt' = kdAttempt /\ kdTx' = kdTx /\ OthersStay(c)
           /\ DispatchFails(c) =>
                 /\ kdRegistry' = kdRegistry /\ kdAsked' = kdAsked
                 /\ kdPc' = kdPc /\ kdAttempt' = kdAttempt
                 /\ kdTx' \in [KdCalls -> {"none", "pool", "ok", "failed"}]
                 /\ \/ kdTx[c] = "pool" /\ kdTx'[c] = "failed" /\ kdOlder' = kdOlder
                    \/ /\ kdTx' = kdTx /\ kdOlder[c] > 0
                       /\ kdOlder' = [kdOlder EXCEPT ![c] = @ - 1]
                 /\ OthersStay(c)
<1>t. /\ kdAsked \in [KdCalls -> KdRequests \cup {NoRequest}]
      /\ kdPc \in [KdCalls -> Wheres]
      /\ kdTx \in [KdCalls -> {"none", "pool", "ok", "failed"}]
      /\ kdAttempt \in [KdCalls -> Nat] /\ kdOlder \in [KdCalls -> Nat]
  BY KdAssumption DEF KdTypeOK, Wheres
<1> USE DEF OthersStay
<1>1. ASSUME NEW r \in KdRequests, KdCall(c, r)
      PROVE  /\ kdPc[c] = "idle" /\ kdAsked' = [kdAsked EXCEPT ![c] = r]
             /\ kdPc' \in [KdCalls -> Wheres]
             /\ kdPc'[c] = "error" \/ (kdPc'[c] \in {"query", "submit"} /\ Valid(r))
             /\ kdRegistry' = kdRegistry /\ kdTx' = kdTx /\ kdOlder' = kdOlder
             /\ kdAttempt' = kdAttempt /\ OthersStay(c)
  BY <1>1, <1>t DEF KdCall, kdSent, Wheres
<1>2. KdSubmit(c) =>
         /\ kdPc[c] = "submit" /\ kdPc'[c] = "wait" /\ kdTx'[c] = "pool"
         /\ kdPc' \in [KdCalls -> Wheres]
         /\ kdTx' \in [KdCalls -> {"none", "pool", "ok", "failed"}]
         /\ Extrinsics(kdAsked[c]) # <<>>
         /\ kdRegistry' = kdRegistry /\ kdAsked' = kdAsked
         /\ kdAttempt' = [kdAttempt EXCEPT ![c] = @ + 1]
         /\ kdOlder' = [kdOlder EXCEPT ![c] = @ + (IF kdTx[c] = "pool" THEN 1 ELSE 0)]
         /\ OthersStay(c)
  <2> SUFFICES ASSUME KdSubmit(c)
               PROVE  kdOlder' = [kdOlder EXCEPT ![c] = @ + (IF kdTx[c] = "pool" THEN 1 ELSE 0)]
    BY <1>t DEF KdSubmit, Wheres
  <2>1. CASE kdTx[c] = "pool"
    BY <2>1 DEF KdSubmit
  <2>2. CASE kdTx[c] # "pool"
    BY <1>t, <2>2 DEF KdSubmit
  <2> QED BY <2>1, <2>2
<1>3. SubmitFails(c) =>
         /\ kdPc[c] = "submit" /\ kdPc' \in [KdCalls -> Wheres]
         /\ \/ kdPc'[c] = "error"
            \/ kdPc'[c] = "submit" /\ kdAttempt[c] + 1 < KdMayTry(kdAsked[c])
         /\ kdRegistry' = kdRegistry /\ kdAsked' = kdAsked
         /\ kdTx' = kdTx /\ kdOlder' = kdOlder
         /\ kdAttempt' = [kdAttempt EXCEPT ![c] = @ + 1] /\ OthersStay(c)
  BY <1>t DEF SubmitFails, EndsOrRetries, Wheres
<1>4. Returned(c) =>
         /\ kdPc[c] = "wait" /\ kdPc' \in [KdCalls -> Wheres]
         /\ \/ kdPc'[c] = "success" \/ kdPc'[c] = "error"
            \/ kdPc'[c] = "submit" /\ kdAttempt[c] < KdMayTry(kdAsked[c])
         /\ kdRegistry' = kdRegistry /\ kdAsked' = kdAsked
         /\ kdTx' = kdTx /\ kdOlder' = kdOlder /\ kdAttempt' = kdAttempt
         /\ OthersStay(c)
  BY <1>t DEF Returned, EndsOrRetries, kdSent, Wheres
<1>5. Executed(c) =>
         /\ kdTx[c] = "pool" /\ kdTx'[c] = "ok" /\ KdRuns(c) /\ kdAsked' = kdAsked
         /\ kdTx' \in [KdCalls -> {"none", "pool", "ok", "failed"}]
         /\ kdPc' = kdPc /\ kdAttempt' = kdAttempt /\ kdOlder' = kdOlder
         /\ OthersStay(c)
  BY <1>t DEF Executed
<1>6. OlderExecuted(c) =>
         /\ kdOlder[c] > 0 /\ kdOlder' = [kdOlder EXCEPT ![c] = @ - 1]
         /\ KdRuns(c) /\ kdAsked' = kdAsked
         /\ kdPc' = kdPc /\ kdAttempt' = kdAttempt /\ kdTx' = kdTx /\ OthersStay(c)
  BY <1>t DEF OlderExecuted
<1>7. DispatchFails(c) =>
         /\ kdRegistry' = kdRegistry /\ kdAsked' = kdAsked
         /\ kdPc' = kdPc /\ kdAttempt' = kdAttempt
         /\ kdTx' \in [KdCalls -> {"none", "pool", "ok", "failed"}]
         /\ \/ kdTx[c] = "pool" /\ kdTx'[c] = "failed" /\ kdOlder' = kdOlder
            \/ /\ kdTx' = kdTx /\ kdOlder[c] > 0
               /\ kdOlder' = [kdOlder EXCEPT ![c] = @ - 1]
         /\ OthersStay(c)
  BY <1>t DEF DispatchFails
<1> QED BY <1>1, <1>2, <1>3, <1>4, <1>5, <1>6, <1>7

\* The answer to a query leads to the submission only of a valid request.
LEMMA QueryFacts ==
    ASSUME KdTypeOK, NEW c \in KdCalls, QueryAnswered(c)
    PROVE  /\ kdPc[c] = "query" /\ kdPc'[c] \in {"submit", "existing", "error"}
           /\ kdPc' \in [KdCalls -> Wheres]
           /\ kdRegistry' = kdRegistry /\ kdAsked' = kdAsked
           /\ kdTx' = kdTx /\ kdOlder' = kdOlder /\ kdAttempt' = kdAttempt
           /\ OthersStay(c)
<1>t. kdPc \in [KdCalls -> Wheres]
  BY DEF KdTypeOK, Wheres
<1> QED BY <1>t DEF QueryAnswered, kdSent, OthersStay, Wheres

\* Every step keeps the invariant.
LEMMA KdNextInv == KdInv /\ [KdNext]_kdVars => KdInv'
<1> SUFFICES ASSUME KdInv, [KdNext]_kdVars PROVE KdInv'
  OBVIOUS
<1>m. KdTries \in Nat \ {0} /\ \A r : KdMayTry(r) \in 1..KdTries
  BY KdAssumption, MayTry
<1>t. /\ KdTypeOK /\ kdRegistry \in [KdDids -> KdDocs \cup {NoDid}]
      /\ kdAsked \in [KdCalls -> KdRequests \cup {NoRequest}]
      /\ kdPc \in [KdCalls -> Wheres]
      /\ kdTx \in [KdCalls -> {"none", "pool", "ok", "failed"}]
      /\ kdAttempt \in [KdCalls -> 0..KdTries] /\ kdOlder \in [KdCalls -> 0..KdTries]
  BY DEF KdInv, KdTypeOK, Wheres
<1>i. \A c \in KdCalls : CallOK(kdAsked[c], kdPc[c], kdAttempt[c], kdTx[c], kdOlder[c])
  BY InvIs
<1>k. ASSUME kdRegistry' \in [KdDids -> KdDocs \cup {NoDid}],
             kdAsked' \in [KdCalls -> KdRequests \cup {NoRequest}],
             kdPc' \in [KdCalls -> Wheres],
             kdTx' \in [KdCalls -> {"none", "pool", "ok", "failed"}],
             kdAttempt' \in [KdCalls -> 0..KdTries], kdOlder' \in [KdCalls -> 0..KdTries]
      PROVE  KdTypeOK'
  BY <1>k DEF KdTypeOK, Wheres
<1>1. ASSUME NEW c \in KdCalls, NEW r \in KdRequests, KdCall(c, r) PROVE KdInv'
  <2>1. /\ kdPc[c] = "idle" /\ kdAsked' = [kdAsked EXCEPT ![c] = r]
        /\ kdPc' \in [KdCalls -> Wheres]
        /\ kdPc'[c] = "error" \/ (kdPc'[c] \in {"query", "submit"} /\ Valid(r))
        /\ kdRegistry' = kdRegistry /\ kdTx' = kdTx /\ kdOlder' = kdOlder
        /\ kdAttempt' = kdAttempt /\ OthersStay(c)
    BY <1>1, <1>t, StepFacts
  <2>2. KdTypeOK'
    <3>1. kdAsked' \in [KdCalls -> KdRequests \cup {NoRequest}]
      BY <1>t, <2>1
    <3> QED BY <1>t, <1>k, <2>1, <3>1
  <2>3. r # NoRequest /\ kdAsked'[c] = r
    BY KdAssumption, <1>t, <2>1
  <2>4. CallOK(r, kdPc'[c], kdAttempt[c], kdTx[c], kdOlder[c])
    <3>1. kdAttempt[c] = 0 /\ kdTx[c] = "none" /\ kdOlder[c] = 0
      BY <1>i, <2>1 DEF CallOK
    <3>2. KdMayTry(r) \in Nat /\ 0 < KdMayTry(r)
      BY <1>m
    <3> QED BY <2>1, <2>3, <3>1, <3>2 DEF CallOK
  <2> QED BY <2>1, <2>2, <2>3, <2>4, StepKeeps
<1>2. ASSUME NEW c \in KdCalls, QueryAnswered(c) PROVE KdInv'
  <2>1. /\ kdPc[c] = "query" /\ kdPc'[c] \in {"submit", "existing", "error"}
        /\ kdPc' \in [KdCalls -> Wheres]
        /\ kdRegistry' = kdRegistry /\ kdAsked' = kdAsked
        /\ kdTx' = kdTx /\ kdOlder' = kdOlder /\ kdAttempt' = kdAttempt
        /\ OthersStay(c)
    BY <1>2, <1>t, QueryFacts
  <2>2. KdTypeOK'
    BY <1>t, <1>k, <2>1
  <2>3. CallOK(kdAsked[c], kdPc'[c], kdAttempt[c], kdTx[c], kdOlder[c])
    <3>1. /\ kdAttempt[c] = 0 /\ kdTx[c] = "none" /\ kdOlder[c] = 0
          /\ kdAsked[c] # NoRequest /\ Valid(kdAsked[c])
      BY <1>i, <2>1 DEF CallOK
    <3>2. KdMayTry(kdAsked[c]) \in Nat /\ 0 < KdMayTry(kdAsked[c])
      BY <1>m
    <3> QED BY <2>1, <3>1, <3>2 DEF CallOK
  <2> QED BY <2>1, <2>2, <2>3, StepKeeps
<1>3. ASSUME NEW c \in KdCalls, KdSubmit(c) PROVE KdInv'
  <2>1. /\ kdPc[c] = "submit" /\ kdPc'[c] = "wait" /\ kdTx'[c] = "pool"
        /\ kdPc' \in [KdCalls -> Wheres]
        /\ kdTx' \in [KdCalls -> {"none", "pool", "ok", "failed"}]
        /\ Extrinsics(kdAsked[c]) # <<>>
        /\ kdRegistry' = kdRegistry /\ kdAsked' = kdAsked
        /\ kdAttempt' = [kdAttempt EXCEPT ![c] = @ + 1]
        /\ kdOlder' = [kdOlder EXCEPT ![c] = @ + (IF kdTx[c] = "pool" THEN 1 ELSE 0)]
        /\ OthersStay(c)
    BY <1>3, <1>t, StepFacts
  <2>a. /\ kdAttempt'[c] = kdAttempt[c] + 1
        /\ kdOlder'[c] = kdOlder[c] + (IF kdTx[c] = "pool" THEN 1 ELSE 0)
        /\ kdAttempt[c] \in 0..KdTries /\ kdOlder[c] \in 0..KdTries
    BY <1>t, <2>1
  <2>b. /\ kdAttempt[c] < KdMayTry(kdAsked[c]) /\ KdMayTry(kdAsked[c]) \in 1..KdTries
        /\ kdOlder[c] + (IF kdTx[c] = "none" THEN 0 ELSE 1) <= kdAttempt[c]
        /\ KdTries \in Nat
    BY <1>i, <1>m, <2>1 DEF CallOK
  <2>2. /\ kdAttempt[c] + 1 \in 0..KdTries
        /\ kdOlder[c] + (IF kdTx[c] = "pool" THEN 1 ELSE 0) \in 0..KdTries
        /\ kdAttempt'[c] = kdAttempt[c] + 1
        /\ kdOlder'[c] = kdOlder[c] + (IF kdTx[c] = "pool" THEN 1 ELSE 0)
        /\ kdOlder'[c] + 1 <= kdAttempt'[c] /\ kdAttempt'[c] <= KdMayTry(kdAsked[c])
    BY <2>a, <2>b
  <2>3. KdTypeOK'
    <3>1. kdAttempt' \in [KdCalls -> 0..KdTries] /\ kdOlder' \in [KdCalls -> 0..KdTries]
      BY <1>t, <2>1, <2>2
    <3> QED BY <1>t, <1>k, <2>1, <3>1
  <2>4. CallOK(kdAsked[c], "wait", kdAttempt'[c], "pool", kdOlder'[c])
    BY <1>i, <1>m, <1>t, <2>1, <2>2 DEF CallOK
  <2> QED BY <2>1, <2>3, <2>4, StepKeeps
<1>4. ASSUME NEW c \in KdCalls, SubmitFails(c) PROVE KdInv'
  <2>1. /\ kdPc[c] = "submit" /\ kdPc' \in [KdCalls -> Wheres]
        /\ \/ kdPc'[c] = "error"
           \/ kdPc'[c] = "submit" /\ kdAttempt[c] + 1 < KdMayTry(kdAsked[c])
        /\ kdRegistry' = kdRegistry /\ kdAsked' = kdAsked
        /\ kdTx' = kdTx /\ kdOlder' = kdOlder
        /\ kdAttempt' = [kdAttempt EXCEPT ![c] = @ + 1] /\ OthersStay(c)
    BY <1>4, <1>t, StepFacts
  <2>2. kdAttempt[c] + 1 \in 0..KdTries /\ kdAttempt'[c] = kdAttempt[c] + 1
    BY <1>i, <1>m, <1>t, <2>1 DEF CallOK
  <2>3. KdTypeOK'
    <3>1. kdAttempt' \in [KdCalls -> 0..KdTries]
      BY <1>t, <2>1, <2>2
    <3> QED BY <1>t, <1>k, <2>1, <3>1
  <2>4. CallOK(kdAsked[c], kdPc'[c], kdAttempt'[c], kdTx[c], kdOlder[c])
    BY <1>i, <1>m, <1>t, <2>1, <2>2 DEF CallOK
  <2> QED BY <2>1, <2>3, <2>4, StepKeeps
<1>5. ASSUME NEW c \in KdCalls, Returned(c) PROVE KdInv'
  <2>1. /\ kdPc[c] = "wait" /\ kdPc' \in [KdCalls -> Wheres]
        /\ \/ kdPc'[c] = "success" \/ kdPc'[c] = "error"
           \/ kdPc'[c] = "submit" /\ kdAttempt[c] < KdMayTry(kdAsked[c])
        /\ kdRegistry' = kdRegistry /\ kdAsked' = kdAsked
        /\ kdTx' = kdTx /\ kdOlder' = kdOlder /\ kdAttempt' = kdAttempt
        /\ OthersStay(c)
    BY <1>5, <1>t, StepFacts
  <2>2. KdTypeOK'
    BY <1>t, <1>k, <2>1
  <2>3. CallOK(kdAsked[c], kdPc'[c], kdAttempt[c], kdTx[c], kdOlder[c])
    BY <1>i, <1>m, <1>t, <2>1 DEF CallOK
  <2> QED BY <2>1, <2>2, <2>3, StepKeeps
<1>6. ASSUME NEW c \in KdCalls, Executed(c) PROVE KdInv'
  <2>1. /\ kdTx[c] = "pool" /\ kdTx'[c] = "ok" /\ KdRuns(c) /\ kdAsked' = kdAsked
        /\ kdTx' \in [KdCalls -> {"none", "pool", "ok", "failed"}]
        /\ kdPc' = kdPc /\ kdAttempt' = kdAttempt /\ kdOlder' = kdOlder
        /\ OthersStay(c)
    BY <1>6, <1>t, StepFacts
  <2>2. kdRegistry' \in [KdDids -> KdDocs \cup {NoDid}]
    BY <2>1, RunTakes DEF KdRegs
  <2>3. KdTypeOK'
    BY <1>t, <1>k, <2>1, <2>2
  <2>4. CallOK(kdAsked[c], kdPc[c], kdAttempt[c], "ok", kdOlder[c])
    BY <1>i, <1>m, <1>t, <2>1 DEF CallOK
  <2> QED BY <2>1, <2>3, <2>4, StepKeeps
<1>7. ASSUME NEW c \in KdCalls, OlderExecuted(c) PROVE KdInv'
  <2>1. /\ kdOlder[c] > 0 /\ kdOlder' = [kdOlder EXCEPT ![c] = @ - 1]
        /\ KdRuns(c) /\ kdAsked' = kdAsked
        /\ kdPc' = kdPc /\ kdAttempt' = kdAttempt /\ kdTx' = kdTx /\ OthersStay(c)
    BY <1>7, <1>t, StepFacts
  <2>2. /\ kdTx[c] # "none" /\ kdOlder[c] - 1 \in 0..KdTries
        /\ kdOlder'[c] = kdOlder[c] - 1
    BY <1>i, <1>m, <1>t, <2>1 DEF CallOK
  <2>3. kdRegistry' \in [KdDids -> KdDocs \cup {NoDid}]
    BY <2>1, <2>2, RunTakes DEF KdRegs
  <2>4. KdTypeOK'
    <3>1. kdOlder' \in [KdCalls -> 0..KdTries]
      BY <1>t, <2>1, <2>2
    <3> QED BY <1>t, <1>k, <2>1, <2>3, <3>1
  <2>5. CallOK(kdAsked[c], kdPc[c], kdAttempt[c], kdTx[c], kdOlder'[c])
    BY <1>i, <1>m, <1>t, <2>1, <2>2 DEF CallOK
  <2> QED BY <2>1, <2>4, <2>5, StepKeeps
<1>8. ASSUME NEW c \in KdCalls, DispatchFails(c) PROVE KdInv'
  <2>1. /\ kdRegistry' = kdRegistry /\ kdAsked' = kdAsked
        /\ kdPc' = kdPc /\ kdAttempt' = kdAttempt
        /\ kdTx' \in [KdCalls -> {"none", "pool", "ok", "failed"}]
        /\ \/ kdTx[c] = "pool" /\ kdTx'[c] = "failed" /\ kdOlder' = kdOlder
           \/ /\ kdTx' = kdTx /\ kdOlder[c] > 0
              /\ kdOlder' = [kdOlder EXCEPT ![c] = @ - 1]
        /\ OthersStay(c)
    BY <1>8, <1>t, StepFacts
  <2>2. /\ kdOlder' \in [KdCalls -> 0..KdTries]
        /\ \/ kdTx[c] = "pool" /\ kdTx'[c] = "failed" /\ kdOlder'[c] = kdOlder[c]
           \/ kdTx'[c] = kdTx[c] /\ kdOlder[c] > 0 /\ kdOlder'[c] = kdOlder[c] - 1
    BY <1>t, <1>m, <2>1
  <2>3. KdTypeOK'
    BY <1>t, <1>k, <2>1, <2>2
  <2>4. CallOK(kdAsked[c], kdPc[c], kdAttempt[c], kdTx'[c], kdOlder'[c])
    BY <1>i, <1>m, <1>t, <2>2 DEF CallOK
  <2> QED BY <2>1, <2>3, <2>4, StepKeeps
<1>9. CASE UNCHANGED kdVars
  BY <1>9, InvIs DEF kdVars, KdInv, KdTypeOK
<1> QED BY <1>1, <1>2, <1>3, <1>4, <1>5, <1>6, <1>7, <1>8, <1>9 DEF KdNext, KdProgress, KdChain

\* What a call may still do, of its transactions and of its state.
LeftOf(older, tx, where, asked, attempts) ==
    older + (IF tx = "pool" THEN 1 ELSE 0)
    + (IF where \in {"query", "submit", "wait"} THEN KdMayTry(asked) - attempts ELSE 0)

LEMMA LeftIs ==
    /\ KdLeft = [c \in KdCalls |-> LeftOf(kdOlder[c], kdTx[c], kdPc[c], kdAsked[c], kdAttempt[c])]
    /\ KdLeft' = [c \in KdCalls |->
                    LeftOf(kdOlder'[c], kdTx'[c], kdPc'[c], kdAsked'[c], kdAttempt'[c])]
BY DEF KdLeft, LeftOf

\* A call's part is a natural number.
LEMMA LeftIsNat ==
    ASSUME KdInv, NEW c \in KdCalls
    PROVE  KdLeft[c] \in Nat
<1>1. /\ kdOlder[c] \in Nat /\ kdAttempt[c] \in Nat
      /\ kdPc[c] # "idle" => kdAttempt[c] <= KdMayTry(kdAsked[c])
  BY KdAssumption DEF KdInv, KdTypeOK
<1>2. KdMayTry(kdAsked[c]) \in Nat
  BY MayTry
<1> QED BY <1>1, <1>2, LeftIs DEF LeftOf

LEMMA LeftIsNatAfter ==
    ASSUME KdInv', NEW c \in KdCalls
    PROVE  KdLeft'[c] \in Nat
<1>1. /\ kdOlder'[c] \in Nat /\ kdAttempt'[c] \in Nat
      /\ kdPc'[c] # "idle" => kdAttempt'[c] <= KdMayTry(kdAsked'[c])
  BY KdAssumption DEF KdInv, KdTypeOK
<1>2. KdMayTry(kdAsked'[c]) \in Nat
  BY MayTry
<1> QED BY <1>1, <1>2, LeftIs DEF LeftOf

\* A step of one call changes no other's.
LEMMA LeftStep ==
    ASSUME NEW c \in KdCalls, OthersStay(c)
    PROVE  KdLeft' = [KdLeft EXCEPT ![c] = KdLeft'[c]]
<1>1. ASSUME NEW b \in KdCalls, b # c PROVE KdLeft'[b] = KdLeft[b]
  BY <1>1, LeftIs DEF OthersStay
<1>2. KdLeft = [b \in KdCalls |-> KdLeft[b]] /\ KdLeft' = [b \in KdCalls |-> KdLeft'[b]]
  BY DEF KdLeft
<1> QED BY <1>1, <1>2

\* A step after which a call can do no more than before is a refusal, or
\* nothing.
LEMMA Lowered ==
    ASSUME KdInv, KdInv', NEW c \in KdCalls, OthersStay(c),
           UNCHANGED <<kdRegistry, kdAsked>>, KdLeft'[c] <= KdLeft[c]
    PROVE  Registry!Next \/ UNCHANGED <<kdRegistry, kdAsked, KdLeft>>
<1>1. KdLeft[c] \in Nat /\ KdLeft'[c] \in Nat
  BY LeftIsNat, LeftIsNatAfter
<1>3. PICK n : n = KdLeft'[c]
  OBVIOUS
<1>4. KdLeft' = [KdLeft EXCEPT ![c] = n]
  BY <1>3, LeftStep
<1>5. CASE n = KdLeft[c]
  <2>1. KdLeft' = KdLeft
    BY <1>4, <1>5 DEF KdLeft
  <2> QED BY <2>1
<1>6. CASE n # KdLeft[c]
  <2>1. n \in 0..(KdLeft[c] - 1)
    BY <1>1, <1>3, <1>6
  <2>2. Registry!Refuse(c)
    BY <1>4, <2>1 DEF Registry!Refuse
  <2> QED BY <2>2 DEF Registry!Next
<1> QED BY <1>5, <1>6

\* A step that executes a transaction of a call takes effect once.
LEMMA Taken ==
    ASSUME KdInv, KdInv', NEW c \in KdCalls, OthersStay(c),
           kdTx[c] # "none", KdRuns(c), UNCHANGED kdAsked,
           KdLeft'[c] = KdLeft[c] - 1
    PROVE  Registry!Next
<1>1. KdLeft[c] \in Nat /\ KdLeft'[c] \in Nat
  BY LeftIsNat, LeftIsNatAfter
<1>2. KdLeft' = [KdLeft EXCEPT ![c] = KdLeft[c] - 1]
  BY LeftStep
<1>3. Registry!Takes(kdRegistry, kdAsked[c], kdRegistry')
  BY RunTakes
<1>4. KdLeft[c] > 0
  BY <1>1
<1>5. Registry!Take(c)
  BY <1>2, <1>3, <1>4 DEF Registry!Take
<1> QED BY <1>5 DEF Registry!Next

\* No call has taken effect at the beginning.
LEMMA RegistryInit == KdInit => Registry!Init
<1> SUFFICES ASSUME KdInit PROVE Registry!Init
  OBVIOUS
<1>1. KdLeft = [c \in KdCalls |-> 0]
  BY DEF KdInit, KdLeft
<1> QED BY <1>1 DEF KdInit, Registry!Init

\* Every step of the services and of the chain asks, takes effect, is
\* refused, or is not seen by the abstract registry.
LEMMA RegistryStep ==
    KdInv /\ KdInv' /\ [KdNext]_kdVars
      => [Registry!Next]_<<kdRegistry, kdAsked, KdLeft>>
<1> SUFFICES ASSUME KdInv, KdInv', [KdNext]_kdVars
             PROVE  Registry!Next \/ UNCHANGED <<kdRegistry, kdAsked, KdLeft>>
  OBVIOUS
<1>t. /\ kdAsked \in [KdCalls -> KdRequests \cup {NoRequest}]
      /\ kdPc \in [KdCalls -> {"idle", "query", "submit", "wait", "existing", "success", "error"}]
      /\ kdTx \in [KdCalls -> {"none", "pool", "ok", "failed"}]
      /\ kdAttempt \in [KdCalls -> Nat] /\ kdOlder \in [KdCalls -> Nat]
  BY KdAssumption DEF KdInv, KdTypeOK
<1>m. \A r : KdMayTry(r) \in Nat
  BY MayTry
<1>l. \A c \in KdCalls :
         /\ KdLeft[c] = LeftOf(kdOlder[c], kdTx[c], kdPc[c], kdAsked[c], kdAttempt[c])
         /\ KdLeft'[c] = LeftOf(kdOlder'[c], kdTx'[c], kdPc'[c], kdAsked'[c], kdAttempt'[c])
  BY LeftIs
<1>1. ASSUME NEW c \in KdCalls, NEW r \in KdRequests, KdCall(c, r)
      PROVE  Registry!Next
  <2>1. /\ kdPc[c] = "idle" /\ kdAsked' = [kdAsked EXCEPT ![c] = r]
        /\ kdRegistry' = kdRegistry /\ kdTx' = kdTx /\ kdOlder' = kdOlder
        /\ kdAttempt' = kdAttempt /\ OthersStay(c)
    BY <1>1, <1>t DEF KdCall, kdSent, OthersStay
  <2>2. kdAsked[c] = NoRequest /\ kdAttempt[c] = 0 /\ kdTx[c] = "none" /\ kdOlder[c] = 0
    BY <2>1 DEF KdInv
  <2>3. KdLeft'[c] \in {0, KdMayTry(r)}
    BY <1>l, <1>m, <1>t, <2>1, <2>2 DEF LeftOf
  <2>4. PICK n \in 0..KdTries : n = KdLeft'[c] /\ n <= Registry!Times(r)
    <3>1. KdMayTry(r) \in 1..KdTries /\ KdMayTry(r) = Registry!Times(r) /\ KdTries \in Nat
      BY MayTry, KdAssumption
    <3> QED BY <2>3, <3>1
  <2>5. KdLeft' = [KdLeft EXCEPT ![c] = n]
    BY <2>1, <2>4, LeftStep
  <2>6. Registry!Ask(c)
    BY <2>1, <2>2, <2>4, <2>5 DEF Registry!Ask
  <2> QED BY <2>6 DEF Registry!Next
<1>2. ASSUME NEW c \in KdCalls, QueryAnswered(c)
      PROVE  Registry!Next \/ UNCHANGED <<kdRegistry, kdAsked, KdLeft>>
  <2>1. /\ kdPc[c] = "query" /\ kdPc'[c] \in {"submit", "existing", "error"}
        /\ UNCHANGED <<kdRegistry, kdAsked>> /\ kdTx' = kdTx /\ kdOlder' = kdOlder
        /\ kdAttempt' = kdAttempt /\ OthersStay(c)
    BY <1>2, <1>t DEF QueryAnswered, kdSent, OthersStay
  <2>2. kdAttempt[c] <= KdMayTry(kdAsked[c])
    BY <2>1 DEF KdInv
  <2>3. KdLeft'[c] <= KdLeft[c]
    BY <1>l, <1>m, <1>t, <2>1, <2>2 DEF LeftOf
  <2> QED BY <2>1, <2>3, Lowered
<1>3. ASSUME NEW c \in KdCalls, KdSubmit(c)
      PROVE  Registry!Next \/ UNCHANGED <<kdRegistry, kdAsked, KdLeft>>
  <2>1. /\ kdPc[c] = "submit" /\ kdPc'[c] = "wait" /\ kdTx'[c] = "pool"
        /\ UNCHANGED <<kdRegistry, kdAsked>> /\ kdAttempt'[c] = kdAttempt[c] + 1
        /\ kdOlder'[c] = kdOlder[c] + (IF kdTx[c] = "pool" THEN 1 ELSE 0)
        /\ OthersStay(c)
    BY <1>3, <1>t DEF KdSubmit, OthersStay
  <2>2. KdLeft'[c] <= KdLeft[c]
    BY <1>l, <1>m, <1>t, <2>1 DEF LeftOf
  <2> QED BY <2>1, <2>2, Lowered
<1>4. ASSUME NEW c \in KdCalls, SubmitFails(c)
      PROVE  Registry!Next \/ UNCHANGED <<kdRegistry, kdAsked, KdLeft>>
  <2>1. /\ kdPc[c] = "submit" /\ kdPc'[c] \in {"submit", "error"}
        /\ UNCHANGED <<kdRegistry, kdAsked>> /\ kdTx' = kdTx /\ kdOlder' = kdOlder
        /\ kdAttempt'[c] = kdAttempt[c] + 1 /\ OthersStay(c)
    BY <1>4, <1>t DEF SubmitFails, EndsOrRetries, OthersStay
  <2>2. kdAttempt[c] <= KdMayTry(kdAsked[c])
    BY <2>1 DEF KdInv
  <2>3. KdLeft'[c] <= KdLeft[c]
    BY <1>l, <1>m, <1>t, <2>1, <2>2 DEF LeftOf
  <2> QED BY <2>1, <2>3, Lowered
<1>5. ASSUME NEW c \in KdCalls, Returned(c)
      PROVE  Registry!Next \/ UNCHANGED <<kdRegistry, kdAsked, KdLeft>>
  <2>1. /\ kdPc[c] = "wait" /\ kdPc'[c] \in {"success", "submit", "error"}
        /\ UNCHANGED <<kdRegistry, kdAsked>> /\ kdTx' = kdTx /\ kdOlder' = kdOlder
        /\ kdAttempt' = kdAttempt /\ OthersStay(c)
    BY <1>5, <1>t DEF Returned, EndsOrRetries, kdSent, OthersStay
  <2>2. kdAttempt[c] <= KdMayTry(kdAsked[c])
    BY <2>1 DEF KdInv
  <2>3. KdLeft'[c] <= KdLeft[c]
    BY <1>l, <1>m, <1>t, <2>1, <2>2 DEF LeftOf
  <2> QED BY <2>1, <2>3, Lowered
<1>6. ASSUME NEW c \in KdCalls, Executed(c)
      PROVE  Registry!Next
  <2>1. /\ kdTx[c] = "pool" /\ kdTx'[c] = "ok" /\ KdRuns(c) /\ UNCHANGED kdAsked
        /\ kdPc' = kdPc /\ kdAttempt' = kdAttempt /\ kdOlder' = kdOlder /\ OthersStay(c)
    BY <1>6, <1>t DEF Executed, OthersStay
  <2>2. KdLeft'[c] = KdLeft[c] - 1
    BY <1>l, <1>m, <1>t, <2>1 DEF LeftOf
  <2> QED BY <2>1, <2>2, Taken
<1>7. ASSUME NEW c \in KdCalls, OlderExecuted(c)
      PROVE  Registry!Next
  <2>1. /\ kdOlder[c] > 0 /\ kdOlder'[c] = kdOlder[c] - 1 /\ KdRuns(c) /\ UNCHANGED kdAsked
        /\ kdPc' = kdPc /\ kdAttempt' = kdAttempt /\ kdTx' = kdTx /\ OthersStay(c)
    BY <1>7, <1>t DEF OlderExecuted, OthersStay
  <2>2. kdTx[c] # "none"
    BY <2>1 DEF KdInv
  <2>3. KdLeft'[c] = KdLeft[c] - 1
    BY <1>l, <1>m, <1>t, <2>1 DEF LeftOf
  <2> QED BY <2>1, <2>2, <2>3, Taken
<1>8. ASSUME NEW c \in KdCalls, DispatchFails(c)
      PROVE  Registry!Next \/ UNCHANGED <<kdRegistry, kdAsked, KdLeft>>
  <2>1. /\ UNCHANGED <<kdRegistry, kdAsked>> /\ kdPc' = kdPc /\ kdAttempt' = kdAttempt
        /\ \/ kdTx[c] = "pool" /\ kdTx'[c] = "failed" /\ kdOlder'[c] = kdOlder[c]
           \/ kdTx'[c] = kdTx[c] /\ kdOlder'[c] = kdOlder[c] - 1
        /\ OthersStay(c)
    BY <1>8, <1>t DEF DispatchFails, OthersStay
  <2>2. KdLeft'[c] <= KdLeft[c]
    BY <1>l, <1>m, <1>t, <2>1 DEF LeftOf
  <2> QED BY <2>1, <2>2, Lowered
<1>9. CASE UNCHANGED kdVars
  BY <1>9 DEF kdVars, KdLeft
<1> QED BY <1>1, <1>2, <1>3, <1>4, <1>5, <1>6, <1>7, <1>8, <1>9 DEF KdNext, KdProgress, KdChain

\* KILTDIDPalletService and KILTDIDProvider over the pallet implement the
\* abstract registry: whatever was seen before and whatever the caller is
\* told, an operation takes effect wholly and as it was asked, a batch in
\* the order of its list, on the documents as they are when the block
\* executes it, and at most as often as its service submits it.
THEOREM KiltDidImplementsRegistry == KdSpec => ImplementsRegistry
<1>1. KdSpec => []KdInv
  BY KdInitInv, KdNextInv, PTL DEF KdSpec
<1> QED BY <1>1, RegistryInit, RegistryStep, PTL DEF KdSpec, ImplementsRegistry, Registry!Spec
=============================================================================
