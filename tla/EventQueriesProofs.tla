------------------------- MODULE EventQueriesProofs -------------------------
(***************************************************************************)
(* Proofs about EventQueries for any events, requests and limits: no       *)
(* answer tells about another tenant's events, a search leaves out nothing *)
(* that is newer than what it shows, every event can be found, and a       *)
(* summary is true of the events it was made of.                           *)
(***************************************************************************)
EXTENDS EventQueries, FiniteSetTheorems, WellFoundedInduction, TLAPS

-----------------------------------------------------------------------------
(* The length of an answer. *)

(* Every set of numbers has a least one. *)
LEMMA LeastNumber ==
  ASSUME NEW T, T \subseteq Nat, T # {}
  PROVE  \E x \in T : \A y \in T : x <= y
<1> DEFINE Less == {ss \in Nat \X Nat : ss[1] < ss[2]}
<1>1. IsWellFoundedOn(Less, Nat)
  BY NatLessThanWellFounded DEF OpToRel
<1>2. \A m, n \in Nat : m < n => <<m, n>> \in Less
  OBVIOUS
<1> HIDE DEF Less
<1>3. PICK x \in T : \A y \in T : ~ (<<y, x>> \in Less)
  BY <1>1, WFMin
<1>4. ASSUME NEW y \in T PROVE x <= y
  <2>1. x \in Nat /\ y \in Nat
    OBVIOUS
  <2>2. ~ (y < x)
    BY <1>2, <1>3, <2>1
  <2> QED
    BY <2>1, <2>2
<1> QED
  BY <1>4

(* The sums of the first lines. *)
IsSum(s, n, f) ==
  /\ f \in [0 .. n -> Nat]
  /\ f[0] = 0
  /\ \A i \in 1 .. n : f[i] = f[i - 1] + s[i].size

LEMMA SumsExist ==
  ASSUME NEW s \in Seq(EventForms)
  PROVE  \A n \in 0 .. Len(s) : \E f : IsSum(s, n, f)
<1> DEFINE T == {n \in 0 .. Len(s) : ~ \E f : IsSum(s, n, f)}
<1> SUFFICES ASSUME T # {} PROVE FALSE
  OBVIOUS
<1>1. T \subseteq Nat
  OBVIOUS
<1>2. PICK n \in T : \A m \in T : n <= m
  BY <1>1, LeastNumber
<1>3. n \in 0 .. Len(s) /\ n \in Nat /\ ~ \E f : IsSum(s, n, f)
  BY <1>2
<1>4. n # 0
  <2>1. IsSum(s, 0, [i \in 0 .. 0 |-> 0])
    BY DEF IsSum
  <2> QED
    BY <1>3, <2>1
<1>5. n - 1 \in 0 .. Len(s) /\ n - 1 \notin T
  BY <1>2, <1>3, <1>4
<1>6. PICK f : IsSum(s, n - 1, f)
  BY <1>5
<1> DEFINE g == [i \in 0 .. n |-> IF i = n THEN f[n - 1] + s[n].size
                                             ELSE f[i]]
<1>7. s[n] \in EventForms
  BY <1>3, <1>4
<1>8. s[n].size \in Nat
  BY <1>7 DEF EventForms
<1>9. IsSum(s, n, g)
  BY <1>3, <1>4, <1>6, <1>8 DEF IsSum
<1> QED
  BY <1>3, <1>9

LEMMA BytesIsSum ==
  ASSUME NEW s \in Seq(EventForms)
  PROVE  \E f : IsSum(s, Len(s), f) /\ Bytes(s) = f[Len(s)]
<1> DEFINE Def(f) == [i \in 0 .. Len(s) |->
                        IF i = 0 THEN 0 ELSE f[i - 1] + s[i].size]
           sum == CHOOSE f : f = Def(f)
<1>1. Len(s) \in Nat /\ Len(s) \in 0 .. Len(s)
  OBVIOUS
<1>2. PICK f : IsSum(s, Len(s), f)
  BY <1>1, SumsExist
<1>3. f = Def(f)
  BY <1>1, <1>2 DEF IsSum
<1>4. sum = Def(sum)
  BY <1>3
<1>5. Bytes(s) = sum[Len(s)]
  BY DEF Bytes
<1> HIDE DEF sum
<1>6. \A i \in 0 .. Len(s) :
        sum[i] = IF i = 0 THEN 0 ELSE sum[i - 1] + s[i].size
  BY <1>4
<1>7. \A i \in 0 .. Len(s) :
        f[i] = IF i = 0 THEN 0 ELSE f[i - 1] + s[i].size
  BY <1>3
<1> DEFINE T == {i \in 0 .. Len(s) : sum[i] # f[i]}
<1>8. T = {}
  <2> SUFFICES ASSUME T # {} PROVE FALSE
    OBVIOUS
  <2>1. T \subseteq Nat
    OBVIOUS
  <2>2. PICK n \in T : \A m \in T : n <= m
    BY <2>1, LeastNumber
  <2>3. n # 0
    BY <1>6, <1>7, <2>2
  <2>4. n - 1 \in 0 .. Len(s) /\ n - 1 \notin T
    BY <2>2, <2>3
  <2> QED
    BY <1>6, <1>7, <2>2, <2>3, <2>4
<1>9. sum[Len(s)] = f[Len(s)]
  BY <1>1, <1>8
<1> QED
  BY <1>2, <1>5, <1>9

LEMMA BytesIsNumber ==
  ASSUME NEW s \in Seq(EventForms)
  PROVE  Bytes(s) \in Nat
<1>1. PICK f : IsSum(s, Len(s), f) /\ Bytes(s) = f[Len(s)]
  BY BytesIsSum
<1>2. Len(s) \in Nat
  OBVIOUS
<1> QED
  BY <1>1, <1>2 DEF IsSum

(* A list that is cut is shorter, by more than a newline. *)
LEMMA PrefixIsShorter ==
  ASSUME NEW s \in Seq(EventForms), NEW k \in 0 .. Len(s), k < Len(s)
  PROVE  Bytes(SubSeq(s, 1, k)) + 1 < Bytes(s)
<1> DEFINE p == SubSeq(s, 1, k)
<1>1. p \in Seq(EventForms) /\ Len(p) = k /\ \A i \in 1 .. k : p[i] = s[i]
  <2>1. Len(s) \in Nat /\ k \in Nat
    OBVIOUS
  <2>2. \A i \in 1 .. k : s[i] \in EventForms
    BY <2>1
  <2> HIDE DEF p
  <2>3. p = [i \in 1 .. k |-> s[i]]
    BY <2>1 DEF p
  <2>4. p \in [1 .. k -> EventForms]
    BY <2>2, <2>3
  <2>5. p \in Seq(EventForms) /\ Len(p) = k
    BY <2>1, <2>4
  <2> QED
    BY <2>3, <2>5
<1>2. PICK f : IsSum(s, Len(s), f) /\ Bytes(s) = f[Len(s)]
  BY BytesIsSum
<1> HIDE DEF p
<1>3. PICK g : IsSum(p, k, g) /\ Bytes(p) = g[k]
  BY <1>1, BytesIsSum
<1>4. Len(s) \in Nat /\ k \in Nat
  OBVIOUS
<1>5. ASSUME NEW i \in 1 .. Len(s)
      PROVE  s[i].size \in Nat /\ s[i].size > 1
  <2>1. s[i] \in EventForms
    OBVIOUS
  <2>2. s[i].size \in Nat \ {0, 1}
    BY <2>1 DEF EventForms
  <2> QED
    BY <2>2
<1>6. /\ f[0] = 0 /\ g[0] = 0
      /\ \A i \in 0 .. Len(s) : f[i] \in Nat
      /\ \A i \in 1 .. Len(s) : f[i] = f[i - 1] + s[i].size
      /\ \A i \in 1 .. k : g[i] = g[i - 1] + s[i].size
  BY <1>1, <1>2, <1>3 DEF IsSum
<1> DEFINE T == {i \in 0 .. k : g[i] # f[i]}
           U == {i \in k + 1 .. Len(s) : f[i] <= f[k] + 1}
<1>7. T = {}
  <2> SUFFICES ASSUME T # {} PROVE FALSE
    OBVIOUS
  <2>1. T \subseteq Nat
    OBVIOUS
  <2>2. PICK n \in T : \A m \in T : n <= m
    BY <2>1, LeastNumber
  <2>3. n # 0
    BY <1>6, <2>2
  <2>4. n - 1 \in 0 .. k /\ n - 1 \notin T /\ n \in 1 .. Len(s)
    BY <1>4, <2>2, <2>3
  <2>5. f[n] = f[n - 1] + s[n].size /\ g[n] = g[n - 1] + s[n].size
    <3>1. n \in 1 .. k
      BY <1>4, <2>2, <2>3
    <3> QED
      BY <1>6, <2>4, <3>1
  <2>6. g[n - 1] = f[n - 1]
    BY <2>4
  <2>7. g[n] # f[n]
    BY <2>2
  <2> QED
    BY <2>5, <2>6, <2>7
<1>8. U = {}
  <2> SUFFICES ASSUME U # {} PROVE FALSE
    OBVIOUS
  <2>1. U \subseteq Nat
    BY <1>4
  <2>2. PICK n \in U : \A m \in U : n <= m
    BY <2>1, LeastNumber
  <2>3. n \in 1 .. Len(s) /\ n - 1 \notin U /\ n - 1 \in k .. Len(s)
    <3>1. n \in k + 1 .. Len(s) /\ n \in Nat
      BY <1>4, <2>2
    <3>2. n \in 1 .. Len(s) /\ n - 1 \in k .. Len(s) /\ ~ (n <= n - 1)
      BY <1>4, <3>1
    <3> QED
      BY <2>2, <3>2
  <2>4. f[n - 1] \in Nat /\ f[k] \in Nat /\ f[n - 1] >= f[k]
    BY <1>4, <1>6, <2>3
  <2>5. f[n] > f[n - 1] + 1
    <3>1. f[n] = f[n - 1] + s[n].size
      BY <1>6, <2>3
    <3>2. s[n].size \in Nat /\ s[n].size > 1
      BY <1>5, <2>3
    <3> QED
      BY <2>4, <3>1, <3>2
  <2>6. f[n] <= f[k] + 1
    BY <2>2
  <2>7. f[n] \in Nat
    <3>1. n \in 0 .. Len(s)
      BY <1>4, <2>3
    <3> QED
      BY <1>6, <3>1
  <2> HIDE DEF U
  <2> QED
    BY <2>4, <2>5, <2>6, <2>7
<1>9. f[Len(s)] > f[k] + 1 /\ f[k] = g[k]
  <2>1. Len(s) \in k + 1 .. Len(s) /\ k \in 0 .. k /\ k \in 0 .. Len(s)
    BY <1>4
  <2>2. Len(s) \notin U /\ k \notin T
    BY <1>7, <1>8
  <2>3. f[k] = g[k] /\ ~ (f[Len(s)] <= f[k] + 1)
    BY <2>1, <2>2
  <2>4. f[Len(s)] \in Nat /\ f[k] \in Nat
    BY <1>4, <1>6, <2>1
  <2> QED
    BY <2>3, <2>4
<1> QED
  BY <1>2, <1>3, <1>9 DEF p

(* What need not be cut is read to the last line. *)
LEMMA WholeIsReceived ==
  ASSUME NEW w \in Seq(EventForms), Whole(w)
  PROVE  /\ w \in Received(w)
         /\ \A s \in Received(w) : s = w
<1>1. Len(w) \in 0 .. Len(w) /\ w = SubSeq(w, 1, Len(w))
  OBVIOUS
<1>2. w \in Received(w)
  BY <1>1 DEF Received
<1>3. ASSUME NEW s \in Received(w) PROVE s = w
  <2>1. PICK k \in 0 .. Len(w) :
          /\ s = SubSeq(w, 1, k)
          /\ \/ k = Len(w)
             \/ k < Len(w) /\ CutAfter(SubSeq(w, 1, k))
    BY DEF Received
  <2>2. CASE k < Len(w) /\ CutAfter(SubSeq(w, 1, k))
    <3> DEFINE p == SubSeq(w, 1, k)
    <3>1. Bytes(p) + 1 < Bytes(w)
      BY <2>2, PrefixIsShorter
    <3> HIDE DEF p
    <3>2. Bytes(w) \in Nat /\ Bytes(w) <= ResponseBytes + 1
      BY BytesIsNumber DEF Whole
    <3>3. Bytes(p) \in {ResponseBytes, ResponseBytes + 1}
      BY <2>2 DEF CutAfter, p
    <3> QED
      BY <3>1, <3>2, <3>3, EventQueriesAssumption
  <2> QED
    BY <1>1, <2>1, <2>2
<1> QED
  BY <1>2, <1>3

-----------------------------------------------------------------------------
(* What ClickHouse answers. *)

LEMMA MillisMonotone ==
  ASSUME NEW x \in Int, NEW y \in Int, x <= y
  PROVE  Millis(x) <= Millis(y) /\ Millis(x) \in Int
BY DEF Millis

LEMMA MillisOfEvent ==
  ASSUME NEW x \in Nat \ {0, 1}
  PROVE  /\ Millis(x) \in Nat /\ 2 * Millis(x) \in Nat \ {0}
         /\ Millis(2 * Millis(x)) = Millis(x)
         /\ Millis(2 * Millis(x) + 1) = Millis(x)
BY DEF Millis

(* The rows S that come of R, in order: all of them or as many as were     *)
(* asked for.                                                              *)
Rows(R, n, S, w) ==
  /\ w \in Seq(S) /\ \A x \in S : \E i \in 1 .. Len(w) : w[i] = x
  /\ \A i, j \in 1 .. Len(w) : i # j => w[i] # w[j]
  /\ \A e \in S, x \in R \ S : Precedes(e, x)
  /\ \A i, j \in 1 .. Len(w) : i < j => Precedes(w[i], w[j])
  /\ S # R => Len(w) = n
  /\ Cardinality(R) <= n => S = R
  /\ w \in SetToSeqs(S)

LEMMA OrderedRows ==
  ASSUME NEW R, IsFiniteSet(R), NEW n \in Nat, NEW w \in Ordered(R, n)
  PROVE  \E S \in SUBSET R : Rows(R, n, S, w)
<1> DEFINE size == IF Cardinality(R) < n THEN Cardinality(R) ELSE n
<1>1. PICK S \in kSubset(size, R) :
        /\ \A e \in S, x \in R \ S : Precedes(e, x)
        /\ w \in SetToSeqs(S)
        /\ \A i, j \in 1 .. size : i < j => Precedes(w[i], w[j])
  BY DEF Ordered
<1>2. S \in SUBSET R /\ Cardinality(S) = size
  BY DEF kSubset
<1>3. Cardinality(R) \in Nat
  BY FS_CardinalityType
<1>4. size \in Nat
  BY <1>3
<1>5. IsFiniteSet(S) /\ (Cardinality(R) = Cardinality(S) => R = S)
  BY <1>2, FS_Subset
<1>6. (S # R => size = n) /\ (Cardinality(R) <= n => S = R)
  BY <1>2, <1>3, <1>5
<1> HIDE DEF size
<1>7. w \in [1 .. size -> S] /\ \A i, j \in 1 .. size : i # j => w[i] # w[j]
  BY <1>1, <1>2 DEF SetToSeqs
<1>8. w \in Injection(1 .. size, S)
  BY <1>7 DEF Injection, IsInjective
<1>9. Cardinality(1 .. size) = Cardinality(S)
  BY <1>2, <1>4, FS_Interval
<1>10. w \in Surjection(1 .. size, S)
  BY <1>5, <1>8, <1>9, FS_Injection
<1>11. \A x \in S : \E i \in 1 .. size : w[i] = x
  BY <1>10 DEF Surjection
<1>12. w \in Seq(S) /\ Len(w) = size
  BY <1>4, <1>7
<1>13. Rows(R, n, S, w)
  BY <1>1, <1>6, <1>7, <1>11, <1>12 DEF Rows
<1> QED
  BY <1>2, <1>13

(* What is read of at most n of these rows: some of them, in order, and    *)
(* the others are no newer.  All of them when they are no more than n and  *)
(* not too long.                                                           *)
Page(R, n, s) ==
  /\ s \in Seq(R)
  /\ \A i, j \in 1 .. Len(s) : i # j => s[i] # s[j]
  /\ \A i, j \in 1 .. Len(s) : i < j => Precedes(s[i], s[j])
  /\ \A e \in R \ Range(s) :
       /\ Len(s) = n \/ CutAfter(s)
       /\ \A i \in 1 .. Len(s) : Precedes(s[i], e)
  /\ Cardinality(R) <= n /\ Fits(R) => Range(s) = R

LEMMA ReceivedRows ==
  ASSUME NEW R, IsFiniteSet(R), R \subseteq EventForms,
         NEW n \in Nat, NEW w \in Ordered(R, n), NEW s \in Received(w)
  PROVE  Page(R, n, s)
<1>0. PICK S \in SUBSET R : Rows(R, n, S, w)
  BY OrderedRows
<1>1. /\ w \in Seq(S) /\ \A x \in S : \E i \in 1 .. Len(w) : w[i] = x
      /\ \A i, j \in 1 .. Len(w) : i # j => w[i] # w[j]
      /\ \A e \in S, x \in R \ S : Precedes(e, x)
      /\ \A i, j \in 1 .. Len(w) : i < j => Precedes(w[i], w[j])
      /\ S # R => Len(w) = n
      /\ Cardinality(R) <= n => S = R
      /\ w \in SetToSeqs(S)
  BY <1>0 DEF Rows
<1>2. PICK k \in 0 .. Len(w) :
        /\ s = SubSeq(w, 1, k)
        /\ \/ k = Len(w)
           \/ k < Len(w) /\ CutAfter(SubSeq(w, 1, k))
  BY DEF Received
<1>3. w \in Seq(R) /\ Len(w) \in Nat
  BY <1>1
<1>4. /\ s \in Seq(R) /\ Len(s) = k
      /\ \A i \in 1 .. k : s[i] = w[i] /\ w[i] \in S
  BY <1>1, <1>2, <1>3
<1>5. k = Len(w) \/ CutAfter(s)
  BY <1>2
<1>6. ASSUME NEW e \in R \ Range(s)
      PROVE  /\ Len(s) = n \/ CutAfter(s)
             /\ \A i \in 1 .. Len(s) : Precedes(s[i], e)
  <2>1. CASE e \notin S
    <3>1. Len(w) = n
      BY <1>1, <2>1
    <3>2. \A i \in 1 .. k : Precedes(s[i], e)
      BY <1>1, <1>4, <2>1
    <3> QED
      BY <1>4, <1>5, <3>1, <3>2
  <2>2. CASE e \in S
    <3>1. PICK j \in 1 .. Len(w) : w[j] = e
      BY <1>1, <2>2
    <3>2. DOMAIN s = 1 .. k
      BY <1>4
    <3>3. j \notin 1 .. k
      <4> SUFFICES ASSUME j \in 1 .. k PROVE FALSE
        OBVIOUS
      <4>1. s[j] = e /\ j \in DOMAIN s
        BY <1>4, <3>1, <3>2
      <4>2. e \in Range(s)
        BY <4>1 DEF Range
      <4> QED
        BY <4>2
    <3>4. k < j
      BY <1>3, <3>3
    <3>5. ASSUME NEW i \in 1 .. k PROVE Precedes(w[i], w[j])
      <4>1. i \in 1 .. Len(w) /\ i < j
        BY <1>3, <3>4
      <4> QED
        BY <1>1, <4>1
    <3>6. CutAfter(s)
      BY <1>3, <1>5, <3>4
    <3> QED
      BY <1>4, <3>1, <3>5, <3>6
  <2> QED
    BY <2>1, <2>2
<1>7. \A i \in 1 .. k : i \in 1 .. Len(w)
  BY <1>3
<1>8. \A i, j \in 1 .. Len(s) : i # j => s[i] # s[j]
  BY <1>1, <1>4, <1>7
<1>9. \A i, j \in 1 .. Len(s) : i < j => Precedes(s[i], s[j])
  BY <1>1, <1>4, <1>7
<1>10. ASSUME Cardinality(R) <= n, Fits(R) PROVE Range(s) = R
  <2>1. S = R /\ w \in SetToSeqs(R)
    BY <1>1, <1>10
  <2>2. Whole(w)
    BY <1>10, <2>1 DEF Fits
  <2>3. w \in Seq(EventForms)
    BY <1>3
  <2>4. k = Len(w)
    BY <1>4, <2>2, <2>3, WholeIsReceived
  <2>5. \A x \in R : \E i \in 1 .. k : s[i] = x
    BY <1>1, <1>4, <2>1, <2>4
  <2>6. DOMAIN s = 1 .. k
    BY <1>4
  <2> QED
    BY <1>4, <2>1, <2>5, <2>6 DEF Range
<1> QED
  BY <1>4, <1>6, <1>8, <1>9, <1>10 DEF Page

(* The query succeeds with such a page of the rows it selects. *)
LEMMA FoundRows ==
  ASSUME IsFiniteSet(log), log \subseteq EventForms, NEW f, NEW n \in Nat,
         NEW s \in Found(f, n)
  PROVE  Page({e \in log : Selects(f, e)}, n, s)
<1> DEFINE R == {e \in log : Selects(f, e)}
<1>1. IsFiniteSet(R) /\ R \subseteq EventForms
  BY FS_Subset
<1>2. PICK w \in Ordered(R, n) : s \in Received(w)
  BY DEF Found
<1> HIDE DEF R
<1>3. Page(R, n, s)
  BY <1>1, <1>2, ReceivedRows
<1> QED
  BY <1>3 DEF R

LEMMA PageIsOfRows ==
  ASSUME NEW R \in SUBSET log, NEW n, NEW s, Page(R, n, s)
  PROVE  /\ s \in Seq(log) /\ Len(s) \in Nat /\ DOMAIN s = 1 .. Len(s)
         /\ \A i \in 1 .. Len(s) : s[i] \in R
<1>1. s \in Seq(R)
  BY DEF Page
<1> QED
  BY <1>1

-----------------------------------------------------------------------------
(* Who is told what. *)

Names(r) == {TrimSpace(r.header), TrimSpace(r.query)}

Entitled(r, e) ==
  /\ e.tenant_id \in Names(r) /\ Names(r) \subseteq {0, e.tenant_id}
  /\ r.token = "admin"

(* A request that requireAuth and requireTenant let through names its      *)
(* tenant, and no other.                                                   *)
LEMMA TenantIsNamed ==
  ASSUME NEW r \in RequestForms, Refusal(r) = 0
  PROVE  /\ r.token = "admin" /\ TenantOf(r) # 0 /\ TenantOf(r) \in Nat
         /\ TenantOf(r) \in Names(r) /\ Names(r) \subseteq {0, TenantOf(r)}
<1>1. /\ Authorized(r.token, "admin") /\ ~ TenantConflict(r)
      /\ TenantGiven(r)
  BY DEF Refusal
<1>2. TrimSpace(r.header) \in Nat /\ TrimSpace(r.query) \in Nat
  BY DEF RequestForms, Raw, TrimSpace
<1> QED
  BY <1>1, <1>2
  DEF Authorized, TenantConflict, TenantGiven, TenantOf, Names

LEMMA OwnIsEntitled ==
  ASSUME NEW r \in RequestForms, Refusal(r) = 0, NEW e,
         e.tenant_id = TenantOf(r)
  PROVE  Entitled(r, e)
BY TenantIsNamed DEF Entitled

(* Once a request is answered, those are the events it may be told about. *)
LEMMA AskedNow ==
  ASSUME NEW r, NEW st, NEW s, NEW rules, Reply(r, st, s, rules)
  PROVE  /\ Asked' = {e \in log : Entitled(r, e)}
         /\ log' = log /\ answer'.request = r /\ answer'.status = st
         /\ answer'.kind = r.kind /\ answer'.events = s
         /\ answer'.rules = rules
BY DEF Reply, Asked, Entitled, Names

LEMMA NothingTold ==
  ASSUME NEW r \in Requests, NEW st, EventQueriesInv,
         Reply(r, st, <<>>, <<>>), st # 200 \/ r.kind = "detail"
  PROVE  EventQueriesInv'
<1>1. /\ log' = log /\ answer'.status = st /\ answer'.kind = r.kind
      /\ answer'.events = <<>> /\ answer'.rules = <<>>
  BY AskedNow
<1>2. OwnEventsOnly'
  BY <1>1 DEF OwnEventsOnly, Range
<1>3. NothingNewerLeftOut' /\ SummaryIsTrue'
  BY <1>1 DEF NothingNewerLeftOut, SummaryIsTrue, SummaryCounts,
              SummaryRanked, Succeeded
<1> QED
  BY <1>1, <1>2, <1>3 DEF EventQueriesInv

(* Events of the tenant are told to it. *)
LEMMA OwnEventsTold ==
  ASSUME NEW r \in Requests, Refusal(r) = 0, NEW st, NEW s \in Seq(log),
         \A i \in 1 .. Len(s) : s[i].tenant_id = TenantOf(r),
         Reply(r, st, s, <<>>)
  PROVE  OwnEventsOnly'
<1>1. r \in RequestForms
  BY EventQueriesForms
<1>2. /\ Asked' = {e \in log : Entitled(r, e)}
      /\ answer'.events = s /\ answer'.rules = <<>>
  BY AskedNow
<1>3. \A i \in 1 .. Len(s) : s[i] \in log /\ Entitled(r, s[i])
  BY <1>1, OwnIsEntitled
<1>4. DOMAIN s = 1 .. Len(s)
  OBVIOUS
<1>5. \A e \in Range(s) : e \in Asked'
  BY <1>2, <1>3, <1>4 DEF Range
<1>6. Range(<<>>) = {}
  BY DEF Range
<1> QED
  BY <1>2, <1>5, <1>6 DEF OwnEventsOnly

-----------------------------------------------------------------------------
(* The summary. *)

(* The places of a rule's events in an answer, and those among the rows.   *)
Own(s, rule) == {i \in WouldBlock(s) : RuleID(s[i]) = rule}

BlockedIn(R, rule) == {e \in R : e.would_block /\ RuleID(e) = rule}

(* A page shows no event twice: its places are as many events. *)
LEMMA PlacesAreEvents ==
  ASSUME NEW R, IsFiniteSet(R), NEW n, NEW s, Page(R, n, s),
         NEW P \in SUBSET DOMAIN s, NEW B \in SUBSET R,
         \A i \in P : s[i] \in B
  PROVE  /\ IsFiniteSet(P) /\ Cardinality(P) \in Nat
         /\ IsFiniteSet(B) /\ Cardinality(B) \in Nat
         /\ Cardinality(P) <= Cardinality(B)
         /\ Cardinality(P) = Cardinality(B)
              <=> \A e \in B : \E i \in P : s[i] = e
<1> DEFINE at == [i \in P |-> s[i]]
<1>1. /\ s \in Seq(R)
      /\ \A i, j \in 1 .. Len(s) : i # j => s[i] # s[j]
  BY DEF Page
<1>2. DOMAIN s = 1 .. Len(s)
  BY <1>1
<1>3. IsFiniteSet(B)
  BY FS_Subset
<1>4. at \in [P -> B]
  OBVIOUS
<1>5. \A i, j \in P : at[i] = at[j] => i = j
  BY <1>1, <1>2
<1>6. at \in Injection(P, B)
  BY <1>4, <1>5 DEF Injection, IsInjective
<1>7. /\ IsFiniteSet(P) /\ Cardinality(P) <= Cardinality(B)
      /\ Cardinality(P) = Cardinality(B) <=> at \in Surjection(P, B)
  BY <1>3, <1>6, FS_Injection
<1>8. at \in Surjection(P, B) <=> \A e \in B : \E i \in P : s[i] = e
  BY <1>4 DEF Surjection
<1> HIDE DEF at
<1> QED
  BY <1>3, <1>7, <1>8, FS_CardinalityType

LEMMA OwnPlaces ==
  ASSUME NEW R, IsFiniteSet(R), NEW n, NEW s, Page(R, n, s), NEW rule
  PROVE  /\ Own(s, rule) \subseteq DOMAIN s
         /\ \A i \in Own(s, rule) : s[i] \in BlockedIn(R, rule)
         /\ \A i \in DOMAIN s :
              s[i] \in BlockedIn(R, rule) => i \in Own(s, rule)
         /\ IsFiniteSet(Own(s, rule)) /\ Cardinality(Own(s, rule)) \in Nat
         /\ IsFiniteSet(BlockedIn(R, rule))
         /\ Cardinality(BlockedIn(R, rule)) \in Nat
         /\ Cardinality(Own(s, rule)) <= Cardinality(BlockedIn(R, rule))
         /\ Cardinality(Own(s, rule)) = Cardinality(BlockedIn(R, rule))
              <=> \A e \in BlockedIn(R, rule) :
                    \E i \in Own(s, rule) : s[i] = e
<1>1. s \in Seq(R)
  BY DEF Page
<1>2. \A i \in DOMAIN s : s[i] \in R
  BY <1>1
<1>3. /\ Own(s, rule) \subseteq DOMAIN s /\ BlockedIn(R, rule) \subseteq R
      /\ \A i \in Own(s, rule) : s[i] \in BlockedIn(R, rule)
      /\ \A i \in DOMAIN s :
           s[i] \in BlockedIn(R, rule) => i \in Own(s, rule)
  BY <1>2 DEF Own, WouldBlock, BlockedIn
<1> QED
  BY <1>3, PlacesAreEvents

(* A page that is the whole of the rows has all events of a rule. *)
LEMMA AllAreOwn ==
  ASSUME NEW R, NEW s, Range(s) = R, NEW rule
  PROVE  \A e \in BlockedIn(R, rule) : \E i \in Own(s, rule) : s[i] = e
BY DEF Range, BlockedIn, Own, WouldBlock

(* What stands in the summary of a page. *)
Summarises(s, rules) ==
  /\ Len(rules) \in Nat /\ DOMAIN rules = 1 .. Len(rules)
  /\ \A k \in 1 .. Len(rules) :
       /\ rules[k] = RuleSummary(s, rules[k].key)
       /\ \E i \in WouldBlock(s) : rules[k].key = RuleID(s[i])
  /\ \A i \in WouldBlock(s) :
       \E k \in 1 .. Len(rules) : rules[k].key = RuleID(s[i])
  /\ \A j, k \in 1 .. Len(rules) :
       j < k => rules[j] # rules[k] /\ MostFirst(rules[j], rules[k])

LEMMA SummaryOfRules ==
  ASSUME NEW R, NEW n, NEW s, Page(R, n, s),
         NEW rules \in BuildSimulationSummary(s)
  PROVE  Summarises(s, rules)
<1> DEFINE sum == [i \in WouldBlock(s) |-> RuleSummary(s, RuleID(s[i]))]
           items == {RuleSummary(s, RuleID(s[i])) : i \in WouldBlock(s)}
           c == Cardinality(items)
<1>1. s \in Seq(R)
  BY DEF Page
<1>2. IsFiniteSet(WouldBlock(s))
  <2>1. IsFiniteSet(1 .. Len(s))
    BY <1>1, FS_Interval
  <2>2. WouldBlock(s) \subseteq 1 .. Len(s)
    BY <1>1 DEF WouldBlock
  <2> QED
    BY <2>1, <2>2, FS_Subset
<1>3. sum \in Surjection(WouldBlock(s), items)
  BY DEF Surjection
<1>4. IsFiniteSet(items)
  BY <1>2, <1>3, FS_Surjection
<1>5. c \in Nat
  BY <1>4, FS_CardinalityType
<1>6. /\ rules \in SetToSeqs(items)
      /\ \A j, k \in DOMAIN rules : j < k => MostFirst(rules[j], rules[k])
  BY DEF BuildSimulationSummary, Ranked
<1>7. ASSUME NEW x \in items
      PROVE  /\ x = RuleSummary(s, x.key)
             /\ \E i \in WouldBlock(s) : x.key = RuleID(s[i])
  <2>1. PICK i \in WouldBlock(s) : x = RuleSummary(s, RuleID(s[i]))
    OBVIOUS
  <2>2. RuleSummary(s, RuleID(s[i])).key = RuleID(s[i])
    BY DEF RuleSummary
  <2> QED
    BY <2>1, <2>2
<1>8. \A i \in WouldBlock(s) : \E x \in items : x.key = RuleID(s[i])
  <2> SUFFICES ASSUME NEW i \in WouldBlock(s)
               PROVE  \E x \in items : x.key = RuleID(s[i])
    OBVIOUS
  <2>1. RuleSummary(s, RuleID(s[i])) \in items
    OBVIOUS
  <2>2. RuleSummary(s, RuleID(s[i])).key = RuleID(s[i])
    BY DEF RuleSummary
  <2> QED
    BY <2>1, <2>2
<1> HIDE DEF sum, items
<1>9. /\ rules \in [1 .. c -> items]
      /\ \A j, k \in 1 .. c : j # k => rules[j] # rules[k]
  BY <1>6 DEF SetToSeqs
<1> HIDE DEF c
<1>10. DOMAIN rules = 1 .. c /\ Len(rules) = c
  BY <1>5, <1>9
<1>11. \A x \in items : \E k \in 1 .. c : rules[k] = x
  <2>1. rules \in Injection(1 .. c, items)
    BY <1>9 DEF Injection, IsInjective
  <2>2. Cardinality(1 .. c) = Cardinality(items)
    BY <1>5, FS_Interval DEF c
  <2>3. rules \in Surjection(1 .. c, items)
    BY <1>4, <2>1, <2>2, FS_Injection
  <2> QED
    BY <2>3 DEF Surjection
<1>12. \A k \in 1 .. c : rules[k] \in items
  BY <1>9
<1>13. \A j, k \in 1 .. c :
         j < k => rules[j] # rules[k] /\ MostFirst(rules[j], rules[k])
  BY <1>5, <1>6, <1>9, <1>10
<1> QED
  BY <1>5, <1>7, <1>8, <1>10, <1>11, <1>12, <1>13 DEF Summarises

(* The summary of a page, told of the rows R of which the page was read.   *)

LEMMA SummaryFields ==
  ASSUME NEW s, NEW key
  PROVE  LET rule == RuleSummary(s, key)
             own == Own(s, key)
         IN  /\ rule.key = key /\ rule.count = Cardinality(own)
             /\ rule.ips = Cardinality({s[i].client_ip : i \in own} \ {0})
             /\ rule.paths = TopPaths(s, own)
             /\ rule.samples = Samples(s, own)
BY DEF RuleSummary, Own

LEMMA ClientsAreCounted ==
  ASSUME NEW R, IsFiniteSet(R), NEW n, NEW s, Page(R, n, s), NEW key
  PROVE  LET rule == RuleSummary(s, key) IN
         /\ CountsWithin(rule, BlockedIn(R, key))
         /\ (\A e \in BlockedIn(R, key) : \E i \in Own(s, key) : s[i] = e)
              => CountsExactly(rule, BlockedIn(R, key))
<1> DEFINE rule == RuleSummary(s, key)
           own == Own(s, key)
           B == BlockedIn(R, key)
           shown == {s[i].client_ip : i \in own}
           ips == {e.client_ip : e \in B}
<1>1. /\ rule.key = key /\ rule.count = Cardinality(own)
      /\ rule.ips = Cardinality(shown \ {0})
  BY SummaryFields
<1>2. /\ \A i \in own : s[i] \in B
      /\ IsFiniteSet(B) /\ Cardinality(own) <= Cardinality(B)
      /\ (\A e \in B : \E i \in own : s[i] = e)
           => Cardinality(own) = Cardinality(B)
  BY OwnPlaces
<1>3. IsFiniteSet(ips)
  <2>1. [e \in B |-> e.client_ip] \in Surjection(B, ips)
    BY DEF Surjection
  <2> HIDE DEF B, ips
  <2> QED
    BY <1>2, <2>1, FS_Surjection
<1>4. shown \subseteq ips
  BY <1>2
<1>5. (\A e \in B : \E i \in own : s[i] = e) => shown = ips
  BY <1>2
<1>6. shown \ {0} \in SUBSET ips
  BY <1>4
<1> HIDE DEF shown, ips, own, B, rule
<1>7. Cardinality(shown \ {0}) <= Cardinality(ips)
  BY <1>3, <1>6, FS_Subset
<1>8. CountsWithin(rule, B)
  BY <1>1, <1>2, <1>7 DEF CountsWithin, ips
<1>9. (\A e \in B : \E i \in own : s[i] = e) => CountsExactly(rule, B)
  BY <1>1, <1>2, <1>5 DEF CountsExactly, ips
<1> QED
  BY <1>8, <1>9 DEF B, own, rule

(* The samples are the first events of the rule. *)
LEMMA SamplesAreNewest ==
  ASSUME NEW R, IsFiniteSet(R), R \subseteq Events, NEW n, NEW s,
         Page(R, n, s), NEW key, NEW samples,
         samples = Samples(s, Own(s, key)),
         NEW e \in BlockedIn(R, key), e.request_id \in samples,
         NEW x \in BlockedIn(R, key), x.request_id \notin samples
  PROVE  Precedes(e, x)
<1> DEFINE own == Own(s, key)
           before(i) == {j \in own : j < i}
<1>1. /\ own \subseteq DOMAIN s /\ IsFiniteSet(own)
      /\ \A i \in DOMAIN s : s[i] \in BlockedIn(R, key) => i \in own
  BY OwnPlaces
<1>2. s \in Seq(R) /\ DOMAIN s = 1 .. Len(s) /\ Len(s) \in Nat
  BY DEF Page
<1>3. \A i \in own : s[i] \in R /\ i \in Nat
  BY <1>1, <1>2
<1>4. \A y \in R : y \in EventForms /\ y.request_id # 0
  BY EventQueriesForms DEF EventForms
<1>5. {i \in own : s[i].request_id # 0} = own
  BY <1>3, <1>4
<1> HIDE DEF own
<1>6. samples = {s[i].request_id : i \in {k \in own :
                                Cardinality(before(k)) < MaxSamples}}
  BY <1>5 DEF Samples, own
<1>7. PICK i \in own : /\ Cardinality(before(i)) < MaxSamples
                       /\ e.request_id = s[i].request_id
  BY <1>6
<1>8. e \in R /\ x \in R
  BY DEF BlockedIn
<1>9. e = s[i]
  BY <1>3, <1>7, <1>8, EventQueriesAssumption
<1>10. CASE x \notin Range(s)
  <2>1. Precedes(s[i], x)
    BY <1>1, <1>2, <1>8, <1>10 DEF Page
  <2> QED
    BY <1>9, <2>1
<1>11. CASE x \in Range(s)
  <2>1. PICK j \in DOMAIN s : x = s[j]
    BY <1>11 DEF Range
  <2>2. j \in own
    BY <1>1, <2>1
  <2>3. ~ (Cardinality(before(j)) < MaxSamples)
    BY <1>6, <2>1, <2>2
  <2>4. ASSUME j <= i PROVE FALSE
    <3>1. before(j) \in SUBSET before(i) /\ before(i) \in SUBSET own
      BY <1>3, <2>2, <2>4
    <3> HIDE DEF before
    <3>2. IsFiniteSet(before(i)) /\ IsFiniteSet(before(j))
      BY <1>1, <3>1, FS_Subset
    <3>3. Cardinality(before(j)) <= Cardinality(before(i))
      BY <3>1, <3>2, FS_Subset
    <3>4. Cardinality(before(j)) \in Nat /\ Cardinality(before(i)) \in Nat
      BY <3>2, FS_CardinalityType
    <3> QED
      BY <1>7, <2>3, <3>3, <3>4, EventQueriesAssumption
  <2>5. i < j
    BY <1>3, <2>2, <2>4
  <2>6. Precedes(s[i], s[j])
    BY <1>1, <1>2, <2>1, <2>5 DEF Page
  <2> QED
    BY <1>9, <2>1, <2>6
<1> QED
  BY <1>10, <1>11

LEMMA MostFirstTransitive ==
  ASSUME NEW a, NEW b, NEW c, MostFirst(a, b), MostFirst(b, c),
         {a.count, b.count, c.count, a.key, b.key, c.key} \subseteq Nat
  PROVE  MostFirst(a, c)
BY DEF MostFirst

(* The paths that are listed are the most frequent ones. *)
LEMMA PathsAreMostFrequent ==
  ASSUME NEW s, NEW P, IsFiniteSet(P), \A i \in P : s[i].path \in Nat,
         NEW p \in TopPaths(s, P),
         NEW q \in {s[i].path : i \in P} \ {0}, q \notin TopPaths(s, P)
  PROVE  Cardinality({i \in P : s[i].path = q})
           <= Cardinality({i \in P : s[i].path = p})
<1> DEFINE paths == {s[i].path : i \in P} \ {0}
           count(v) == Cardinality({i \in P : s[i].path = v})
           item(v) == [key |-> v, count |-> count(v)]
           items == {item(v) : v \in paths}
           above(x) == {y \in items : MostFirst(y, x)}
<1>1. TopPaths(s, P) =
        {x.key : x \in {y \in items : Cardinality(above(y)) < MaxPaths}}
  BY DEF TopPaths
<1>2. \A v : count(v) \in Nat
  <2> SUFFICES ASSUME NEW v PROVE count(v) \in Nat
    OBVIOUS
  <2>1. IsFiniteSet({i \in P : s[i].path = v})
    BY FS_Subset
  <2> QED
    BY <2>1, FS_CardinalityType
<1>3. paths \subseteq Nat
  OBVIOUS
<1> HIDE DEF count
<1>4. IsFiniteSet(items)
  <2> DEFINE D == {i \in P : s[i].path # 0}
             g == [i \in D |-> item(s[i].path)]
  <2>1. IsFiniteSet(D)
    BY FS_Subset
  <2>2. \A i \in D : s[i].path \in paths
    OBVIOUS
  <2>3. \A v \in paths : \E i \in D : s[i].path = v
    OBVIOUS
  <2> HIDE DEF D, paths, item
  <2>4. g \in [D -> items]
    BY <2>2
  <2>5. ASSUME NEW x \in items PROVE \E i \in D : g[i] = x
    <3>1. PICK v \in paths : x = item(v)
      OBVIOUS
    <3>2. PICK i \in D : s[i].path = v
      BY <2>3
    <3> QED
      BY <3>1, <3>2
  <2>6. g \in Surjection(D, items)
    BY <2>4, <2>5 DEF Surjection
  <2> HIDE DEF items, g
  <2> QED
    BY <2>1, <2>6, FS_Surjection
<1>5. ASSUME NEW x \in items
      PROVE  x.key \in Nat /\ x.count \in Nat /\ x.count = count(x.key)
  <2>1. PICK v \in paths : x = item(v)
    OBVIOUS
  <2>2. x.key = v /\ x.count = count(v)
    BY <2>1
  <2> QED
    BY <1>2, <1>3, <2>2
<1>6. \A v : item(v).key = v /\ item(v).count = count(v)
  OBVIOUS
<1>7. item(q) \in items
  OBVIOUS
<1> HIDE DEF item, items
<1>8. PICK x \in items : x.key = p /\ Cardinality(above(x)) < MaxPaths
  BY <1>1
<1>9. ~ (Cardinality(above(item(q))) < MaxPaths)
  BY <1>1, <1>6, <1>7
<1>10. ASSUME count(q) > count(p) PROVE FALSE
  <2>1. MostFirst(item(q), x)
    BY <1>5, <1>6, <1>8, <1>10 DEF MostFirst
  <2>2. ASSUME NEW y \in above(item(q)) PROVE y \in above(x)
    <3>1. y \in items /\ MostFirst(y, item(q))
      OBVIOUS
    <3>2. {y.count, item(q).count, x.count, y.key, item(q).key, x.key}
            \subseteq Nat
      BY <1>5, <1>7, <3>1
    <3> QED
      BY <2>1, <3>1, <3>2, MostFirstTransitive
  <2>3. above(item(q)) \in SUBSET above(x) /\ above(x) \in SUBSET items
    BY <2>2
  <2> HIDE DEF above
  <2>4. IsFiniteSet(above(x)) /\ IsFiniteSet(above(item(q)))
    BY <1>4, <2>3, FS_Subset
  <2>5. /\ Cardinality(above(item(q))) <= Cardinality(above(x))
        /\ Cardinality(above(item(q))) \in Nat /\ Cardinality(above(x)) \in Nat
    BY <2>3, <2>4, FS_Subset, FS_CardinalityType
  <2> QED
    BY <1>8, <1>9, <2>5, EventQueriesAssumption
<1>11. count(q) <= count(p)
  BY <1>2, <1>10
<1> QED
  BY <1>11 DEF count


SummaryCountsOf(R, rules) ==
  /\ \A rule \in Range(rules) : CountsWithin(rule, BlockedIn(R, rule.key))
  /\ Cardinality(R) <= MaxLimit /\ Fits(R) =>
       /\ {rule.key : rule \in Range(rules)}
            = {RuleID(e) : e \in {x \in R : x.would_block}}
       /\ \A rule \in Range(rules) : CountsExactly(rule, BlockedIn(R, rule.key))

LEMMA PageIsCounted ==
  ASSUME NEW R, IsFiniteSet(R), NEW s, Page(R, MaxLimit, s),
         NEW rules \in BuildSimulationSummary(s)
  PROVE  SummaryCountsOf(R, rules)
<1>1. Summarises(s, rules)
  BY SummaryOfRules
<1>2. ASSUME NEW rule \in Range(rules)
      PROVE  /\ rule = RuleSummary(s, rule.key)
             /\ \E i \in WouldBlock(s) : rule.key = RuleID(s[i])
  BY <1>1 DEF Summarises, Range
<1>3. ASSUME NEW rule \in Range(rules) PROVE CountsWithin(rule, BlockedIn(R, rule.key))
  BY <1>2, ClientsAreCounted
<1>4. ASSUME Cardinality(R) <= MaxLimit, Fits(R)
      PROVE  /\ {rule.key : rule \in Range(rules)}
                  = {RuleID(e) : e \in {x \in R : x.would_block}}
             /\ \A rule \in Range(rules) : CountsExactly(rule, BlockedIn(R, rule.key))
  <2>1. Range(s) = R
    BY <1>4 DEF Page
  <2>2. ASSUME NEW rule \in Range(rules) PROVE CountsExactly(rule, BlockedIn(R, rule.key))
    BY <1>2, <2>1, AllAreOwn, ClientsAreCounted
  <2>3. ASSUME NEW rule \in Range(rules)
        PROVE  rule.key \in {RuleID(e) : e \in {x \in R : x.would_block}}
    <3>1. PICK i \in WouldBlock(s) : rule.key = RuleID(s[i])
      BY <1>2
    <3>2. s[i] \in R /\ s[i].would_block
      BY <2>1 DEF WouldBlock, Range
    <3> QED
      BY <3>1, <3>2
  <2>4. ASSUME NEW e \in R, e.would_block
        PROVE  RuleID(e) \in {rule.key : rule \in Range(rules)}
    <3>1. PICK i \in WouldBlock(s) : s[i] = e
      BY <2>1, <2>4 DEF WouldBlock, Range
    <3>2. PICK k \in DOMAIN rules : rules[k].key = RuleID(e)
      BY <1>1, <3>1 DEF Summarises
    <3>3. rules[k] \in Range(rules)
      BY DEF Range
    <3> QED
      BY <3>2, <3>3
  <2> QED
    BY <2>2, <2>3, <2>4
<1> QED
  BY <1>3, <1>4 DEF SummaryCountsOf

SummaryRankedOf(R, rules) ==
  \A i \in 1 .. Len(rules) :
    /\ \A j \in i + 1 .. Len(rules) :
         /\ rules[j].count <= rules[i].count
         /\ rules[j].key # rules[i].key
    /\ NewestSampled(rules[i], BlockedIn(R, rules[i].key))
    /\ rules[i].count = Cardinality(BlockedIn(R, rules[i].key)) =>
         FrequentPathsListed(rules[i], BlockedIn(R, rules[i].key))

LEMMA PathsOfPage ==
  ASSUME NEW R, IsFiniteSet(R), R \subseteq EventForms, NEW n, NEW s,
         Page(R, n, s), NEW key, NEW rule, rule = RuleSummary(s, key),
         rule.count = Cardinality(BlockedIn(R, key))
  PROVE  FrequentPathsListed(rule, BlockedIn(R, key))
<1> DEFINE own == Own(s, key)
           B == BlockedIn(R, key)
           hits(v) == Cardinality({e \in B : e.path = v})
           count(v) == Cardinality({i \in own : s[i].path = v})
<1>1. /\ rule.key = key /\ rule.count = Cardinality(own)
      /\ rule.paths = TopPaths(s, own)
  BY SummaryFields
<1>2. /\ own \subseteq DOMAIN s /\ IsFiniteSet(own) /\ B \subseteq R
      /\ \A i \in own : s[i] \in B
      /\ Cardinality(own) = Cardinality(B)
           => \A e \in B : \E i \in own : s[i] = e
  BY OwnPlaces DEF BlockedIn
<1> SUFFICES ASSUME NEW p \in rule.paths,
                    NEW q \in {e.path : e \in B} \ rule.paths, q # 0
             PROVE  hits(q) <= hits(p)
  BY DEF FrequentPathsListed
<1>3. \A e \in B : \E i \in own : s[i] = e
  BY <1>1, <1>2
<1>4. \A i \in own : s[i].path \in Nat
  BY <1>2 DEF EventForms
<1>5. q \in {s[i].path : i \in own} \ {0}
  BY <1>3
<1> HIDE DEF own, B
<1>6. count(q) <= count(p)
  BY <1>1, <1>2, <1>4, <1>5, PathsAreMostFrequent
<1>7. ASSUME NEW v PROVE count(v) = hits(v)
  <2> DEFINE P == {i \in own : s[i].path = v}
             E == {e \in B : e.path = v}
  <2>1. P \in SUBSET DOMAIN s /\ E \in SUBSET R /\ \A i \in P : s[i] \in E
    BY <1>2
  <2>2. \A e \in E : \E i \in P : s[i] = e
    BY <1>3
  <2> HIDE DEF P, E
  <2>3. Cardinality(P) = Cardinality(E)
    BY <2>1, <2>2, PlacesAreEvents
  <2> QED
    BY <2>3 DEF P, E
<1> QED
  BY <1>6, <1>7

LEMMA SamplesOfPage ==
  ASSUME NEW R, IsFiniteSet(R), R \subseteq Events, NEW n, NEW s,
         Page(R, n, s), NEW key, NEW rule, rule = RuleSummary(s, key)
  PROVE  NewestSampled(rule, BlockedIn(R, key))
<1>1. rule.key = key /\ rule.samples = Samples(s, Own(s, key))
  BY SummaryFields
<1> SUFFICES ASSUME NEW e \in BlockedIn(R, key), e.request_id \in rule.samples,
                    NEW x \in BlockedIn(R, key), x.request_id \notin rule.samples
             PROVE  Millis(x.at) <= Millis(e.at)
  BY DEF NewestSampled
<1>2. Precedes(e, x)
  BY <1>1, SamplesAreNewest
<1>3. e.at \in Nat \ {0, 1} /\ x.at \in Nat \ {0, 1}
  BY EventQueriesForms DEF BlockedIn, EventForms
<1>4. Millis(e.at) \in Nat /\ Millis(x.at) \in Nat
  BY <1>3, MillisOfEvent
<1> QED
  BY <1>2, <1>4 DEF Precedes

LEMMA PageIsRanked ==
  ASSUME NEW R, IsFiniteSet(R), R \subseteq Events, NEW n, NEW s,
         Page(R, n, s), NEW rules \in BuildSimulationSummary(s)
  PROVE  SummaryRankedOf(R, rules)
<1>1. Summarises(s, rules)
  BY SummaryOfRules
<1>2. R \subseteq EventForms
  BY EventQueriesForms
<1> SUFFICES ASSUME NEW i \in 1 .. Len(rules)
             PROVE  LET B == BlockedIn(R, rules[i].key) IN
                    /\ \A j \in i + 1 .. Len(rules) :
                         /\ rules[j].count <= rules[i].count
                         /\ rules[j].key # rules[i].key
                    /\ NewestSampled(rules[i], B)
                    /\ rules[i].count = Cardinality(B) =>
                         FrequentPathsListed(rules[i], B)
  BY DEF SummaryRankedOf
<1>3. \A k \in 1 .. Len(rules) : rules[k] = RuleSummary(s, rules[k].key)
  BY <1>1 DEF Summarises
<1> DEFINE B == BlockedIn(R, rules[i].key)
<1>4. /\ NewestSampled(rules[i], B)
      /\ rules[i].count = Cardinality(B) => FrequentPathsListed(rules[i], B)
  BY <1>2, <1>3, PathsOfPage, SamplesOfPage
<1>5. ASSUME NEW j \in i + 1 .. Len(rules)
      PROVE  /\ rules[j].count <= rules[i].count
             /\ rules[j].key # rules[i].key
  <2>1. Len(rules) \in Nat
    BY <1>1 DEF Summarises
  <2>2. j \in 1 .. Len(rules) /\ i < j
    BY <2>1
  <2>3. rules[i] # rules[j] /\ MostFirst(rules[i], rules[j])
    BY <1>1, <2>2 DEF Summarises
  <2>4. ASSUME NEW k \in 1 .. Len(rules) PROVE rules[k].count \in Nat
    <3>1. RuleSummary(s, rules[k].key).count
            = Cardinality(Own(s, rules[k].key))
      BY SummaryFields
    <3>2. Cardinality(Own(s, rules[k].key)) \in Nat
      BY OwnPlaces
    <3> QED
      BY <1>3, <3>1, <3>2
  <2>5. rules[j].count <= rules[i].count
    BY <2>2, <2>3, <2>4 DEF MostFirst
  <2> QED
    BY <1>3, <2>2, <2>3, <2>5
<1> QED
  BY <1>4, <1>5

(* Once a summary is answered, it is compared with those rows. *)
LEMMA SimulatedNow ==
  ASSUME NEW r \in RequestForms, Refusal(r) = 0, TrimSpace(r.id) # 0,
         NEW st, NEW s, NEW rules, Reply(r, st, s, rules)
  PROVE  Simulated' = {e \in log :
                         Selects(SimulationFilters(r, TenantOf(r)), e)}
<1> DEFINE t == TenantOf(r)
           f == SimulationFilters(r, t)
<1>1. f.from = r.from /\ f.to = r.to
  BY DEF SimulationFilters, Filters
<1>2. \A c \in Columns :
        TrimSpace(f.columns[c]) =
          IF c = "tenant_id" THEN t
          ELSE IF c = "policy_id" THEN TrimSpace(r.id) ELSE 0
  BY DEF SimulationFilters, Filters, TrimSpace, Columns
<1>3. t # 0 /\ \A e : Entitled(r, e) <=> e.tenant_id = t
  BY TenantIsNamed DEF Entitled
<1>4. Asked' = {e \in log : Entitled(r, e)} /\ answer'.request = r
  BY AskedNow
<1>5. \A e : InRange(e, f) <=> InRange(e, r)
  BY <1>1 DEF InRange
<1>6. Simulated' = {e \in Asked' : e.policy_id = TrimSpace(r.id)
                                     /\ InRange(e, r)}
  BY <1>4 DEF Simulated, InRange
<1> HIDE DEF f, t
<1>7. \A e : Selects(f, e) <=> /\ e.tenant_id = t
                               /\ e.policy_id = TrimSpace(r.id)
                               /\ InRange(e, r)
  BY <1>2, <1>3, <1>5 DEF Selects, Columns
<1> QED
  BY <1>3, <1>4, <1>6, <1>7 DEF f, t

-----------------------------------------------------------------------------
(* The handlers. *)

(* What a search asks for, it selects. *)
LEMMA WantedIsSelected ==
  ASSUME NEW r \in RequestForms, Refusal(r) = 0, NEW e \in EventForms,
         Entitled(r, e),
         \A c \in Columns \ {"tenant_id", "policy_id"} :
           TrimSpace(r.columns[c]) \in {0, e[c]},
         r.from # 0 => e.at >= r.from, r.to # 0 => e.at <= r.to
  PROVE  Selects(EventFilters(r, TenantOf(r)), e)
<1> DEFINE t == TenantOf(r)
           f == EventFilters(r, t)
<1>1. f.from = r.from /\ f.to = r.to
  BY DEF EventFilters, Filters
<1>2. \A c \in Columns :
        TrimSpace(f.columns[c]) =
          IF c = "tenant_id" THEN t
          ELSE IF c = "policy_id" THEN 0 ELSE TrimSpace(r.columns[c])
  BY DEF EventFilters, Filters, TrimSpace, RequestForms, Columns
<1>3. e.tenant_id = t /\ e["tenant_id"] = e.tenant_id
  BY TenantIsNamed DEF Entitled
<1>4. r.from \in Int /\ r.to \in Int /\ e.at \in Int
  BY DEF RequestForms, EventForms
<1>5. InRange(e, f)
  <2>1. r.from # 0 => Millis(e.at) >= Millis(r.from)
    BY <1>4, MillisMonotone
  <2>2. r.to # 0 => Millis(e.at) <= Millis(r.to)
    BY <1>4, MillisMonotone
  <2> QED
    BY <1>1, <2>1, <2>2 DEF InRange
<1> HIDE DEF f, t
<1>6. \A c \in Columns :
        TrimSpace(f.columns[c]) # 0 => e[c] = TrimSpace(f.columns[c])
  BY <1>2, <1>3
<1> QED
  BY <1>5, <1>6 DEF Selects, f, t

LEMMA ListKeeps ==
  ASSUME EventQueriesInv, NEW r \in Requests, ListEvents(r)
  PROVE  EventQueriesInv'
<1> DEFINE t == TenantOf(r)
           f == EventFilters(r, t)
           n == Limit(f)
<1>1. r \in RequestForms
  BY EventQueriesForms
<1>2. CASE Refusal(r) # 0 /\ Reply(r, Refusal(r), <<>>, <<>>)
  <2>1. Refusal(r) # 200
    BY DEF Refusal
  <2> QED
    BY <1>2, <2>1, NothingTold
<1>3. CASE Reply(r, 400, <<>>, <<>>)
  BY <1>3, NothingTold
<1>4. ASSUME Refusal(r) = 0, EventFiltersParse(r, t), QueryBuilds(f),
             NEW s \in Found(f, n), Reply(r, 200, s, <<>>)
      PROVE  EventQueriesInv'
  <2>1. t # 0 /\ t \in Nat
    BY <1>1, <1>4, TenantIsNamed
  <2>2. TrimSpace(f.columns["tenant_id"]) = t
    BY DEF EventFilters, Filters, TrimSpace, Columns
  <2>3. f.limit = IF r.limit = -1 THEN DefaultLimit ELSE r.limit
    BY DEF EventFilters, Filters
  <2>4. n \in Nat
    BY <1>4, EventQueriesAssumption DEF QueryBuilds
  <2>5. n = IF r.limit = -1 THEN DefaultLimit ELSE r.limit
    BY <1>4, <2>3, EventQueriesAssumption DEF Limit, EventFiltersParse
  <2>6. IsFiniteSet(log) /\ log \subseteq EventForms
    BY EventQueriesForms DEF EventQueriesInv
  <2> HIDE DEF f, n, t
  <2> DEFINE R == {x \in log : Selects(f, x)}
  <2>7. Page(R, n, s)
    BY <1>4, <2>4, <2>6, FoundRows
  <2>7a. s \in Seq(log) /\ \A i \in 1 .. Len(s) : s[i].tenant_id = t
    <3>1. R \in SUBSET log /\ \A e \in R : e.tenant_id = t
      BY <2>1, <2>2 DEF Selects, Columns
    <3> HIDE DEF R
    <3> QED
      BY <2>7, <3>1, PageIsOfRows
  <2>8. OwnEventsOnly'
    BY <1>4, <2>7a, OwnEventsTold DEF t
  <2>9. /\ Asked' = {e \in log : Entitled(r, e)} /\ log' = log
        /\ answer'.request = r /\ answer'.events = s
        /\ answer'.kind = "list"
    BY <1>4, AskedNow DEF ListEvents
  <2>10. \A e \in Wanted' : e \in log /\ Selects(f, e)
    <3> SUFFICES ASSUME NEW e \in Wanted' PROVE e \in log /\ Selects(f, e)
      OBVIOUS
    <3>1. /\ e \in log /\ Entitled(r, e)
          /\ \A c \in Columns \ {"tenant_id", "policy_id"} :
               TrimSpace(r.columns[c]) \in {0, e[c]}
          /\ r.from # 0 => e.at >= r.from
          /\ r.to # 0 => e.at <= r.to
      BY <2>9 DEF Wanted
    <3> QED
      BY <1>1, <1>4, <2>6, <3>1, WantedIsSelected DEF f, t
  <2>11. NothingNewerLeftOut'
    <3> SUFFICES ASSUME NEW e \in Wanted', e \notin Range(s)
                 PROVE  /\ \/ Len(s) = r.limit
                           \/ Len(s) = DefaultLimit /\ r.limit = -1
                           \/ CutAfter(s)
                        /\ \A i \in 1 .. Len(s) :
                             Millis(s[i].at) >= Millis(e.at)
      BY <2>9 DEF NothingNewerLeftOut
    <3>1. e \in {x \in log : Selects(f, x)} \ Range(s)
      BY <2>10
    <3>2. /\ Len(s) = n \/ CutAfter(s)
          /\ \A i \in 1 .. Len(s) : Precedes(s[i], e)
      BY <2>7, <3>1 DEF Page
    <3> QED
      BY <2>5, <3>2 DEF Precedes
  <2>12. SummaryIsTrue'
    BY <2>9 DEF SummaryIsTrue, SummaryCounts, SummaryRanked, Succeeded
  <2> QED
    BY <2>8, <2>9, <2>11, <2>12 DEF EventQueriesInv
<1> QED
  BY <1>2, <1>3, <1>4 DEF ListEvents

LEMMA DetailKeeps ==
  ASSUME EventQueriesInv, NEW r \in Requests, GetEvent(r)
  PROVE  EventQueriesInv'
<1> DEFINE t == TenantOf(r)
           R == {e \in log : e.tenant_id = t /\ e.request_id = RequestID(r)}
<1>1. r.kind = "detail"
  BY DEF GetEvent
<1>2. ASSUME NEW st, Reply(r, st, <<>>, <<>>)
      PROVE  EventQueriesInv'
  BY <1>1, <1>2, NothingTold
<1>3. ASSUME Refusal(r) = 0, NEW st, NEW s \in GetByRequestID(t, RequestID(r)),
             Reply(r, st, s, <<>>)
      PROVE  EventQueriesInv'
  <2>1. IsFiniteSet(R) /\ R \subseteq log /\ R \subseteq EventForms
    BY FS_Subset, EventQueriesForms DEF EventQueriesInv
  <2>2. \A e \in R : e.tenant_id = t
    OBVIOUS
  <2>3. PICK w \in Ordered(R, 1) : s \in Received(w)
    BY <1>3 DEF GetByRequestID
  <2> HIDE DEF R
  <2>4. s \in Seq(R)
    BY <2>1, <2>3, ReceivedRows DEF Page
  <2>5. s \in Seq(log) /\ \A i \in 1 .. Len(s) : s[i].tenant_id = t
    BY <2>1, <2>2, <2>4
  <2>6. OwnEventsOnly'
    BY <1>3, <2>5, OwnEventsTold
  <2>7. log' = log /\ answer'.kind = "detail"
    BY <1>1, <1>3, AskedNow
  <2>8. NothingNewerLeftOut' /\ SummaryIsTrue'
    BY <2>7 DEF NothingNewerLeftOut, SummaryIsTrue, SummaryCounts,
                SummaryRanked, Succeeded
  <2> QED
    BY <2>6, <2>7, <2>8 DEF EventQueriesInv
<1> QED
  BY <1>2, <1>3 DEF GetEvent

(* The samples of a summary are of the events it was made of. *)
LEMMA SamplesAreOfEvents ==
  ASSUME NEW s, NEW rules \in BuildSimulationSummary(s),
         NEW rule \in Range(rules)
  PROVE  rule.samples \subseteq {s[i].request_id : i \in DOMAIN s}
<1> DEFINE items == {RuleSummary(s, RuleID(s[i])) : i \in WouldBlock(s)}
<1>1. rules \in [1 .. Cardinality(items) -> items]
  BY DEF BuildSimulationSummary, Ranked, SetToSeqs
<1> HIDE DEF items
<1>2. rule \in items
  BY <1>1 DEF Range
<1>3. PICK i \in WouldBlock(s) : rule = RuleSummary(s, RuleID(s[i]))
  BY <1>2 DEF items
<1> DEFINE own == {j \in WouldBlock(s) : RuleID(s[j]) = RuleID(s[i])}
<1>4. rule.samples = Samples(s, own)
  BY <1>3 DEF RuleSummary
<1>5. own \subseteq DOMAIN s
  BY DEF WouldBlock
<1> HIDE DEF own
<1>6. Samples(s, own) \subseteq {s[j].request_id : j \in own}
  BY DEF Samples
<1> QED
  BY <1>4, <1>5, <1>6

LEMMA SummaryKeeps ==
  ASSUME EventQueriesInv, NEW r \in Requests, GetPolicySimulationSummary(r)
  PROVE  EventQueriesInv'
<1> DEFINE t == TenantOf(r)
           f == SimulationFilters(r, t)
<1>1. r.kind = "summary" /\ r \in RequestForms
  BY EventQueriesForms DEF GetPolicySimulationSummary
<1>2. ASSUME NEW st, st # 200, Reply(r, st, <<>>, <<>>)
      PROVE  EventQueriesInv'
  BY <1>1, <1>2, NothingTold
<1>3. ASSUME Refusal(r) = 0, TrimSpace(r.id) # 0,
             NEW s \in Found(f, Limit(f)),
             NEW rules \in BuildSimulationSummary(s),
             Reply(r, 200, <<>>, rules)
      PROVE  EventQueriesInv'
  <2>1. t # 0
    BY <1>1, <1>3, TenantIsNamed
  <2>2. TrimSpace(f.columns["tenant_id"]) = t /\ f.limit = MaxLimit
    BY DEF SimulationFilters, Filters, TrimSpace, Columns
  <2>3. Limit(f) \in Nat /\ Limit(f) = MaxLimit
    BY <2>2, EventQueriesAssumption DEF Limit
  <2>4. IsFiniteSet(log) /\ log \subseteq Events /\ log \subseteq EventForms
    BY EventQueriesForms DEF EventQueriesInv
  <2>4a. Simulated' = {x \in log : Selects(f, x)}
    BY <1>1, <1>3, SimulatedNow
  <2> HIDE DEF f, t
  <2> DEFINE R == {x \in log : Selects(f, x)}
  <2>5a. Page(R, Limit(f), s)
    BY <1>3, <2>3, <2>4, FoundRows
  <2>5. s \in Seq(log) /\ \A i \in 1 .. Len(s) : s[i].tenant_id = t
    <3>1. R \in SUBSET log /\ \A e \in R : e.tenant_id = t
      BY <2>1, <2>2 DEF Selects, Columns
    <3> HIDE DEF R
    <3> QED
      BY <2>5a, <3>1, PageIsOfRows
  <2>6. DOMAIN s = 1 .. Len(s) /\ \A i \in 1 .. Len(s) : s[i] \in log
    BY <2>5
  <2>7. /\ Asked' = {e \in log : Entitled(r, e)} /\ log' = log
        /\ answer'.kind = "summary" /\ answer'.events = <<>>
        /\ answer'.rules = rules
    BY <1>1, <1>3, AskedNow
  <2>8. \A i \in DOMAIN s : s[i] \in Asked'
    BY <1>1, <1>3, <2>5, <2>6, <2>7, OwnIsEntitled DEF t
  <2>9. ASSUME NEW rule \in Range(rules)
        PROVE  rule.samples \subseteq {e.request_id : e \in Asked'}
    BY <1>3, <2>8, SamplesAreOfEvents
  <2>10. Range(<<>>) = {}
    BY DEF Range
  <2>11. OwnEventsOnly'
    BY <2>7, <2>9, <2>10 DEF OwnEventsOnly
  <2>12. NothingNewerLeftOut'
    BY <2>7 DEF NothingNewerLeftOut, Succeeded
  <2>13. Simulated' = R /\ IsFiniteSet(R) /\ R \subseteq Events
    BY <2>4, <2>4a, FS_Subset
  <2> HIDE DEF R
  <2>14. SummaryCountsOf(R, rules) /\ SummaryRankedOf(R, rules)
    BY <1>3, <2>3, <2>5a, <2>13, PageIsCounted, PageIsRanked
  <2>15. \A key : Blocked(key)' = BlockedIn(R, key)
    BY <2>13 DEF Blocked, BlockedIn
  <2>16. SummaryCounts'
    BY <2>7, <2>13, <2>14, <2>15
    DEF SummaryCounts, SummaryCountsOf
  <2>17. SummaryRanked'
    BY <2>7, <2>14, <2>15
    DEF SummaryRanked, SummaryRankedOf
  <2> QED
    BY <2>7, <2>11, <2>12, <2>16, <2>17 DEF EventQueriesInv, SummaryIsTrue
<1> QED
  <2>1. Refusal(r) # 200
    BY DEF Refusal
  <2> QED
    BY <1>2, <1>3, <2>1 DEF GetPolicySimulationSummary

-----------------------------------------------------------------------------
(* A search for an event. *)

InOrder(w, n) == \A i, j \in 1 .. n : i < j => Precedes(w[i], w[j])

LEMMA SeqOfSet ==
  ASSUME NEW S, IsFiniteSet(S), NEW w \in SetToSeqs(S)
  PROVE  w \in Seq(S) /\ Range(w) = S
<1> DEFINE c == Cardinality(S)
<1>1. c \in Nat
  BY FS_CardinalityType
<1>2. w \in [1 .. c -> S] /\ \A i, j \in 1 .. c : i # j => w[i] # w[j]
  BY DEF SetToSeqs
<1>3. w \in Injection(1 .. c, S)
  BY <1>2 DEF Injection, IsInjective
<1>4. Cardinality(1 .. c) = Cardinality(S)
  BY <1>1, FS_Interval
<1> HIDE DEF c
<1>5. w \in Surjection(1 .. c, S)
  BY <1>3, <1>4, FS_Injection
<1>6. Range(w) = S
  BY <1>2, <1>5 DEF Surjection, Range
<1> QED
  BY <1>1, <1>2, <1>6

(* Any rows have an order in which the database may answer with them. *)
LEMMA RowsCanBeOrdered ==
  ASSUME NEW R, IsFiniteSet(R), R \subseteq EventForms
  PROVE  \E w \in SetToSeqs(R) : InOrder(w, Cardinality(R))
<1> DEFINE Sorted(S) == \E w \in SetToSeqs(S) : InOrder(w, Cardinality(S))
           T == {n \in Nat : \E S \in SUBSET R :
                               Cardinality(S) = n /\ ~ Sorted(S)}
<1> SUFFICES ASSUME ~ Sorted(R) PROVE FALSE
  OBVIOUS
<1>1. ASSUME NEW S \in SUBSET R
      PROVE  IsFiniteSet(S) /\ Cardinality(S) \in Nat
  BY FS_Subset, FS_CardinalityType
<1>2. Cardinality(R) \in T
  BY <1>1
<1>3. T \subseteq Nat /\ T # {}
  BY <1>2
<1> HIDE DEF T
<1>4. PICK n \in T : \A m \in T : n <= m
  BY <1>3, LeastNumber
<1>5. PICK S \in SUBSET R : Cardinality(S) = n /\ ~ Sorted(S)
  BY <1>4 DEF T
<1>6. IsFiniteSet(S) /\ n \in Nat
  BY <1>1, <1>5
<1>7. S # {}
  <2> SUFFICES ASSUME S = {} PROVE FALSE
    OBVIOUS
  <2> DEFINE w == [i \in 1 .. 0 |-> i]
  <2>1. n = 0
    BY <1>5, FS_EmptySet
  <2>2. w \in [1 .. 0 -> S]
    OBVIOUS
  <2>3. w \in SetToSeqs(S) /\ InOrder(w, n)
    BY <1>5, <2>1, <2>2 DEF SetToSeqs, InOrder
  <2> QED
    BY <1>5, <2>3
<1>8. PICK x \in S : \A y \in S : Precedes(y, x)
  <2> DEFINE times == {Millis(y.at) : y \in S}
  <2>1. times \subseteq Nat /\ times # {}
    BY <1>7, MillisOfEvent DEF EventForms
  <2> HIDE DEF times
  <2>2. PICK t \in times : \A u \in times : t <= u
    BY <2>1, LeastNumber
  <2>3. PICK y \in S : Millis(y.at) = t
    BY <2>2 DEF times
  <2>4. ASSUME NEW z \in S PROVE Precedes(z, y)
    <3>1. Millis(z.at) \in times
      BY DEF times
    <3> QED
      BY <2>1, <2>2, <2>3, <3>1 DEF Precedes
  <2> QED
    BY <2>4
<1> DEFINE U == S \ {x}
<1>9. U \in SUBSET R /\ Cardinality(U) = n - 1 /\ n >= 1
  <2>1. Cardinality(U) = Cardinality(S) - 1
    BY <1>6, FS_RemoveElement
  <2>2. Cardinality(U) \in Nat /\ U \in SUBSET R
    BY <1>1
  <2> QED
    BY <1>5, <1>6, <2>1, <2>2
<1>10. n - 1 \in Nat /\ n - 1 \notin T
  BY <1>4, <1>6, <1>9
<1>11. Sorted(U)
  BY <1>9, <1>10 DEF T
<1>12. PICK v \in SetToSeqs(U) : InOrder(v, n - 1)
  BY <1>9, <1>11
<1>13. /\ v \in [1 .. n - 1 -> U]
       /\ \A i, j \in 1 .. n - 1 : i # j => v[i] # v[j]
  BY <1>9, <1>12 DEF SetToSeqs
<1> DEFINE w == [i \in 1 .. n |-> IF i = n THEN x ELSE v[i]]
<1>14. \A i \in 1 .. n : i # n => i \in 1 .. n - 1
  BY <1>6
<1>15. w \in [1 .. n -> S]
  BY <1>13, <1>14
<1>16. \A i, j \in 1 .. n : i # j => w[i] # w[j]
  BY <1>13, <1>14
<1>17. w \in SetToSeqs(S)
  <2> HIDE DEF w
  <2> QED
    BY <1>5, <1>15, <1>16 DEF SetToSeqs
<1>18. InOrder(w, n)
  <2> SUFFICES ASSUME NEW i \in 1 .. n, NEW j \in 1 .. n, i < j
               PROVE  Precedes(w[i], w[j])
    BY DEF InOrder
  <2>1. i \in 1 .. n - 1 /\ w[i] = v[i] /\ v[i] \in S
    BY <1>6, <1>13
  <2>2. CASE j = n
    BY <1>8, <2>1, <2>2
  <2>3. CASE j # n
    <3>1. j \in 1 .. n - 1 /\ w[j] = v[j]
      BY <1>14, <2>3
    <3> QED
      BY <1>12, <2>1, <3>1 DEF InOrder
  <2> QED
    BY <2>2, <2>3
<1> QED
  BY <1>5, <1>17, <1>18

(* N are the rows of R that come first, however the ties are broken. *)
First(N, R, n) ==
  /\ N \subseteq R
  /\ Cardinality(N) = IF Cardinality(R) < n THEN Cardinality(R) ELSE n
  /\ \A e \in N, x \in R \ N : Precedes(e, x) /\ ~ Precedes(x, e)

LEMMA OrderedIsFirst ==
  ASSUME NEW R, IsFiniteSet(R), NEW n \in Nat, NEW N, First(N, R, n)
  PROVE  Ordered(R, n) = {w \in SetToSeqs(N) : InOrder(w, Cardinality(N))}
<1> DEFINE size == IF Cardinality(R) < n THEN Cardinality(R) ELSE n
           top == {S \in kSubset(size, R) :
                     \A e \in S, x \in R \ S : Precedes(e, x)}
           sorted(S) == {w \in SetToSeqs(S) : InOrder(w, size)}
<1>1. Ordered(R, n) = UNION {sorted(S) : S \in top}
  BY DEF Ordered, InOrder
<1>2. /\ N \subseteq R /\ Cardinality(N) = size
      /\ \A e \in N, x \in R \ N : Precedes(e, x) /\ ~ Precedes(x, e)
  BY DEF First
<1> HIDE DEF size
<1>3. N \in top
  BY <1>2 DEF kSubset
<1>4. ASSUME NEW S \in top PROVE S = N
  <2>1. /\ S \subseteq R /\ Cardinality(S) = size
        /\ \A e \in S, x \in R \ S : Precedes(e, x)
    BY DEF kSubset
  <2>2. IsFiniteSet(S) /\ IsFiniteSet(N)
    BY <1>2, <2>1, FS_Subset
  <2>3. CASE N \subseteq S
    BY <1>2, <2>1, <2>2, <2>3, FS_Subset
  <2>4. CASE S \subseteq N
    BY <1>2, <2>1, <2>2, <2>4, FS_Subset
  <2>5. ASSUME NEW e \in N \ S, NEW x \in S \ N PROVE FALSE
    BY <1>2, <2>1
  <2> QED
    BY <2>3, <2>4, <2>5
<1> HIDE DEF top
<1>5. Ordered(R, n) = sorted(N)
  BY <1>1, <1>3, <1>4
<1> QED
  BY <1>2, <1>5

(* What comes first and can be read is shown. *)
LEMMA FirstIsShown ==
  ASSUME IsFiniteSet(log), log \subseteq EventForms, NEW f, QueryBuilds(f),
         BoundsCompare(f), NEW N,
         First(N, {x \in log : Selects(f, x)}, Limit(f)), Readable(N),
         NEW e \in N
  PROVE  Shows(f, e)
<1> DEFINE R == {x \in log : Selects(f, x)}
           n == Limit(f)
<1>1. n \in Nat
  BY EventQueriesAssumption DEF QueryBuilds
<1>2. IsFiniteSet(R) /\ First(N, R, n)
  BY FS_Subset
<1>3. N \subseteq log
  BY DEF First
<1>4. IsFiniteSet(N) /\ N \subseteq EventForms
  BY <1>3, FS_Subset
<1>5. Found(f, n) = {s \in UNION {Received(w) : w \in Ordered(R, n)} :
                       Decodes(s)}
  BY DEF Found
<1> HIDE DEF R, n
<1>6. Ordered(R, n) = {w \in SetToSeqs(N) : InOrder(w, Cardinality(N))}
  BY <1>1, <1>2, OrderedIsFirst
<1>7. ASSUME NEW w \in SetToSeqs(N)
      PROVE  /\ Range(w) = N /\ Decodes(w)
             /\ w \in Received(w) /\ \A s \in Received(w) : s = w
  <2>1. w \in Seq(N) /\ Range(w) = N
    BY <1>4, SeqOfSet
  <2>2. w \in Seq(EventForms) /\ Whole(w)
    BY <1>4, <2>1 DEF Readable, Fits
  <2>3. Decodes(w)
    BY <2>1 DEF Decodes, Readable
  <2> QED
    BY <2>1, <2>2, <2>3, WholeIsReceived
<1>8. Found(f, n) # {}
  <2>1. PICK w \in SetToSeqs(N) : InOrder(w, Cardinality(N))
    BY <1>4, RowsCanBeOrdered
  <2>2. w \in Found(f, n)
    BY <1>5, <1>6, <1>7, <2>1
  <2> QED
    BY <2>2
<1>9. ASSUME NEW s \in Found(f, n) PROVE e \in Range(s)
  <2>1. PICK w \in SetToSeqs(N) : s \in Received(w)
    BY <1>5, <1>6
  <2> QED
    BY <1>7, <2>1
<1> QED
  BY <1>8, <1>9 DEF Shows, n

(* A search by tenant and time selects by tenant and time. *)
LEMMA SearchSelects ==
  ASSUME NEW tenant, tenant # 0, NEW from, NEW to, NEW limit, NEW x
  PROVE  LET f == SearchOf(tenant, from, to, limit) IN
         /\ f.from = from /\ f.to = to /\ f.limit = limit
         /\ Selects(f, x) <=> x.tenant_id = tenant /\ InRange(x, f)
<1> DEFINE f == SearchOf(tenant, from, to, limit)
<1>1. f.from = from /\ f.to = to /\ f.limit = limit
  BY DEF SearchOf
<1>2. \A c \in Columns :
        TrimSpace(f.columns[c]) = IF c = "tenant_id" THEN tenant ELSE 0
  BY DEF SearchOf, TrimSpace
<1> HIDE DEF f
<1>3. Selects(f, x) <=> x.tenant_id = tenant /\ InRange(x, f)
  BY <1>2 DEF Selects, Columns
<1> QED
  BY <1>1, <1>3 DEF f

LEMMA EventIsFound ==
  ASSUME EventQueriesInv
  PROVE  EveryEventCanBeFound
<1> SUFFICES ASSUME NEW e \in log, e.tenant_id # 0
             PROVE
    LET newer == {x \in log : x.tenant_id = e.tenant_id /\ Precedes(x, e)}
        beside == {x \in newer : Millis(x.at) = Millis(e.at)}
        start == 2 * Millis(e.at)
    IN  /\ Readable(newer) =>
             Shows(SearchOf(e.tenant_id, 0, 0, Cardinality(newer)), e)
        /\ columnFirst /\ Readable(beside) =>
             Shows(SearchOf(e.tenant_id, start, start + 1, MaxLimit), e)
  BY DEF EveryEventCanBeFound
<1> DEFINE newer == {x \in log : x.tenant_id = e.tenant_id /\ Precedes(x, e)}
           beside == {x \in newer : Millis(x.at) = Millis(e.at)}
           start == 2 * Millis(e.at)
<1>1. IsFiniteSet(log) /\ log \subseteq EventForms
  BY EventQueriesForms DEF EventQueriesInv
<1>2. \A x \in log : x.at \in Nat \ {0, 1} /\ Millis(x.at) \in Nat
  BY <1>1, MillisOfEvent DEF EventForms
<1>3. e \in newer /\ e \in beside
  BY <1>2 DEF Precedes
<1>4. ASSUME NEW N, N \in {newer, beside}
      PROVE  /\ IsFiniteSet(N) /\ Cardinality(N) \in Nat
             /\ e \in N => Cardinality(N) # 0
  <2>1. N \subseteq log
    BY <1>4
  <2>2. IsFiniteSet(N)
    BY <1>1, <2>1, FS_Subset
  <2> QED
    BY <2>2, FS_CardinalityType, FS_EmptySet
<1>5. ASSUME Readable(newer)
      PROVE  Shows(SearchOf(e.tenant_id, 0, 0, Cardinality(newer)), e)
  <2> DEFINE n == Cardinality(newer)
             f == SearchOf(e.tenant_id, 0, 0, n)
             R == {x \in log : Selects(f, x)}
  <2>1. n \in 1 .. MaxLimit
    BY <1>3, <1>4, <1>5, EventQueriesAssumption DEF Readable
  <2>2. f.from = 0 /\ f.to = 0 /\ f.limit = n
    BY DEF SearchOf
  <2>3. Limit(f) = n /\ QueryBuilds(f) /\ BoundsCompare(f)
    BY <2>1, <2>2 DEF Limit, QueryBuilds, FromBeforeTo, BoundsCompare
  <2>4. R = {x \in log : x.tenant_id = e.tenant_id}
    <3>1. \A x : InRange(x, f)
      BY <2>2 DEF InRange
    <3>2. \A x : Selects(f, x) <=> x.tenant_id = e.tenant_id
      BY <3>1, SearchSelects
    <3> HIDE DEF f
    <3> QED
      BY <3>2
  <2>5. First(newer, R, n)
    <3>1. newer \subseteq R
      BY <2>4
    <3>2. IsFiniteSet(R)
      BY <1>1, FS_Subset
    <3>3. n <= Cardinality(R) /\ Cardinality(R) \in Nat
      BY <3>1, <3>2, FS_Subset, FS_CardinalityType
    <3>4. ASSUME NEW y \in newer, NEW x \in R \ newer
          PROVE  Precedes(y, x) /\ ~ Precedes(x, y)
      <4>1. x \in log /\ y \in log /\ ~ Precedes(x, e) /\ Precedes(y, e)
        BY <2>4
      <4> QED
        BY <1>2, <4>1 DEF Precedes
    <3> HIDE DEF newer, R
    <3> QED
      BY <2>1, <3>1, <3>3, <3>4 DEF First, n
  <2> HIDE DEF f, n, newer
  <2>6. First(newer, {x \in log : Selects(f, x)}, Limit(f))
    BY <2>3, <2>5
  <2> QED
    BY <1>1, <1>3, <1>5, <2>3, <2>6, FirstIsShown DEF f, n
<1>6. ASSUME columnFirst, Readable(beside)
      PROVE  Shows(SearchOf(e.tenant_id, start, start + 1, MaxLimit), e)
  <2> DEFINE f == SearchOf(e.tenant_id, start, start + 1, MaxLimit)
             R == {x \in log : Selects(f, x)}
  <2>1. /\ start \in Nat \ {0} /\ start + 1 # 0 /\ start <= start + 1
        /\ Millis(start) = Millis(e.at) /\ Millis(start + 1) = Millis(e.at)
    BY <1>2, MillisOfEvent
  <2>2. f.from = start /\ f.to = start + 1 /\ f.limit = MaxLimit
    BY DEF SearchOf
  <2>3. Limit(f) = MaxLimit /\ QueryBuilds(f) /\ BoundsCompare(f)
    <3> HIDE DEF f, start
    <3> QED
      BY <1>6, <2>1, <2>2, EventQueriesAssumption
      DEF Limit, QueryBuilds, FromBeforeTo, BoundsCompare
  <2>4. R = beside
    <3>1. ASSUME NEW x \in log
          PROVE  Selects(f, x) <=> /\ x.tenant_id = e.tenant_id
                                   /\ Millis(x.at) = Millis(e.at)
      <4>1. InRange(x, f) <=> Millis(x.at) = Millis(e.at)
        <5> HIDE DEF f, start
        <5> QED
          BY <1>2, <2>1, <2>2 DEF InRange
      <4> QED
        BY <4>1, SearchSelects
    <3>2. \A x \in log : Millis(x.at) = Millis(e.at) => Precedes(x, e)
      BY <1>2 DEF Precedes
    <3> HIDE DEF f
    <3> QED
      BY <3>1, <3>2
  <2>5. First(beside, beside, MaxLimit)
    <3>1. Cardinality(beside) <= MaxLimit /\ Cardinality(beside) \in Nat
      BY <1>4, <1>6 DEF Readable
    <3> HIDE DEF beside
    <3> QED
      BY <3>1, EventQueriesAssumption DEF First
  <2> HIDE DEF f, beside
  <2>6. First(beside, {x \in log : Selects(f, x)}, Limit(f))
    BY <2>3, <2>4, <2>5
  <2> QED
    BY <1>1, <1>3, <1>6, <2>3, <2>6, FirstIsShown DEF f
<1> QED
  BY <1>5, <1>6

-----------------------------------------------------------------------------
(* The theorems. *)

(* Until a request is answered nothing is told. *)
LEMMA NoAnswerTells ==
  ASSUME answer' = NoAnswer, log' \subseteq Events, IsFiniteSet(log')
  PROVE  EventQueriesInv'
<1>1. /\ answer'.kind = "none" /\ answer'.events = <<>>
      /\ answer'.rules = <<>>
  BY DEF NoAnswer
<1>2. OwnEventsOnly'
  BY <1>1 DEF OwnEventsOnly, Range
<1>3. NothingNewerLeftOut' /\ SummaryIsTrue'
  BY <1>1 DEF NothingNewerLeftOut, SummaryIsTrue, SummaryCounts,
              SummaryRanked, Succeeded
<1> QED
  BY <1>2, <1>3 DEF EventQueriesInv

(* The inductive invariant: at any time the table is a finite set of       *)
(* reported events, and the last answer tells its tenant about its own     *)
(* events only, leaves out nothing newer and sums up truly.                *)
THEOREM EventQueriesCorrect == Spec => []EventQueriesInv
<1>1. Init => EventQueriesInv
  <2> SUFFICES ASSUME Init PROVE EventQueriesInv
    OBVIOUS
  <2>1. log = {} /\ answer.kind = "none" /\ answer.events = <<>>
          /\ answer.rules = <<>>
    BY DEF Init, NoAnswer
  <2>2. OwnEventsOnly /\ NothingNewerLeftOut /\ SummaryIsTrue
    BY <2>1 DEF OwnEventsOnly, NothingNewerLeftOut, SummaryIsTrue,
                SummaryCounts, SummaryRanked, Succeeded, Range
  <2> QED
    BY <2>1, <2>2, FS_EmptySet DEF EventQueriesInv
<1>2. EventQueriesInv /\ [Next]_vars => EventQueriesInv'
  <2> SUFFICES ASSUME EventQueriesInv, [Next]_vars PROVE EventQueriesInv'
    OBVIOUS
  <2>1. log \subseteq Events /\ IsFiniteSet(log)
    BY DEF EventQueriesInv
  <2>2. ASSUME NEW e \in Events, Insert(e) PROVE EventQueriesInv'
    <3>1. IsFiniteSet(log \cup {e})
      BY <2>1, FS_AddElement
    <3> QED
      BY <2>1, <2>2, <3>1, NoAnswerTells DEF Insert
  <2>3. ASSUME NEW e \in Events, Expire(e) PROVE EventQueriesInv'
    <3>1. IsFiniteSet(log \ {e})
      BY <2>1, FS_RemoveElement
    <3> QED
      BY <2>1, <2>3, <3>1, NoAnswerTells DEF Expire
  <2>4. CASE UNCHANGED vars
    <3>1. log' = log /\ answer' = answer
      BY <2>4 DEF vars
    <3>2. OwnEventsOnly' /\ NothingNewerLeftOut'
      BY <3>1 DEF EventQueriesInv, OwnEventsOnly, NothingNewerLeftOut,
                  Succeeded, Asked, Wanted
    <3>3. Simulated' = Simulated /\ \A key : Blocked(key)' = Blocked(key)
      BY <3>1 DEF Simulated, Asked, Blocked
    <3>4. SummaryIsTrue'
      BY <3>1, <3>3 DEF EventQueriesInv, SummaryIsTrue, SummaryCounts,
                        SummaryRanked, Succeeded
    <3> QED
      BY <2>1, <3>1, <3>2, <3>4 DEF EventQueriesInv
  <2> QED
    BY <2>2, <2>3, <2>4, ListKeeps, DetailKeeps, SummaryKeeps DEF Next
<1> QED
  BY <1>1, <1>2, PTL DEF Spec

(* For any events and requests, no search, detail or summary tells about   *)
(* an event of a tenant the request does not name, whatever it leaves      *)
(* blank (server.go:763, events.go:171-178).                               *)
THEOREM EventsStayWithTheirTenant == Spec => []OwnEventsOnly
<1>1. EventQueriesInv => OwnEventsOnly
  BY DEF EventQueriesInv
<1> QED
  BY <1>1, EventQueriesCorrect, PTL

(* For any events, limits and time bounds, a search that leaves out an     *)
(* event it was asked for has shown a whole page of events that are no     *)
(* older, or was cut at the end of a line (server.go:404, events.go:158,   *)
(* 301).                                                                   *)
THEOREM SearchesShowTheNewest == Spec => []NothingNewerLeftOut
<1>1. EventQueriesInv => NothingNewerLeftOut
  BY DEF EventQueriesInv
<1> QED
  BY <1>1, EventQueriesCorrect, PTL

(* For any events, any number of them and any order in which the table     *)
(* returns rows of one millisecond, every event of a tenant is shown by a  *)
(* search for as many events as the tenant has that are no older, and,     *)
(* where ClickHouse takes timestamp in WHERE for the column and not for    *)
(* the text of that name, by a search for the millisecond in which it was  *)
(* recorded, unless these events are more than MaxLimit or are too long to *)
(* be read (server.go:443, events.go:165, 182-191, 330).                   *)
THEOREM EveryEventIsWithinReach == Spec => []EveryEventCanBeFound
BY EventQueriesCorrect, EventIsFound, PTL

(* For any events, any number of them and any limits, a summary counts the *)
(* events each rule would have blocked and the clients concerned, exactly  *)
(* when the policy has at most MaxLimit events in the range and they are   *)
(* read in full, ranks the rules, shows the newest events as samples and   *)
(* lists the most frequent paths (server.go:325, events.go:204-280).       *)
THEOREM SummariesAreTrue == Spec => []SummaryIsTrue
<1>1. EventQueriesInv => SummaryIsTrue
  BY DEF EventQueriesInv
<1> QED
  BY <1>1, EventQueriesCorrect, PTL

=============================================================================
